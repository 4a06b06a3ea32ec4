\* The gesture machine fed every packet of the small instance.
CONSTANTS
  X_LEN = 2
  TOLERANCE = 1
  Deltas <- MCDeltas
  SumBound = 6
SPECIFICATION Spec
PROPERTIES
  MiddleButtonResets
