\* Up to two bytes lost to parity, timeout or wrong-origin errors: the
\* keystrokes stay in order while nothing is lost, every event is well
\* formed, and each loss misreports at most one keystroke.
CONSTANTS
  Codes <- MCCodes
  ExtCodes <- MCExtCodes
  MaxKeys = 4
  MaxErrors = 2
SPECIFICATION Spec
INVARIANT TypeOK
INVARIANT KeystrokesInOrder
INVARIANT EventsWellFormed
INVARIANT MisreadBoundedByErrors
\* The keyboard stops after MaxKeys keystrokes; the loop then idles.
CHECK_DEADLOCK FALSE
