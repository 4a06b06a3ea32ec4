\* Every call, with traffic in flight and hardware as slow as it likes.
CONSTANTS
  MaxAttempts = 10
  Calls <- MCAllCalls
  StaleVals <- MCStaleAck
  InFlight <- MCTraffic
  Replies <- MCReplies
  Config = 71
  Timely = FALSE
SPECIFICATION Spec
INVARIANT TypeOK
INVARIANT WritesNotLost
\* The call has returned and the controller has nothing left to do.
CHECK_DEADLOCK FALSE
