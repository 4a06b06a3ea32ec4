\* A mouse command with nothing else in flight and hardware that answers in time.
CONSTANTS
  MaxAttempts = 10
  Calls <- MCMouseCalls
  StaleVals <- MCStaleVals
  InFlight <- MCQuiet
  Replies <- MCReplies
  Config = 71
  Timely = TRUE
SPECIFICATION Spec

INVARIANT AckIsMouseAnswer
\* The call has returned and the controller has nothing left to do.
CHECK_DEADLOCK FALSE
