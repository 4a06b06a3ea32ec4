\* Resuming from the pause menu goes back to INGAME with the pause menu
\* still allocated; the next pause or the end of the game overwrites it.
CONSTANTS
  Codes <- MCCodes
SPECIFICATION Spec
INVARIANT MenusReachable
CHECK_DEADLOCK FALSE
