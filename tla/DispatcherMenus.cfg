\* Every key, packet and interrupt mix, with the timer fair: current_menu is
\* live in every menu state and never freed twice, and frames come back
\* once the keyboard falls silent, never two notifications in a row.
CONSTANTS
  Codes <- MCCodes
SPECIFICATION FairSpec
INVARIANT TypeOK
INVARIANT MenuOwnership
PROPERTY FramesResume
PROPERTY FramesAtHalfRate
\* The loop ends when the state read after a notification is KILL.
CHECK_DEADLOCK FALSE
