--------------------------- MODULE MC_MouseChannel ---------------------------
(* Instances of MouseChannel for TLC.                                       *)
EXTENDS MouseChannel

\* First bytes: no button, left only, right only, middle with both signs.
MCByte0Vals == {8, 9, 10, 60}

\* Movement bytes: zero, +5, and 0xFB (-5 with its sign bit), which has
\* bit 3 set and so can pass for a first byte.
MCDataVals == {0, 5, 251}

\* Movement bytes none of which has bit 3 set.
MCCleanDataVals == {0, 5, 240}
=============================================================================
