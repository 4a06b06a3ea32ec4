------------------------------ MODULE MC_Gesture ------------------------------
(* Small instance of Gesture: a stroke must be at least 2 long, motion of   *)
(* 1 against it is noise, and the packets move by -2, -1, 0, 1 or 3.        *)
EXTENDS Gesture

MCDeltas == {-2, -1, 0, 1, 3}
=============================================================================
