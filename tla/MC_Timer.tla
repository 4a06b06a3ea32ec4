--------------------------------- MODULE MC_Timer ---------------------------------
(* Timer with the LCF's clock of 1193182 Hz.  Frequencies: below, at and   *)
(* above the bounds the code checks, and common rates in between.          *)
EXTENDS Timer

MCTimers == {0, 2}
MCConfs == {54, 182}
\* 1 and 2000000 are rejected; 19 is the lowest rate a uint16_t divisor
\* reaches; 60 is the default rate.
MCFreqs == {1, 19, 60, 1000, 1193182, 2000000}
\* 18 passes the range check: minFreq = TIMER_FREQ / 65535 = 18.
MCLowFreqs == {18, 60}
=============================================================================
