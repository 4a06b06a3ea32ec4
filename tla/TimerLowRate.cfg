\* A call with 18 Hz, which the range check lets through.
CONSTANTS
  TIMER_FREQ = 1193182
  Timers <- MCTimers
  Freqs <- MCLowFreqs
  Confs <- MCConfs
SPECIFICATION Spec
INVARIANT RateAsAsked
