-------------------------------- MODULE Timer --------------------------------
(***************************************************************************)
(* Programming the i8254 rate: timer_set_frequency and timer_get_conf      *)
(* (src/proj/src/device/timer.c 24-42, 85-91) with util_get_LSB and        *)
(* util_get_MSB (utils.c 18-35).  One step is one whole call: the early    *)
(* return or the four port writes, and the divisor the timer then counts.  *)
(***************************************************************************)
EXTENDS Integers, Sequences

CONSTANTS
  TIMER_FREQ,  \* the i8254 input clock (TIMER_FREQ of the LCF's i8254.h)
  Timers,      \* timers the calls program
  Freqs,       \* frequencies the calls ask for
  Confs        \* status bytes the read-back command may return

TIMER_0 == 64       \* 0x40
TIMER_CTRL == 67    \* 0x43
TIMER_LSB_MSB == 48 \* 0x30
\* TIMER_RB_CMD | TIMER_RB_COUNT_ | TIMER_RB_SEL(timer): 0xE0 | BIT(timer + 1)
ReadBack(timer) == 224 + 2^(timer + 1)

\* TIMER_FREQ is a positive integer, Timers a subset of 0 .. 2, Freqs of Nat
\* and Confs of 0 .. 255.

VARIABLES
  conf,     \* the status byte of each timer, as the read-back returns it
  divisor,  \* the count each timer divides TIMER_FREQ by (0 counts 65536)
  outs,     \* the last call's sys_outb calls, <<port, byte>>, in order
  ret,      \* what the last call returned
  asked     \* ghost: <<timer, freq>> of the last call

vars == <<conf, divisor, outs, ret, asked>>

Init ==
  /\ conf \in [Timers -> Confs]
  /\ divisor \in [Timers -> {0}]
  /\ outs = <<>>
  /\ ret = 0
  /\ asked = <<-1, 0>>

\* util_get_LSB / util_get_MSB: (uint8_t) val and (uint8_t) (val >> 8).
util_get_LSB(val) == val % 256
util_get_MSB(val) == (val \div 256) % 256

(* The control word: the read-back status with bits 4 and 5 set, bits 6    *)
(* and 7 cleared, then the timer in bits 6 and 7.                          *)
ControlWord(st, timer) ==
  LET low == st % 16            \* mode and BCD bits kept
  IN  timer * 64 + TIMER_LSB_MSB + low

(* timer_set_frequency(timer, freq): out of range returns 1 and writes     *)
(* nothing; otherwise counterValue is TIMER_FREQ / freq in a uint16_t, the *)
(* read-back command and the control word go to TIMER_CTRL, LSB then MSB   *)
(* to the timer, which then counts that value.                             *)
timer_set_frequency(timer, freq) ==
  LET minFreq == TIMER_FREQ \div 65535
      counterValue == (TIMER_FREQ \div freq) % 65536
      lsb == util_get_LSB(counterValue)
      msb == util_get_MSB(counterValue)
      st == ControlWord(conf[timer], timer)
  IN  /\ asked' = <<timer, freq>>
      /\ IF freq < minFreq \/ freq > TIMER_FREQ
         THEN /\ ret' = 1
              /\ outs' = <<>>
              /\ UNCHANGED <<conf, divisor>>
         ELSE /\ outs' = << <<TIMER_CTRL, ReadBack(timer)>>,
                             <<TIMER_CTRL, st>>,
                             <<TIMER_0 + timer, lsb>>,
                             <<TIMER_0 + timer, msb>> >>
              /\ divisor' = [divisor EXCEPT ![timer] = msb * 256 + lsb]
              /\ conf' = [conf EXCEPT ![timer] = st % 64]
              /\ ret' = 0

Next == \E t \in Timers, f \in Freqs : timer_set_frequency(t, f)

Spec == Init /\ [][Next]_vars

-----------------------------------------------------------------------------
TypeOK ==
  /\ conf \in [Timers -> 0 .. 255]
  /\ divisor \in [Timers -> 0 .. 65535]
  /\ outs \in Seq(Nat \X (0 .. 255))
  /\ ret \in {0, 1}

\* The count the i8254 divides by: a loaded 0 counts 65536.
Count(d) == IF d = 0 THEN 65536 ELSE d

(***************************************************************************)
(* timer.c 30 says of TIMER_FREQ / freq: "we get the correct counter value *)
(* according to the desired frequency": after a call that returns 0 the    *)
(* timer asked for divides the clock by exactly TIMER_FREQ / freq.         *)
(***************************************************************************)
RateAsAsked ==
  (ret = 0 /\ asked[1] \in Timers) =>
     Count(divisor[asked[1]]) = TIMER_FREQ \div asked[2]

=============================================================================
