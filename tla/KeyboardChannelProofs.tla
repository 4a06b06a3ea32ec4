------------------------- MODULE KeyboardChannelProofs -------------------------
(***************************************************************************)
(* Proofs about the keyboard channel of KeyboardChannel.tla, for every set *)
(* of codes and every bound on keystrokes and lost bytes.                  *)
(***************************************************************************)
EXTENDS KeyboardChannel, TLAPS

\* A pending prefix is the byte kept in bytes[0].
PrefixHeld == size = 2 => bytes[0] = SCANCODE_PREFIX

(***************************************************************************)
(* The driver is in step with the keyboard: no keystroke is half sent and  *)
(* no prefix is pending, or the keyboard has sent the prefix of its        *)
(* current keystroke and the driver holds that very prefix.                *)
(***************************************************************************)
InSync ==
  \/ devPos = 0 /\ size = 1
  \/ /\ devPos = 1 /\ size = 2
     /\ bufSrc[0] = [key |-> devKey, pos |-> 0, ext |-> TRUE]

(***************************************************************************)
(* A driver out of step owes one misread event to a lost byte: the misread *)
(* events so far, and the one still to come, are no more than the losses.  *)
(***************************************************************************)
MisreadDebt == misread + (IF InSync THEN 0 ELSE 1) <= errors

\* The inductive invariant of the keyboard channel.
KbdInv ==
  /\ TypeOK
  /\ EventsWellFormed
  /\ PrefixHeld
  /\ MisreadDebt
  /\ KeystrokesInOrder

-----------------------------------------------------------------------------
(***************************************************************************)
(* The byte the keyboard sends next, and its provenance: a 1-byte code or  *)
(* the prefix when no keystroke is half sent, an extended code after the   *)
(* prefix.                                                                 *)
(***************************************************************************)
Sent(b, src) ==
  \/ devPos = 0 /\ b \in Codes /\ src = [key |-> devKey, pos |-> 0, ext |-> FALSE]
  \/ devPos = 0 /\ b = SCANCODE_PREFIX /\ src = [key |-> devKey, pos |-> 0, ext |-> TRUE]
  \/ devPos = 1 /\ b \in ExtCodes /\ src = [key |-> devKey, pos |-> 1, ext |-> TRUE]

LEMMA SentNext ==
  ASSUME TypeOK, NEW nb \in NextBytes
  PROVE  Sent(nb[1], nb[2])
<1>1. CASE devPos = 0
  <2>1. \/ \E c \in Codes : nb = <<c, [key |-> devKey, pos |-> 0, ext |-> FALSE]>>
        \/ nb = <<SCANCODE_PREFIX, [key |-> devKey, pos |-> 0, ext |-> TRUE]>>
    BY <1>1 DEF NextBytes
  <2>2. CASE \E c \in Codes : nb = <<c, [key |-> devKey, pos |-> 0, ext |-> FALSE]>>
    <3>1. PICK c \in Codes : nb = <<c, [key |-> devKey, pos |-> 0, ext |-> FALSE]>>
      BY <2>2
    <3>2. QED
      BY <1>1, <3>1 DEF Sent
  <2>3. CASE nb = <<SCANCODE_PREFIX, [key |-> devKey, pos |-> 0, ext |-> TRUE]>>
    BY <1>1, <2>3 DEF Sent
  <2>4. QED
    BY <2>1, <2>2, <2>3
<1>2. CASE devPos = 1
  <2>1. \E c \in ExtCodes : nb = <<c, [key |-> devKey, pos |-> 1, ext |-> TRUE]>>
    BY <1>2 DEF NextBytes
  <2>2. PICK c \in ExtCodes : nb = <<c, [key |-> devKey, pos |-> 1, ext |-> TRUE]>>
    BY <2>1
  <2>3. QED
    BY <1>2, <2>2 DEF Sent
<1>3. QED
  BY <1>1, <1>2 DEF TypeOK

\* What the keyboard sends is a byte with a provenance, and never the
\* prefix in place of a code.
LEMMA SentType ==
  ASSUME TypeOK, NEW b, NEW src, Sent(b, src)
  PROVE  /\ b \in Bytes /\ src \in Src
         /\ src.key = devKey
         /\ (b = SCANCODE_PREFIX) <=> (src.ext /\ src.pos = 0)
<1>1. devKey \in Nat
  BY BoundAssumption DEF TypeOK
<1>2. CASE devPos = 0 /\ b \in Codes /\ src = [key |-> devKey, pos |-> 0, ext |-> FALSE]
  BY <1>1, <1>2, CodeAssumption DEF Src, Bytes
<1>3. CASE devPos = 0 /\ b = SCANCODE_PREFIX /\ src = [key |-> devKey, pos |-> 0, ext |-> TRUE]
  BY <1>1, <1>3 DEF Src, Bytes, SCANCODE_PREFIX
<1>4. CASE devPos = 1 /\ b \in ExtCodes /\ src = [key |-> devKey, pos |-> 1, ext |-> TRUE]
  BY <1>1, <1>4, CodeAssumption DEF Src, Bytes
<1>5. QED
  BY <1>2, <1>3, <1>4 DEF Sent

\* An event built from well-typed parts is an Event.
LEMMA EventType ==
  ASSUME NEW m \in BOOLEAN, NEW sz \in {1, 2}, NEW by \in [0 .. 1 -> Bytes],
         NEW sr \in [0 .. 1 -> Src]
  PROVE  [make |-> m, size |-> sz, bytes |-> by, src |-> sr] \in Event
BY DEF Event
\* The context of one interrupt: the invariant, a byte the keyboard sends,
\* and the keyboard's advance past it.
Ctx(b, src) ==
  /\ KbdInv
  /\ devKey < MaxKeys
  /\ Sent(b, src)
  /\ DeviceAdvance(src)

\* The misread count never exceeds the losses, in any state.
LEMMA MisreadLeErrors ==
  ASSUME TypeOK, MisreadDebt
  PROVE  misread <= errors
BY DEF MisreadDebt, TypeOK

(***************************************************************************)
(* A byte with a bad status is discarded: only the keyboard advances and   *)
(* the loss is counted, which pays for the debt it may create.             *)
(***************************************************************************)
LEMMA ReadInvalidStep ==
  ASSUME NEW b, NEW src, Ctx(b, src), NEW st \in DeliveredStatus,
         ~is_valid_kb_st(st), ReadInvalid(b)
  PROVE  KbdInv'
<1>1. TypeOK /\ MisreadDebt
  BY DEF Ctx, KbdInv
<1>2. errors < MaxErrors
  <2>1. st \notin {OkStatus}
    BY DEF is_valid_kb_st, OkStatus
  <2>2. QED
    BY <2>1 DEF DeliveredStatus
<1>3. b \in Bytes /\ src \in Src
  BY <1>1, SentType DEF Ctx
<1>4. /\ devPos' \in 0 .. 1 /\ devKey' \in 0 .. MaxKeys
  BY <1>1, <1>3, BoundAssumption DEF Ctx, DeviceAdvance, TypeOK, Src, Sent
<1>5. misread <= errors
  BY <1>1, MisreadLeErrors
<1>6. TypeOK'
  BY <1>1, <1>2, <1>3, <1>4, BoundAssumption DEF ReadInvalid, TypeOK
<1>7. EventsWellFormed' /\ PrefixHeld'
  BY DEF Ctx, KbdInv, ReadInvalid, EventsWellFormed, PrefixHeld, LastByte
<1>8. MisreadDebt'
  BY <1>1, <1>5 DEF ReadInvalid, MisreadDebt, TypeOK
<1>9. KeystrokesInOrder'
  BY <1>1 DEF ReadInvalid, KeystrokesInOrder, TypeOK
<1>10. QED
  BY <1>6, <1>7, <1>8, <1>9 DEF KbdInv
(***************************************************************************)
(* The prefix is kept and nothing is handed on; since the keyboard sends   *)
(* it only when no keystroke is half sent, the driver then holds the       *)
(* prefix of the current keystroke and is in step.                         *)
(***************************************************************************)
LEMMA PrefixStep ==
  ASSUME NEW b, NEW src, Ctx(b, src), Prefix(b, src)
  PROVE  KbdInv'
<1>1. TypeOK /\ EventsWellFormed /\ MisreadDebt /\ KeystrokesInOrder
  BY DEF Ctx, KbdInv
<1>2. devPos = 0 /\ src = [key |-> devKey, pos |-> 0, ext |-> TRUE]
  BY CodeAssumption DEF Ctx, Sent, Prefix, SCANCODE_PREFIX
<1>3. /\ devPos' = 1 /\ devKey' = devKey
      /\ size' = 2 /\ skip_print' = TRUE
      /\ UNCHANGED <<handed, misread, errors, is_make>>
      /\ bytes' = [bytes EXCEPT ![0] = SCANCODE_PREFIX]
      /\ bufSrc' = [bufSrc EXCEPT ![0] = src]
      /\ keyboard_data' = SCANCODE_PREFIX
  BY <1>2 DEF Ctx, DeviceAdvance, Prefix, KbdLoop
<1>4. src \in Src
  BY <1>1, SentType DEF Ctx
<1>5. TypeOK'
  BY <1>1, <1>3, <1>4 DEF TypeOK, Bytes, SCANCODE_PREFIX
<1>6. EventsWellFormed' /\ PrefixHeld'
  BY <1>1, <1>3 DEF EventsWellFormed, PrefixHeld, LastByte, TypeOK
<1>7. InSync'
  BY <1>1, <1>2, <1>3 DEF InSync, TypeOK
<1>8. MisreadDebt'
  <2>1. misread <= errors
    BY <1>1, MisreadLeErrors
  <2>2. QED
    BY <1>1, <1>3, <1>7, <2>1 DEF MisreadDebt, TypeOK
<1>9. KeystrokesInOrder'
  BY <1>1, <1>3 DEF KeystrokesInOrder
<1>10. QED
  BY <1>5, <1>6, <1>8, <1>9 DEF KbdInv
(***************************************************************************)
(* The code after a pending prefix completes a 2-byte event.  It is one    *)
(* keystroke when the driver was in step; otherwise it is the misread the  *)
(* debt stood for.  Either way the driver is in step afterwards.           *)
(***************************************************************************)
LEMMA SecondByteStep ==
  ASSUME NEW b, NEW src, Ctx(b, src), SecondByte(b, src)
  PROVE  KbdInv'
<1> DEFINE ev == [make |-> is_make', size |-> 2, bytes |-> bytes', src |-> bufSrc']
<1>1. TypeOK /\ EventsWellFormed /\ PrefixHeld /\ MisreadDebt /\ KeystrokesInOrder
  BY DEF Ctx, KbdInv
<1>2. skip_print /\ bytes[0] = SCANCODE_PREFIX
  BY <1>1 DEF SecondByte, EventsWellFormed, PrefixHeld
<1>3. b \in Bytes /\ src \in Src /\ src.key = devKey /\ ~(src.ext /\ src.pos = 0)
  BY <1>1, SentType DEF Ctx, SecondByte
<1>4. /\ devPos' = 0 /\ devKey' = devKey + 1
  BY <1>3 DEF Ctx, DeviceAdvance
<1>5. /\ size' = 1 /\ skip_print' = FALSE /\ errors' = errors
      /\ handed' = Append(handed, ev)
      /\ misread' = IF OneKeystroke(ev) THEN misread ELSE misread + 1
      /\ bytes' = [bytes EXCEPT ![1] = b]
      /\ bufSrc' = [bufSrc EXCEPT ![1] = src]
      /\ is_make' = ~IsBreak(b) /\ keyboard_data' = b
  BY <1>1 DEF SecondByte, KbdLoop, TypeOK
<1>6. ev \in Event
  BY <1>1, <1>3, <1>5, EventType DEF TypeOK
<1>7. InSync => OneKeystroke(ev)
  <2> SUFFICES ASSUME InSync PROVE OneKeystroke(ev)
    OBVIOUS
  <2>1. devPos = 1 /\ bufSrc[0] = [key |-> devKey, pos |-> 0, ext |-> TRUE]
    BY <1>1 DEF InSync, SecondByte
  <2>2. src = [key |-> devKey, pos |-> 1, ext |-> TRUE]
    BY <2>1 DEF Ctx, Sent
  <2>3. QED
    BY <1>1, <1>5, <2>1, <2>2 DEF OneKeystroke, TypeOK
<1>8. TypeOK'
  BY <1>1, <1>3, <1>4, <1>5, <1>6, BoundAssumption DEF Ctx, TypeOK
<1>9. EventsWellFormed' /\ PrefixHeld'
  <2>1. ev.size = 2 /\ ev.bytes[0] = SCANCODE_PREFIX /\ LastByte(ev) = b
        /\ ev.make = ~IsBreak(b)
    BY <1>1, <1>2, <1>5 DEF LastByte, TypeOK
  <2>2. b # SCANCODE_PREFIX
    BY DEF SecondByte
  <2>3. QED
    BY <1>1, <1>5, <2>1, <2>2 DEF EventsWellFormed, PrefixHeld, TypeOK
<1>10. InSync'
  BY <1>4, <1>5 DEF InSync
<1>11. MisreadDebt'
  BY <1>1, <1>5, <1>7, <1>10 DEF MisreadDebt, TypeOK
<1>12. KeystrokesInOrder'
  <2> SUFFICES ASSUME errors' = 0 PROVE KeystrokesInOrder'
    BY DEF KeystrokesInOrder
  <2>1. InSync /\ Len(handed) = devKey
    BY <1>1, <1>5 DEF MisreadDebt, KeystrokesInOrder, TypeOK
  <2>2. OneKeystroke(ev) /\ ev.src[1].key = devKey
    BY <1>1, <1>3, <1>5, <1>7, <2>1 DEF TypeOK
  <2>3. QED
    BY <1>1, <1>4, <1>5, <2>1, <2>2 DEF KeystrokesInOrder, TypeOK
<1>13. QED
  BY <1>8, <1>9, <1>11, <1>12 DEF KbdInv
(***************************************************************************)
(* A code with no prefix pending completes a 1-byte event.  In step, the   *)
(* keyboard sent a 1-byte keystroke; out of step, it sent the code of an   *)
(* extended keystroke whose prefix was lost, the misread the debt owed.    *)
(***************************************************************************)
LEMMA SingleByteStep ==
  ASSUME NEW b, NEW src, Ctx(b, src), SingleByte(b, src)
  PROVE  KbdInv'
<1> DEFINE ev == [make |-> is_make', size |-> 1, bytes |-> bytes', src |-> bufSrc']
<1>1. TypeOK /\ EventsWellFormed /\ PrefixHeld /\ MisreadDebt /\ KeystrokesInOrder
  BY DEF Ctx, KbdInv
<1>2. size = 1 /\ ~skip_print
  BY <1>1 DEF SingleByte, EventsWellFormed, TypeOK
<1>3. b \in Bytes /\ src \in Src /\ src.key = devKey /\ ~(src.ext /\ src.pos = 0)
  BY <1>1, SentType DEF Ctx, SingleByte
<1>4. /\ devPos' = 0 /\ devKey' = devKey + 1
  BY <1>3 DEF Ctx, DeviceAdvance
<1>5. /\ size' = 1 /\ skip_print' = FALSE /\ errors' = errors
      /\ handed' = Append(handed, ev)
      /\ misread' = IF OneKeystroke(ev) THEN misread ELSE misread + 1
      /\ bytes' = [bytes EXCEPT ![0] = b]
      /\ bufSrc' = [bufSrc EXCEPT ![0] = src]
      /\ is_make' = ~IsBreak(b) /\ keyboard_data' = b
  BY <1>2 DEF SingleByte, KbdLoop
<1>6. ev \in Event
  BY <1>1, <1>3, <1>5, EventType DEF TypeOK
<1>7. InSync => OneKeystroke(ev)
  <2> SUFFICES ASSUME InSync PROVE OneKeystroke(ev)
    OBVIOUS
  <2>1. devPos = 0
    BY <1>2 DEF InSync
  <2>2. src = [key |-> devKey, pos |-> 0, ext |-> FALSE]
    BY <2>1 DEF Ctx, Sent, SingleByte
  <2>3. QED
    BY <1>1, <1>5, <2>2 DEF OneKeystroke, TypeOK
<1>8. TypeOK'
  <2>1. bytes' \in [0 .. 1 -> Bytes] /\ bufSrc' \in [0 .. 1 -> Src]
    BY <1>1, <1>3, <1>5 DEF TypeOK
  <2>2. handed' \in Seq(Event)
    BY <1>1, <1>5, <1>6 DEF TypeOK
  <2>3. devKey' \in 0 .. MaxKeys /\ devPos' \in 0 .. 1
    BY <1>1, <1>4, BoundAssumption DEF Ctx, TypeOK
  <2>4. errors' \in 0 .. MaxErrors /\ misread' \in Nat
    BY <1>1, <1>5 DEF TypeOK
  <2>5. keyboard_data' \in Bytes /\ is_make' \in BOOLEAN
        /\ size' \in {1, 2} /\ skip_print' \in BOOLEAN
    BY <1>3, <1>5
  <2>6. QED
    BY <2>1, <2>2, <2>3, <2>4, <2>5 DEF TypeOK
<1>9. EventsWellFormed' /\ PrefixHeld'
  <2>1. ev.size = 1 /\ LastByte(ev) = b /\ ev.make = ~IsBreak(b)
    BY <1>1, <1>5 DEF LastByte, TypeOK
  <2>2. b # SCANCODE_PREFIX
    BY DEF SingleByte
  <2>3. QED
    BY <1>1, <1>5, <2>1, <2>2 DEF EventsWellFormed, PrefixHeld, TypeOK
<1>10. InSync'
  BY <1>4, <1>5 DEF InSync
<1>11. MisreadDebt'
  BY <1>1, <1>5, <1>7, <1>10 DEF MisreadDebt, TypeOK
<1>12. KeystrokesInOrder'
  <2> SUFFICES ASSUME errors' = 0 PROVE KeystrokesInOrder'
    BY DEF KeystrokesInOrder
  <2>1. InSync /\ Len(handed) = devKey
    BY <1>1, <1>5 DEF MisreadDebt, KeystrokesInOrder, TypeOK
  <2>2. OneKeystroke(ev) /\ ev.src[0].key = devKey
    BY <1>1, <1>3, <1>5, <1>7, <2>1 DEF TypeOK
  <2>3. QED
    BY <1>1, <1>4, <1>5, <2>1, <2>2 DEF KeystrokesInOrder, TypeOK
<1>13. QED
  BY <1>8, <1>9, <1>11, <1>12 DEF KbdInv

-----------------------------------------------------------------------------
LEMMA InitKbd == Init => KbdInv
<1> SUFFICES ASSUME Init PROVE KbdInv
  OBVIOUS
<1>1. bytes \in [0 .. 1 -> Bytes]
  <2>1. Codes \cup {SCANCODE_PREFIX} \subseteq Bytes
    BY CodeAssumption DEF Bytes, SCANCODE_PREFIX
  <2>2. bytes \in [0 .. 1 -> Codes \cup {SCANCODE_PREFIX}]
    BY DEF Init
  <2>3. QED
    BY <2>1, <2>2
<1>2. QED
  BY <1>1, BoundAssumption DEF Init, KbdInv, TypeOK, Src, EventsWellFormed,
     PrefixHeld, MisreadDebt, InSync, KeystrokesInOrder

\* Every keyboard interrupt keeps the invariant, one lemma per outcome.
LEMMA StepKbd == KbdInv /\ [Next]_vars => KbdInv'
<1> SUFFICES ASSUME KbdInv, [Next]_vars PROVE KbdInv'
  OBVIOUS
<1>1. CASE Next
  <2>1. PICK nb \in NextBytes, st \in DeliveredStatus :
          /\ devKey < MaxKeys
          /\ DeviceAdvance(nb[2])
          /\ \/ ~is_valid_kb_st(st) /\ ReadInvalid(nb[1])
             \/ /\ is_valid_kb_st(st)
                /\ \/ Prefix(nb[1], nb[2])
                   \/ SecondByte(nb[1], nb[2])
                   \/ SingleByte(nb[1], nb[2])
    BY <1>1 DEF Next, KeyboardInterrupt
  <2>2. Ctx(nb[1], nb[2])
    BY <2>1, SentNext DEF Ctx, KbdInv
  <2>3. QED
    BY <2>1, <2>2, ReadInvalidStep, PrefixStep, SecondByteStep, SingleByteStep
<1>2. CASE UNCHANGED vars
  BY <1>2 DEF vars, KbdInv, TypeOK, EventsWellFormed, LastByte, PrefixHeld,
     MisreadDebt, InSync, KeystrokesInOrder
<1>3. QED
  BY <1>1, <1>2
\* The invariant holds in every reachable state.
LEMMA KbdInvariant == Spec => []KbdInv
BY InitKbd, StepKbd, PTL DEF Spec

\* The keyboard channel keeps its type for every set of codes and bounds.
THEOREM KeyboardTypeCorrect == Spec => []TypeOK
<1>1. KbdInv => TypeOK
  BY DEF KbdInv
<1>2. QED
  BY <1>1, KbdInvariant, PTL

(***************************************************************************)
(* However many bytes the controller flags, every event kbc_ih and         *)
(* process_scancode hand to kbd_state_handler is well formed, and          *)
(* skip_print is set exactly while a prefix is pending (size = 2).         *)
(***************************************************************************)
THEOREM EventsAlwaysWellFormed == Spec => []EventsWellFormed
<1>1. KbdInv => EventsWellFormed
  BY DEF KbdInv
<1>2. QED
  BY <1>1, KbdInvariant, PTL

(***************************************************************************)
(* While no byte is lost, every keystroke, 1-byte or prefixed, reaches     *)
(* kbd_state_handler as exactly one event, in the order it was typed.      *)
(***************************************************************************)
THEOREM KeystrokesDelivered == Spec => []KeystrokesInOrder
<1>1. KbdInv => KeystrokesInOrder
  BY DEF KbdInv
<1>2. QED
  BY <1>1, KbdInvariant, PTL

(***************************************************************************)
(* Each byte the controller flags with an error makes the driver misreport *)
(* at most one keystroke: the stream is back in step after the next event. *)
(***************************************************************************)
THEOREM MisreadBounded == Spec => []MisreadBoundedByErrors
<1>1. KbdInv => MisreadBoundedByErrors
  BY MisreadLeErrors DEF KbdInv, MisreadBoundedByErrors
<1>2. QED
  BY <1>1, KbdInvariant, PTL
=============================================================================
