--------------------------- MODULE KeyboardChannel ---------------------------
(***************************************************************************)
(* The keyboard channel of the i8042 driver (src/proj/src/device/          *)
(* keyboard.c and the keyboard branch of the event loop in proj.c).        *)
(*                                                                         *)
(* One step is one keyboard interrupt as the event loop handles it:        *)
(* kbc_ih() drains one byte (kbc_read_value, is_valid_kb_st); if it is not *)
(* discarded, process_scancode() either remembers the 0xE0 prefix (size 2, *)
(* skip_print) or completes a 1- or 2-byte scancode; when skip_print is    *)
(* clear the loop hands {is_make, size, bytes} to kbd_state_handler and    *)
(* resets size to 1.                                                       *)
(*                                                                         *)
(* The keyboard is the environment: it sends keystrokes, each one code     *)
(* byte or the prefix 0xE0 followed by a code byte; the controller may     *)
(* flag a byte with an error at most MaxErrors times.                      *)
(***************************************************************************)
EXTENDS Integers, Sequences

CONSTANTS
  Codes,      \* codes the keyboard sends as 1-byte scancodes
  ExtCodes,   \* codes it sends after the 0xE0 prefix
  MaxKeys,    \* bound on the keystrokes it sends
  MaxErrors   \* bound on the bytes delivered with an error status

Bytes == 0 .. 255
SCANCODE_PREFIX == 224   \* 0xE0
BREAK_BIT == 128         \* BIT(7)

ASSUME CodeAssumption ==
  /\ Codes \subseteq Bytes \ {SCANCODE_PREFIX} /\ Codes # {}
  /\ ExtCodes \subseteq Bytes \ {SCANCODE_PREFIX} /\ ExtCodes # {}

ASSUME BoundAssumption == MaxKeys \in Nat /\ MaxErrors \in Nat

\* b & BREAK_BIT != 0
IsBreak(b) == b >= BREAK_BIT

\* is_valid_kb_st (keyboard.c 84-98): a byte with the parity, timeout or
\* auxiliary-device bit set is rejected.
Status == [par : BOOLEAN, to : BOOLEAN, aux : BOOLEAN]
OkStatus == [par |-> FALSE, to |-> FALSE, aux |-> FALSE]
is_valid_kb_st(st) == ~st.par /\ ~st.to /\ ~st.aux

\* Provenance of a byte: the keystroke it belongs to, its position in the
\* keystroke, and whether that keystroke is an extended one.
Src == [key : Nat, pos : 0 .. 1, ext : BOOLEAN]

VARIABLES
  keyboard_data,  \* last byte read from the output buffer
  size,           \* proj_main_loop's size: 2 while a prefix is pending
  bytes,          \* proj_main_loop's bytes[2]
  is_make,        \* proj_main_loop's is_make
  skip_print,     \* set by the prefix: no event for this interrupt
  devKey,         \* ghost: keystrokes the keyboard has completed
  devPos,         \* ghost: 1 after the prefix of an extended keystroke
  bufSrc,         \* ghost: provenance of bytes[i]
  handed,         \* ghost: events handed to kbd_state_handler, in order
  errors,         \* ghost: bytes delivered with an error status
  misread         \* ghost: handed events that are not one keystroke

vars == <<keyboard_data, size, bytes, is_make, skip_print, devKey, devPos,
          bufSrc, handed, errors, misread>>

\* An event is one keystroke: a 1-byte scancode from a 1-byte keystroke,
\* or the prefix and the code of the same extended keystroke.
OneKeystroke(ev) ==
  IF ev.size = 1
  THEN ~ev.src[0].ext
  ELSE /\ ev.src[0].ext /\ ev.src[0].pos = 0 /\ ev.src[1].pos = 1
       /\ ev.src[0].key = ev.src[1].key

\* bytes[] and is_make are uninitialised locals of proj_main_loop; they are
\* always written before they are read, so any initial value will do.
Init ==
  /\ keyboard_data = 0
  /\ size = 1
  /\ bytes \in [0 .. 1 -> Codes \cup {SCANCODE_PREFIX}]
  /\ is_make \in BOOLEAN
  /\ skip_print = FALSE
  /\ devKey = 0
  /\ devPos = 0
  /\ bufSrc = [i \in 0 .. 1 |-> [key |-> 0, pos |-> 0, ext |-> FALSE]]
  /\ handed = <<>>
  /\ errors = 0
  /\ misread = 0

-----------------------------------------------------------------------------
(* The keyboard's next byte with its provenance: a 1-byte code or a       *)
(* prefix when no keystroke is half sent, the extended code otherwise.     *)
NextBytes ==
  IF devPos = 0
  THEN {<<c, [key |-> devKey, pos |-> 0, ext |-> FALSE]>> : c \in Codes}
       \cup {<<SCANCODE_PREFIX, [key |-> devKey, pos |-> 0, ext |-> TRUE]>>}
  ELSE {<<c, [key |-> devKey, pos |-> 1, ext |-> TRUE]>> : c \in ExtCodes}

DeviceAdvance(src) ==
  IF src.ext /\ src.pos = 0
  THEN devPos' = 1 /\ devKey' = devKey
  ELSE devPos' = 0 /\ devKey' = devKey + 1

DeliveredStatus ==
  IF errors < MaxErrors THEN Status ELSE {OkStatus}

(* kbc_ih reads the byte and is_valid_kb_st rejects it: the loop skips     *)
(* process_scancode and resets discard_keyboard_data.                      *)
ReadInvalid(b) ==
  /\ keyboard_data' = b
  /\ errors' = errors + 1
  /\ UNCHANGED <<size, bytes, is_make, skip_print, bufSrc, handed, misread>>

\* Mutants of KbdLoop: size reset to 0 instead of 1; size not reset.
KbdLoopSizeZero(sz) ==
  LET ev == [make |-> is_make', size |-> sz, bytes |-> bytes', src |-> bufSrc']
  IN  IF skip_print'
      THEN size' = sz /\ UNCHANGED <<handed, misread>>
      ELSE /\ handed' = Append(handed, ev)
           /\ misread' = IF OneKeystroke(ev) THEN misread ELSE misread + 1
           /\ size' = 0
KbdLoopNoReset(sz) ==
  LET ev == [make |-> is_make', size |-> sz, bytes |-> bytes', src |-> bufSrc']
  IN  IF skip_print'
      THEN size' = sz /\ UNCHANGED <<handed, misread>>
      ELSE /\ handed' = Append(handed, ev)
           /\ misread' = IF OneKeystroke(ev) THEN misread ELSE misread + 1
           /\ size' = sz

(* The loop after process_scancode (proj.c 107-111): unless skip_print is  *)
(* set it hands {is_make, size, bytes} to kbd_state_handler and resets     *)
(* size to 1.  sz is size as process_scancode left it.                     *)
KbdLoop(sz) ==
  LET ev == [make |-> is_make', size |-> sz, bytes |-> bytes', src |-> bufSrc']
  IN  IF skip_print'
      THEN /\ size' = sz
           /\ UNCHANGED <<handed, misread>>
      ELSE /\ handed' = Append(handed, ev)
           /\ misread' = IF OneKeystroke(ev) THEN misread ELSE misread + 1
           /\ size' = 1

\* Mutant of Prefix: skip_print not set.
PrefixNoSkip(b, src) ==
  /\ b = SCANCODE_PREFIX
  /\ keyboard_data' = b
  /\ bytes' = [bytes EXCEPT ![0] = b]
  /\ bufSrc' = [bufSrc EXCEPT ![0] = src]
  /\ skip_print' = skip_print
  /\ UNCHANGED <<is_make, errors>>
  /\ KbdLoop(2)

(* process_scancode, prefix: bytes[0] = 0xE0, skip_print, size = 2.        *)
Prefix(b, src) ==
  /\ b = SCANCODE_PREFIX
  /\ keyboard_data' = b
  /\ bytes' = [bytes EXCEPT ![0] = b]
  /\ bufSrc' = [bufSrc EXCEPT ![0] = src]
  /\ skip_print' = TRUE
  /\ UNCHANGED <<is_make, errors>>
  /\ KbdLoop(2)

(* process_scancode with a prefix pending: bytes[1] is the code, make or   *)
(* break by its bit 7, skip_print cleared.                                 *)
SecondByte(b, src) ==
  /\ b # SCANCODE_PREFIX
  /\ size = 2
  /\ keyboard_data' = b
  /\ bytes' = [bytes EXCEPT ![1] = b]
  /\ bufSrc' = [bufSrc EXCEPT ![1] = src]
  /\ is_make' = ~IsBreak(b)
  /\ skip_print' = FALSE
  /\ KbdLoop(size)
  /\ UNCHANGED errors

(* process_scancode without a prefix: a 1-byte scancode in bytes[0];       *)
(* skip_print is left as it is.                                            *)
SingleByte(b, src) ==
  /\ b # SCANCODE_PREFIX
  /\ size # 2
  /\ keyboard_data' = b
  /\ bytes' = [bytes EXCEPT ![0] = b]
  /\ bufSrc' = [bufSrc EXCEPT ![0] = src]
  /\ is_make' = ~IsBreak(b)
  /\ UNCHANGED <<skip_print, errors>>
  /\ KbdLoop(size)

(* One keyboard interrupt, handled by the event loop (proj.c 103-115).     *)
KeyboardInterrupt ==
  /\ devKey < MaxKeys
  /\ \E nb \in NextBytes, st \in DeliveredStatus :
       LET b == nb[1]
           src == nb[2]
       IN  /\ DeviceAdvance(src)
           /\ \/ /\ ~is_valid_kb_st(st)
                 /\ ReadInvalid(b)
              \/ /\ is_valid_kb_st(st)
                 /\ \/ Prefix(b, src)
                    \/ SecondByte(b, src)
                    \/ SingleByte(b, src)

Next == KeyboardInterrupt

Spec == Init /\ [][Next]_vars

-----------------------------------------------------------------------------
Event == [make : BOOLEAN, size : {1, 2}, bytes : [0 .. 1 -> Bytes],
          src : [0 .. 1 -> Src]]

TypeOK ==
  /\ keyboard_data \in Bytes
  /\ size \in {1, 2}
  /\ bytes \in [0 .. 1 -> Bytes]
  /\ is_make \in BOOLEAN
  /\ skip_print \in BOOLEAN
  /\ devKey \in 0 .. MaxKeys
  /\ devPos \in 0 .. 1
  /\ bufSrc \in [0 .. 1 -> Src]
  /\ handed \in Seq(Event)
  /\ errors \in 0 .. MaxErrors
  /\ misread \in Nat

\* The scancode of an event as kbd_state_handler reads it.
LastByte(ev) == IF ev.size = 2 THEN ev.bytes[1] ELSE ev.bytes[0]

(***************************************************************************)
(* Whatever bytes are lost, every event handed to kbd_state_handler is     *)
(* well formed: a 2-byte event starts with the prefix, no event ends with  *)
(* the prefix, and is_make is the complement of bit 7 of the code; and a   *)
(* prefix is pending (size 2) exactly while skip_print is set.             *)
(***************************************************************************)
EventsWellFormed ==
  /\ \A i \in 1 .. Len(handed) :
       /\ handed[i].size = 2 => handed[i].bytes[0] = SCANCODE_PREFIX
       /\ LastByte(handed[i]) # SCANCODE_PREFIX
       /\ handed[i].make = ~IsBreak(LastByte(handed[i]))
  /\ skip_print <=> size = 2

(***************************************************************************)
(* As long as no byte has been lost, kbd_state_handler has received       *)
(* exactly the keystrokes, in order, each as one event.                    *)
(***************************************************************************)
KeystrokesInOrder ==
  errors = 0 =>
    /\ Len(handed) = devKey
    /\ \A i \in 1 .. Len(handed) :
         /\ OneKeystroke(handed[i])
         /\ handed[i].src[IF handed[i].size = 2 THEN 1 ELSE 0].key = i - 1

(***************************************************************************)
(* Every lost byte misreports at most one keystroke: a lost prefix turns   *)
(* an extended key into a 1-byte one, a lost code after a prefix turns the *)
(* next 1-byte key into an extended one; after that the stream is in step. *)
(***************************************************************************)
MisreadBoundedByErrors == misread <= errors

=============================================================================
