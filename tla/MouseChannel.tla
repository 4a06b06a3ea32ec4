---------------------------- MODULE MouseChannel ----------------------------
(***************************************************************************)
(* The mouse channel of the i8042 driver (src/proj/src/device/mouse.c and  *)
(* the mouse branch of the event loop in src/proj/src/proj.c).             *)
(*                                                                         *)
(* One step is one mouse interrupt as the event loop handles it:           *)
(* mouse_ih() drains one byte from the controller's output buffer and      *)
(* validates the status byte (m_read_obf_byte, is_valid_m_st); if the     *)
(* byte is not discarded, mouse_packet_handler() stores it in the slot     *)
(* named by mouse_count; when mouse_count reaches 3 the loop hands the     *)
(* packet to the consumer and resets mouse_count to 0; discard_mouse_data  *)
(* is reset at the end of the iteration.                                   *)
(*                                                                         *)
(* The mouse itself is the environment: it sends 3-byte packets whose      *)
(* first byte always has bit 3 set (PS/2 protocol), and the controller may *)
(* flag a byte with a parity or timeout error (at most MaxErrors times).   *)
(* Ghost variables record where every byte came from (packet number and    *)
(* position) and every packet handed to the consumer.                      *)
(***************************************************************************)
EXTENDS Integers, Sequences

CONSTANTS
  Byte0Vals,   \* first bytes the mouse may send
  DataVals,    \* second and third bytes (X and Y movement) it may send
  MaxPackets,  \* bound on the packets the mouse sends
  MaxErrors    \* bound on the bytes delivered with an error status

Bytes == 0 .. 255

\* Bit masks of src/proj/src/device/i8042.h (BIT(n) = 2^n).
LEFT_BUTTON   == 1
RIGHT_BUTTON  == 2
MIDDLE_BUTTON == 4
SYNC_BIT      == 8     \* BIT(3), tested in mouse_packet_handler
MSB_X_DELTA   == 16
MSB_Y_DELTA   == 32
MOUSE_X_OVFL  == 64
MOUSE_Y_OVFL  == 128

\* b & mask != 0, for a mask that is a power of two.
Masked(b, mask) == (b \div mask) % 2 = 1

ASSUME ByteAssumption ==
  /\ Byte0Vals \subseteq Bytes /\ Byte0Vals # {}
  /\ DataVals \subseteq Bytes /\ DataVals # {}

\* The PS/2 mouse always sets bit 3 of the first byte of a packet.
ASSUME SyncAssumption == \A b \in Byte0Vals : Masked(b, SYNC_BIT)

ASSUME BoundAssumption == MaxPackets \in Nat /\ MaxErrors \in Nat

\* Conversion of a 16-bit pattern to int16_t (the type of delta_x/delta_y).
Int16(v) == IF v >= 32768 THEN v - 65536 ELSE v

\* The status byte as far as is_valid_m_st looks at it.  A byte on this
\* channel comes from the auxiliary device; cross-talk with the keyboard
\* is the business of the module that composes both channels.
Status == [par : BOOLEAN, to : BOOLEAN, aux : BOOLEAN]
OkStatus == [par |-> FALSE, to |-> FALSE, aux |-> TRUE]
ErrStatus == {[par |-> p, to |-> t, aux |-> TRUE] : p, t \in BOOLEAN} \ {OkStatus}

\* is_valid_m_st (mouse.c 51-65).
is_valid_m_st(st) == ~st.par /\ ~st.to /\ st.aux

\* struct packet of the LCF, with the fields mouse_packet_handler writes.
Packet == [bytes : [0 .. 2 -> Bytes],
           lb : BOOLEAN, rb : BOOLEAN, mb : BOOLEAN,
           x_ov : BOOLEAN, y_ov : BOOLEAN,
           delta_x : -256 .. 255, delta_y : -256 .. 255]

\* mouse_packet is a global: zero-initialised.
ZeroPacket == [bytes |-> [i \in 0 .. 2 |-> 0],
               lb |-> FALSE, rb |-> FALSE, mb |-> FALSE,
               x_ov |-> FALSE, y_ov |-> FALSE,
               delta_x |-> 0, delta_y |-> 0]

\* Provenance of a byte: <<packet number, position in the packet>>; the
\* zero-initialised slots of mouse_packet come from no packet.
NoSrc == <<-1, -1>>
Src == ({-1} \cup Nat) \X ({-1} \cup 0 .. 2)

VARIABLES
  mouse_count,   \* slot mouse_packet_handler fills next
  mouse_data,    \* last byte read from the output buffer
  mouse_packet,  \* the packet being assembled (global struct packet)
  devPkt,        \* ghost: packets the mouse has started
  devPos,        \* ghost: position of the mouse's next byte in its packet
  ppSrc,         \* ghost: provenance of mouse_packet.bytes[i]
  handed,        \* ghost: packets handed to mouse_state_handler, in order
  errors,        \* ghost: bytes delivered with an error status
  misaligned     \* ghost: handed packets not made of one mouse packet

vars == <<mouse_count, mouse_data, mouse_packet, devPkt, devPos, ppSrc,
          handed, errors, misaligned>>

\* The three provenances of the bytes of mouse packet k.
PacketSrc(k) == [i \in 0 .. 2 |-> <<k, i>>]
Aligned(src) == \E k \in 0 .. devPkt : src = PacketSrc(k)

Init ==
  /\ mouse_count = 0
  /\ mouse_data = 0
  /\ mouse_packet = ZeroPacket
  /\ devPkt = 0
  /\ devPos = 0
  /\ ppSrc = [i \in 0 .. 2 |-> NoSrc]
  /\ handed = <<>>
  /\ errors = 0
  /\ misaligned = 0

-----------------------------------------------------------------------------
(* The mouse sends the next byte of its current packet.                    *)
NextByteVals == IF devPos = 0 THEN Byte0Vals ELSE DataVals
\* The controller flags a byte with an error at most MaxErrors times.
DeliveredStatus == IF errors < MaxErrors THEN {OkStatus} \cup ErrStatus
                                         ELSE {OkStatus}
DeviceAdvance ==
  /\ devPos' = (devPos + 1) % 3
  /\ devPkt' = IF devPos = 2 THEN devPkt + 1 ELSE devPkt

(* mouse_ih reads the byte, is_valid_m_st rejects the status: the loop     *)
(* skips mouse_packet_handler and resets discard_mouse_data.               *)
ReadInvalid(b) ==
  /\ mouse_data' = b
  /\ errors' = errors + 1
  /\ UNCHANGED <<mouse_count, mouse_packet, ppSrc, handed, misaligned>>

(* Slot 0, bit 3 clear: the byte is discarded and mouse_count stays 0.     *)
SyncFail(b) ==
  /\ mouse_count = 0
  /\ ~Masked(b, SYNC_BIT)
  /\ mouse_data' = b
  /\ UNCHANGED <<mouse_count, mouse_packet, ppSrc, handed, errors, misaligned>>

(* The packet after mouse_packet_handler stores b in slot 0 (mouse.c      *)
(* 125-130): the byte, the button bits and the overflow bits.              *)
StoreByte0(p, b) ==
  [bytes |-> [p.bytes EXCEPT ![0] = b],
   lb |-> Masked(b, LEFT_BUTTON), rb |-> Masked(b, RIGHT_BUTTON),
   mb |-> Masked(b, MIDDLE_BUTTON),
   x_ov |-> Masked(b, MOUSE_X_OVFL), y_ov |-> Masked(b, MOUSE_Y_OVFL),
   delta_x |-> p.delta_x, delta_y |-> p.delta_y]

\* A movement byte sign-extended to int16_t: 0xFF00 | b when the sign bit
\* of the stored byte 0 is set, b otherwise (mouse.c 136-143, 148-155).
SignExtend(byte0, mask, b) ==
  IF Masked(byte0, mask) THEN Int16(65280 + b) ELSE b

\* Mutant of StoreByte1: the sign taken from the data byte, not byte 0.
StoreByte1SignFromData(p, b) ==
  [bytes |-> [p.bytes EXCEPT ![1] = b],
   lb |-> p.lb, rb |-> p.rb, mb |-> p.mb, x_ov |-> p.x_ov, y_ov |-> p.y_ov,
   delta_x |-> SignExtend(b, MSB_X_DELTA, b), delta_y |-> p.delta_y]

(* Slot 1: the byte and delta_x, signed with bit 4 of the stored byte 0.   *)
StoreByte1(p, b) ==
  [bytes |-> [p.bytes EXCEPT ![1] = b],
   lb |-> p.lb, rb |-> p.rb, mb |-> p.mb, x_ov |-> p.x_ov, y_ov |-> p.y_ov,
   delta_x |-> SignExtend(p.bytes[0], MSB_X_DELTA, b), delta_y |-> p.delta_y]

(* Slot 2: the byte and delta_y, signed with bit 5 of the stored byte 0.   *)
StoreByte2(p, b) ==
  [bytes |-> [p.bytes EXCEPT ![2] = b],
   lb |-> p.lb, rb |-> p.rb, mb |-> p.mb, x_ov |-> p.x_ov, y_ov |-> p.y_ov,
   delta_x |-> p.delta_x, delta_y |-> SignExtend(p.bytes[0], MSB_Y_DELTA, b)]

\* Mutant of AcceptByte0: the sync bit not checked.
AcceptByte0NoSync(b) ==
  /\ mouse_count = 0
  /\ mouse_data' = b
  /\ mouse_packet' = StoreByte0(mouse_packet, b)
  /\ ppSrc' = [ppSrc EXCEPT ![0] = <<devPkt, devPos>>]
  /\ mouse_count' = 1
  /\ UNCHANGED <<handed, errors, misaligned>>

(* Slot 0, bit 3 set: the byte starts a packet.                            *)
AcceptByte0(b) ==
  /\ mouse_count = 0
  /\ Masked(b, SYNC_BIT)
  /\ mouse_data' = b
  /\ mouse_packet' = StoreByte0(mouse_packet, b)
  /\ ppSrc' = [ppSrc EXCEPT ![0] = <<devPkt, devPos>>]
  /\ mouse_count' = 1
  /\ UNCHANGED <<handed, errors, misaligned>>

\* Mutant of AcceptByte1: mouse_count not incremented.
AcceptByte1NoCount(b) ==
  /\ mouse_count = 1
  /\ mouse_data' = b
  /\ mouse_packet' = StoreByte1(mouse_packet, b)
  /\ ppSrc' = [ppSrc EXCEPT ![1] = <<devPkt, devPos>>]
  /\ mouse_count' = 1
  /\ UNCHANGED <<handed, errors, misaligned>>

(* Slot 1.                                                                 *)
AcceptByte1(b) ==
  /\ mouse_count = 1
  /\ mouse_data' = b
  /\ mouse_packet' = StoreByte1(mouse_packet, b)
  /\ ppSrc' = [ppSrc EXCEPT ![1] = <<devPkt, devPos>>]
  /\ mouse_count' = 2
  /\ UNCHANGED <<handed, errors, misaligned>>

\* Mutant of AcceptByte2: the loop does not reset mouse_count.
AcceptByte2NoReset(b) ==
  LET pkt == StoreByte2(mouse_packet, b)
      src == [ppSrc EXCEPT ![2] = <<devPkt, devPos>>]
  IN  /\ mouse_count = 2
      /\ mouse_data' = b
      /\ mouse_packet' = pkt
      /\ ppSrc' = src
      /\ handed' = Append(handed, [pkt |-> pkt, src |-> src])
      /\ misaligned' = IF Aligned(src) THEN misaligned ELSE misaligned + 1
      /\ mouse_count' = 3
      /\ UNCHANGED errors

(* Slot 2: mouse_count becomes 3, so the loop hands the packet to          *)
(* mouse_state_handler and resets the count (proj.c 86-90).                *)
AcceptByte2(b) ==
  LET pkt == StoreByte2(mouse_packet, b)
      src == [ppSrc EXCEPT ![2] = <<devPkt, devPos>>]
  IN  /\ mouse_count = 2
      /\ mouse_data' = b
      /\ mouse_packet' = pkt
      /\ ppSrc' = src
      /\ handed' = Append(handed, [pkt |-> pkt, src |-> src])
      /\ misaligned' = IF Aligned(src) THEN misaligned ELSE misaligned + 1
      /\ mouse_count' = 0
      /\ UNCHANGED errors

(* One mouse interrupt, handled by the event loop (proj.c 81-93).          *)
MouseInterrupt ==
  /\ devPkt < MaxPackets
  /\ DeviceAdvance
  /\ \E b \in NextByteVals, st \in DeliveredStatus :
       \/ ~is_valid_m_st(st) /\ ReadInvalid(b)
       \/ is_valid_m_st(st) /\ \/ SyncFail(b)
                               \/ AcceptByte0(b)
                               \/ AcceptByte1(b)
                               \/ AcceptByte2(b)

Next == MouseInterrupt

Spec == Init /\ [][Next]_vars

-----------------------------------------------------------------------------
TypeOK ==
  /\ mouse_count \in 0 .. 2
  /\ mouse_data \in Bytes
  /\ mouse_packet \in Packet
  /\ devPkt \in 0 .. MaxPackets
  /\ devPos \in 0 .. 2
  /\ ppSrc \in [0 .. 2 -> Src]
  /\ handed \in Seq([pkt : Packet, src : [0 .. 2 -> Src]])
  /\ errors \in 0 .. MaxErrors
  /\ misaligned \in Nat

\* Reference decoding of a movement byte with its sign bit: the 9-bit
\* two's-complement value whose bit 8 is the sign.
Sign9(sign, b) ==
  LET v == (IF sign THEN 256 ELSE 0) + b IN IF v >= 256 THEN v - 512 ELSE v

\* The fields of a packet are those its three bytes encode.
Decodes(p) ==
  /\ Masked(p.bytes[0], SYNC_BIT)
  /\ p.lb = Masked(p.bytes[0], LEFT_BUTTON)
  /\ p.rb = Masked(p.bytes[0], RIGHT_BUTTON)
  /\ p.mb = Masked(p.bytes[0], MIDDLE_BUTTON)
  /\ p.delta_x = Sign9(Masked(p.bytes[0], MSB_X_DELTA), p.bytes[1])
  /\ p.delta_y = Sign9(Masked(p.bytes[0], MSB_Y_DELTA), p.bytes[2])

\* The slots filled so far decode: byte 0 once mouse_count >= 1, delta_x
\* once mouse_count = 2.  The strengthening of HandedPacketsDecode.
PartialDecode ==
  /\ mouse_count >= 1 =>
       /\ Masked(mouse_packet.bytes[0], SYNC_BIT)
       /\ mouse_packet.lb = Masked(mouse_packet.bytes[0], LEFT_BUTTON)
       /\ mouse_packet.rb = Masked(mouse_packet.bytes[0], RIGHT_BUTTON)
       /\ mouse_packet.mb = Masked(mouse_packet.bytes[0], MIDDLE_BUTTON)
  /\ mouse_count = 2 =>
       mouse_packet.delta_x =
         Sign9(Masked(mouse_packet.bytes[0], MSB_X_DELTA), mouse_packet.bytes[1])

(***************************************************************************)
(* Every packet mouse_packet_handler hands on is well formed: its first    *)
(* byte has the sync bit, its buttons are those of its own first byte and  *)
(* its deltas are its movement bytes sign-extended with the sign bits of   *)
(* that same first byte -- whatever bytes were lost or discarded before.   *)
(***************************************************************************)
HandedPacketsDecode ==
  \A i \in 1 .. Len(handed) : Decodes(handed[i].pkt)

(***************************************************************************)
(* As long as no byte has been lost, the consumer has received exactly the *)
(* mouse's packets, in order, each made of the three bytes of one packet   *)
(* (the slot counter of mouse_packet_handler stays in step with the mouse). *)
(***************************************************************************)
InOrderDelivery ==
  errors = 0 =>
    /\ Len(handed) = devPkt
    /\ \A i \in 1 .. Len(handed) : handed[i].src = PacketSrc(i - 1)

(***************************************************************************)
(* The spec's resynchronisation claim (spec 4.3): because the driver       *)
(* never advances past a first byte without its sync bit, it never builds  *)
(* a packet from misaligned bytes.                                         *)
(***************************************************************************)
PacketAligned ==
  \A i \in 1 .. Len(handed) : Aligned(handed[i].src)

(***************************************************************************)
(* When no movement byte can carry bit 3 (small positive motion), every    *)
(* lost byte costs at most one misaligned packet: the sync check at slot 0 *)
(* then realigns the stream within the next packet.                        *)
(***************************************************************************)
MisalignedBoundedByErrors == misaligned <= errors

=============================================================================
