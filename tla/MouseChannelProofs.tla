------------------------- MODULE MouseChannelProofs -------------------------
(***************************************************************************)
(* Proofs about MouseChannel, for every value of its constants.            *)
(***************************************************************************)
EXTENDS MouseChannel, TLAPS

\* The two branches of the sign extension in mouse_packet_handler agree
\* with the 9-bit two's-complement reading of a movement byte.
LEMMA SignExtension ==
  ASSUME NEW b \in Bytes, NEW s \in BOOLEAN
  PROVE  /\ (IF s THEN Int16(65280 + b) ELSE b) = Sign9(s, b)
         /\ (IF s THEN Int16(65280 + b) ELSE b) \in -256 .. 255
  BY DEF Int16, Sign9, Bytes

LEMMA MaskedBoolean ==
  ASSUME NEW b \in Bytes, NEW m \in {1, 2, 4, 8, 16, 32, 64, 128}
  PROVE  Masked(b, m) \in BOOLEAN
  BY DEF Masked

\* The invalid statuses the controller can deliver are error statuses.
LEMMA InvalidIsError ==
  ASSUME NEW e \in Nat, NEW st \in (IF e < MaxErrors THEN {OkStatus} \cup ErrStatus
                                                     ELSE {OkStatus}),
         ~is_valid_m_st(st)
  PROVE  e < MaxErrors
  BY DEF is_valid_m_st, OkStatus

\* Storing a byte in any slot keeps a packet a packet.
LEMMA StorePacket ==
  ASSUME NEW p \in Packet, NEW b \in Bytes
  PROVE  /\ StoreByte0(p, b) \in Packet
         /\ StoreByte1(p, b) \in Packet
         /\ StoreByte2(p, b) \in Packet
<1>1. p.bytes[0] \in Bytes
  BY DEF Packet
<1>2. /\ SignExtend(p.bytes[0], MSB_X_DELTA, b) \in -256 .. 255
      /\ SignExtend(p.bytes[0], MSB_Y_DELTA, b) \in -256 .. 255
  BY <1>1, SignExtension, MaskedBoolean DEF SignExtend, MSB_X_DELTA, MSB_Y_DELTA
<1>3. /\ Masked(b, LEFT_BUTTON) \in BOOLEAN /\ Masked(b, RIGHT_BUTTON) \in BOOLEAN
      /\ Masked(b, MIDDLE_BUTTON) \in BOOLEAN /\ Masked(b, MOUSE_X_OVFL) \in BOOLEAN
      /\ Masked(b, MOUSE_Y_OVFL) \in BOOLEAN
  BY MaskedBoolean DEF LEFT_BUTTON, RIGHT_BUTTON, MIDDLE_BUTTON, MOUSE_X_OVFL, MOUSE_Y_OVFL
<1>4. QED
  BY <1>2, <1>3 DEF Packet, StoreByte0, StoreByte1, StoreByte2

-----------------------------------------------------------------------------
(* Type correctness.                                                       *)
LEMMA TypeInit == Init => TypeOK
  BY BoundAssumption DEF Init, TypeOK, ZeroPacket, Packet, Bytes, NoSrc, Src

LEMMA TypeStep == TypeOK /\ [Next]_vars => TypeOK'
  <2> SUFFICES ASSUME TypeOK, [Next]_vars PROVE TypeOK'
    OBVIOUS
  <2> USE BoundAssumption, ByteAssumption
  <2>1. CASE UNCHANGED vars
    BY <2>1 DEF TypeOK, vars
  <2>2. CASE MouseInterrupt
    <3> SUFFICES ASSUME devPkt < MaxPackets, DeviceAdvance,
                        NEW b \in NextByteVals, NEW st \in DeliveredStatus,
                        \/ ~is_valid_m_st(st) /\ ReadInvalid(b)
                        \/ is_valid_m_st(st) /\ \/ SyncFail(b)
                                                \/ AcceptByte0(b)
                                                \/ AcceptByte1(b)
                                                \/ AcceptByte2(b)
                 PROVE TypeOK'
      BY <2>2 DEF MouseInterrupt
    <3>1. b \in Bytes
      BY DEF NextByteVals
    <3>2. devPkt' \in 0 .. MaxPackets /\ devPos' \in 0 .. 2
      BY DEF DeviceAdvance, TypeOK
    <3>3. <<devPkt, devPos>> \in Src
      BY DEF TypeOK, Src
    <3>4. CASE ~is_valid_m_st(st) /\ ReadInvalid(b)
      <4>1. errors < MaxErrors
        BY <3>4, InvalidIsError DEF DeliveredStatus, TypeOK
      <4>2. QED
        BY <3>1, <3>2, <3>4, <4>1 DEF ReadInvalid, TypeOK
    <3>5. CASE SyncFail(b)
      BY <3>1, <3>2, <3>5 DEF SyncFail, TypeOK
    <3>6. CASE AcceptByte0(b)
      <4>1. StoreByte0(mouse_packet, b) \in Packet
        BY <3>1, StorePacket DEF TypeOK
      <4>2. QED
        BY <3>1, <3>2, <3>3, <3>6, <4>1 DEF AcceptByte0, TypeOK
    <3>7. CASE AcceptByte1(b)
      <4>1. StoreByte1(mouse_packet, b) \in Packet
        BY <3>1, StorePacket DEF TypeOK
      <4>2. QED
        BY <3>1, <3>2, <3>3, <3>7, <4>1 DEF AcceptByte1, TypeOK
    <3>8. CASE AcceptByte2(b)
      <4>1. StoreByte2(mouse_packet, b) \in Packet
        BY <3>1, StorePacket DEF TypeOK
      <4>2. [ppSrc EXCEPT ![2] = <<devPkt, devPos>>] \in [0 .. 2 -> Src]
        BY <3>3 DEF TypeOK
      <4>3. QED
        BY <3>1, <3>2, <3>8, <4>1, <4>2 DEF AcceptByte2, TypeOK
    <3>9. QED
      BY <3>4, <3>5, <3>6, <3>7, <3>8
  <2>3. QED
    BY <2>1, <2>2 DEF Next

THEOREM TypeCorrect == Spec => []TypeOK
  BY TypeInit, TypeStep, PTL DEF Spec

-----------------------------------------------------------------------------
(* Well-formedness of handed packets.                                      *)
DecodeInv == TypeOK /\ PartialDecode /\ HandedPacketsDecode

\* Decoding byte 0: the flags StoreByte0 sets are those Decodes expects.
LEMMA Byte0Decodes ==
  ASSUME NEW p \in Packet, NEW b \in Bytes, Masked(b, SYNC_BIT)
  PROVE  LET q == StoreByte0(p, b)
         IN  /\ q.bytes[0] = b
             /\ Masked(q.bytes[0], SYNC_BIT)
             /\ q.lb = Masked(q.bytes[0], LEFT_BUTTON)
             /\ q.rb = Masked(q.bytes[0], RIGHT_BUTTON)
             /\ q.mb = Masked(q.bytes[0], MIDDLE_BUTTON)
  BY DEF StoreByte0, Packet

\* Slots 1 and 2 leave byte 0 and the button flags alone.
LEMMA StoreKeepsByte0 ==
  ASSUME NEW p \in Packet, NEW b \in Bytes
  PROVE  /\ StoreByte1(p, b).bytes[0] = p.bytes[0]
         /\ StoreByte1(p, b).bytes[1] = b
         /\ StoreByte1(p, b).lb = p.lb /\ StoreByte1(p, b).rb = p.rb
         /\ StoreByte1(p, b).mb = p.mb
         /\ StoreByte1(p, b).delta_x = SignExtend(p.bytes[0], MSB_X_DELTA, b)
         /\ StoreByte2(p, b).bytes[0] = p.bytes[0]
         /\ StoreByte2(p, b).bytes[1] = p.bytes[1]
         /\ StoreByte2(p, b).bytes[2] = b
         /\ StoreByte2(p, b).lb = p.lb /\ StoreByte2(p, b).rb = p.rb
         /\ StoreByte2(p, b).mb = p.mb
         /\ StoreByte2(p, b).delta_x = p.delta_x
         /\ StoreByte2(p, b).delta_y = SignExtend(p.bytes[0], MSB_Y_DELTA, b)
  BY DEF StoreByte1, StoreByte2, Packet

THEOREM HandedDecode == Spec => []HandedPacketsDecode
<1>1. Init => DecodeInv
  <2>1. Init => TypeOK
    BY TypeInit
  <2>2. Init => PartialDecode /\ HandedPacketsDecode
    BY DEF Init, PartialDecode, HandedPacketsDecode
  <2>3. QED
    BY <2>1, <2>2 DEF DecodeInv
<1>2. DecodeInv /\ [Next]_vars => DecodeInv'
  <2> SUFFICES ASSUME DecodeInv, [Next]_vars PROVE DecodeInv'
    OBVIOUS
  <2> USE BoundAssumption, ByteAssumption
  <2>0. TypeOK'
    BY TypeStep DEF DecodeInv
  <2>1. CASE UNCHANGED vars
    BY <2>1 DEF DecodeInv, TypeOK, vars, PartialDecode, HandedPacketsDecode
  <2>2. CASE MouseInterrupt
    <3> SUFFICES ASSUME devPkt < MaxPackets, DeviceAdvance,
                        NEW b \in NextByteVals, NEW st \in DeliveredStatus,
                        \/ ~is_valid_m_st(st) /\ ReadInvalid(b)
                        \/ is_valid_m_st(st) /\ \/ SyncFail(b)
                                                \/ AcceptByte0(b)
                                                \/ AcceptByte1(b)
                                                \/ AcceptByte2(b)
                 PROVE PartialDecode' /\ HandedPacketsDecode'
      BY <2>0, <2>2 DEF MouseInterrupt, DecodeInv
    <3>1. b \in Bytes
      BY DEF NextByteVals
    <3>2. mouse_packet \in Packet /\ handed \in Seq([pkt : Packet, src : [0 .. 2 -> Src]])
      BY DEF DecodeInv, TypeOK
    <3>4. CASE ~is_valid_m_st(st) /\ ReadInvalid(b)
      BY <3>4 DEF ReadInvalid, DecodeInv, PartialDecode, HandedPacketsDecode
    <3>5. CASE SyncFail(b)
      BY <3>5 DEF SyncFail, DecodeInv, PartialDecode, HandedPacketsDecode
    <3>6. CASE AcceptByte0(b)
      <4>1. Masked(b, SYNC_BIT)
        BY <3>6 DEF AcceptByte0
      <4>2. PartialDecode'
        BY <3>1, <3>2, <3>6, <4>1, Byte0Decodes DEF AcceptByte0, PartialDecode
      <4>3. HandedPacketsDecode'
        BY <3>6 DEF AcceptByte0, DecodeInv, HandedPacketsDecode
      <4>4. QED
        BY <4>2, <4>3
    <3>7. CASE AcceptByte1(b)
      <4>1. mouse_packet.bytes[0] \in Bytes
        BY <3>2 DEF Packet
      <4>2. SignExtend(mouse_packet.bytes[0], MSB_X_DELTA, b)
              = Sign9(Masked(mouse_packet.bytes[0], MSB_X_DELTA), b)
        BY <3>1, <4>1, SignExtension, MaskedBoolean DEF SignExtend, MSB_X_DELTA
      <4>3. PartialDecode'
        BY <3>1, <3>2, <3>7, <4>2, StoreKeepsByte0 DEF AcceptByte1, DecodeInv, PartialDecode
      <4>4. HandedPacketsDecode'
        BY <3>7 DEF AcceptByte1, DecodeInv, HandedPacketsDecode
      <4>5. QED
        BY <4>3, <4>4
    <3>8. CASE AcceptByte2(b)
      <4> DEFINE pkt == StoreByte2(mouse_packet, b)
                 src == [ppSrc EXCEPT ![2] = <<devPkt, devPos>>]
      <4>1. mouse_packet.bytes[0] \in Bytes
        BY <3>2 DEF Packet
      <4>2. SignExtend(mouse_packet.bytes[0], MSB_Y_DELTA, b)
              = Sign9(Masked(mouse_packet.bytes[0], MSB_Y_DELTA), b)
        BY <3>1, <4>1, SignExtension, MaskedBoolean DEF SignExtend, MSB_Y_DELTA
      <4>3. Decodes(pkt)
        BY <3>1, <3>2, <3>8, <4>2, StoreKeepsByte0 DEF AcceptByte2, DecodeInv, PartialDecode, Decodes
      <4>4. handed' = Append(handed, [pkt |-> pkt, src |-> src])
        BY <3>8 DEF AcceptByte2
      <4>5. HandedPacketsDecode'
        <5> SUFFICES ASSUME NEW i \in 1 .. Len(handed')
                     PROVE  Decodes(handed'[i].pkt)
          BY DEF HandedPacketsDecode
        <5>1. CASE i \in 1 .. Len(handed)
          BY <3>2, <4>4, <5>1 DEF DecodeInv, HandedPacketsDecode
        <5>2. CASE i = Len(handed) + 1
          BY <3>2, <4>3, <4>4, <5>2
        <5>3. QED
          BY <3>2, <4>4, <5>1, <5>2
      <4>6. PartialDecode'
        BY <3>8 DEF AcceptByte2, PartialDecode
      <4>7. QED
        BY <4>5, <4>6
    <3>9. QED
      BY <3>4, <3>5, <3>6, <3>7, <3>8
  <2>3. QED
    BY <2>0, <2>1, <2>2 DEF Next, DecodeInv
<1>3. QED
  BY <1>1, <1>2, PTL DEF Spec, DecodeInv

-----------------------------------------------------------------------------
(* Delivery in order.                                                      *)

(***************************************************************************)
(* While no byte is lost, mouse_count is the mouse's position in its       *)
(* packet and the slots filled so far hold that packet's bytes.            *)
(***************************************************************************)
InStep ==
  /\ mouse_count = devPos
  /\ \A j \in 0 .. mouse_count - 1 : ppSrc[j] = <<devPkt, j>>

OrderInv == TypeOK /\ (errors = 0 => InStep) /\ InOrderDelivery

\* The bytes of one packet, stored slot by slot, are its provenance.
LEMMA PacketSrcFill ==
  ASSUME NEW f \in [0 .. 2 -> Src], NEW k,
         f[0] = <<k, 0>>, f[1] = <<k, 1>>
  PROVE  [f EXCEPT ![2] = <<k, 2>>] = PacketSrc(k)
<1> DEFINE g == [f EXCEPT ![2] = <<k, 2>>]
<1>1. DOMAIN g = 0 .. 2 /\ DOMAIN PacketSrc(k) = 0 .. 2
  BY DEF PacketSrc
<1>2. \A i \in 0 .. 2 : g[i] = PacketSrc(k)[i]
  <2> TAKE i \in 0 .. 2
  <2>1. i = 0 \/ i = 1 \/ i = 2
    OBVIOUS
  <2>2. QED
    BY <2>1 DEF PacketSrc
<1>3. QED
  BY <1>1, <1>2 DEF PacketSrc

\* A step of the mouse while no byte is lost keeps the stream in step.
LEMMA OrderStep == OrderInv /\ [Next]_vars => OrderInv'
<1> SUFFICES ASSUME OrderInv, [Next]_vars PROVE OrderInv'
  OBVIOUS
<1> USE BoundAssumption
<1>0. TypeOK'
  BY TypeStep DEF OrderInv
<1>1. CASE UNCHANGED vars
  BY <1>0, <1>1 DEF OrderInv, InStep, InOrderDelivery, vars
<1>2. CASE MouseInterrupt
  <2> SUFFICES ASSUME devPkt < MaxPackets, DeviceAdvance,
                      NEW b \in NextByteVals, NEW st \in DeliveredStatus,
                      \/ ~is_valid_m_st(st) /\ ReadInvalid(b)
                      \/ is_valid_m_st(st) /\ \/ SyncFail(b)
                                              \/ AcceptByte0(b)
                                              \/ AcceptByte1(b)
                                              \/ AcceptByte2(b),
                      errors' = 0
               PROVE  InStep' /\ InOrderDelivery'
    BY <1>0, <1>2 DEF MouseInterrupt, OrderInv, InOrderDelivery
  <2>1. errors \in Nat /\ devPkt \in Nat /\ devPos \in 0 .. 2
        /\ ppSrc \in [0 .. 2 -> Src]
    BY DEF OrderInv, TypeOK
  <2>2. CASE ~is_valid_m_st(st) /\ ReadInvalid(b)
    BY <2>1, <2>2 DEF ReadInvalid
  <2>3. CASE SyncFail(b)
    <3>1. errors = 0
      BY <2>3 DEF SyncFail
    <3>2. devPos = 0
      BY <2>3, <3>1 DEF SyncFail, OrderInv, InStep
    <3>3. Masked(b, SYNC_BIT)
      BY <3>2, SyncAssumption DEF NextByteVals
    <3>4. QED
      BY <2>3, <3>3 DEF SyncFail
  <2>4. CASE AcceptByte0(b)
    <3>1. errors = 0 /\ devPos = 0 /\ mouse_count = 0
      BY <2>4 DEF AcceptByte0, OrderInv, InStep
    <3>2. InStep'
      BY <2>1, <2>4, <3>1 DEF AcceptByte0, DeviceAdvance, InStep
    <3>3. InOrderDelivery'
      BY <2>4, <3>1 DEF AcceptByte0, DeviceAdvance, OrderInv, InOrderDelivery
    <3>4. QED
      BY <3>2, <3>3
  <2>5. CASE AcceptByte1(b)
    <3>1. errors = 0 /\ devPos = 1 /\ mouse_count = 1 /\ ppSrc[0] = <<devPkt, 0>>
      BY <2>5 DEF AcceptByte1, OrderInv, InStep
    <3>2. InStep'
      BY <2>1, <2>5, <3>1 DEF AcceptByte1, DeviceAdvance, InStep
    <3>3. InOrderDelivery'
      BY <2>5, <3>1 DEF AcceptByte1, DeviceAdvance, OrderInv, InOrderDelivery
    <3>4. QED
      BY <3>2, <3>3
  <2>6. CASE AcceptByte2(b)
    <3> DEFINE pkt == StoreByte2(mouse_packet, b)
               src == [ppSrc EXCEPT ![2] = <<devPkt, devPos>>]
    <3>1. errors = 0 /\ devPos = 2 /\ mouse_count = 2
          /\ ppSrc[0] = <<devPkt, 0>> /\ ppSrc[1] = <<devPkt, 1>>
      BY <2>6 DEF AcceptByte2, OrderInv, InStep
    <3>2. src = PacketSrc(devPkt)
      BY <2>1, <3>1, PacketSrcFill
    <3>3. devPkt' = devPkt + 1 /\ devPos' = 0 /\ mouse_count' = 0
      BY <2>6, <3>1 DEF AcceptByte2, DeviceAdvance
    <3>4. handed' = Append(handed, [pkt |-> pkt, src |-> src])
      BY <2>6 DEF AcceptByte2
    <3>5. Len(handed) = devPkt /\ \A i \in 1 .. Len(handed) : handed[i].src = PacketSrc(i - 1)
      BY <3>1 DEF OrderInv, InOrderDelivery
    <3>6. handed \in Seq([pkt : Packet, src : [0 .. 2 -> Src]])
      BY DEF OrderInv, TypeOK
    <3>7. /\ Len(handed') = devPkt'
          /\ \A i \in 1 .. Len(handed') : handed'[i].src = PacketSrc(i - 1)
      <4>1. Len(handed') = Len(handed) + 1
        BY <3>4, <3>6
      <4>2. ASSUME NEW i \in 1 .. Len(handed') PROVE handed'[i].src = PacketSrc(i - 1)
        <5>1. CASE i \in 1 .. Len(handed)
          BY <3>4, <3>5, <3>6, <5>1
        <5>2. CASE i = Len(handed) + 1
          <6>1. handed'[i] = [pkt |-> pkt, src |-> src]
            BY <3>4, <3>6, <5>2
          <6>2. i - 1 = devPkt
            BY <3>5, <3>6, <5>2
          <6>3. handed'[i].src = PacketSrc(devPkt)
            BY <3>2, <6>1
          <6>4. QED
            BY <6>2, <6>3
        <5>3. QED
          BY <4>1, <5>1, <5>2
      <4>3. QED
        BY <3>3, <3>5, <4>1, <4>2
    <3>8. QED
      BY <3>3, <3>7 DEF InStep, InOrderDelivery
  <2>7. QED
    BY <2>2, <2>3, <2>4, <2>5, <2>6
<1>3. QED
  BY <1>1, <1>2 DEF Next

(***************************************************************************)
(* For every set of bytes and every bound: as long as the controller has  *)
(* lost no byte, mouse_state_handler receives exactly the mouse's packets, *)
(* in order, each made of the three bytes of one packet.                   *)
(***************************************************************************)
THEOREM DeliveredInOrder == Spec => []InOrderDelivery
<1>1. Init => OrderInv
  BY TypeInit DEF Init, OrderInv, InStep, InOrderDelivery
<1>2. QED
  BY <1>1, OrderStep, PTL DEF Spec, OrderInv
=============================================================================
