------------------------- MODULE CommandProtocolProofs -------------------------
(***************************************************************************)
(* Proofs about the command protocol of CommandProtocol.tla, for every     *)
(* retry budget, set of calls, stale bytes, bytes in flight and replies.   *)
(***************************************************************************)
EXTENDS CommandProtocol, TLAPS

\* Every write of kbc_issue_cmd finds IBF clear, and sets it.
LEMMA IssueKeepsWrites ==
  ASSUME WritesNotLost, NEW port, NEW byte, NEW next,
         kbc_issue_cmd(port, byte, next)
  PROVE  WritesNotLost'
<1>1. CASE attempts > 0 /\ ~ibf /\ ibf' = TRUE /\ inPort' = port /\ inByte' = byte
           /\ written' = Append(written, <<port, byte>>)
           /\ UNCHANGED taken
  BY <1>1 DEF WritesNotLost
<1>2. CASE UNCHANGED <<ibf, inPort, inByte, taken, written>>
  BY <1>2 DEF WritesNotLost
<1>3. QED
  BY <1>1, <1>2 DEF kbc_issue_cmd, PollFails, HW

(***************************************************************************)
(* Every step preserves WritesNotLost: the program writes only to an empty *)
(* input buffer, the controller empties it by taking its byte, and no      *)
(* other step touches the input buffer or the two ghost sequences.         *)
(***************************************************************************)
LEMMA StepWrites == WritesNotLost /\ [Next]_vars => WritesNotLost'
<1> SUFFICES ASSUME WritesNotLost, [Next]_vars PROVE WritesNotLost'
  OBVIOUS
<1>1. CASE IssueD4
  BY <1>1, IssueKeepsWrites DEF IssueD4
<1>2. CASE IssueArg
  BY <1>2, IssueKeepsWrites DEF IssueArg
<1>3. CASE IssueReadCmd
  BY <1>3, IssueKeepsWrites DEF IssueReadCmd
<1>4. CASE m_read_obf_byte
  BY <1>4 DEF m_read_obf_byte, PollFails, HW, WritesNotLost
<1>5. CASE MouseCmdReturn \/ ReadCmdByte
  BY <1>5 DEF MouseCmdReturn, ReadCmdByte, HW, WritesNotLost
<1>6. CASE ControllerTake
  BY <1>6 DEF ControllerTake, WritesNotLost
<1>7. CASE ControllerDeliver
  BY <1>7 DEF ControllerDeliver, WritesNotLost
<1>8. CASE UNCHANGED vars
  BY <1>8 DEF vars, WritesNotLost
<1>9. QED
  BY <1>1, <1>2, <1>3, <1>4, <1>5, <1>6, <1>7, <1>8 DEF Next, Call

(***************************************************************************)
(* For every retry budget and however slow the controller is,             *)
(* kbc_issue_cmd never writes over a byte the controller has not taken:   *)
(* the controller takes exactly the bytes written, in order, except the   *)
(* one still in its input buffer.                                          *)
(***************************************************************************)
THEOREM NoWriteLost == Spec => []WritesNotLost
<1>1. Init => WritesNotLost
  BY DEF Init, WritesNotLost
<1>2. QED
  BY <1>1, StepWrites, PTL DEF Spec
-----------------------------------------------------------------------------
\* The bytes the calls write are bytes, and an issue keeps the type.
LEMMA IssueType ==
  ASSUME TypeOK, NEW port \in {KBC_ST_REG, KBC_OUT_BUF}, NEW byte \in Bytes,
         NEW next \in PCs, kbc_issue_cmd(port, byte, next), UNCHANGED call
  PROVE  TypeOK'
<1> USE AttemptsAssumption
<1>1. CASE /\ attempts > 0 /\ ~ibf
           /\ ibf' = TRUE /\ inPort' = port /\ inByte' = byte
           /\ written' = Append(written, <<port, byte>>)
           /\ pc' = next /\ attempts' = MaxAttempts
           /\ UNCHANGED <<obf, outByte, outAux, pending, ctrlAux, mouse_data,
                          ret, reply, taken>>
  <2>1. <<port, byte>> \in {KBC_ST_REG, KBC_OUT_BUF} \X Bytes
    OBVIOUS
  <2>2. written' \in Seq({KBC_ST_REG, KBC_OUT_BUF} \X Bytes)
    BY <1>1, <2>1 DEF TypeOK
  <2>3. QED
    BY <1>1, <2>2 DEF TypeOK
<1>2. CASE ibf /\ PollFails /\ UNCHANGED <<pc, HW, mouse_data, ret, written>>
  BY <1>2 DEF PollFails, HW, TypeOK
<1>3. CASE attempts = 0 /\ pc' = next /\ attempts' = MaxAttempts
           /\ UNCHANGED <<HW, mouse_data, ret, written>>
  BY <1>3 DEF HW, TypeOK
<1>4. QED
  BY <1>1, <1>2, <1>3 DEF kbc_issue_cmd

\* The argument of a call is a byte.
LEMMA CallByte == ASSUME TypeOK PROVE call[2] \in Bytes
<1>1. call \in ({"mouse_cmd"} \X Bytes) \cup ({"read_cmd"} \X {0})
  BY CallAssumption DEF TypeOK
<1>2. CASE call \in {"mouse_cmd"} \X Bytes
  BY <1>2
<1>3. CASE call \in {"read_cmd"} \X {0}
  BY <1>3 DEF Bytes
<1>4. QED
  BY <1>1, <1>2, <1>3

\* Every step keeps the type.
LEMMA StepType == TypeOK /\ [Next]_vars => TypeOK'
<1> SUFFICES ASSUME TypeOK, [Next]_vars PROVE TypeOK'
  OBVIOUS
<1>1. CASE IssueD4
  BY <1>1, IssueType DEF IssueD4, PCs, Bytes, WRITE_BYTE_MOUSE_CMD, KBC_ST_REG
<1>2. CASE IssueArg
  BY <1>2, IssueType, CallByte DEF IssueArg, PCs
<1>3. CASE IssueReadCmd
  BY <1>3, IssueType DEF IssueReadCmd, PCs, Bytes, KBC_READ_CMD_BYTE, KBC_ST_REG
<1>4. CASE m_read_obf_byte
  <2>1. CASE obf /\ mouse_data' = outByte /\ obf' = FALSE /\ pc' = "ret"
             /\ UNCHANGED <<call, attempts, inPort, inByte, ibf, outByte, outAux,
                            pending, ctrlAux, reply, taken, ret, written>>
    BY <2>1 DEF TypeOK, PCs
  <2>2. CASE PollFails /\ UNCHANGED <<call, pc, HW, mouse_data, ret, written>>
    BY <2>2, AttemptsAssumption DEF PollFails, HW, TypeOK
  <2>3. CASE pc' = "ret" /\ UNCHANGED <<call, attempts, HW, mouse_data, ret, written>>
    BY <2>3 DEF HW, TypeOK, PCs
  <2>4. QED
    BY <1>4, <2>1, <2>2, <2>3 DEF m_read_obf_byte
<1>5. CASE MouseCmdReturn \/ ReadCmdByte
  BY <1>5 DEF MouseCmdReturn, ReadCmdByte, HW, TypeOK, PCs
<1>6. CASE ControllerTake
  <2>1. taken' \in Seq({KBC_ST_REG, KBC_OUT_BUF} \X Bytes)
    BY <1>6 DEF ControllerTake, TypeOK
  <2>2. /\ pending' \in Seq(Bytes \X BOOLEAN)
        /\ reply' \in {NoReply} \cup Replies
    <3>1. CASE UNCHANGED <<pending, reply>>
      BY <3>1 DEF TypeOK
    <3>2. CASE pending' = Append(pending, <<Config, FALSE>>) /\ UNCHANGED reply
      <4>1. <<Config, FALSE>> \in Bytes \X BOOLEAN
        BY ByteAssumption
      <4>2. QED
        BY <3>2, <4>1 DEF TypeOK
    <3>3. CASE \E r \in Replies : pending' = Append(pending, <<r, TRUE>>) /\ reply' = r
      <4>1. PICK r \in Replies : pending' = Append(pending, <<r, TRUE>>) /\ reply' = r
        BY <3>3
      <4>2. <<r, TRUE>> \in Bytes \X BOOLEAN
        BY ByteAssumption
      <4>3. QED
        BY <4>1, <4>2 DEF TypeOK
    <3>4. QED
      BY <1>6, <3>1, <3>2, <3>3 DEF ControllerTake
  <2>3. QED
    BY <1>6, <2>1, <2>2 DEF ControllerTake, TypeOK
<1>7. CASE ControllerDeliver
  BY <1>7 DEF ControllerDeliver, TypeOK
<1>8. CASE UNCHANGED vars
  BY <1>8 DEF vars, TypeOK
<1>9. QED
  BY <1>1, <1>2, <1>3, <1>4, <1>5, <1>6, <1>7, <1>8 DEF Next, Call

\* Init is typed.
LEMMA InitType == Init => TypeOK
<1> SUFFICES ASSUME Init PROVE TypeOK
  OBVIOUS
<1>1. pc \in PCs /\ call \in Calls /\ attempts \in 0 .. MaxAttempts
  BY AttemptsAssumption DEF Init, PCs
<1>2. /\ ibf \in BOOLEAN /\ inPort \in {KBC_ST_REG, KBC_OUT_BUF} /\ inByte \in Bytes
      /\ obf \in BOOLEAN /\ outByte \in Bytes /\ outAux \in BOOLEAN
      /\ ctrlAux \in BOOLEAN /\ mouse_data \in Bytes
  <2>1. inByte \in Bytes
    BY DEF Init, Bytes
  <2>2. outByte \in Bytes /\ mouse_data \in Bytes
    <3>1. call \in Calls /\ outByte \in StaleVals[call] /\ mouse_data \in StaleVals[call]
      BY DEF Init
    <3>2. QED
      BY <3>1, ByteAssumption
  <2>3. QED
    BY <2>1, <2>2 DEF Init
<1>3. pending \in Seq(Bytes \X BOOLEAN)
  <2>1. call \in Calls /\ pending \in InFlight[call]
    BY DEF Init
  <2>2. QED
    BY <2>1, ByteAssumption
<1>4. /\ ret \in {NoReply, 0, -1} \cup Bytes /\ reply \in {NoReply} \cup Replies
      /\ written \in Seq({KBC_ST_REG, KBC_OUT_BUF} \X Bytes)
      /\ taken \in Seq({KBC_ST_REG, KBC_OUT_BUF} \X Bytes)
  BY DEF Init
<1>5. QED
  BY <1>1, <1>2, <1>3, <1>4 DEF TypeOK

(***************************************************************************)
(* For every retry budget, set of calls, stale bytes, bytes in flight and  *)
(* replies, and however slow the controller, the protocol keeps its type:  *)
(* the returns of kbc_issue_mouse_cmd and kbc_read_cmd, the bytes written  *)
(* and the bytes on their way through the controller.                      *)
(***************************************************************************)
THEOREM CmdTypeCorrect == Spec => []TypeOK
BY InitType, StepType, PTL DEF Spec

-----------------------------------------------------------------------------
(***************************************************************************)
(* The phases of one kbc_issue_mouse_cmd call with no byte in flight and  *)
(* a controller that answers within the retry budget.  Each pc has the    *)
(* controller state the call can meet there: before 0xD4 nothing; before  *)
(* the argument 0xD4 waiting or taken; waiting for the answer the         *)
(* argument waiting or the one answer on its way or in OBF; after the     *)
(* read the answer in mouse_data and nothing left.                        *)
(***************************************************************************)
Quiet == ~obf /\ pending = <<>>

CmdInBuffer ==
  /\ ibf /\ inPort = KBC_OUT_BUF /\ ctrlAux /\ Quiet /\ reply = NoReply

Answered ==
  /\ ~ibf /\ ~ctrlAux /\ reply \in Replies
  /\ \/ pending = << <<reply, TRUE>> >> /\ ~obf
     \/ pending = <<>> /\ obf /\ outByte = reply

MousePhase ==
  /\ attempts \in 1 .. MaxAttempts
  /\ pc \in {"d4", "arg", "ack", "ret", "done"}
  /\ pc = "d4" => ~ibf /\ ~ctrlAux /\ Quiet /\ reply = NoReply
  /\ pc = "arg" =>
       /\ Quiet /\ reply = NoReply
       /\ ibf => inPort = KBC_ST_REG /\ inByte = WRITE_BYTE_MOUSE_CMD /\ ~ctrlAux
       /\ ~ibf => ctrlAux
  /\ pc = "ack" => CmdInBuffer \/ Answered
  /\ pc \in {"ret", "done"} => ~ibf /\ Quiet
  /\ pc = "ret" => mouse_data = reply
  /\ pc = "done" => ret = IF reply = ACK_BYTE THEN 0 ELSE -1

AckInv == TypeOK /\ (call[1] = "mouse_cmd" => MousePhase)

\* The two ports, and the two command bytes, are distinct.
LEMMA Distinct ==
  KBC_ST_REG # KBC_OUT_BUF /\ WRITE_BYTE_MOUSE_CMD # KBC_READ_CMD_BYTE
BY DEF KBC_ST_REG, KBC_OUT_BUF, WRITE_BYTE_MOUSE_CMD, KBC_READ_CMD_BYTE

(***************************************************************************)
(* With a controller that answers in time, every step of a mouse command  *)
(* keeps its phase: a poll fails only while attempts remain, so no loop    *)
(* gives up, and the controller forwards 0xD4 and then the argument to the *)
(* mouse, whose one answer is the byte m_read_obf_byte reads.              *)
(***************************************************************************)
LEMMA MouseStep ==
  ASSUME Timely, TypeOK, call[1] = "mouse_cmd", MousePhase, [Next]_vars
  PROVE  MousePhase'
<1> USE AttemptsAssumption, Distinct
<1>1. CASE IssueD4
  BY <1>1 DEF IssueD4, kbc_issue_cmd, PollFails, HW, MousePhase, Quiet
<1>2. CASE IssueArg
  BY <1>2 DEF IssueArg, kbc_issue_cmd, PollFails, HW, MousePhase, Quiet, CmdInBuffer
<1>3. CASE m_read_obf_byte
  <2>1. pc = "ack" /\ UNCHANGED <<call, ret, written>>
    BY <1>3 DEF m_read_obf_byte
  <2>2. CASE obf /\ mouse_data' = outByte /\ obf' = FALSE /\ pc' = "ret"
             /\ UNCHANGED <<attempts, inPort, inByte, ibf, outByte, outAux, pending,
                            ctrlAux, reply, taken>>
    <3>1. ~ibf /\ pending = <<>> /\ outByte = reply
      BY <2>1, <2>2 DEF MousePhase, Quiet, CmdInBuffer, Answered
    <3>2. QED
      BY <2>1, <2>2, <3>1 DEF MousePhase, Quiet
  <2>3. CASE ~obf /\ PollFails /\ UNCHANGED <<pc, HW, mouse_data>>
    <3>1. attempts' \in 1 .. MaxAttempts
      BY <2>3 DEF PollFails, MousePhase
    <3>2. CmdInBuffer' \/ Answered'
      BY <2>1, <2>3 DEF HW, MousePhase, Quiet, CmdInBuffer, Answered
    <3>3. QED
      BY <2>1, <2>3, <3>1, <3>2 DEF HW, MousePhase
  <2>4. CASE attempts = 0
    BY <2>4 DEF MousePhase
  <2>5. QED
    BY <1>3, <2>2, <2>3, <2>4 DEF m_read_obf_byte
<1>4. CASE MouseCmdReturn
  BY <1>4 DEF MouseCmdReturn, HW, MousePhase, Quiet
<1>5. CASE IssueReadCmd \/ ReadCmdByte
  BY <1>5 DEF IssueReadCmd, ReadCmdByte, MousePhase
<1>6. CASE ControllerTake
  <2>1. ibf /\ ibf' = FALSE
        /\ UNCHANGED <<pc, call, attempts, inPort, inByte, obf, outByte, outAux,
                       mouse_data, ret, written>>
    BY <1>6 DEF ControllerTake
  <2>2. CASE pc = "arg"
    <3>1. inPort = KBC_ST_REG /\ inByte = WRITE_BYTE_MOUSE_CMD /\ Quiet
          /\ reply = NoReply
      BY <2>1, <2>2 DEF MousePhase
    <3>2. ctrlAux' = TRUE /\ UNCHANGED <<pending, reply>>
      BY <1>6, <3>1 DEF ControllerTake
    <3>3. QED
      BY <2>1, <2>2, <3>1, <3>2 DEF MousePhase, Quiet
  <2>3. CASE pc = "ack"
    <3>1. CmdInBuffer
      BY <2>1, <2>3 DEF MousePhase, Answered
    <3>2. PICK r \in Replies : pending' = Append(pending, <<r, TRUE>>) /\ reply' = r
                                /\ ctrlAux' = FALSE
      BY <1>6, <3>1 DEF ControllerTake, CmdInBuffer
    <3>3. pending' = << <<reply', TRUE>> >>
      BY <3>1, <3>2 DEF CmdInBuffer, Quiet
    <3>4. QED
      BY <2>1, <2>3, <3>1, <3>2, <3>3 DEF MousePhase, CmdInBuffer, Answered, Quiet
  <2>4. QED
    BY <2>1, <2>2, <2>3 DEF MousePhase
<1>7. CASE ControllerDeliver
  <2>1. pending # <<>> /\ ~obf /\ obf' = TRUE
        /\ outByte' = Head(pending)[1] /\ pending' = Tail(pending)
        /\ UNCHANGED <<pc, call, attempts, ibf, inPort, inByte, ctrlAux, mouse_data,
                       ret, reply>>
    BY <1>7 DEF ControllerDeliver
  <2>2. pc = "ack" /\ ~ibf /\ ~ctrlAux /\ reply \in Replies
        /\ pending = << <<reply, TRUE>> >>
    BY <2>1 DEF MousePhase, Quiet, CmdInBuffer, Answered
  <2>3. outByte' = reply /\ pending' = <<>>
    BY <2>1, <2>2
  <2>4. QED
    BY <2>1, <2>2, <2>3 DEF MousePhase, Answered
<1>8. CASE UNCHANGED vars
  BY <1>8 DEF vars, MousePhase, Quiet, CmdInBuffer, Answered
<1>9. QED
  BY <1>1, <1>2, <1>3, <1>4, <1>5, <1>6, <1>7, <1>8 DEF Next, Call

\* No step changes the call being made.
LEMMA CallFixed == [Next]_vars => call' = call
BY DEF Next, Call, vars, IssueD4, IssueArg, m_read_obf_byte, MouseCmdReturn,
       IssueReadCmd, ReadCmdByte, ControllerTake, ControllerDeliver

\* A mouse command starts at 0xD4 with the controller idle.
LEMMA InitAck ==
  ASSUME \A c \in Calls : InFlight[c] = {<<>>} PROVE Init => AckInv
<1> SUFFICES ASSUME Init PROVE AckInv
  OBVIOUS
<1>0. pending = <<>>
  <2>1. call \in Calls /\ pending \in InFlight[call]
    BY DEF Init
  <2>2. QED
    BY <2>1
<1>1. call[1] = "mouse_cmd" => MousePhase
  BY <1>0, AttemptsAssumption DEF Init, MousePhase, Quiet
<1>2. QED
  BY <1>1, InitType DEF AckInv

\* AckInv is inductive when the controller answers in time.
LEMMA StepAck == ASSUME Timely PROVE AckInv /\ [Next]_vars => AckInv'
<1> SUFFICES ASSUME AckInv, [Next]_vars PROVE AckInv'
  OBVIOUS
<1>1. TypeOK'
  BY StepType DEF AckInv
<1>2. call[1] = "mouse_cmd" => MousePhase'
  BY MouseStep DEF AckInv
<1>3. QED
  BY <1>1, <1>2, CallFixed DEF AckInv

\* When a mouse command has returned, its return and the controller are
\* as AckIsMouseAnswer says.
LEMMA AckInvAnswer == AckInv => AckIsMouseAnswer
BY DEF AckInv, MousePhase, Quiet, AckIsMouseAnswer, ACK_BYTE

(***************************************************************************)
(* For every retry budget, set of mouse commands, stale mouse_data and set *)
(* of replies: when nothing is on its way to the output buffer as any call *)
(* starts and the controller answers within the retry budget,             *)
(* kbc_issue_mouse_cmd returns 0 exactly when the mouse acknowledged the  *)
(* command, and leaves nothing in the controller.                          *)
(***************************************************************************)
THEOREM AckAnswered ==
  ASSUME Timely, \A c \in Calls : InFlight[c] = {<<>>}
  PROVE  Spec => []AckIsMouseAnswer
<1>1. Init => AckInv
  BY InitAck
<1>2. AckInv /\ [Next]_vars => AckInv'
  BY StepAck
<1>3. QED
  BY <1>1, <1>2, AckInvAnswer, PTL DEF Spec

=============================================================================
