--------------------------- MODULE CommandProtocol ---------------------------
(***************************************************************************)
(* The controller and mouse command protocol of the i8042 driver:          *)
(* kbc_issue_cmd and kbc_read_cmd (src/proj/src/device/keyboard.c 50-76),  *)
(* kbc_issue_mouse_cmd and m_read_obf_byte (mouse.c 73-96, 174-182).       *)
(*                                                                         *)
(* One call runs against the controller: each poll of the status register  *)
(* is a step, and between two polls the controller may take the byte in    *)
(* its input buffer, forward it to the mouse or the keyboard, and put a     *)
(* byte in its output buffer.  proj.c issues the mouse commands before it  *)
(* subscribes the interrupts and after it unsubscribes them, so no handler *)
(* runs during the call.                                                   *)
(***************************************************************************)
EXTENDS Integers, Sequences

CONSTANTS
  MaxAttempts,  \* attempts = 10 in kbc_issue_cmd and m_read_obf_byte
  Calls,        \* the calls made: <<"mouse_cmd", cmd>> or <<"read_cmd", 0>>
  StaleVals,    \* per call: values mouse_data may hold when it starts
  InFlight,     \* per call: bytes already on their way to the output buffer
  Replies,      \* bytes the mouse may answer a command with
  Config,       \* the controller's command byte
  Timely        \* the hardware answers within the retry budget

Bytes == 0 .. 255
KBC_ST_REG == 100            \* 0x64, also KBC_CMD_REG
KBC_OUT_BUF == 96            \* 0x60, also KBC_IN_BUF
KBC_READ_CMD_BYTE == 32      \* 0x20
WRITE_BYTE_MOUSE_CMD == 212  \* 0xD4
ACK_BYTE == 250              \* 0xFA
NACK_BYTE == 254             \* 0xFE

ASSUME AttemptsAssumption == MaxAttempts \in Nat \ {0}
ASSUME CallAssumption ==
  Calls \subseteq ({"mouse_cmd"} \X Bytes) \cup ({"read_cmd"} \X {0})
ASSUME ByteAssumption ==
  /\ \A c \in Calls : StaleVals[c] \subseteq Bytes
  /\ \A c \in Calls : InFlight[c] \subseteq Seq(Bytes \X BOOLEAN)
  /\ Replies \subseteq Bytes /\ Config \in Bytes
  /\ Replies # {}
ASSUME TimelyAssumption == Timely \in BOOLEAN

NoReply == -1

VARIABLES
  pc,          \* where the call is: "d4", "arg", "ack", "ret", "rc", "rcread", "done"
  call,        \* the call being made
  attempts,    \* the local attempts of the polling loop running
  ibf,         \* status IBF: the input buffer holds a byte
  inPort,      \* port the byte in the input buffer was written to
  inByte,      \* the byte in the input buffer
  obf,         \* status OBF: the output buffer holds a byte
  outByte,     \* the output buffer (its last byte when OBF is clear)
  outAux,      \* status AUX of that byte: it came from the mouse
  pending,     \* bytes on their way to the output buffer, with their AUX
  ctrlAux,     \* the controller took 0xD4: its next data byte is the mouse's
  mouse_data,  \* global mouse_data
  ret,         \* what the call returned
  reply,       \* ghost: the mouse's answer to the command, or NoReply
  written,     \* ghost: <<port, byte>> written to the controller, in order
  taken        \* ghost: the writes the controller took, in order

vars == <<pc, call, attempts, ibf, inPort, inByte, obf, outByte, outAux,
          pending, ctrlAux, mouse_data, ret, reply, written, taken>>

Init ==
  /\ call \in Calls
  /\ pc = IF call[1] = "mouse_cmd" THEN "d4" ELSE "rc"
  /\ attempts = MaxAttempts
  /\ ibf = FALSE /\ inPort = KBC_OUT_BUF /\ inByte = 0
  /\ obf = FALSE /\ outByte \in StaleVals[call] /\ outAux = FALSE
  /\ pending \in InFlight[call]
  /\ ctrlAux = FALSE
  /\ mouse_data \in StaleVals[call]
  /\ ret = NoReply
  /\ reply = NoReply
  /\ written = <<>> /\ taken = <<>>

HW == <<ibf, inPort, inByte, obf, outByte, outAux, pending, ctrlAux, reply, taken>>

-----------------------------------------------------------------------------
\* Mutant of PollFails: the loop runs while attempts >= 0.
PollFailsOffByOne ==
  /\ attempts >= 0
  /\ Timely => attempts > 1
  /\ attempts' = attempts - 1

(* A poll that finds the register not ready; with Timely hardware the     *)
(* last attempt never does.                                                *)
PollFails ==
  /\ attempts > 0
  /\ Timely => attempts > 1
  /\ attempts' = attempts - 1

\* Mutant of kbc_issue_cmd: the byte written without looking at IBF.
kbc_issue_cmdNoWait(port, byte, next) ==
  /\ attempts > 0
  /\ ibf' = TRUE /\ inPort' = port /\ inByte' = byte
  /\ written' = Append(written, <<port, byte>>)
  /\ pc' = next /\ attempts' = MaxAttempts
  /\ UNCHANGED <<obf, outByte, outAux, pending, ctrlAux, mouse_data, ret,
                 reply, taken>>

(* kbc_issue_cmd(port, byte), one attempt: write when IBF is clear, else   *)
(* tickdelay and try again; after the last attempt return -1, which both   *)
(* callers ignore.  The call goes on at next either way.                   *)
kbc_issue_cmd(port, byte, next) ==
  \/ /\ attempts > 0
     /\ ~ibf
     /\ ibf' = TRUE /\ inPort' = port /\ inByte' = byte
     /\ written' = Append(written, <<port, byte>>)
     /\ pc' = next /\ attempts' = MaxAttempts
     /\ UNCHANGED <<obf, outByte, outAux, pending, ctrlAux, mouse_data, ret,
                    reply, taken>>
  \/ /\ ibf
     /\ PollFails
     /\ UNCHANGED <<pc, HW, mouse_data, ret, written>>
  \/ /\ attempts = 0
     /\ pc' = next /\ attempts' = MaxAttempts
     /\ UNCHANGED <<HW, mouse_data, ret, written>>

(* m_read_obf_byte, one attempt: when OBF is set read the byte into        *)
(* mouse_data (whatever its status; is_valid_m_st only changes the return  *)
(* value, which kbc_issue_mouse_cmd ignores), else tickdelay; after the    *)
(* last attempt give up with mouse_data as it was.                         *)
m_read_obf_byte ==
  /\ pc = "ack"
  /\ \/ /\ attempts > 0
        /\ obf
        /\ mouse_data' = outByte /\ obf' = FALSE
        /\ pc' = "ret"
        /\ UNCHANGED <<attempts, inPort, inByte, ibf, outByte, outAux, pending,
                       ctrlAux, reply, taken>>
     \/ /\ ~obf
        /\ PollFails
        /\ UNCHANGED <<pc, HW, mouse_data>>
     \/ /\ attempts = 0
        /\ pc' = "ret"
        /\ UNCHANGED <<attempts, HW, mouse_data>>
  /\ UNCHANGED <<call, ret, written>>

(* kbc_issue_mouse_cmd: 0xD4 to the command register, cmd to the input     *)
(* buffer, one read, success iff mouse_data is the ACK.                    *)
IssueD4 ==
  /\ pc = "d4"
  /\ kbc_issue_cmd(KBC_ST_REG, WRITE_BYTE_MOUSE_CMD, "arg")
  /\ UNCHANGED call

IssueArg ==
  /\ pc = "arg"
  /\ kbc_issue_cmd(KBC_OUT_BUF, call[2], "ack")
  /\ UNCHANGED call

\* Mutant of MouseCmdReturn: anything but a NACK taken for success.
MouseCmdReturnNotNack ==
  /\ pc = "ret"
  /\ ret' = IF mouse_data # NACK_BYTE THEN 0 ELSE -1
  /\ pc' = "done"
  /\ UNCHANGED <<call, attempts, HW, mouse_data, reply, written>>

MouseCmdReturn ==
  /\ pc = "ret"
  /\ ret' = IF mouse_data = ACK_BYTE THEN 0 ELSE -1
  /\ pc' = "done"
  /\ UNCHANGED <<call, attempts, HW, mouse_data, reply, written>>

(* kbc_read_cmd: 0x20 to the command register, then one read of the       *)
(* output buffer with no wait for OBF.                                     *)
IssueReadCmd ==
  /\ pc = "rc"
  /\ kbc_issue_cmd(KBC_ST_REG, KBC_READ_CMD_BYTE, "rcread")
  /\ UNCHANGED call

ReadCmdByte ==
  /\ pc = "rcread"
  /\ ret' = outByte /\ obf' = FALSE
  /\ pc' = "done"
  /\ UNCHANGED <<call, attempts, ibf, inPort, inByte, outByte, outAux, pending,
                 ctrlAux, mouse_data, reply, written, taken>>

-----------------------------------------------------------------------------
(* The controller takes the byte in its input buffer.  0xD4 on the command *)
(* register routes the next data byte to the mouse, which answers it; 0x20 *)
(* makes it send its command byte.  A data byte with no 0xD4 before it     *)
(* would go to the keyboard; these calls never write one.                  *)
ControllerTake ==
  /\ ibf
  /\ ibf' = FALSE
  /\ taken' = Append(taken, <<inPort, inByte>>)
  /\ \/ /\ inPort = KBC_ST_REG /\ inByte = WRITE_BYTE_MOUSE_CMD
        /\ ctrlAux' = TRUE
        /\ UNCHANGED <<pending, reply>>
     \/ /\ inPort = KBC_ST_REG /\ inByte = KBC_READ_CMD_BYTE
        /\ pending' = Append(pending, <<Config, FALSE>>)
        /\ UNCHANGED <<ctrlAux, reply>>
     \/ /\ inPort = KBC_OUT_BUF /\ ctrlAux
        /\ \E r \in Replies : pending' = Append(pending, <<r, TRUE>>) /\ reply' = r
        /\ ctrlAux' = FALSE
  /\ UNCHANGED <<pc, call, attempts, inPort, inByte, obf, outByte, outAux,
                 mouse_data, ret, written>>

(* The next byte on its way reaches the empty output buffer.               *)
ControllerDeliver ==
  /\ pending # <<>> /\ ~obf
  /\ obf' = TRUE
  /\ outByte' = Head(pending)[1] /\ outAux' = Head(pending)[2]
  /\ pending' = Tail(pending)
  /\ UNCHANGED <<pc, call, attempts, ibf, inPort, inByte, ctrlAux, mouse_data,
                 ret, reply, written, taken>>

Call == IssueD4 \/ IssueArg \/ m_read_obf_byte \/ MouseCmdReturn
          \/ IssueReadCmd \/ ReadCmdByte

Next == Call \/ ControllerTake \/ ControllerDeliver

Spec == Init /\ [][Next]_vars

-----------------------------------------------------------------------------
PCs == {"d4", "arg", "ack", "ret", "rc", "rcread", "done"}

TypeOK ==
  /\ pc \in PCs
  /\ call \in Calls
  /\ attempts \in 0 .. MaxAttempts
  /\ ibf \in BOOLEAN /\ inPort \in {KBC_ST_REG, KBC_OUT_BUF} /\ inByte \in Bytes
  /\ obf \in BOOLEAN /\ outByte \in Bytes /\ outAux \in BOOLEAN
  /\ pending \in Seq(Bytes \X BOOLEAN)
  /\ ctrlAux \in BOOLEAN
  /\ mouse_data \in Bytes
  /\ ret \in {NoReply, 0, -1} \cup Bytes
  /\ reply \in {NoReply} \cup Replies
  /\ written \in Seq({KBC_ST_REG, KBC_OUT_BUF} \X Bytes)
  /\ taken \in Seq({KBC_ST_REG, KBC_OUT_BUF} \X Bytes)

(***************************************************************************)
(* kbc_issue_cmd writes only when IBF is clear, so however slow the        *)
(* controller is no byte is written over one it has not taken: it takes    *)
(* exactly the bytes written, in order, all but the one still in its input *)
(* buffer (spec 8: a timed-out issue performs no write).                   *)
(***************************************************************************)
WritesNotLost ==
  written = IF ibf THEN Append(taken, <<inPort, inByte>>) ELSE taken

(***************************************************************************)
(* Spec 4.4: kbc_issue_mouse_cmd succeeds iff the byte it reads after the  *)
(* two writes is the ACK -- that byte being the mouse's answer: when the   *)
(* call has returned, it returned 0 exactly when the mouse acknowledged,   *)
(* and the answer is not left behind in the controller.                    *)
(***************************************************************************)
AckIsMouseAnswer ==
  (pc = "done" /\ call[1] = "mouse_cmd") =>
    /\ ret = 0 <=> reply = ACK_BYTE
    /\ ~obf /\ pending = <<>>

=============================================================================
