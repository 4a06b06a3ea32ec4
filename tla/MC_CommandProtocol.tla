-------------------------- MODULE MC_CommandProtocol --------------------------
(* Instances of CommandProtocol: ENABLE_DATA_REPORT at start-up, when       *)
(* mouse_data is still 0, DISABLE_DATA_REPORT at shut-down, when it holds   *)
(* the last byte of a packet; the mouse answers ACK, NACK or ERROR.         *)
EXTENDS CommandProtocol

MCMouseCalls == {<<"mouse_cmd", 244>>, <<"mouse_cmd", 245>>}
MCReadCall == {<<"read_cmd", 0>>}
MCAllCalls == MCMouseCalls \cup MCReadCall
\* mouse_data is 0 at start-up (ENABLE_DATA_REPORT, 0xF4); at shut-down
\* (DISABLE_DATA_REPORT, 0xF5) it holds the last packet byte, which may be
\* 0xFA like any byte of movement.
MCStaleVals == [c \in MCAllCalls |-> IF c[2] = 244 THEN {0} ELSE {9}]
MCStaleAck == [c \in MCAllCalls |-> IF c[2] = 244 THEN {0} ELSE {9, 250}]
MCReplies == {250, 254, 252}
\* Nothing in flight when the call starts.
MCQuiet == [c \in MCAllCalls |-> {<<>>}]
\* At start-up, the release (0x9C) of the Enter key that launched the
\* program; at shut-down, a byte of a packet the mouse was still sending.
\* kbc_read_cmd is never called; it may meet either.
MCKeyRelease == << <<156, FALSE>> >>
MCPacketByte == << <<8, TRUE>> >>
MCTraffic == [c \in MCAllCalls |->
               CASE c[2] = 244 -> {<<>>, MCKeyRelease}
                 [] c[2] = 245 -> {<<>>, MCPacketByte}
                 [] OTHER      -> {<<>>, MCKeyRelease, MCPacketByte}]
=============================================================================
