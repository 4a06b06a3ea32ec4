-------------------------- MODULE MC_KeyboardChannel --------------------------
(* Instances of KeyboardChannel for TLC.                                    *)
EXTENDS KeyboardChannel

\* 1-byte codes: A make (0x1E), A break (0x9E), keypad-8 make (0x48).
MCCodes == {30, 158, 72}

\* Extended codes: arrow-up make (0xE0 0x48) and break (0xE0 0xC8).
MCExtCodes == {72, 200}
=============================================================================
