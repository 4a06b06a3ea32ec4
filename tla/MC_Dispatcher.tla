---------------------------- MODULE MC_Dispatcher ----------------------------
(* The dispatcher with the scancodes the handlers tell apart: the arrow-up, *)
(* arrow-down and spacebar break codes, and W's make code for any other.    *)
EXTENDS Dispatcher

MCCodes == {200, 208, 185, 17}
=============================================================================
