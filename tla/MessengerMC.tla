---------------------------- MODULE MessengerMC ----------------------------
(***************************************************************************)
(* Messenger is checked with the intervals of the program, in seconds; the *)
(* configurations hold all the values.                                     *)
(***************************************************************************)
EXTENDS Messenger
=============================================================================
