-------------------------- MODULE MessageSocketMC --------------------------
(* An instance of MessageSocket with bytes of four values, two in a header,*)
(* and messages up to the longest whose size an int can tell.              *)
EXTENDS MessageSocket

MCMessages == {<<>>, <<1>>, <<0, 1>>, <<1, 0, 3, 0, 2>>}
=============================================================================
