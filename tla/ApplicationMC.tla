--------------------------- MODULE ApplicationMC ---------------------------
(* An instance of Application with ports of three bits.                    *)
EXTENDS Application, TLC

MCPortSettings == {Unset, 0, 6, 9}
MCDefaultPort == [messenger |-> 3, transport |-> 6]
Symmetry == Permutations(Instances)
=============================================================================
