--------------------------- MODULE FileTransferMC ---------------------------
(***************************************************************************)
(* Values for checking FileTransfer.                                       *)
(***************************************************************************)
EXTENDS FileTransfer, Functions, TLC

(* Save files of an earlier session: prefixes of the source, empty, one    *)
(* byte long, a chunk long, all but one byte, whole.                       *)
Prefixes == {[size |-> n, exact |-> TRUE] : n \in {0, 1, ChunkSize, FileSize}}

(* Every transport may save to every path; or each to a path of its own,   *)
(* and then transports can be exchanged together with their paths.         *)
AnyPath == Connections \X Paths
OwnPath == LET path == CHOOSE f \in [Connections -> Paths] : IsInjective(f)
           IN {<<c, path[c]>> : c \in Connections}
Exchanges ==
  {f \in Permutations(Connections \cup Paths) :
     \A choice \in OwnPath : <<f[choice[1]], f[choice[2]]>> \in OwnPath}
=============================================================================
