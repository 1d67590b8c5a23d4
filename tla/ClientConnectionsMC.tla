------------------------ MODULE ClientConnectionsMC ------------------------
(***************************************************************************)
(* Values for checking ClientConnections.  Nothing tells the addresses of  *)
(* hosts that are no WebDAV servers from each other.                       *)
(***************************************************************************)
EXTENDS ClientConnections, TLC

OddFiles == OddEntry
Hosts == Permutations(Addresses \ WebDavAddresses)

(* A session is followed until no name is left whose connections the       *)
(* invariants have something to say of.                                    *)
SomeNameIsGood == gone \cup shared # Names
=============================================================================
