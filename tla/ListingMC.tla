----------------------------- MODULE ListingMC -----------------------------
(***************************************************************************)
(* Values for checking Listing: a directory both hosts have, and one that  *)
(* only one has and whose request is too long for it.                      *)
(***************************************************************************)
EXTENDS Listing, TLC

MCDirectories == [h \in Hosts |-> IF h = "h1" THEN Paths ELSE {"p1"}]
=============================================================================
