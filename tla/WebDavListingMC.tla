-------------------------- MODULE WebDavListingMC --------------------------
(* An instance of WebDavListing whose faulty server writes paths without a *)
(* slash, the style in which a fault can touch what is not its own.        *)
EXTENDS WebDavListing

MCFaultyStyles ==
  {[url |-> FALSE, slash |-> FALSE, missingFirst |-> TRUE, selfFirst |-> FALSE]}
=============================================================================
