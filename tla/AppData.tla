------------------------------ MODULE AppData ------------------------------
(***************************************************************************)
(* The files in which the managers keep their lists (manager_utils.cpp).   *)
(* A file is a function from the keys, which are numbers, ordered as       *)
(* QJsonObject::keys orders them, to entries.  What an entry is matters to *)
(* its manager only, except for the odd ones of files that the program has *)
(* not written itself.                                                     *)
(***************************************************************************)
EXTENDS Integers

NoEntry == "absent"
OddEntry == {"incomplete", "not an object"}

Emptied(file) == [k \in DOMAIN file |-> NoEntry]

(* rewriteAppDataFile: the whole file, unless it cannot be opened or, once *)
(* it has been emptied, cannot be written.                                 *)
Saved(file, old) == {file, old, Emptied(file)}

(* readAppData goes through the keys in order.  It stops at the first entry*)
(* that is not a whole object or that its manager is done with, and drops  *)
(* that entry unless it is no object at all; the entries behind it stay as *)
(* they are.                                                               *)
Stops(file, done) == {k \in DOMAIN file : file[k] \in OddEntry \cup done}
IsFirstStop(file, done, k) ==
  k \in Stops(file, done) /\ \A s \in Stops(file, done) : k <= s
WasRead(file, done) ==
  {k \in DOMAIN file : file[k] # NoEntry /\ \A s \in Stops(file, done) : k < s}
Broken(file, done) ==
  \E k \in DOMAIN file : IsFirstStop(file, done, k) /\ file[k] = "not an object"
Kept(file, done) ==
  [k \in DOMAIN file |->
     IF IsFirstStop(file, done, k) /\ ~Broken(file, done) THEN NoEntry ELSE file[k]]
=============================================================================
