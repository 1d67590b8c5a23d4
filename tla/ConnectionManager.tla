------------------------- MODULE ConnectionManager -------------------------
(***************************************************************************)
(* The list of saved connections (client_connection_manager.cpp).  The     *)
(* manager keeps each connection as a row of the list, as a row number for *)
(* its pointer, as a taken name, as an entry of a JSON object, and in the  *)
(* file the JSON object is saved to.                                       *)
(*                                                                         *)
(* A ConnectionInfo is one of a few objects, which are used again once they*)
(* are deleted.  Of what it holds the model has the name and, for all the  *)
(* rest, the address.  Rows count from 1.                                  *)
(***************************************************************************)
EXTENDS AppData, Sequences, FiniteSets

CONSTANTS Names,        \* names the user gives to connections, numbers
          Addresses,    \* addresses of hosts
          MaxObjects,   \* ConnectionInfos that may exist at once
          OddEntries    \* entries a file not written by this program holds

EmptyName == 0
NoRow == 0
NoConnection == 0
ASSUME NamesAssumption == Names \subseteq Nat \ {EmptyName} 
ASSUME ObjectsAssumption ==
  MaxObjects \in Nat /\ IsFiniteSet(Names) /\ MaxObjects >= Cardinality(Names)
ASSUME EntriesAssumption ==
  /\ OddEntries \subseteq OddEntry
  /\ Addresses \cap (OddEntry \cup {NoEntry}) = {}

Objects == 1..MaxObjects
Lives == {"unused", "listed", "doomed"}
Files == [Names -> Addresses \cup OddEntries \cup {NoEntry}]
EmptyFile == [k \in Names |-> NoEntry]

VARIABLES
  up,      \* the program runs
  info,    \* info[o]: a ConnectionInfo; "doomed" has deleteLater called
  list,    \* m_connectionInfoList
  row,     \* m_connectionInfoIndexDict; NoRow is no entry
  names,   \* m_connectionNames
  active,  \* m_activeConnection
  json,    \* m_jsonSavedConnections
  disk,    \* the file
  shared,  \* history: names a second connection was given in this session
  dangling \* history: m_activeConnection was left to a deleted connection

history == <<shared, dangling>>
vars == <<up, info, list, row, names, active, json, disk, history>>

Unused == [life |-> "unused", name |-> EmptyName, address |-> NoEntry]
Doomed(i) == [i EXCEPT !.life = "doomed", !.name = EmptyName]
Listed(name, address) == [life |-> "listed", name |-> name, address |-> address]
Save(file) == disk' \in Saved(file, disk)

Init ==
  /\ up = FALSE
  /\ info = [o \in Objects |-> Unused]
  /\ list = <<>>
  /\ row = [o \in Objects |-> NoRow]
  /\ names = {}
  /\ active = NoConnection
  /\ json = EmptyFile
  /\ disk \in [Names -> OddEntries \cup {NoEntry}]
  /\ shared = {} /\ dangling = FALSE

(* readSavedConnections and initInfo, which appends in the order of keys.  *)
InOrder(keys) ==
  CHOOSE s \in [1..Cardinality(keys) -> keys] :
    \A i, j \in 1..Cardinality(keys) : i < j => s[i] < s[j]
Load ==
  LET read == WasRead(disk, {})
      n == Cardinality(read)
      name == InOrder(read)
  IN /\ ~up
     /\ up' = TRUE
     /\ info' = [o \in Objects |->
                   IF o <= n THEN Listed(name[o], disk[name[o]]) ELSE Unused]
     /\ list' = [i \in 1..n |-> i]
     /\ row' = [o \in Objects |-> IF o <= n THEN o ELSE NoRow]
     /\ names' = read
     /\ json' = Kept(disk, {})
     /\ IF Broken(disk, {}) THEN UNCHANGED disk ELSE Save(json')
     /\ UNCHANGED <<active, history>>

(* The file cannot be opened or is too large: nothing is read.             *)
LoadRefused ==
  /\ ~up
  /\ up' = TRUE
  /\ UNCHANGED <<info, list, row, names, active, json, disk, history>>

AppendRow(o) ==
  /\ list' = Append(list, o)
  /\ row' = [row EXCEPT ![o] = Len(list')]

AddAddressAsName(name, address) ==                                 \* mutant
  /\ up
  /\ \E o \in Objects :
       /\ info[o].life = "unused"
       /\ info' = [info EXCEPT ![o] = Listed(name, address)]
       /\ AppendRow(o)
  /\ names' = names \cup {address}
  /\ json' = [json EXCEPT ![name] = address]
  /\ Save(json')
  /\ shared' = IF name \in names THEN shared \cup {name} ELSE shared
  /\ UNCHANGED <<up, active, dangling>>
(* addConnection of a ConnectionInfo, which both kinds end in.             *)
Add(name, address) ==
  /\ up
  /\ \E o \in Objects :
       /\ info[o].life = "unused"
       /\ info' = [info EXCEPT ![o] = Listed(name, address)]
       /\ AppendRow(o)
  /\ names' = names \cup {name}
  /\ json' = [json EXCEPT ![name] = address]
  /\ Save(json')
  /\ shared' = IF name \in names THEN shared \cup {name} ELSE shared
  /\ UNCHANGED <<up, active, dangling>>

(* addConnection by the user's data, which refuses a name that is taken.   *)
(* A quick connection is added so with a name that is made up.             *)
AddConnection(name, address) ==
  /\ name \notin names
  /\ Add(name, address)

(* addWebDavConnection, which does not ask whether the name is taken.      *)
AddWebDavConnection(name, address) == Add(name, address)

(* takeAt, and the row numbers of the rows that are left.                  *)
Without(r) == [i \in 1..(Len(list) - 1) |-> IF i < r THEN list[i] ELSE list[i + 1]]

RowsStay(r) ==                                                     \* mutant
  /\ list' = Without(r)
  /\ row' = [row EXCEPT ![list[r]] = NoRow]
RemoveRow(r) ==
  /\ list' = Without(r)
  /\ row' = [o \in Objects |->
               IF o = list[r] THEN NoRow
               ELSE IF \E i \in DOMAIN list' : list'[i] = o
               THEN CHOOSE i \in DOMAIN list' : list'[i] = o
               ELSE row[o]]

(* The pointer to the active connection is cleared if the row is the one   *)
(* the caller says is active, which is not compared with the pointer.      *)
ActiveAfterDelete(a, r) ==
  /\ active' = IF a = r THEN NoConnection ELSE active
  /\ dangling' = (a # r /\ (dangling \/ list[r] = active))

NameIsMovedFirst(a, r) ==                                          \* mutant
  /\ up
  /\ r \in DOMAIN list
  /\ ActiveAfterDelete(a, r)
  /\ RemoveRow(r)
  /\ info' = [info EXCEPT ![list[r]] = Doomed(@)]
  /\ names' = names \ {info'[list[r]].name}
  /\ json' = [json EXCEPT ![info[list[r]].name] = NoEntry]
  /\ Save(json')
  /\ UNCHANGED <<up, shared>>

(* deleteConnection of a row.                                              *)
DeleteConnection(a, r) ==
  /\ up
  /\ r \in DOMAIN list
  /\ ActiveAfterDelete(a, r)
  /\ RemoveRow(r)
  /\ info' = [info EXCEPT ![list[r]] = Doomed(@)]
  /\ names' = names \ {info[list[r]].name}
  /\ json' = [json EXCEPT ![info[list[r]].name] = NoEntry]
  /\ Save(json')
  /\ UNCHANGED <<up, shared>>

(* The event loop deletes the ConnectionInfo.                              *)
RunDelete(o) ==
  /\ up
  /\ info[o].life = "doomed"
  /\ info' = [info EXCEPT ![o] = Unused]
  /\ UNCHANGED <<up, list, row, names, active, json, disk, history>>

(* A messenger reports a change of its connection, and updateConnection    *)
(* looks up the row: for a pointer that is not in the dictionary operator[]*)
(* inserts the first row.                                                  *)
MessengerReports(o) ==
  /\ up
  /\ info[o].life \in {"listed", "doomed"}
  /\ row' = [row EXCEPT ![o] = IF @ = NoRow THEN 1 ELSE @]
  /\ UNCHANGED <<up, info, list, names, active, json, disk, history>>

(* updateConnection of a property; for the name it is not called.          *)
UpdateConnection(r, address) ==
  /\ up
  /\ r \in DOMAIN list
  /\ info' = [info EXCEPT ![list[r]].address = address]
  /\ json' = [json EXCEPT ![info[list[r]].name] = address]
  /\ Save(json')
  /\ UNCHANGED <<up, list, row, names, active, history>>

SetActiveConnection(r) ==
  /\ up
  /\ r \in DOMAIN list
  /\ active' = list[r]
  /\ dangling' = FALSE
  /\ UNCHANGED <<up, info, list, row, names, json, disk, shared>>

(* However the program ends, its memory is gone; a crash may leave a file  *)
(* that has been emptied and not been written.                             *)
End ==
  /\ up
  /\ up' = FALSE
  /\ info' = [o \in Objects |-> Unused]
  /\ list' = <<>>
  /\ row' = [o \in Objects |-> NoRow]
  /\ names' = {}
  /\ active' = NoConnection
  /\ json' = EmptyFile
  /\ disk' \in {disk, EmptyFile}
  /\ shared' = {} /\ dangling' = FALSE

Next ==
  \/ Load \/ LoadRefused \/ End
  \/ \E name \in Names, address \in Addresses :
       AddConnection(name, address) \/ AddWebDavConnection(name, address)
  \/ \E r \in Objects :
       \/ SetActiveConnection(r)
       \/ \E a \in Objects \cup {NoRow} : DeleteConnection(a, r)
       \/ \E address \in Addresses : UpdateConnection(r, address)
  \/ \E o \in Objects : RunDelete(o) \/ MessengerReports(o)

Spec == Init /\ [][Next]_vars

----------------------------------------------------------------------------
(* Type invariant.                                                         *)
TypeOK ==
  /\ up \in BOOLEAN
  /\ info \in [Objects -> [life : Lives, name : Names \cup {EmptyName},
                           address : Addresses \cup {NoEntry}]]
  /\ list \in Seq(Objects)
  /\ row \in [Objects -> Objects \cup {NoRow}]
  /\ names \subseteq Names
  /\ active \in Objects \cup {NoConnection}
  /\ json \in Files
  /\ disk \in Files
  /\ shared \subseteq Names
  /\ dangling \in BOOLEAN

(* The dictionary gives the row of every listed connection, also after     *)
(* removals above it and after an object has been used again that a late   *)
(* report had put back into the dictionary.                                *)
RowsAreRight == \A r \in DOMAIN list : row[list[r]] = r

(* A name no two connections were given is taken exactly if a row has it,  *)
(* which is then the only one, and the JSON object has that connection as  *)
(* it is, whatever else it has taken over from a file that could only be   *)
(* read in part.  The active connection is one of the list, never a deleted*)
(* one, unless a caller of deleteConnection said another row was active.   *)
RowsOf(k) == {r \in DOMAIN list : info[list[r]].name = k}
NameAgrees(k) ==
  /\ k \in names <=> RowsOf(k) # {}
  /\ \A r \in RowsOf(k) : RowsOf(k) = {r} /\ json[k] = info[list[r]].address
CopiesAgree ==
  /\ \A k \in Names \ shared : NameAgrees(k)
  /\ dangling \/ active \in {list[r] : r \in DOMAIN list} \cup {NoConnection}
=============================================================================
