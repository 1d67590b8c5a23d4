---------------------- MODULE ClientConnections_proofs ----------------------
(***************************************************************************)
(* Proofs about ConnectionManager and ClientConnections for every set of   *)
(* names, addresses and odd entries and every number of objects: the types,*)
(* the row numbers, the agreement of the manager's copies, and that a      *)
(* connection's messenger is its own.                                      *)
(***************************************************************************)
EXTENDS ClientConnections, FiniteSetTheorems, TLAPS

----------------------------------------------------------------------------
(* The inductive invariant of the list.  Its rows are of listed objects,   *)
(* which the row numbers make different, and of names that were given.     *)
Infos == [life : Lives, name : Names \cup {EmptyName}, address : Addresses \cup {NoEntry}]
Entries == Addresses \cup OddEntries \cup {NoEntry}

RowsAreListed == \A r \in DOMAIN list : info[list[r]].life = "listed"
RowsAreNamed ==
  \A r \in DOMAIN list : info[list[r]].name \in Names /\ info[list[r]].address \in Addresses
MemoryIsGone == ~up => list = <<>> /\ names = {} /\ active = NoConnection

ListInv == TypeOK /\ RowsAreRight /\ RowsAreListed /\ RowsAreNamed /\ MemoryIsGone

(* The inductive invariant of the copies, for each name on its own.        *)
NameAt(r) == info[list[r]].name
NamesDiffer ==
  \A r, s \in DOMAIN list : NameAt(r) \notin shared /\ NameAt(r) = NameAt(s) => r = s
NamesAreOfRows ==
  \A k \in Names \ shared : k \in names <=> \E r \in DOMAIN list : NameAt(r) = k
ActiveIsListed ==
  dangling \/ active \in {list[r] : r \in DOMAIN list} \cup {NoConnection}
JsonHasRows ==
  \A r \in DOMAIN list : NameAt(r) \notin shared => json[NameAt(r)] = info[list[r]].address

CopiesInv == NamesDiffer /\ NamesAreOfRows /\ ActiveIsListed /\ JsonHasRows

(* The inductive invariant of the messengers.  Under a name that no removed*)
(* connection has had, and no second one was given, there is a messenger of*)
(* one kind at most, that of the row with the name.                        *)
Followed == Names \ (gone \cup shared)
MessengerTypes ==
  /\ websocket \in [Names -> Objects \cup {NoConnection}]
  /\ webDav \in [Names -> Objects \cup {NoConnection}]
  /\ gone \subseteq Names
SessionIsGone == ~up => websocket = NoMessengers /\ webDav = NoMessengers /\ gone = {}
IsOfRow(o, k) == \E r \in DOMAIN list : list[r] = o /\ NameAt(r) = k
WebsocketsAreOfRows ==
  \A k \in Followed :
    websocket[k] # NoConnection => IsOfRow(websocket[k], k) /\ ~IsWebDav(websocket[k])
WebDavsAreOfRows ==
  \A k \in Followed :
    webDav[k] # NoConnection => IsOfRow(webDav[k], k) /\ IsWebDav(webDav[k])
ActiveHasOwn ==
  ~dangling => \A r \in DOMAIN list :
    list[r] = active /\ NameAt(r) \in Followed
      => active = IF IsWebDav(active) THEN webDav[NameAt(r)] ELSE websocket[NameAt(r)]

MessengersInv ==
  MessengerTypes /\ SessionIsGone /\ WebsocketsAreOfRows /\ WebDavsAreOfRows /\ ActiveHasOwn

----------------------------------------------------------------------------
(* Facts about sequences and finite sets of numbers.                       *)

LEMMA FunctionIsSeq ==
  ASSUME NEW S, NEW n \in Nat, NEW f \in [1..n -> S]
  PROVE  f \in Seq(S) /\ Len(f) = n /\ DOMAIN f = 1..n
OBVIOUS

LEMMA Counted ==
  ASSUME NEW n \in Nat
  PROVE  IsFiniteSet(1..n) /\ Cardinality(1..n) = n
BY FS_Interval

LEMMA InjectionIsOnto ==
  ASSUME NEW S, NEW T, IsFiniteSet(T), Cardinality(S) = Cardinality(T),
         NEW f \in Injection(S, T)
  PROVE  f \in Surjection(S, T)
BY FS_Injection, Zenon

(* The elements of a finite set of numbers in their order.                 *)
LEMMA OrderExists ==
  ASSUME NEW S, IsFiniteSet(S), S \subseteq Nat
  PROVE  \E s \in [1..Cardinality(S) -> S] :
           \A i, j \in 1..Cardinality(S) : i < j => s[i] < s[j]
PROOF
  <1> DEFINE Upto(k) == {j \in S : j <= k}
             n == Cardinality(S)
             rank == [k \in S |-> Cardinality(Upto(k))]
  <1>1. n \in Nat
    BY FS_CardinalityType
  <1>2. \A k \in S : /\ IsFiniteSet(Upto(k))
                     /\ Cardinality(Upto(k)) \in Nat /\ Cardinality(Upto(k)) <= n
    BY FS_Subset, FS_CardinalityType
  <1>3. ASSUME NEW j \in S, NEW k \in S, j < k
        PROVE  rank[j] < rank[k]
    <2>1. \A m \in Nat : m <= j => m <= k
      BY <1>3
    <2>2. Upto(j) \in SUBSET Upto(k)
      BY <2>1
    <2>3. k \in Upto(k) /\ k \notin Upto(j)
      BY <1>3
    <2>4. Upto(j) # Upto(k)
      BY <2>3
    <2>5. /\ Cardinality(Upto(j)) <= Cardinality(Upto(k))
          /\ Cardinality(Upto(j)) # Cardinality(Upto(k))
      BY <1>2, <2>2, <2>4, FS_Subset
    <2> QED BY <1>2, <2>5
  <1>4. ASSUME NEW k \in S PROVE rank[k] \in 1..n
    <2>1. Upto(k) # {}
      OBVIOUS
    <2>2. Cardinality(Upto(k)) # 0
      BY <1>2, <2>1, FS_EmptySet
    <2> QED BY <1>1, <1>2, <2>2
  <1>5. rank \in [S -> 1..n]
    BY <1>4
  <1> HIDE DEF rank
  <1>6. rank \in Injection(S, 1..n)
    <2>1. \A j, k \in S : rank[j] = rank[k] => j = k
      <3> SUFFICES ASSUME NEW j \in S, NEW k \in S, rank[j] = rank[k] PROVE j = k
        OBVIOUS
      <3>1. rank[j] \in Nat /\ rank[k] \in Nat /\ j \in Nat /\ k \in Nat
        BY <1>5
      <3> QED BY <1>3, <3>1
    <2> QED BY <1>5, <2>1 DEF Injection, IsInjective
  <1>7. IsFiniteSet(1..n) /\ Cardinality(1..n) = n
    BY <1>1, Counted
  <1>8. rank \in Surjection(S, 1..n)
    BY <1>6, <1>7, InjectionIsOnto
  <1>9. \A i \in 1..n : \E k \in S : rank[k] = i
    BY <1>8 DEF Surjection
  <1> DEFINE s == [i \in 1..n |-> CHOOSE k \in S : rank[k] = i]
  <1>10. \A i \in 1..n : s[i] \in S /\ rank[s[i]] = i
    BY <1>9
  <1>11. ASSUME NEW i \in 1..n, NEW j \in 1..n, i < j
         PROVE  s[i] < s[j]
    <2> HIDE DEF s
    <2>1. /\ s[i] \in S /\ s[j] \in S /\ s[i] \in Nat /\ s[j] \in Nat
          /\ rank[s[i]] = i /\ rank[s[j]] = j
      BY <1>10
    <2>2. ~(s[j] < s[i])
      BY <2>1, <1>3, <1>11
    <2>3. s[i] # s[j]
      BY <2>1, <1>11
    <2> QED BY <2>1, <2>2, <2>3
  <1> QED BY <1>10, <1>11

(* InOrder goes through every key once.                                    *)
LEMMA InOrderEnumerates ==
  ASSUME NEW keys, IsFiniteSet(keys), keys \subseteq Nat
  PROVE  /\ InOrder(keys) \in [1..Cardinality(keys) -> keys]
         /\ \A i, j \in 1..Cardinality(keys) : InOrder(keys)[i] = InOrder(keys)[j] => i = j
         /\ keys = {InOrder(keys)[i] : i \in 1..Cardinality(keys)}
PROOF
  <1> DEFINE n == Cardinality(keys)
             s == InOrder(keys)
  <1>1. n \in Nat
    BY FS_CardinalityType
  <1>2. s \in [1..n -> keys] /\ \A i, j \in 1..n : i < j => s[i] < s[j]
    BY OrderExists DEF InOrder
  <1> HIDE DEF s
  <1>3. ASSUME NEW i \in 1..n, NEW j \in 1..n, s[i] = s[j] PROVE i = j
    <2>1. s[i] \in keys /\ s[j] \in keys
      BY <1>2
    <2>2. s[i] \in Nat
      BY <2>1
    <2>3. i \in Nat /\ j \in Nat
      BY <1>1
    <2>4. ~(i < j) /\ ~(j < i)
      BY <2>2, <1>2, <1>3
    <2> QED BY <2>3, <2>4
  <1>4. s \in Injection(1..n, keys)
    BY <1>2, <1>3 DEF Injection, IsInjective
  <1>5. IsFiniteSet(1..n) /\ Cardinality(1..n) = n
    BY <1>1, Counted
  <1>6. s \in Surjection(1..n, keys)
    BY <1>4, <1>5, InjectionIsOnto, Zenon
  <1>7. \A k \in keys : \E i \in 1..n : s[i] = k
    BY <1>6 DEF Surjection
  <1>8. keys = {s[i] : i \in 1..n}
    BY <1>2, <1>7
  <1> QED BY <1>2, <1>3, <1>8 DEF s

----------------------------------------------------------------------------
(* Facts about the manager's operators.                                    *)

LEMMA ConstantTypes ==
  /\ IsFiniteSet(Names) /\ Names \subseteq Nat \ {0}
  /\ MaxObjects \in Nat /\ Cardinality(Names) <= MaxObjects
  /\ OddEntries \subseteq OddEntry /\ NoEntry \notin Addresses
  /\ \A a \in Addresses : a \notin OddEntry
BY NamesAssumption, ObjectsAssumption, EntriesAssumption DEF EmptyName

LEMMA FileTypes ==
  /\ EmptyFile \in Files
  /\ \A file, old \in Files : Saved(file, old) \subseteq Files
BY DEF EmptyFile, Files, Saved, Emptied

LEMMA InfoTypes ==
  /\ Unused \in Infos
  /\ \A i \in Infos : Doomed(i) \in Infos /\ Doomed(i).life = "doomed"
  /\ \A name \in Names, address \in Addresses :
       /\ Listed(name, address) \in Infos
       /\ Listed(name, address).life = "listed"
       /\ Listed(name, address).name = name
       /\ Listed(name, address).address = address
BY DEF Unused, Doomed, Listed, Infos, Lives

(* What is read of a file are names with addresses, and the JSON object    *)
(* keeps them.                                                             *)
LEMMA ReadEntries ==
  ASSUME NEW file \in Files
  PROVE  /\ WasRead(file, {}) \subseteq Names
         /\ Kept(file, {}) \in Files
         /\ \A k \in WasRead(file, {}) : /\ file[k] \in Addresses
                                       /\ Kept(file, {})[k] = file[k]
PROOF
  <1>1. file \in [Names -> Entries] /\ DOMAIN file = Names
    BY DEF Files, Entries
  <1>2. WasRead(file, {}) \subseteq Names
    BY <1>1 DEF WasRead
  <1>3. Kept(file, {}) \in [Names -> Entries]
    BY <1>1 DEF Kept, Entries
  <1>4. ASSUME NEW k \in WasRead(file, {})
        PROVE  file[k] \in Addresses /\ Kept(file, {})[k] = file[k]
    <2>1. k \in Names /\ k \in Nat /\ file[k] # NoEntry
      BY <1>1, ConstantTypes DEF WasRead
    <2>2. k \notin Stops(file, {})
      BY <2>1 DEF WasRead
    <2>3. file[k] \notin OddEntry
      BY <1>1, <2>1, <2>2 DEF Stops
    <2>4. ~IsFirstStop(file, {}, k)
      BY <2>2 DEF IsFirstStop
    <2> QED BY <1>1, <2>1, <2>3, <2>4, ConstantTypes DEF Kept, Entries
  <1> QED BY <1>2, <1>3, <1>4 DEF Files, Entries

(* Rows are numbers of objects, and no two rows are of one object.         *)
LEMMA RowFacts ==
  ASSUME ListInv
  PROVE  /\ Len(list) \in Nat /\ DOMAIN list = 1..Len(list)
         /\ info \in [Objects -> Infos]
         /\ json \in Files /\ disk \in Files
         /\ \A r \in DOMAIN list : /\ r \in Objects /\ list[r] \in Objects
                                 /\ info[list[r]] \in Infos
                                 /\ NameAt(r) \in Names
         /\ \A r, s \in DOMAIN list : list[r] = list[s] => r = s
PROOF
  <1>1. Len(list) \in Nat /\ DOMAIN list = 1..Len(list) /\ \A r \in DOMAIN list : list[r] \in Objects
    BY DEF ListInv, TypeOK
  <1>2. info \in [Objects -> Infos] /\ json \in Files /\ disk \in Files
    BY DEF ListInv, TypeOK, Infos
  <1>3. \A r, s \in DOMAIN list : list[r] = list[s] => r = s
    BY DEF ListInv, RowsAreRight
  <1>4. \A r \in DOMAIN list : r \in Objects
    <2> SUFFICES ASSUME NEW r \in DOMAIN list PROVE r \in Objects
      OBVIOUS
    <2>1. row[list[r]] = r /\ row[list[r]] \in Objects \cup {NoRow} /\ r \in 1..Len(list)
      BY <1>1 DEF ListInv, RowsAreRight, TypeOK
    <2> QED BY <1>1, <2>1 DEF NoRow
  <1> QED BY <1>1, <1>2, <1>3, <1>4 DEF ListInv, RowsAreNamed, NameAt

(* An unused object has a row to go to.                                    *)
LEMMA RoomForOneMore ==
  ASSUME ListInv, NEW o \in Objects, info[o].life = "unused"
  PROVE  Len(list) + 1 \in Objects
PROOF
  <1> DEFINE n == Len(list)
             T == Objects \ {o}
  <1>1. n \in Nat /\ MaxObjects \in Nat
    BY RowFacts, ConstantTypes
  <1>2. \A r \in 1..n : list[r] \in Objects /\ list[r] # o
    BY RowFacts DEF ListInv, RowsAreListed
  <1>3. \A r, s \in 1..n : list[r] = list[s] => r = s
    BY RowFacts
  <1>4. DOMAIN list = 1..n /\ list \in [1..n -> Objects]
    BY RowFacts DEF ListInv, TypeOK
  <1>5. list \in [1..n -> T]
    BY <1>2, <1>4
  <1>6. list \in Injection(1..n, T)
    BY <1>3, <1>5 DEF Injection, IsInjective
  <1>7. IsFiniteSet(Objects) /\ Cardinality(Objects) = MaxObjects
    BY <1>1, Counted DEF Objects
  <1>8. IsFiniteSet(T) /\ Cardinality(T) = MaxObjects - 1
    BY <1>7, FS_RemoveElement
  <1>9. IsFiniteSet(1..n) /\ Cardinality(1..n) = n
    BY <1>1, Counted
  <1>10. Cardinality(1..n) <= Cardinality(T)
    BY <1>6, <1>8, FS_Injection, Zenon
  <1> QED BY <1>1, <1>8, <1>9, <1>10 DEF Objects

(* What appending an object to the list leaves.                            *)
LEMMA RowIsAppended ==
  ASSUME ListInv, NEW o \in Objects, info[o].life = "unused", AppendRow(o)
  PROVE  /\ list' \in Seq(Objects)
         /\ row' \in [Objects -> Objects \cup {NoRow}]
         /\ Len(list') = Len(list) + 1
         /\ DOMAIN list' = DOMAIN list \cup {Len(list) + 1}
         /\ Len(list) + 1 \notin DOMAIN list
         /\ \A r \in DOMAIN list : list'[r] = list[r] /\ list'[r] # o
         /\ list'[Len(list) + 1] = o
         /\ \A r \in DOMAIN list' : row'[list'[r]] = r
PROOF
  <1>1. list \in Seq(Objects) /\ row \in [Objects -> Objects \cup {NoRow}]
    BY DEF ListInv, TypeOK
  <1>2. Len(list) \in Nat /\ DOMAIN list = 1..Len(list) /\ Len(list) + 1 \in Objects
    BY RowFacts, RoomForOneMore
  <1>3. list' = Append(list, o) /\ row' = [row EXCEPT ![o] = Len(list')]
    BY DEF AppendRow
  <1>4. /\ list' \in Seq(Objects) /\ Len(list') = Len(list) + 1
        /\ DOMAIN list' = 1..(Len(list) + 1)
        /\ \A r \in 1..Len(list) : list'[r] = list[r]
        /\ list'[Len(list) + 1] = o
    BY <1>1, <1>2, <1>3
  <1>5. \A r \in DOMAIN list : list[r] # o
    BY DEF ListInv, RowsAreListed
  <1>6. row' \in [Objects -> Objects \cup {NoRow}]
    BY <1>1, <1>2, <1>3, <1>4
  <1>7. ASSUME NEW r \in DOMAIN list' PROVE row'[list'[r]] = r
    <2>1. CASE r = Len(list) + 1
      BY <1>1, <1>3, <1>4, <2>1
    <2>2. CASE r \in DOMAIN list
      <3>1. row[list[r]] = r /\ list[r] \in Objects
        BY <2>2, RowFacts DEF ListInv, RowsAreRight
      <3> QED BY <1>1, <1>2, <1>3, <1>4, <1>5, <2>2, <3>1
    <2> QED BY <1>2, <1>4, <2>1, <2>2
  <1> QED BY <1>2, <1>4, <1>5, <1>6, <1>7

(* Row r is gone, the rows below it have moved up, and the row numbers     *)
(* have moved with them.                                                   *)
LEMMA RowIsRemoved ==
  ASSUME ListInv, NEW r \in DOMAIN list, RemoveRow(r)
  PROVE  /\ list' \in Seq(Objects)
         /\ row' \in [Objects -> Objects \cup {NoRow}]
         /\ Len(list') = Len(list) - 1
         /\ \A i \in DOMAIN list' :
              \E j \in DOMAIN list \ {r} : list'[i] = list[j]
         /\ \A j \in DOMAIN list \ {r} :
              \E i \in DOMAIN list' : list'[i] = list[j]
         /\ \A i, j \in DOMAIN list' : list'[i] = list'[j] => i = j
         /\ \A i \in DOMAIN list' : row'[list'[i]] = i
PROOF
  <1> DEFINE n == Len(list)
  <1>1. n \in Nat /\ DOMAIN list = 1..n /\ r \in 1..n /\ MaxObjects \in Nat
    BY RowFacts, ConstantTypes
  <1>2. list' = [i \in 1..(n - 1) |-> IF i < r THEN list[i] ELSE list[i + 1]]
    BY DEF RemoveRow, Without
  <1>3. n - 1 \in Nat
    BY <1>1
  <1>4. \A j \in 1..n : list[j] \in Objects
    BY <1>1, RowFacts
  <1>5. list' \in [1..(n - 1) -> Objects]
    BY <1>1, <1>2, <1>4
  <1>6. list' \in Seq(Objects) /\ Len(list') = n - 1 /\ DOMAIN list' = 1..(n - 1)
    BY <1>3, <1>5, FunctionIsSeq
  <1>7. \A i \in 1..(n - 1) :
          /\ i < r => list'[i] = list[i] /\ i \in 1..n
          /\ ~(i < r) => list'[i] = list[i + 1] /\ i + 1 \in 1..n /\ i + 1 # r
    BY <1>1, <1>2
  <1>8. \A i \in 1..(n - 1) : \E j \in (1..n) \ {r} : list'[i] = list[j]
    BY <1>1, <1>7
  <1>9. ASSUME NEW j \in (1..n) \ {r}
        PROVE  \E i \in 1..(n - 1) : list'[i] = list[j]
    <2>1. CASE j < r
      <3>1. j \in 1..(n - 1)
        BY <1>1, <2>1
      <3> QED BY <1>7, <2>1, <3>1
    <2>2. CASE ~(j < r)
      <3>1. j - 1 \in 1..(n - 1) /\ ~(j - 1 < r) /\ (j - 1) + 1 = j
        BY <1>1, <2>2
      <3> QED BY <1>7, <3>1
    <2> QED BY <2>1, <2>2
  <1>10. ASSUME NEW i \in 1..(n - 1), NEW j \in 1..(n - 1), list'[i] = list'[j]
         PROVE  i = j
    <2>1. \A k, l \in 1..n : list[k] = list[l] => k = l
      BY <1>1, RowFacts
    <2>2. CASE i < r /\ j < r
      BY <1>7, <1>10, <2>1, <2>2
    <2>3. CASE ~(i < r) /\ ~(j < r)
      <3>1. i + 1 = j + 1
        BY <1>7, <1>10, <2>1, <2>3
      <3> QED BY <3>1
    <2>4. CASE i < r /\ ~(j < r)
      <3>1. i = j + 1
        BY <1>7, <1>10, <2>1, <2>4
      <3> QED BY <1>1, <2>4, <3>1
    <2>5. CASE ~(i < r) /\ j < r
      <3>1. i + 1 = j
        BY <1>7, <1>10, <2>1, <2>5
      <3> QED BY <1>1, <2>5, <3>1
    <2> QED BY <2>2, <2>3, <2>4, <2>5
  <1>11. \A o \in Objects :
           row'[o] = IF o = list[r] THEN NoRow
                     ELSE IF \E i \in DOMAIN list' : list'[i] = o
                     THEN CHOOSE i \in DOMAIN list' : list'[i] = o
                     ELSE row[o]
    BY DEF RemoveRow
  <1>12. ASSUME NEW i \in 1..(n - 1) PROVE row'[list'[i]] = i
    <2>1. list'[i] \in Objects
      BY <1>5
    <2>2. list'[i] # list[r]
      <3>1. PICK j \in (1..n) \ {r} : list'[i] = list[j]
        BY <1>8
      <3> QED BY <1>1, <3>1, RowFacts
    <2>3. row'[list'[i]] = CHOOSE k \in DOMAIN list' : list'[k] = list'[i]
      BY <1>6, <1>11, <2>1, <2>2
    <2> QED BY <1>6, <1>10, <2>3
  <1>13. n <= MaxObjects
    BY <1>1, RowFacts DEF Objects
  <1>14. row' \in [Objects -> Objects \cup {NoRow}]
    <2>1. row' = [o \in Objects |-> row'[o]]
      BY DEF RemoveRow
    <2>2. ASSUME NEW o \in Objects PROVE row'[o] \in Objects \cup {NoRow}
      <3>1. CASE o = list[r]
        BY <1>11, <3>1
      <3>2. CASE o # list[r] /\ \E i \in DOMAIN list' : list'[i] = o
        <4>1. row'[o] \in 1..(n - 1)
          BY <1>6, <1>11, <3>2
        <4> QED BY <1>1, <1>13, <4>1 DEF Objects
      <3>3. CASE o # list[r] /\ ~\E i \in DOMAIN list' : list'[i] = o
        BY <1>11, <3>3 DEF ListInv, TypeOK
      <3> QED BY <3>1, <3>2, <3>3
    <2> QED BY <2>1, <2>2
  <1> QED BY <1>1, <1>6, <1>8, <1>9, <1>10, <1>12, <1>14

----------------------------------------------------------------------------
(* The steps of the list.                                                  *)

LEMMA LoadKeepsList == ASSUME ListInv, Load PROVE ListInv'
PROOF
  <1> DEFINE read == WasRead(disk, {})
             n == Cardinality(read)
             name == InOrder(read)
  <1>1. disk \in Files
    BY DEF ListInv, TypeOK
  <1>2. read \subseteq Names /\ Kept(disk, {}) \in Files /\ \A k \in read : disk[k] \in Addresses
    BY <1>1, ReadEntries
  <1>3. IsFiniteSet(read) /\ read \subseteq Nat /\ n \in Nat /\ n <= MaxObjects
    <2>1. IsFiniteSet(read) /\ n <= Cardinality(Names)
      BY <1>2, ConstantTypes, FS_Subset
    <2>2. n \in Nat /\ Cardinality(Names) \in Nat
      BY <2>1, ConstantTypes, FS_CardinalityType
    <2>3. read \subseteq Nat
      BY <1>2, ConstantTypes
    <2>4. n <= MaxObjects
      BY <2>1, <2>2, ConstantTypes
    <2> QED BY <2>1, <2>2, <2>3, <2>4
  <1>4. name \in [1..n -> read]
    BY <1>3, InOrderEnumerates
  <1>5. /\ up' = TRUE /\ names' = read /\ json' = Kept(disk, {}) /\ active' = active
        /\ disk' = disk \/ disk' \in Saved(Kept(disk, {}), disk)
        /\ list' = [i \in 1..n |-> i]
        /\ row' = [o \in Objects |-> IF o <= n THEN o ELSE NoRow]
        /\ info' = [o \in Objects |->
                      IF o <= n THEN Listed(name[o], disk[name[o]]) ELSE Unused]
    BY DEF Load, Save
  <1> HIDE DEF read, n, name
  <1>6. \A o \in 1..n : o \in Objects /\ name[o] \in Names /\ disk[name[o]] \in Addresses
    <2>1. \A o \in 1..n : name[o] \in read
      BY <1>4
    <2>2. \A o \in 1..n : o \in Objects
      BY <1>3, ConstantTypes DEF Objects
    <2>3. \A k \in read : k \in Names /\ disk[k] \in Addresses
      BY <1>2
    <2> QED BY <2>1, <2>2, <2>3
  <1>7. \A o \in 1..n : info'[o] = Listed(name[o], disk[name[o]])
    BY <1>3, <1>5, <1>6
  <1>8. \A o \in Objects : o <= n => o \in 1..n
    BY <1>3, ConstantTypes DEF Objects
  <1>9. \A o \in Objects : info'[o] \in Infos
    BY <1>5, <1>6, <1>8, InfoTypes
  <1>10. info' \in [Objects -> Infos]
    BY <1>5, <1>9
  <1>11. list' \in Seq(Objects) /\ DOMAIN list' = 1..n /\ \A i \in 1..n : list'[i] = i
    <2>1. list' \in [1..n -> Objects]
      BY <1>5, <1>6
    <2> QED BY <1>3, <1>5, <2>1, FunctionIsSeq
  <1>12. row' \in [Objects -> Objects \cup {NoRow}]
    BY <1>5
  <1>13. disk' \in Files
    BY <1>1, <1>2, <1>5, FileTypes
  <1>14. active' \in Objects \cup {NoConnection} /\ names' \subseteq Names /\ json' \in Files
    BY <1>2, <1>5 DEF ListInv, TypeOK
  <1>15. up' \in BOOLEAN /\ shared' \subseteq Names /\ dangling' \in BOOLEAN
    BY <1>5 DEF ListInv, TypeOK, Load, history
  <1>16. TypeOK'
    BY <1>10, <1>11, <1>12, <1>13, <1>14, <1>15 DEF TypeOK, Infos
  <1>17. RowsAreRight'
    BY <1>3, <1>5, <1>6, <1>11 DEF RowsAreRight
  <1>18. RowsAreListed' /\ RowsAreNamed'
    BY <1>6, <1>7, <1>11, InfoTypes DEF RowsAreListed, RowsAreNamed
  <1>19. MemoryIsGone'
    BY <1>5 DEF MemoryIsGone
  <1> QED BY <1>16, <1>17, <1>18, <1>19 DEF ListInv

LEMMA AddKeepsList ==
  ASSUME ListInv, NEW name \in Names, NEW address \in Addresses, Add(name, address)
  PROVE  ListInv'
PROOF
  <1>1. /\ up /\ up' = up /\ active' = active
        /\ names' = names \cup {name}
        /\ json' = [json EXCEPT ![name] = address]
        /\ disk' \in Saved(json', disk)
    BY DEF Add, Save
  <1>2. PICK o \in Objects : /\ info[o].life = "unused"
                             /\ info' = [info EXCEPT ![o] = Listed(name, address)]
                             /\ AppendRow(o)
    BY DEF Add
  <1>3. info' \in [Objects -> Infos] /\ json' \in Files
    BY <1>1, <1>2, RowFacts, InfoTypes DEF Files
  <1>4. disk' \in Files
    BY <1>1, <1>3, RowFacts, FileTypes
  <1>5. /\ list' \in Seq(Objects) /\ row' \in [Objects -> Objects \cup {NoRow}]
        /\ DOMAIN list' = DOMAIN list \cup {Len(list) + 1}
        /\ \A r \in DOMAIN list : list'[r] = list[r] /\ list'[r] # o
        /\ list'[Len(list) + 1] = o
        /\ \A r \in DOMAIN list' : row'[list'[r]] = r
    BY <1>2, RowIsAppended
  <1>6. names' \subseteq Names /\ active' \in Objects \cup {NoConnection}
    BY <1>1 DEF ListInv, TypeOK
  <1>7. up' \in BOOLEAN /\ shared' \subseteq Names /\ dangling' \in BOOLEAN
    BY <1>1 DEF ListInv, TypeOK, Add
  <1>8. TypeOK'
    BY <1>3, <1>4, <1>5, <1>6, <1>7 DEF TypeOK, Infos
  <1>9. ASSUME NEW r \in DOMAIN list'
        PROVE  /\ info'[list'[r]].life = "listed"
               /\ info'[list'[r]].name \in Names /\ info'[list'[r]].address \in Addresses
    <2>1. CASE r \in DOMAIN list
      <3>1. info'[list'[r]] = info[list[r]] /\ list[r] \in Objects
        BY <1>2, <1>5, <2>1, RowFacts
      <3> QED BY <2>1, <3>1 DEF ListInv, RowsAreListed, RowsAreNamed
    <2>2. CASE r = Len(list) + 1
      <3>1. info'[list'[r]] = Listed(name, address)
        BY <1>2, <1>5, <2>2, RowFacts
      <3> QED BY <3>1, InfoTypes
    <2> QED BY <1>5, <2>1, <2>2
  <1> QED BY <1>1, <1>5, <1>8, <1>9
         DEF ListInv, RowsAreRight, RowsAreListed, RowsAreNamed, MemoryIsGone

LEMMA DeleteKeepsList ==
  ASSUME ListInv, NEW a, NEW r \in Objects, DeleteConnection(a, r)
  PROVE  ListInv'
PROOF
  <1>1. /\ up /\ up' = up /\ r \in DOMAIN list /\ RemoveRow(r)
        /\ active' = IF a = r THEN NoConnection ELSE active
        /\ info' = [info EXCEPT ![list[r]] = Doomed(@)]
        /\ names' = names \ {info[list[r]].name}
        /\ json' = [json EXCEPT ![info[list[r]].name] = NoEntry]
        /\ disk' \in Saved(json', disk) /\ shared' = shared
    BY DEF DeleteConnection, ActiveAfterDelete, Save
  <1>2. info' \in [Objects -> Infos] /\ json' \in Files
    BY <1>1, RowFacts, InfoTypes DEF Files
  <1>3. disk' \in Files
    BY <1>1, <1>2, RowFacts, FileTypes
  <1>4. /\ list' \in Seq(Objects) /\ row' \in [Objects -> Objects \cup {NoRow}]
        /\ \A i \in DOMAIN list' :
             \E j \in DOMAIN list \ {r} : list'[i] = list[j]
        /\ \A i \in DOMAIN list' : row'[list'[i]] = i
    BY <1>1, RowIsRemoved
  <1>5. names' \subseteq Names /\ active' \in Objects \cup {NoConnection}
    BY <1>1 DEF ListInv, TypeOK
  <1>6. up' \in BOOLEAN /\ shared' \subseteq Names
    BY <1>1 DEF ListInv, TypeOK
  <1>9. dangling' \in BOOLEAN
    <2>1. dangling \in BOOLEAN /\ dangling' = (a # r /\ (dangling \/ list[r] = active))
      BY DEF ListInv, TypeOK, DeleteConnection, ActiveAfterDelete
    <2> QED BY <2>1, Zenon
  <1>7. TypeOK'
    BY <1>2, <1>3, <1>4, <1>5, <1>6, <1>9 DEF TypeOK, Infos
  <1>8. ASSUME NEW i \in DOMAIN list'
        PROVE  /\ info'[list'[i]].life = "listed"
               /\ info'[list'[i]].name \in Names /\ info'[list'[i]].address \in Addresses
    <2>1. PICK j \in DOMAIN list \ {r} : list'[i] = list[j]
      BY <1>4
    <2>2. list[j] # list[r] /\ list[j] \in Objects
      BY <1>1, <2>1, RowFacts
    <2>3. info'[list'[i]] = info[list[j]]
      BY <1>1, <2>1, <2>2, RowFacts
    <2> QED BY <2>1, <2>3 DEF ListInv, RowsAreListed, RowsAreNamed
  <1> QED BY <1>1, <1>4, <1>7, <1>8
         DEF ListInv, RowsAreRight, RowsAreListed, RowsAreNamed, MemoryIsGone

LEMMA UpdateKeepsList ==
  ASSUME ListInv, NEW r \in Objects, NEW address \in Addresses, UpdateConnection(r, address)
  PROVE  ListInv'
PROOF
  <1>1. /\ up /\ up' = up /\ r \in DOMAIN list
        /\ info' = [info EXCEPT ![list[r]].address = address]
        /\ json' = [json EXCEPT ![info[list[r]].name] = address]
        /\ disk' \in Saved(json', disk)
        /\ list' = list /\ row' = row /\ names' = names /\ active' = active
        /\ shared' = shared /\ dangling' = dangling
    BY DEF UpdateConnection, Save, history
  <1>2. json' \in Files /\ disk \in Files
    BY <1>1, RowFacts DEF Files
  <1>3. disk' \in Files
    BY <1>1, <1>2, FileTypes
  <1>4. info' \in [Objects -> Infos]
    BY <1>1, RowFacts DEF Infos
  <1>5. TypeOK'
    BY <1>1, <1>2, <1>3, <1>4 DEF ListInv, TypeOK, Infos
  <1>6. ASSUME NEW i \in DOMAIN list'
        PROVE  /\ info'[list'[i]].life = "listed"
               /\ info'[list'[i]].name \in Names /\ info'[list'[i]].address \in Addresses
    <2>1. /\ info'[list[i]].life = info[list[i]].life
          /\ info'[list[i]].name = info[list[i]].name
          /\ info'[list[i]].address \in {info[list[i]].address, address}
      BY <1>1, RowFacts DEF Infos
    <2> QED BY <1>1, <2>1 DEF ListInv, RowsAreListed, RowsAreNamed
  <1> QED BY <1>1, <1>5, <1>6
         DEF ListInv, RowsAreRight, RowsAreListed, RowsAreNamed, MemoryIsGone

(* Every step keeps the invariant of the list.                             *)
LEMMA ListStep == ListInv /\ [Next]_vars => ListInv'
PROOF
  <1> SUFFICES ASSUME ListInv, [Next]_vars PROVE ListInv'
    OBVIOUS
  <1> USE DEF NameAt
  <1>1. CASE Load
    BY <1>1, LoadKeepsList
  <1>2. CASE LoadRefused
    <2>1. /\ up' = TRUE /\ info' = info /\ list' = list /\ row' = row /\ names' = names
          /\ active' = active /\ json' = json /\ disk' = disk
          /\ shared' = shared /\ dangling' = dangling
      BY <1>2 DEF LoadRefused, history
    <2>2. up' \in BOOLEAN
      BY <2>1
    <2> QED BY <2>1, <2>2
            DEF ListInv, TypeOK, RowsAreRight, RowsAreListed, RowsAreNamed, MemoryIsGone
  <1>3. CASE End
    <2>1. /\ up' = FALSE /\ info' = [o \in Objects |-> Unused] /\ list' = <<>>
          /\ row' = [o \in Objects |-> NoRow] /\ names' = {} /\ active' = NoConnection
          /\ json' = EmptyFile /\ disk' \in {disk, EmptyFile}
          /\ shared' = {} /\ dangling' = FALSE
      BY <1>3 DEF End
    <2>2. info' \in [Objects -> Infos]
      BY <2>1, InfoTypes
    <2>3. json' \in Files /\ disk' \in Files
      BY <2>1, FileTypes, RowFacts
    <2>4. up' \in BOOLEAN /\ shared' \subseteq Names /\ dangling' \in BOOLEAN
      BY <2>1
    <2>5. list' \in Seq(Objects) /\ DOMAIN list' = {}
      BY <2>1
    <2>6. row' \in [Objects -> Objects \cup {NoRow}]
      BY <2>1
    <2> QED BY <2>1, <2>2, <2>3, <2>4, <2>5, <2>6
            DEF ListInv, TypeOK, Infos, RowsAreRight, RowsAreListed, RowsAreNamed, MemoryIsGone
  <1>4. ASSUME NEW name \in Names, NEW address \in Addresses,
               AddConnection(name, address) \/ AddWebDavConnection(name, address)
        PROVE  ListInv'
    BY <1>4, AddKeepsList DEF AddConnection, AddWebDavConnection
  <1>5. ASSUME NEW a, NEW r \in Objects, DeleteConnection(a, r) PROVE ListInv'
    BY <1>5, DeleteKeepsList
  <1>6. ASSUME NEW r \in Objects, SetActiveConnection(r) PROVE ListInv'
    <2>1. /\ r \in DOMAIN list /\ active' = list[r] /\ up' = up /\ info' = info
          /\ list' = list /\ row' = row /\ names' = names /\ json' = json /\ disk' = disk
          /\ shared' = shared /\ dangling' = FALSE
      BY <1>6 DEF SetActiveConnection
    <2>2. up /\ up'
      BY <1>6 DEF SetActiveConnection
    <2>3. active' \in Objects
      BY <2>1, RowFacts
    <2>4. TypeOK'
      BY <2>1, <2>3 DEF ListInv, TypeOK
    <2> QED BY <2>1, <2>2, <2>4
            DEF ListInv, RowsAreRight, RowsAreListed, RowsAreNamed, MemoryIsGone
  <1>7. ASSUME NEW r \in Objects, NEW address \in Addresses, UpdateConnection(r, address)
        PROVE  ListInv'
    BY <1>7, UpdateKeepsList
  <1>8. ASSUME NEW o \in Objects, RunDelete(o) PROVE ListInv'
    <2>1. /\ info[o].life = "doomed" /\ info' = [info EXCEPT ![o] = Unused] /\ up' = up
          /\ list' = list /\ row' = row /\ names' = names /\ active' = active
          /\ json' = json /\ disk' = disk
          /\ shared' = shared /\ dangling' = dangling
      BY <1>8 DEF RunDelete, history
    <2>2. info' \in [Objects -> Infos]
      BY <2>1, RowFacts, InfoTypes
    <2>3. \A r \in DOMAIN list : list[r] # o
      BY <2>1 DEF ListInv, RowsAreListed
    <2>4. \A r \in DOMAIN list : info'[list[r]] = info[list[r]]
      BY <2>1, <2>3, RowFacts
    <2>5. TypeOK'
      BY <2>1, <2>2 DEF ListInv, TypeOK, Infos
    <2> QED BY <2>1, <2>4, <2>5
            DEF ListInv, RowsAreRight, RowsAreListed, RowsAreNamed, MemoryIsGone
  <1>9. ASSUME NEW o \in Objects, MessengerReports(o) PROVE ListInv'
    <2>1. /\ row' = [row EXCEPT ![o] = IF @ = NoRow THEN 1 ELSE @] /\ up' = up
          /\ info' = info /\ list' = list /\ names' = names /\ active' = active
          /\ json' = json /\ disk' = disk
          /\ shared' = shared /\ dangling' = dangling
      BY <1>9 DEF MessengerReports, history
    <2>2. 1 \in Objects
      BY ConstantTypes DEF Objects
    <2>3. row' \in [Objects -> Objects \cup {NoRow}]
      BY <2>1, <2>2 DEF ListInv, TypeOK
    <2>4. ASSUME NEW r \in DOMAIN list PROVE row'[list[r]] = r
      <3>1. row[list[r]] = r /\ r # NoRow /\ list[r] \in Objects
        BY RowFacts DEF ListInv, RowsAreRight, NoRow
      <3> QED BY <2>1, <3>1 DEF ListInv, TypeOK
    <2>5. TypeOK'
      BY <2>1, <2>3 DEF ListInv, TypeOK
    <2> QED BY <2>1, <2>4, <2>5
            DEF ListInv, RowsAreRight, RowsAreListed, RowsAreNamed, MemoryIsGone
  <1>10. CASE UNCHANGED vars
    BY <1>10 DEF vars, history, ListInv, TypeOK, RowsAreRight, RowsAreListed, RowsAreNamed, MemoryIsGone
  <1> QED BY <1>1, <1>2, <1>3, <1>4, <1>5, <1>6, <1>7, <1>8, <1>9, <1>10 DEF Next

LEMMA ListStarts == Init => ListInv
PROOF
  <1> SUFFICES ASSUME Init PROVE ListInv
    OBVIOUS
  <1>1. /\ up = FALSE /\ info = [o \in Objects |-> Unused] /\ list = <<>>
        /\ row = [o \in Objects |-> NoRow] /\ names = {} /\ active = NoConnection
        /\ json = EmptyFile /\ disk \in [Names -> OddEntries \cup {NoEntry}]
    BY DEF Init
  <1>2. info \in [Objects -> Infos]
    BY <1>1, InfoTypes
  <1>3. disk \in Files /\ json \in Files
    BY <1>1, FileTypes DEF Files
  <1>4. up \in BOOLEAN /\ shared \subseteq Names /\ dangling \in BOOLEAN
    BY <1>1 DEF Init
  <1>5. list \in Seq(Objects) /\ DOMAIN list = {}
    BY <1>1
  <1>6. row \in [Objects -> Objects \cup {NoRow}]
    BY <1>1
  <1> QED BY <1>1, <1>2, <1>3, <1>4, <1>5, <1>6
          DEF ListInv, TypeOK, Infos, RowsAreRight, RowsAreListed, RowsAreNamed, MemoryIsGone

----------------------------------------------------------------------------
(* The steps of the copies.                                                *)

LEMMA LoadKeepsCopies == ASSUME ListInv, Load PROVE CopiesInv'
PROOF
  <1> DEFINE read == WasRead(disk, {})
             n == Cardinality(read)
             name == InOrder(read)
  <1>1. disk \in Files
    BY DEF ListInv, TypeOK
  <1>2. read \subseteq Names /\ \A k \in read : Kept(disk, {})[k] = disk[k] /\ disk[k] \in Addresses
    BY <1>1, ReadEntries
  <1>3. IsFiniteSet(read) /\ read \subseteq Nat /\ n \in Nat /\ n <= MaxObjects
    <2>1. IsFiniteSet(read) /\ n <= Cardinality(Names)
      BY <1>2, ConstantTypes, FS_Subset
    <2>2. n \in Nat /\ Cardinality(Names) \in Nat
      BY <2>1, ConstantTypes, FS_CardinalityType
    <2>3. read \subseteq Nat
      BY <1>2, ConstantTypes
    <2>4. n <= MaxObjects
      BY <2>1, <2>2, ConstantTypes
    <2> QED BY <2>1, <2>2, <2>3, <2>4
  <1>4. /\ name \in [1..n -> read]
        /\ \A i, j \in 1..n : name[i] = name[j] => i = j
        /\ read = {name[i] : i \in 1..n}
    BY <1>3, InOrderEnumerates
  <1>5. /\ names' = read /\ json' = Kept(disk, {}) /\ active' = active /\ ~up
        /\ list' = [i \in 1..n |-> i]
        /\ info' = [o \in Objects |->
                      IF o <= n THEN Listed(name[o], disk[name[o]]) ELSE Unused]
    BY DEF Load
  <1> HIDE DEF read, n, name
  <1>6. \A i \in 1..n : i \in Objects /\ i <= n
    BY <1>3, ConstantTypes DEF Objects
  <1>7. \A i \in 1..n : name[i] \in Names /\ disk[name[i]] \in Addresses /\ name[i] \in read
    <2>1. \A i \in 1..n : name[i] \in read
      BY <1>4
    <2> QED BY <2>1, <1>2
  <1>8. \A i \in 1..n : info'[i] = Listed(name[i], disk[name[i]])
    BY <1>5, <1>6
  <1>9. DOMAIN list' = 1..n /\ \A i \in 1..n : list'[i] = i
    BY <1>3, <1>5
  <1>10. \A i \in 1..n : info'[list'[i]].name = name[i] /\ info'[list'[i]].address = disk[name[i]]
    BY <1>7, <1>8, <1>9, InfoTypes
  <1>11. NamesDiffer'
    BY <1>4, <1>9, <1>10 DEF NamesDiffer, NameAt
  <1>12. NamesAreOfRows'
    <2>1. \A k : k \in names' <=> \E i \in 1..n : name[i] = k
      BY <1>4, <1>5
    <2> QED BY <1>9, <1>10, <2>1 DEF NamesAreOfRows, NameAt
  <1>13. JsonHasRows'
    <2>1. \A i \in 1..n : json'[name[i]] = disk[name[i]]
      BY <1>2, <1>5, <1>7
    <2>2. \A i \in 1..n : json'[info'[list'[i]].name] = info'[list'[i]].address
      BY <1>10, <2>1
    <2> QED BY <1>9, <2>2 DEF JsonHasRows, NameAt
  <1>14. ActiveIsListed'
    BY <1>5 DEF ActiveIsListed, ListInv, MemoryIsGone
  <1> QED BY <1>11, <1>12, <1>13, <1>14 DEF CopiesInv

(* A new row goes to the end; the rows before keep their names.  If one had*)
(* the name already, it is shared from now on.                             *)
LEMMA AddKeepsCopies ==
  ASSUME ListInv, CopiesInv, NEW name \in Names, NEW address \in Addresses,
         Add(name, address)
  PROVE  CopiesInv'
PROOF
  <1>1. /\ active' = active /\ dangling' = dangling /\ names' = names \cup {name}
        /\ json' = [json EXCEPT ![name] = address]
        /\ shared' = IF name \in names THEN shared \cup {name} ELSE shared
    BY DEF Add
  <1>2. PICK o \in Objects : /\ info[o].life = "unused"
                             /\ info' = [info EXCEPT ![o] = Listed(name, address)]
                             /\ AppendRow(o)
    BY DEF Add
  <1> DEFINE last == Len(list) + 1
  <1>3. /\ DOMAIN list' = DOMAIN list \cup {last} /\ last \notin DOMAIN list
        /\ \A r \in DOMAIN list : list'[r] = list[r] /\ list'[r] # o
        /\ list'[last] = o
    BY <1>2, RowIsAppended
  <1> HIDE DEF last
  <1>4. /\ \A r \in DOMAIN list : info'[list'[r]] = info[list[r]]
        /\ info'[list'[last]] = Listed(name, address)
    BY <1>2, <1>3, RowFacts
  <1>5. \A r \in DOMAIN list : /\ info[list[r]].name \in Names
                               /\ info[list[r]].name = name => name \in shared'
    BY <1>1, RowFacts DEF CopiesInv, NamesAreOfRows, NameAt
  <1>6. info'[list'[last]].name = name /\ info'[list'[last]].address = address
    BY <1>4, InfoTypes
  <1>7. NamesDiffer'
    BY <1>1, <1>3, <1>4, <1>5, <1>6 DEF CopiesInv, NamesDiffer, NameAt
  <1>8. NamesAreOfRows'
    BY <1>1, <1>3, <1>4, <1>6 DEF CopiesInv, NamesAreOfRows, NameAt
  <1>9. ActiveIsListed'
    BY <1>1, <1>3 DEF CopiesInv, ActiveIsListed
  <1>10. JsonHasRows'
    <2>1. json'[name] = address /\ \A k \in Names : k # name => json'[k] = json[k]
      BY <1>1, RowFacts DEF Files
    <2> QED BY <1>1, <1>3, <1>4, <1>5, <1>6, <2>1 DEF CopiesInv, JsonHasRows, NameAt
  <1> QED BY <1>7, <1>8, <1>9, <1>10 DEF CopiesInv

LEMMA DeleteKeepsCopies ==
  ASSUME ListInv, CopiesInv, NEW a, NEW r \in Objects, DeleteConnection(a, r)
  PROVE  CopiesInv'
PROOF
  <1> DEFINE k == info[list[r]].name
  <1>1. /\ r \in DOMAIN list /\ RemoveRow(r) /\ shared' = shared
        /\ active' = IF a = r THEN NoConnection ELSE active
        /\ info' = [info EXCEPT ![list[r]] = Doomed(@)]
        /\ names' = names \ {k}
        /\ json' = [json EXCEPT ![k] = NoEntry]
    BY DEF DeleteConnection, ActiveAfterDelete
  <1>2. /\ \A i \in DOMAIN list' : \E j \in DOMAIN list \ {r} : list'[i] = list[j]
        /\ \A j \in DOMAIN list \ {r} : \E i \in DOMAIN list' : list'[i] = list[j]
        /\ \A i, j \in DOMAIN list' : list'[i] = list'[j] => i = j
    BY <1>1, RowIsRemoved
  <1>3. \A j \in DOMAIN list \ {r} : info'[list[j]] = info[list[j]]
    BY <1>1, RowFacts
  <1>4. \A j \in DOMAIN list \ {r} : info[list[j]].name = k => k \in shared
    BY <1>1 DEF CopiesInv, NamesDiffer, NameAt
  <1> HIDE DEF k
  <1>5. NamesDiffer'
    <2> SUFFICES ASSUME NEW i \in DOMAIN list', NEW j \in DOMAIN list',
                        info'[list'[i]].name \notin shared,
                        info'[list'[i]].name = info'[list'[j]].name
                 PROVE  i = j
      BY <1>1 DEF NamesDiffer, NameAt
    <2>1. PICK l \in DOMAIN list \ {r} : list'[i] = list[l]
      BY <1>2
    <2>2. PICK m \in DOMAIN list \ {r} : list'[j] = list[m]
      BY <1>2
    <2>3. l = m
      BY <1>3, <2>1, <2>2 DEF CopiesInv, NamesDiffer, NameAt
    <2> QED BY <1>2, <2>1, <2>2, <2>3
  <1>6. NamesAreOfRows'
    <2> SUFFICES ASSUME NEW l \in Names \ shared
                 PROVE  l \in names' <=> \E i \in DOMAIN list' : info'[list'[i]].name = l
      BY <1>1 DEF NamesAreOfRows, NameAt
    <2>1. l \in names <=> \E j \in DOMAIN list : info[list[j]].name = l
      BY DEF CopiesInv, NamesAreOfRows, NameAt
    <2>2. l \in names' <=> \E j \in DOMAIN list \ {r} : info[list[j]].name = l
      BY <1>1, <1>4, <2>1 DEF k
    <2>3. ASSUME NEW i \in DOMAIN list', info'[list'[i]].name = l
          PROVE  \E j \in DOMAIN list \ {r} : info[list[j]].name = l
      BY <1>2, <1>3, <2>3
    <2>4. ASSUME NEW j \in DOMAIN list \ {r}, info[list[j]].name = l
          PROVE  \E i \in DOMAIN list' : info'[list'[i]].name = l
      BY <1>2, <1>3, <2>4
    <2> QED BY <2>2, <2>3, <2>4
  <1>7. ActiveIsListed'
    <2>1. CASE a = r
      BY <1>1, <2>1 DEF ActiveIsListed
    <2>2. CASE a # r /\ (dangling \/ list[r] = active)
      BY <2>2 DEF DeleteConnection, ActiveAfterDelete, ActiveIsListed
    <2>3. CASE a # r /\ ~dangling /\ list[r] # active
      <3>1. active = NoConnection \/ \E j \in DOMAIN list \ {r} : active = list[j]
        BY <2>3 DEF CopiesInv, ActiveIsListed
      <3>2. active = NoConnection \/ \E i \in DOMAIN list' : active = list'[i]
        BY <1>2, <3>1
      <3> QED BY <1>1, <2>3, <3>2 DEF ActiveIsListed
    <2> QED BY <2>1, <2>2, <2>3
  <1>8. JsonHasRows'
    <2> SUFFICES ASSUME NEW i \in DOMAIN list', info'[list'[i]].name \notin shared
                 PROVE  json'[info'[list'[i]].name] = info'[list'[i]].address
      BY <1>1 DEF JsonHasRows, NameAt
    <2>1. PICK j \in DOMAIN list \ {r} : list'[i] = list[j]
      BY <1>2
    <2>2. info'[list'[i]] = info[list[j]] /\ info[list[j]].name # k
      BY <1>3, <1>4, <2>1
    <2>3. json'[info[list[j]].name] = json[info[list[j]].name]
      BY <1>1, <2>2, RowFacts DEF Files, NameAt
    <2> QED BY <2>1, <2>2, <2>3 DEF CopiesInv, JsonHasRows, NameAt
  <1> QED BY <1>5, <1>6, <1>7, <1>8 DEF CopiesInv

LEMMA UpdateKeepsCopies ==
  ASSUME ListInv, CopiesInv, NEW r \in Objects, NEW address \in Addresses,
         UpdateConnection(r, address)
  PROVE  CopiesInv'
PROOF
  <1>1. /\ r \in DOMAIN list
        /\ info' = [info EXCEPT ![list[r]].address = address]
        /\ json' = [json EXCEPT ![info[list[r]].name] = address]
        /\ list' = list /\ names' = names /\ active' = active
        /\ shared' = shared /\ dangling' = dangling
    BY DEF UpdateConnection, history
  <1>2. /\ \A j \in DOMAIN list : info'[list[j]].name = info[list[j]].name
        /\ \A j \in DOMAIN list : j # r => info'[list[j]] = info[list[j]]
        /\ info'[list[r]].address = address
    BY <1>1, RowFacts DEF Infos
  <1>3. NamesDiffer' /\ NamesAreOfRows' /\ ActiveIsListed'
    BY <1>1, <1>2 DEF CopiesInv, NamesDiffer, NamesAreOfRows, ActiveIsListed, NameAt
  <1>4. ASSUME NEW j \in DOMAIN list, info[list[j]].name \notin shared
        PROVE  json'[info[list[j]].name] = info'[list[j]].address
    <2>1. CASE j = r
      BY <1>1, <1>2, <2>1, RowFacts DEF Files, NameAt
    <2>2. CASE j # r
      <3>1. info[list[j]].name # info[list[r]].name
        BY <1>1, <1>4, <2>2 DEF CopiesInv, NamesDiffer, NameAt
      <3>2. json'[info[list[j]].name] = json[info[list[j]].name]
        BY <1>1, <3>1, RowFacts DEF Files, NameAt
      <3> QED BY <1>2, <1>4, <2>2, <3>2 DEF CopiesInv, JsonHasRows, NameAt
    <2> QED BY <2>1, <2>2
  <1>5. JsonHasRows'
    BY <1>1, <1>2, <1>4 DEF JsonHasRows, NameAt
  <1> QED BY <1>3, <1>5 DEF CopiesInv

(* Every step keeps the copies in agreement.                               *)
LEMMA CopiesStep == ListInv /\ CopiesInv /\ [Next]_vars => CopiesInv'
PROOF
  <1> SUFFICES ASSUME ListInv, CopiesInv, [Next]_vars PROVE CopiesInv'
    OBVIOUS
  <1> USE DEF NameAt
  <1>1. CASE Load
    BY <1>1, LoadKeepsCopies
  <1>2. CASE LoadRefused
    BY <1>2 DEF LoadRefused, history, CopiesInv, NamesDiffer, NamesAreOfRows, ActiveIsListed, JsonHasRows
  <1>3. CASE End
    <2>1. list' = <<>> /\ names' = {} /\ active' = NoConnection
      BY <1>3 DEF End
    <2>2. DOMAIN list' = {}
      BY <2>1
    <2> QED BY <2>1, <2>2 DEF CopiesInv, NamesDiffer, NamesAreOfRows, ActiveIsListed, JsonHasRows
  <1>4. ASSUME NEW name \in Names, NEW address \in Addresses,
               AddConnection(name, address) \/ AddWebDavConnection(name, address)
        PROVE  CopiesInv'
    BY <1>4, AddKeepsCopies DEF AddConnection, AddWebDavConnection
  <1>5. ASSUME NEW a, NEW r \in Objects, DeleteConnection(a, r) PROVE CopiesInv'
    BY <1>5, DeleteKeepsCopies
  <1>6. ASSUME NEW r \in Objects, SetActiveConnection(r) PROVE CopiesInv'
    BY <1>6 DEF SetActiveConnection, CopiesInv, NamesDiffer, NamesAreOfRows,
                ActiveIsListed, JsonHasRows
  <1>7. ASSUME NEW r \in Objects, NEW address \in Addresses, UpdateConnection(r, address)
        PROVE  CopiesInv'
    BY <1>7, UpdateKeepsCopies
  <1>8. ASSUME NEW o \in Objects, RunDelete(o) PROVE CopiesInv'
    <2>1. /\ info[o].life = "doomed" /\ info' = [info EXCEPT ![o] = Unused]
          /\ list' = list /\ names' = names /\ active' = active /\ json' = json
          /\ shared' = shared /\ dangling' = dangling
      BY <1>8 DEF RunDelete, history
    <2>2. \A r \in DOMAIN list : list[r] # o
      BY <2>1 DEF ListInv, RowsAreListed
    <2>3. \A r \in DOMAIN list : info'[list[r]] = info[list[r]]
      BY <2>1, <2>2, RowFacts
    <2> QED BY <2>1, <2>3
            DEF CopiesInv, NamesDiffer, NamesAreOfRows, ActiveIsListed, JsonHasRows
  <1>9. ASSUME NEW o \in Objects, MessengerReports(o) PROVE CopiesInv'
    BY <1>9 DEF MessengerReports, history, CopiesInv, NamesDiffer, NamesAreOfRows,
                ActiveIsListed, JsonHasRows
  <1>10. CASE UNCHANGED vars
    BY <1>10 DEF vars, history, CopiesInv, NamesDiffer, NamesAreOfRows, ActiveIsListed, JsonHasRows
  <1> QED BY <1>1, <1>2, <1>3, <1>4, <1>5, <1>6, <1>7, <1>8, <1>9, <1>10 DEF Next

LEMMA CopiesStart == Init => CopiesInv
PROOF
  <1> SUFFICES ASSUME Init PROVE CopiesInv
    OBVIOUS
  <1>1. list = <<>> /\ names = {} /\ active = NoConnection
    BY DEF Init
  <1>2. DOMAIN list = {}
    BY <1>1
  <1> QED BY <1>1, <1>2 DEF CopiesInv, NamesDiffer, NamesAreOfRows, ActiveIsListed, JsonHasRows

LEMMA CopiesInvSuffices == ListInv /\ CopiesInv => CopiesAgree
PROOF
  <1> SUFFICES ASSUME ListInv, CopiesInv PROVE CopiesAgree
    OBVIOUS
  <1>1. ASSUME NEW k \in Names \ shared PROVE NameAgrees(k)
    <2>1. k \in names <=> RowsOf(k) # {}
      BY DEF CopiesInv, NamesAreOfRows, NameAt, RowsOf
    <2>2. ASSUME NEW r \in RowsOf(k)
          PROVE  RowsOf(k) = {r} /\ json[k] = info[list[r]].address
      <3>1. r \in DOMAIN list /\ NameAt(r) = k
        BY DEF RowsOf, NameAt
      <3>2. \A s \in RowsOf(k) : s = r
        BY <3>1 DEF CopiesInv, NamesDiffer, NameAt, RowsOf
      <3>3. json[k] = info[list[r]].address
        BY <3>1 DEF CopiesInv, JsonHasRows, NameAt
      <3> QED BY <3>2, <3>3
    <2> QED BY <2>1, <2>2 DEF NameAgrees
  <1> QED BY <1>1 DEF CopiesAgree, CopiesInv, ActiveIsListed

----------------------------------------------------------------------------
(* The steps of the Client are steps of its connection manager.            *)

LEMMA ClientStepIsManagers == ListInv /\ [ClientNext]_clientVars => [Next]_vars
PROOF
  <1> SUFFICES ASSUME ListInv, [ClientNext]_clientVars PROVE [Next]_vars
    OBVIOUS
  <1>1. ASSUME NEW r \in DOMAIN list PROVE r \in Objects
    BY RowFacts
  <1>2. CASE ListChanges
    BY <1>1, <1>2, WebDavAssumption DEF ListChanges, Next
  <1>3. CASE ClientUpdateConnection
    BY <1>3 DEF ClientUpdateConnection, Next
  <1>4. CASE ClientEnd
    BY <1>4 DEF ClientEnd, Next
  <1>5. ASSUME NEW r \in Objects, NEW a \in Objects \cup {NoRow},
               ClientSetActiveConnection(r) \/ ClientDeleteConnection(a, r)
        PROVE  Next
    BY <1>5 DEF ClientSetActiveConnection, ClientDeleteConnection, Next
  <1>6. CASE UNCHANGED clientVars
    BY <1>6 DEF clientVars, vars
  <1>7. NoRow \in Objects \cup {NoRow}
    OBVIOUS
  <1> QED BY <1>2, <1>3, <1>4, <1>5, <1>6, <1>7 DEF ClientNext

----------------------------------------------------------------------------
(* The steps of the messengers.                                            *)

(* The row of a name that is not shared is known by it.                    *)
LEMMA OneRowOfName ==
  ASSUME CopiesInv, NEW r \in DOMAIN list, NameAt(r) \notin shared,
         NEW o, IsOfRow(o, NameAt(r))
  PROVE  o = list[r]
BY DEF CopiesInv, NamesDiffer, IsOfRow

(* A list change that keeps every row's object, name and kind, where it    *)
(* keeps the row, keeps the messengers fitting.                            *)
LEMMA RowsKeepMessengers ==
  ASSUME MessengersInv, ListInv, ListInv', up, up',
         websocket' = websocket, webDav' = webDav, NEW k,
         gone' = gone \cup ({k} \cap Names), shared \subseteq shared',
         \A r \in DOMAIN list : NameAt(r) # k =>
           \E i \in DOMAIN list' :
             /\ list'[i] = list[r] /\ info'[list'[i]].name = NameAt(r)
             /\ info'[list'[i]].address \in WebDavAddresses <=> IsWebDav(list[r])
  PROVE  MessengerTypes' /\ SessionIsGone' /\ WebsocketsAreOfRows' /\ WebDavsAreOfRows'
PROOF
  <1>1. MessengerTypes' /\ SessionIsGone'
    BY DEF MessengersInv, MessengerTypes, SessionIsGone
  <1>2. ASSUME NEW l \in Followed', NEW o, IsOfRow(o, l)
        PROVE  IsOfRow(o, l)' /\ (IsWebDav(o)' <=> IsWebDav(o))
    <2>1. PICK r \in DOMAIN list : list[r] = o /\ NameAt(r) = l
      BY <1>2 DEF IsOfRow
    <2>2. PICK i \in DOMAIN list' :
            /\ list'[i] = list[r] /\ info'[list'[i]].name = NameAt(r)
            /\ info'[list'[i]].address \in WebDavAddresses <=> IsWebDav(list[r])
      BY <1>2, <2>1 DEF Followed
    <2>3. IsOfRow(o, l)'
      BY <2>1, <2>2 DEF IsOfRow, NameAt
    <2>4. IsWebDav(o)' <=> IsWebDav(o)
      BY <2>1, <2>2 DEF IsWebDav
    <2> QED BY <2>3, <2>4
  <1>3. Followed' \subseteq Followed
    BY DEF Followed
  <1>4. WebsocketsAreOfRows'
    BY <1>2, <1>3 DEF MessengersInv, WebsocketsAreOfRows
  <1>5. WebDavsAreOfRows'
    BY <1>2, <1>3 DEF MessengersInv, WebDavsAreOfRows
  <1> QED BY <1>1, <1>4, <1>5

LEMMA ListChangesKeepMessengers ==
  ASSUME ListInv, CopiesInv, MessengersInv, ListInv', ListChanges
  PROVE  MessengersInv'
PROOF
  <1>1. /\ websocket' = websocket /\ webDav' = webDav /\ gone' = gone
        /\ shared \subseteq shared' /\ dangling' = dangling
    BY DEF ListChanges, Load, LoadRefused, AddConnection, AddWebDavConnection, Add,
           UpdateConnection, RunDelete, history
  <1> DEFINE Same == \A r \in DOMAIN list :
                       \E i \in DOMAIN list' :
                         /\ list'[i] = list[r] /\ info'[list'[i]].name = NameAt(r)
                         /\ info'[list'[i]].address \in WebDavAddresses <=> IsWebDav(list[r])
             New == \A i \in DOMAIN list' : list'[i] = active' =>
                      /\ i \in DOMAIN list /\ list[i] = list'[i]
                      /\ info'[list'[i]].name = NameAt(i)
                      /\ info'[list'[i]].address \in WebDavAddresses <=> IsWebDav(list[i])
  <1>2. ASSUME Same, up, up'
        PROVE  MessengerTypes' /\ SessionIsGone' /\ WebsocketsAreOfRows' /\ WebDavsAreOfRows'
    <2>1. gone' = gone \cup ({NoConnection} \cap Names) \/ NoConnection \in Names
      BY <1>1
    <2>2. NoConnection \notin Names
      BY ConstantTypes DEF NoConnection
    <2>3. gone' = gone \cup ({NoConnection} \cap Names)
      BY <2>1, <2>2
    <2> QED BY <1>1, <1>2, <2>3, RowsKeepMessengers
  <1>3. ASSUME ~dangling => New, active' = active PROVE ActiveHasOwn'
    <2> SUFFICES ASSUME ~dangling', NEW i \in DOMAIN list', list'[i] = active',
                        info'[list'[i]].name \in Followed'
                 PROVE  active' = IF IsWebDav(active)' THEN webDav'[info'[list'[i]].name]
                                                       ELSE websocket'[info'[list'[i]].name]
      BY DEF ActiveHasOwn, NameAt
    <2>1. /\ i \in DOMAIN list /\ list[i] = active /\ NameAt(i) \in Followed
          /\ info'[list'[i]].name = NameAt(i)
          /\ IsWebDav(active)' <=> IsWebDav(active)
      BY <1>1, <1>3 DEF IsWebDav, NameAt, Followed
    <2> QED BY <1>1, <1>3, <2>1 DEF MessengersInv, ActiveHasOwn
  <1>4. CASE ~up
    <2>1. /\ websocket = NoMessengers /\ webDav = NoMessengers /\ gone = {}
          /\ active = NoConnection
      BY <1>4 DEF MessengersInv, SessionIsGone, ListInv, MemoryIsGone
    <2>2. active' = active
      BY <1>4 DEF ListChanges, Load, LoadRefused, AddConnection, AddWebDavConnection, Add,
                  UpdateConnection, RunDelete
    <2>3. \A r \in DOMAIN list' : list'[r] # NoConnection
      <3>1. \A r \in DOMAIN list' : list'[r] \in Objects
        BY DEF ListInv, TypeOK
      <3> QED BY <3>1, ConstantTypes DEF Objects, NoConnection
    <2>4. MessengerTypes' /\ SessionIsGone'
      BY <1>1, <2>1 DEF MessengersInv, MessengerTypes, SessionIsGone
    <2>5. \A k \in Names : websocket'[k] = NoConnection /\ webDav'[k] = NoConnection
      BY <1>1, <2>1 DEF NoMessengers
    <2>6. WebsocketsAreOfRows' /\ WebDavsAreOfRows'
      BY <2>5 DEF WebsocketsAreOfRows, WebDavsAreOfRows, Followed
    <2>7. ActiveHasOwn'
      BY <2>1, <2>2, <2>3 DEF ActiveHasOwn
    <2> QED BY <2>4, <2>6, <2>7 DEF MessengersInv
  <1>5. ASSUME up, NEW name \in Names, NEW address \in Addresses,
               AddConnection(name, address) \/ AddWebDavConnection(name, address)
        PROVE  MessengersInv'
    <2>1. up' /\ active' = active /\ Add(name, address)
      BY <1>5 DEF AddConnection, AddWebDavConnection, Add
    <2>2. PICK o \in Objects : /\ info[o].life = "unused"
                               /\ info' = [info EXCEPT ![o] = Listed(name, address)]
                               /\ AppendRow(o)
      BY <2>1 DEF Add
    <2>3. /\ DOMAIN list' = DOMAIN list \cup {Len(list) + 1}
          /\ \A r \in DOMAIN list : list'[r] = list[r] /\ list'[r] # o
          /\ list'[Len(list) + 1] = o
      BY <2>2, RowIsAppended
    <2>4. \A r \in DOMAIN list : info'[list'[r]] = info[list[r]]
      BY <2>2, <2>3, RowFacts
    <2>5. Same
      BY <2>3, <2>4 DEF IsWebDav, NameAt
    <2>6. ~dangling => active # o
      <3>1. dangling \/ active = NoConnection \/ \E r \in DOMAIN list : active = list[r]
        BY DEF CopiesInv, ActiveIsListed
      <3>2. o # NoConnection
        BY ConstantTypes DEF Objects, NoConnection
      <3> QED BY <2>3, <3>1, <3>2
    <2>7. ~dangling => New
      BY <2>1, <2>3, <2>4, <2>6 DEF IsWebDav, NameAt
    <2> QED BY <1>2, <1>3, <1>5, <2>1, <2>5, <2>7 DEF MessengersInv
  <1>6. ASSUME up, NEW r \in DOMAIN list, NEW address \in Addresses,
               address \in WebDavAddresses <=> IsWebDav(list[r]), UpdateConnection(r, address)
        PROVE  MessengersInv'
    <2>1. /\ up' /\ active' = active /\ list' = list
          /\ info' = [info EXCEPT ![list[r]].address = address]
      BY <1>6 DEF UpdateConnection
    <2>2. /\ \A j \in DOMAIN list : info'[list[j]].name = info[list[j]].name
          /\ \A j \in DOMAIN list : j # r => info'[list[j]] = info[list[j]]
          /\ info'[list[r]].address = address
      BY <2>1, RowFacts DEF Infos
    <2>3. \A j \in DOMAIN list : info'[list[j]].address \in WebDavAddresses <=> IsWebDav(list[j])
      BY <1>6, <2>2 DEF IsWebDav
    <2>4. Same /\ New
      BY <2>1, <2>2, <2>3 DEF NameAt
    <2> QED BY <1>2, <1>3, <1>6, <2>1, <2>4 DEF MessengersInv
  <1>7. ASSUME up, NEW o \in Objects, RunDelete(o) PROVE MessengersInv'
    <2>1. /\ info[o].life = "doomed" /\ info' = [info EXCEPT ![o] = Unused]
          /\ up' /\ list' = list /\ active' = active
      BY <1>7 DEF RunDelete
    <2>2. \A r \in DOMAIN list : list[r] # o
      BY <2>1 DEF ListInv, RowsAreListed
    <2>3. \A r \in DOMAIN list : info'[list[r]] = info[list[r]]
      BY <2>1, <2>2, RowFacts
    <2>4. Same /\ New
      BY <2>1, <2>3 DEF IsWebDav, NameAt
    <2> QED BY <1>2, <1>3, <1>7, <2>1, <2>4 DEF MessengersInv
  <1>8. up \/ ~up
    OBVIOUS
  <1> QED BY <1>4, <1>5, <1>6, <1>7, <1>8, WebDavAssumption DEF ListChanges, Load, LoadRefused

LEMMA ChoiceKeepsMessengers ==
  ASSUME ListInv, CopiesInv, MessengersInv, NEW r \in Objects, ClientSetActiveConnection(r)
  PROVE  MessengersInv'
PROOF
  <1> DEFINE o == list[r]
             k == info[o].name
  <1>1. /\ r \in DOMAIN list /\ active' = o /\ list' = list /\ info' = info /\ gone' = gone
        /\ up /\ up' /\ shared' = shared
    BY DEF ClientSetActiveConnection, SetActiveConnection
  <1>2. /\ IF websocket[k] = NoConnection THEN ConnectToServer(o)
           ELSE websocket' = websocket /\ webDav' = webDav
    BY DEF ClientSetActiveConnection
  <1>3. o \in Objects /\ k \in Names /\ k = NameAt(r) /\ IsOfRow(o, k)
    BY <1>1, RowFacts DEF NameAt, IsOfRow
  <1>4. \A l \in Followed :
          /\ websocket[l] # NoConnection => IsOfRow(websocket[l], l) /\ ~IsWebDav(websocket[l])
          /\ webDav[l] # NoConnection => IsOfRow(webDav[l], l) /\ IsWebDav(webDav[l])
    BY DEF MessengersInv, WebsocketsAreOfRows, WebDavsAreOfRows
  <1>5. /\ websocket \in [Names -> Objects \cup {NoConnection}]
        /\ webDav \in [Names -> Objects \cup {NoConnection}] /\ gone \subseteq Names
    BY DEF MessengersInv, MessengerTypes
  <1>6. \/ websocket' = websocket
        \/ ~IsWebDav(o) /\ websocket[k] = NoConnection /\ websocket' = [websocket EXCEPT ![k] = o]
    BY <1>2 DEF ConnectToServer, WithMessenger
  <1>7. \/ webDav' = webDav
        \/ IsWebDav(o) /\ webDav[k] = NoConnection /\ webDav' = [webDav EXCEPT ![k] = o]
    <2>1. webDav' = webDav \/ (IsWebDav(o) /\ webDav' = WithMessenger(webDav, o))
      BY <1>2 DEF ConnectToServer
    <2>2. webDav[k] # NoConnection => WithMessenger(webDav, o) = webDav
      BY <1>3, <1>5 DEF WithMessenger
    <2> QED BY <2>1, <2>2 DEF WithMessenger
  <1>8. /\ \A p, l : IsOfRow(p, l)' <=> IsOfRow(p, l)
        /\ \A p : IsWebDav(p)' <=> IsWebDav(p)
    BY <1>1 DEF IsOfRow, IsWebDav, NameAt
  <1>9. MessengerTypes' /\ SessionIsGone'
    BY <1>1, <1>3, <1>5, <1>6, <1>7 DEF MessengerTypes, SessionIsGone
  <1> HIDE DEF o, k
  <1>10. WebsocketsAreOfRows'
    <2> SUFFICES ASSUME NEW l \in Followed, websocket'[l] # NoConnection
                 PROVE  IsOfRow(websocket'[l], l) /\ ~IsWebDav(websocket'[l])
      BY <1>1, <1>8 DEF Followed, WebsocketsAreOfRows, IsOfRow, IsWebDav, NameAt
    <2> QED BY <1>3, <1>4, <1>5, <1>6 DEF Followed
  <1>11. WebDavsAreOfRows'
    <2> SUFFICES ASSUME NEW l \in Followed, webDav'[l] # NoConnection
                 PROVE  IsOfRow(webDav'[l], l) /\ IsWebDav(webDav'[l])
      BY <1>1, <1>8 DEF Followed, WebDavsAreOfRows, IsOfRow, IsWebDav, NameAt
    <2> QED BY <1>3, <1>4, <1>5, <1>7 DEF Followed
  <1>12. ASSUME k \in Followed
         PROVE  o = IF IsWebDav(o) THEN webDav'[k] ELSE websocket'[k]
    <2>1. \A p : IsOfRow(p, k) => p = o
      <3> SUFFICES ASSUME NEW p, IsOfRow(p, k) PROVE p = o
        OBVIOUS
      <3> QED BY <1>1, <1>3, <1>12, OneRowOfName DEF o, Followed
    <2>2. /\ websocket[k] # NoConnection => websocket[k] = o /\ ~IsWebDav(o)
          /\ webDav[k] # NoConnection => webDav[k] = o /\ IsWebDav(o)
      <3>1. /\ websocket[k] # NoConnection
                 => IsOfRow(websocket[k], k) /\ ~IsWebDav(websocket[k])
            /\ webDav[k] # NoConnection => IsOfRow(webDav[k], k) /\ IsWebDav(webDav[k])
        BY <1>3, <1>4, <1>12
      <3>2. ASSUME websocket[k] # NoConnection PROVE websocket[k] = o
        BY <2>1, <3>1, <3>2
      <3>3. ASSUME webDav[k] # NoConnection PROVE webDav[k] = o
        BY <2>1, <3>1, <3>3
      <3> QED BY <3>1, <3>2, <3>3
    <2>3. CASE IsWebDav(o)
      <3>1. websocket[k] = NoConnection
        BY <2>2, <2>3
      <3>2. webDav' = WithMessenger(webDav, o)
        BY <1>2, <2>3, <3>1 DEF ConnectToServer
      <3>3. webDav' = [webDav EXCEPT ![k] = IF @ = NoConnection THEN o ELSE @]
        BY <3>2 DEF WithMessenger, k
      <3> QED BY <1>3, <1>5, <2>2, <2>3, <3>3
    <2>4. CASE ~IsWebDav(o)
      <3>1. CASE websocket[k] # NoConnection
        BY <1>2, <2>2, <2>4, <3>1
      <3>2. CASE websocket[k] = NoConnection
        <4>1. websocket' = WithMessenger(websocket, o)
          BY <1>2, <2>4, <3>2 DEF ConnectToServer
        <4>2. websocket' = [websocket EXCEPT ![k] = IF @ = NoConnection THEN o ELSE @]
          BY <4>1 DEF WithMessenger, k
        <4> QED BY <1>3, <1>5, <2>4, <3>2, <4>2
      <3> QED BY <3>1, <3>2
    <2> QED BY <2>3, <2>4
  <1>13. ActiveHasOwn'
    <2> SUFFICES ASSUME NEW i \in DOMAIN list, list[i] = o, info[list[i]].name \in Followed
                 PROVE  o = IF IsWebDav(o) THEN webDav'[info[list[i]].name]
                            ELSE websocket'[info[list[i]].name]
      BY <1>1, <1>8 DEF ActiveHasOwn, NameAt, IsWebDav, Followed
    <2>1. info[list[i]].name = k
      BY DEF k
    <2> QED BY <1>12, <2>1
  <1> QED BY <1>9, <1>10, <1>11, <1>13 DEF MessengersInv

LEMMA DeleteKeepsMessengers ==
  ASSUME ListInv, CopiesInv, MessengersInv, ListInv', CopiesInv',
         NEW a, NEW r \in Objects, ClientDeleteConnection(a, r)
  PROVE  MessengersInv'
PROOF
  <1> DEFINE k == NameAt(r)
  <1>1. /\ r \in DOMAIN list /\ RemoveRow(r) /\ up /\ up'
        /\ active' = IF a = r THEN NoConnection ELSE active
        /\ dangling' = (a # r /\ (dangling \/ list[r] = active))
        /\ info' = [info EXCEPT ![list[r]] = Doomed(@)] /\ shared' = shared
        /\ websocket' = websocket /\ webDav' = webDav /\ gone' = gone \cup {k}
    BY DEF ClientDeleteConnection, DeleteConnection, ActiveAfterDelete, NameAt
  <1>2. /\ \A i \in DOMAIN list' : \E j \in DOMAIN list \ {r} : list'[i] = list[j]
        /\ \A j \in DOMAIN list \ {r} : \E i \in DOMAIN list' : list'[i] = list[j]
    BY <1>1, RowIsRemoved
  <1>3. \A j \in DOMAIN list \ {r} : info'[list[j]] = info[list[j]]
    BY <1>1, RowFacts
  <1>4. k \in Names
    BY <1>1, RowFacts
  <1>5. MessengerTypes' /\ SessionIsGone' /\ WebsocketsAreOfRows' /\ WebDavsAreOfRows'
    <2>1. gone' = gone \cup ({k} \cap Names)
      BY <1>1, <1>4
    <2>2. ASSUME NEW j \in DOMAIN list, NameAt(j) # k
          PROVE  \E i \in DOMAIN list' :
                   /\ list'[i] = list[j] /\ info'[list'[i]].name = NameAt(j)
                   /\ info'[list'[i]].address \in WebDavAddresses <=> IsWebDav(list[j])
      BY <1>2, <1>3, <2>2 DEF NameAt, IsWebDav
    <2> HIDE DEF k
    <2> QED BY <1>1, <2>1, <2>2, RowsKeepMessengers
  <1>6. ActiveHasOwn'
    <2> SUFFICES ASSUME ~dangling', NEW i \in DOMAIN list', list'[i] = active',
                        info'[list'[i]].name \in Followed'
                 PROVE  active' = IF IsWebDav(active)' THEN webDav'[info'[list'[i]].name]
                                                       ELSE websocket'[info'[list'[i]].name]
      BY DEF ActiveHasOwn, NameAt
    <2>1. PICK j \in DOMAIN list \ {r} : list'[i] = list[j]
      BY <1>2
    <2>2. info'[list'[i]] = info[list[j]] /\ list[j] # NoConnection
      <3>1. list[j] \in Objects
        BY <2>1, RowFacts
      <3> QED BY <1>3, <2>1, <3>1, ConstantTypes DEF Objects, NoConnection
    <2>3. active' = active /\ list[j] = active /\ ~dangling
      BY <1>1, <2>1, <2>2
    <2>4. NameAt(j) \in Followed /\ NameAt(j) = info'[list'[i]].name
      BY <1>1, <2>2 DEF NameAt, Followed
    <2>5. IsWebDav(active)' <=> IsWebDav(active)
      BY <2>2, <2>3 DEF IsWebDav
    <2> QED BY <1>1, <2>3, <2>4, <2>5 DEF MessengersInv, ActiveHasOwn
  <1> QED BY <1>5, <1>6 DEF MessengersInv

LEMMA MessengersStep ==
  ListInv /\ CopiesInv /\ MessengersInv /\ ListInv' /\ CopiesInv' /\ [ClientNext]_clientVars
    => MessengersInv'
PROOF
  <1> SUFFICES ASSUME ListInv, CopiesInv, MessengersInv, ListInv', CopiesInv',
                      [ClientNext]_clientVars
               PROVE  MessengersInv'
    OBVIOUS
  <1>1. CASE ListChanges
    BY <1>1, ListChangesKeepMessengers
  <1>2. CASE ClientUpdateConnection
    BY <1>2 DEF ClientUpdateConnection, MessengerReports, history, Followed, MessengersInv, MessengerTypes,
                SessionIsGone, WebsocketsAreOfRows, WebDavsAreOfRows, ActiveHasOwn,
                IsOfRow, IsWebDav, NameAt
  <1>3. CASE ClientEnd
    <2>1. /\ websocket' = NoMessengers /\ webDav' = NoMessengers /\ gone' = {} /\ list' = <<>>
      BY <1>3 DEF ClientEnd, End
    <2>2. DOMAIN list' = {} /\ \A k \in Names : websocket'[k] = NoConnection /\ webDav'[k] = NoConnection
      BY <2>1 DEF NoMessengers
    <2> QED BY <2>1, <2>2 DEF MessengersInv, MessengerTypes, SessionIsGone, NoMessengers, Followed,
                              WebsocketsAreOfRows, WebDavsAreOfRows, ActiveHasOwn
  <1>4. ASSUME NEW r \in Objects, ClientSetActiveConnection(r) PROVE MessengersInv'
    BY <1>4, ChoiceKeepsMessengers
  <1>5. ASSUME NEW a, NEW r \in Objects, ClientDeleteConnection(a, r) PROVE MessengersInv'
    BY <1>5, DeleteKeepsMessengers
  <1>6. CASE UNCHANGED clientVars
    BY <1>6 DEF clientVars, vars, history, Followed, MessengersInv, MessengerTypes,
                SessionIsGone, WebsocketsAreOfRows, WebDavsAreOfRows, ActiveHasOwn,
                IsOfRow, IsWebDav, NameAt
  <1> QED BY <1>1, <1>2, <1>3, <1>4, <1>5, <1>6 DEF ClientNext

LEMMA MessengersStart == ClientInit => MessengersInv
PROOF
  <1> SUFFICES ASSUME ClientInit PROVE MessengersInv
    OBVIOUS
  <1>1. websocket = NoMessengers /\ webDav = NoMessengers /\ gone = {} /\ list = <<>>
    BY DEF ClientInit, Init
  <1>2. DOMAIN list = {} /\ \A k \in Names : websocket[k] = NoConnection /\ webDav[k] = NoConnection
    BY <1>1 DEF NoMessengers
  <1> QED BY <1>1, <1>2 DEF MessengersInv, MessengerTypes, SessionIsGone, NoMessengers, Followed,
                            WebsocketsAreOfRows, WebDavsAreOfRows, ActiveHasOwn

LEMMA MessengersInvSuffices == ListInv /\ CopiesInv /\ MessengersInv => MessengersFit
PROOF
  <1> SUFFICES ASSUME ListInv, CopiesInv, MessengersInv, NEW r \in DOMAIN list,
                      info[list[r]].name \notin gone \cup shared
               PROVE  LET o == list[r]
                          own == IF IsWebDav(o) THEN webDav[info[o].name]
                                 ELSE websocket[info[o].name]
                      IN  own \in {NoConnection, o} /\ (o = active /\ ~dangling => own = o)
    BY DEF MessengersFit
  <1> DEFINE o == list[r]
             k == NameAt(r)
             own == IF IsWebDav(o) THEN webDav[k] ELSE websocket[k]
  <1>1. k \in Followed
    BY RowFacts DEF NameAt, Followed
  <1>2. own # NoConnection => IsOfRow(own, k)
    BY <1>1 DEF MessengersInv, WebsocketsAreOfRows, WebDavsAreOfRows
  <1>3. ASSUME own # NoConnection PROVE own = o
    <2>1. IsOfRow(own, NameAt(r)) /\ NameAt(r) \notin shared
      BY <1>1, <1>2, <1>3 DEF Followed
    <2> HIDE DEF own
    <2> QED BY <2>1, OneRowOfName
  <1>4. o = active /\ ~dangling => own = o
    BY <1>1 DEF MessengersInv, ActiveHasOwn
  <1> QED BY <1>3, <1>4 DEF NameAt

----------------------------------------------------------------------------
(* In every state of every run of the Client what the connection manager   *)
(* keeps is well-formed, whatever the file held at the start.              *)
THEOREM ConnectionsTypeCorrect == ClientSpec => []TypeOK
PROOF
  <1>1. ClientInit => ListInv
    BY ListStarts DEF ClientInit
  <1>2. ListInv /\ [ClientNext]_clientVars => ListInv'
    BY ListStep, ClientStepIsManagers
  <1>3. ListInv => TypeOK
    BY DEF ListInv
  <1> QED BY <1>1, <1>2, <1>3, PTL DEF ClientSpec

(* updateConnection always finds the row of a listed connection in         *)
(* m_connectionInfoIndexDict, also when two WebDAV connections were given  *)
(* one name.                                                               *)
THEOREM DictionaryGivesTheRow == ClientSpec => []RowsAreRight
PROOF
  <1>1. ClientInit => ListInv
    BY ListStarts DEF ClientInit
  <1>2. ListInv /\ [ClientNext]_clientVars => ListInv'
    BY ListStep, ClientStepIsManagers
  <1>3. ListInv => RowsAreRight
    BY DEF ListInv
  <1> QED BY <1>1, <1>2, <1>3, PTL DEF ClientSpec

(* The list, m_connectionNames and m_jsonSavedConnections agree on every   *)
(* name that addWebDavConnection has not given twice, and m_activeConnection*)
(* is of the list unless deleteConnection was told of another active row,  *)
(* through every loading, change and end of the program.                   *)
THEOREM ListNamesAndJsonAgree == ClientSpec => []CopiesAgree
PROOF
  <1>1. ClientInit => ListInv /\ CopiesInv
    BY ListStarts, CopiesStart DEF ClientInit
  <1>2. ListInv /\ CopiesInv /\ [ClientNext]_clientVars => ListInv' /\ CopiesInv'
    BY ListStep, CopiesStep, ClientStepIsManagers
  <1>3. ListInv /\ CopiesInv => CopiesAgree
    BY CopiesInvSuffices
  <1> QED BY <1>1, <1>2, <1>3, PTL DEF ClientSpec

(* A connection whose name no removed connection has had, and no second one*)
(* was given, is never served by another connection's messenger.           *)
THEOREM MessengerIsTheConnectionsOwn == ClientSpec => []MessengersFit
PROOF
  <1> DEFINE Inv == ListInv /\ CopiesInv /\ MessengersInv
  <1>1. ClientInit => Inv
    BY ListStarts, CopiesStart, MessengersStart DEF ClientInit
  <1>2. Inv /\ [ClientNext]_clientVars => Inv'
    BY ListStep, CopiesStep, MessengersStep, ClientStepIsManagers
  <1>3. Inv => MessengersFit
    BY MessengersInvSuffices
  <1> QED BY <1>1, <1>2, <1>3, PTL DEF ClientSpec
=============================================================================
