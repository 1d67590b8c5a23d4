----------------------- MODULE DownloadManager_proofs -----------------------
(***************************************************************************)
(* Proofs about DownloadManager for every set of download IDs, number of   *)
(* objects and set of odd entries: the types, the agreement of the list and*)
(* the dictionary, whose state is saved, and that no unfinished download is*)
(* forgotten.                                                              *)
(***************************************************************************)
EXTENDS DownloadManager, TLAPS

----------------------------------------------------------------------------
(* The inductive invariant: the types, the agreement, and that the memory  *)
(* of a program that does not run is empty.  The list and the dictionary   *)
(* name the same downloads, one for each ID.                               *)
ListIsDict ==
  \A k \in Keys, n \in 1..MaxObjects : info[<<k, n>>].life = "listed" <=> dict[k] = n
MemoryIsGone == ~up => json = EmptyFile

ManagerInv == TypeOK /\ ListIsDict /\ MemoryIsGone

Infos == [life : Lives, state : States, used : BOOLEAN, forDelete : BOOLEAN]
Entries == States \cup OddEntries \cup {NoEntry}

----------------------------------------------------------------------------
(* Facts about files.                                                      *)

LEMMA EmptyFileType == EmptyFile \in Files
BY DEF EmptyFile, Files

(* What is in the file after a save.                                       *)
LEMMA SavedType ==
  ASSUME NEW file \in Files, NEW old \in Files
  PROVE  Saved(file, old) \subseteq Files /\ Emptied(file) = EmptyFile
BY DEF Saved, Emptied, Files, EmptyFile

(* Reading keeps every entry that it does not stop at.                     *)
LEMMA KeptEntries ==
  ASSUME NEW file \in Files
  PROVE  /\ Kept(file, {"Finish"}) \in Files
         /\ \A k \in Keys : file[k] \in States \ {"Finish"}
                              => Kept(file, {"Finish"})[k] = file[k]
PROOF
  <1>1. DOMAIN file = Keys /\ file \in [Keys -> Entries]
    BY DEF Files, Entries
  <1>2. Kept(file, {"Finish"}) \in [Keys -> Entries]
    BY <1>1 DEF Kept, Entries
  <1>3. ASSUME NEW k \in Keys, file[k] \in States \ {"Finish"}
        PROVE  Kept(file, {"Finish"})[k] = file[k]
    <2>1. file[k] \notin OddEntry \cup {"Finish"}
      BY <1>3 DEF States, OddEntry
    <2>2. ~IsFirstStop(file, {"Finish"}, k)
      BY <2>1 DEF IsFirstStop, Stops
    <2> QED BY <1>1, <2>2 DEF Kept
  <1> QED BY <1>2, <1>3 DEF Files, Entries

LEMMA InfoTypes ==
  /\ Unused \in Infos
  /\ \A state \in States, used \in BOOLEAN : Listed(state, used) \in Infos
  /\ \A used \in BOOLEAN : Doomed(used) \in Infos
BY DEF Infos, Unused, Listed, Doomed, Lives, States

(* A transport changes neither the life of an object nor its type.         *)
LEMMA WorkedType ==
  ASSUME NEW i \in Infos, NEW state \in States
  PROVE  Worked(i, state) \in Infos /\ Worked(i, state).life = i.life
PROOF
  <1>1. CASE i.life = "doomed"
    <2>1. (state = "Active") \in BOOLEAN
      OBVIOUS
    <2> QED BY <1>1, <2>1, InfoTypes DEF Worked, Doomed, Unused
  <1>2. CASE i.life # "doomed"
    <2>1. (state = "Active") \in BOOLEAN /\ (i.forDelete \/ state = "Finish") \in BOOLEAN
      OBVIOUS
    <2> DEFINE used == state = "Active"
               forDelete == i.forDelete \/ state = "Finish"
    <2>2. Worked(i, state) = [i EXCEPT !.state = state, !.used = used,
                                       !.forDelete = forDelete]
      BY <1>2 DEF Worked
    <2> HIDE DEF used, forDelete
    <2> QED BY <2>1, <2>2 DEF Infos, used, forDelete
  <1> QED BY <1>1, <1>2

LEMMA WorkedState ==
  ASSUME NEW i \in Infos, NEW state, i.life = "listed"
  PROVE  Worked(i, state).state = state
PROOF
  <1> DEFINE used == state = "Active"
             forDelete == i.forDelete \/ state = "Finish"
  <1>1. Worked(i, state) = [i EXCEPT !.state = state, !.used = used, !.forDelete = forDelete]
    BY DEF Worked
  <1> HIDE DEF used, forDelete
  <1> QED BY <1>1 DEF Infos

----------------------------------------------------------------------------
(* The invariant holds at first and is kept by every operation.            *)

LEMMA InitInv == Init => ManagerInv
PROOF
  <1> SUFFICES ASSUME Init PROVE ManagerInv
    OBVIOUS
  <1>1. info \in [Objects -> Infos]
    BY InfoTypes DEF Init
  <1>2. dict \in [Keys -> 0..MaxObjects]
    BY MaxObjectsAssumption DEF Init, NoObject
  <1>3. json \in Files /\ disk \in Files
    BY EmptyFileType DEF Init, Files
  <1>4. TypeOK
    BY <1>1, <1>2, <1>3 DEF TypeOK, Infos, Init
  <1>5. ListIsDict
    BY MaxObjectsAssumption DEF ListIsDict, Init, Objects, Unused, NoObject
  <1> QED BY <1>4, <1>5 DEF ManagerInv, MemoryIsGone, Init

LEMMA LoadKeepsInv ==
  ASSUME ManagerInv, Load PROVE ManagerInv'
PROOF
  <1>1. info' \in [Objects -> Infos]
    BY InfoTypes DEF Load, States
  <1>2. dict' \in [Keys -> 0..MaxObjects]
    BY MaxObjectsAssumption DEF Load, NoObject
  <1>3. json' \in Files /\ disk' \in Files
    BY KeptEntries, SavedType DEF Load, Save, ManagerInv, TypeOK
  <1>4. TypeOK'
    BY <1>1, <1>2, <1>3 DEF TypeOK, Infos, Load
  <1>5. ListIsDict'
    BY MaxObjectsAssumption
       DEF Load, ListIsDict, Objects, Unused, Listed, NoObject
  <1> QED BY <1>4, <1>5 DEF ManagerInv, MemoryIsGone, Load

LEMMA AddDownloadKeepsInv ==
  ASSUME ManagerInv, NEW k \in Ids, AddDownload(k) PROVE ManagerInv'
PROOF
  <1>1. k \in Keys /\ up' = up /\ up
    BY DEF Keys, AddDownload
  <1>2. PICK n \in 1..MaxObjects :
          /\ info[<<k, n>>].life = "unused"
          /\ info' = [info EXCEPT ![<<k, n>>] = Listed("Wait", TRUE)]
          /\ dict' = [dict EXCEPT ![k] = n]
    BY DEF AddDownload
  <1>3. <<k, n>> \in Objects /\ info \in [Objects -> Infos]
    BY <1>1 DEF Objects, ManagerInv, TypeOK, Infos
  <1>4. info' \in [Objects -> Infos]
    BY <1>2, <1>3, InfoTypes DEF States
  <1>5. dict' \in [Keys -> 0..MaxObjects] /\ dict[k] = NoObject
    <2>1. dict[k] = NoObject
      BY DEF AddDownload
    <2>2. dict \in [Keys -> 0..MaxObjects] /\ n \in 0..MaxObjects
      BY MaxObjectsAssumption DEF ManagerInv, TypeOK
    <2> QED BY <1>2, <2>1, <2>2
  <1>6. json' \in Files /\ disk' \in Files
    BY <1>1, SavedType DEF AddDownload, Save, ManagerInv, TypeOK, Files, States
  <1>7. TypeOK'
    BY <1>1, <1>4, <1>5, <1>6 DEF TypeOK, Infos, ManagerInv
  <1>8. ListIsDict'
    <2> SUFFICES ASSUME NEW q \in Keys, NEW m \in 1..MaxObjects
                 PROVE  info'[<<q, m>>].life = "listed" <=> dict'[q] = m
      BY DEF ListIsDict
    <2>1. info[<<q, m>>].life = "listed" <=> dict[q] = m
      BY DEF ManagerInv, ListIsDict
    <2>2. <<q, m>> \in Objects
      BY DEF Objects
    <2>3. CASE q # k
      BY <2>1, <2>2, <2>3, <1>1, <1>2, <1>3 DEF ManagerInv, TypeOK
    <2>4. CASE q = k
      BY <2>1, <2>2, <2>4, <1>1, <1>2, <1>3, <1>5, MaxObjectsAssumption
         DEF ManagerInv, TypeOK, Listed, Unused, NoObject
    <2> QED BY <2>3, <2>4
  <1> QED BY <1>1, <1>7, <1>8 DEF ManagerInv, MemoryIsGone

LEMMA DeleteDownloadKeepsInv ==
  ASSUME ManagerInv, NEW k \in Keys, DeleteDownload(k) PROVE ManagerInv'
PROOF
  <1> DEFINE o == <<k, dict[k]>>
  <1>1. up' = up /\ up /\ dict[k] \in 1..MaxObjects
    BY MaxObjectsAssumption DEF DeleteDownload, ManagerInv, TypeOK, NoObject
  <1>2. o \in Objects /\ info \in [Objects -> Infos] /\ info[o].used \in BOOLEAN
    BY <1>1 DEF Objects, ManagerInv, TypeOK, Infos
  <1>3. /\ info' = [info EXCEPT ![o] = Doomed(info[o].used)]
        /\ dict' = [dict EXCEPT ![k] = NoObject]
    BY DEF DeleteDownload
  <1>4. info' \in [Objects -> Infos]
    BY <1>2, <1>3, InfoTypes
  <1>5. dict' \in [Keys -> 0..MaxObjects]
    BY <1>3, MaxObjectsAssumption DEF ManagerInv, TypeOK, NoObject
  <1>6. json' \in Files /\ disk' \in Files
    BY SavedType DEF DeleteDownload, Save, ManagerInv, TypeOK, Files
  <1>7. TypeOK'
    BY <1>1, <1>4, <1>5, <1>6 DEF TypeOK, Infos, ManagerInv
  <1>8. ListIsDict'
    <2> SUFFICES ASSUME NEW q \in Keys, NEW m \in 1..MaxObjects
                 PROVE  info'[<<q, m>>].life = "listed" <=> dict'[q] = m
      BY DEF ListIsDict
    <2>1. info[<<q, m>>].life = "listed" <=> dict[q] = m
      BY DEF ManagerInv, ListIsDict
    <2>2. <<q, m>> \in Objects
      BY DEF Objects
    <2>3. CASE q # k
      BY <2>1, <2>2, <2>3, <1>2, <1>3 DEF ManagerInv, TypeOK
    <2>4. CASE q = k /\ m # dict[k]
      BY <2>1, <2>2, <2>4, <1>2, <1>3, MaxObjectsAssumption
         DEF ManagerInv, TypeOK, NoObject
    <2>5. CASE q = k /\ m = dict[k]
      BY <2>2, <2>5, <1>2, <1>3, MaxObjectsAssumption
         DEF ManagerInv, TypeOK, NoObject, Doomed, Unused
    <2> QED BY <2>3, <2>4, <2>5
  <1> QED BY <1>1, <1>7, <1>8 DEF ManagerInv, MemoryIsGone

(* An object changes, but not from or to a listed one.                     *)
LEMMA ObjectChangeKeepsInv ==
  ASSUME ManagerInv, NEW o \in Objects, NEW i \in Infos,
         info' = [info EXCEPT ![o] = i],
         i.life = "listed" <=> info[o].life = "listed",
         up, UNCHANGED <<up, dict>>, json' \in Files, disk' \in Files
  PROVE  ManagerInv'
PROOF
  <1>1. info \in [Objects -> Infos]
    BY DEF ManagerInv, TypeOK, Infos
  <1>2. info' \in [Objects -> Infos]
    BY <1>1
  <1>3. TypeOK'
    BY <1>2 DEF ManagerInv, TypeOK, Infos
  <1>4. \A q \in Objects : info'[q].life = "listed" <=> info[q].life = "listed"
    BY <1>1
  <1>5. ListIsDict'
    BY <1>4 DEF ManagerInv, ListIsDict, Objects
  <1> QED BY <1>3, <1>5 DEF ManagerInv, MemoryIsGone

LEMMA NoSave == ManagerInv /\ UNCHANGED <<json, disk>> => json' \in Files /\ disk' \in Files
BY DEF ManagerInv, TypeOK

(* A download's new state is saved under the ID its object has.            *)
LEMMA StateSaved ==
  ASSUME ManagerInv, NEW o \in Objects, NEW state \in States,
         json' = [json EXCEPT ![IdOf(o)] = state], Save(json')
  PROVE  json' \in Files /\ disk' \in Files
PROOF
  <1>1. json' \in Files
    BY DEF ManagerInv, TypeOK, Files
  <1> QED BY <1>1, SavedType DEF ManagerInv, TypeOK, Save

LEMMA EndKeepsInv ==
  ASSUME ManagerInv, Ends, disk' \in Files PROVE ManagerInv'
PROOF
  <1>1. info' \in [Objects -> Infos] /\ json' \in Files
    BY InfoTypes, EmptyFileType DEF Ends
  <1>2. TypeOK'
    <2>1. up' \in BOOLEAN
      BY DEF Ends
    <2>2. dict' \in [Keys -> 0..MaxObjects]
      BY MaxObjectsAssumption DEF Ends, NoObject
    <2> QED BY <1>1, <2>1, <2>2 DEF TypeOK, Infos
  <1>3. ListIsDict'
    BY MaxObjectsAssumption DEF Ends, ListIsDict, Objects, Unused, NoObject
  <1> QED BY <1>2, <1>3 DEF ManagerInv, MemoryIsGone, Ends

(* What the destructor saves.                                              *)
LEMMA QuitSaves ==
  ASSUME ManagerInv
  PROVE  [k \in Keys |-> IF Marked(k) THEN NoEntry ELSE json[k]] \in Files
BY DEF ManagerInv, TypeOK, Files

LEMMA NextKeepsInv == ManagerInv /\ [Next]_vars => ManagerInv'
PROOF
  <1> SUFFICES ASSUME ManagerInv, [Next]_vars PROVE ManagerInv'
    OBVIOUS
  <1>1. CASE UNCHANGED vars
    BY <1>1 DEF vars, ManagerInv, TypeOK, ListIsDict, MemoryIsGone
  <1>2. CASE Load
    BY <1>2, LoadKeepsInv
  <1>3. CASE LoadRefused
    BY <1>3 DEF LoadRefused, ManagerInv, TypeOK, ListIsDict, MemoryIsGone
  <1>4. CASE Quit
    BY <1>4, EndKeepsInv, QuitSaves, SavedType DEF Quit, Save, ManagerInv, TypeOK
  <1>5. CASE Crash
    BY <1>5, EndKeepsInv, EmptyFileType DEF Crash, ManagerInv, TypeOK
  <1>6. ASSUME NEW k \in Ids, Ask(k) PROVE ManagerInv'
    <2> DEFINE o == <<k, dict[k]>>
               i == [info[o] EXCEPT !.used = TRUE]
    <2>1. o \in Objects
      BY <1>6, MaxObjectsAssumption DEF Ask, Objects, Keys, ManagerInv, TypeOK, NoObject
    <2>2. info[o] \in Infos /\ info \in [Objects -> Infos]
      BY <2>1 DEF ManagerInv, TypeOK, Infos
    <2>3. i \in Infos /\ i.life = info[o].life
      BY <2>2 DEF Infos
    <2>4. info' = [info EXCEPT ![o] = i]
      BY <1>6 DEF Ask
    <2> HIDE DEF i, o
    <2> QED BY <1>6, <2>1, <2>3, <2>4, NoSave, ObjectChangeKeepsInv DEF Ask
  <1>7. ASSUME NEW k \in Ids, AddDownload(k) PROVE ManagerInv'
    BY <1>7, AddDownloadKeepsInv
  <1>8. ASSUME NEW k \in Keys, DeleteDownload(k) PROVE ManagerInv'
    BY <1>8, DeleteDownloadKeepsInv
  <1>9. ASSUME NEW o \in Objects, RunDelete(o) PROVE ManagerInv'
    BY <1>9, InfoTypes, NoSave, ObjectChangeKeepsInv DEF RunDelete, Unused
  <1>10. ASSUME NEW o \in Objects, NEW state \in States, TransportSetsState(o, state)
         PROVE  ManagerInv'
    <2>1. info[o] \in Infos
      BY DEF ManagerInv, TypeOK, Infos
    <2>2. Worked(info[o], state) \in Infos /\ Worked(info[o], state).life = info[o].life
      BY <2>1, WorkedType
    <2>3. json' \in Files /\ disk' \in Files
      BY <1>10, StateSaved DEF TransportSetsState
    <2> QED BY <1>10, <2>2, <2>3, ObjectChangeKeepsInv DEF TransportSetsState
  <1>11. ASSUME NEW o \in Objects, NEW state \in States, UpdateDownload(o, state)
         PROVE  ManagerInv'
    <2> DEFINE i == [info[o] EXCEPT !.state = state]
    <2>1. info[o] \in Infos
      BY DEF ManagerInv, TypeOK, Infos
    <2>2. i \in Infos /\ i.life = info[o].life
      BY <2>1 DEF Infos
    <2>3. info' = [info EXCEPT ![o] = i]
      BY <1>11 DEF UpdateDownload
    <2>4. json' \in Files /\ disk' \in Files
      BY <1>11, StateSaved DEF UpdateDownload
    <2> HIDE DEF i
    <2> QED BY <1>11, <2>2, <2>3, <2>4, ObjectChangeKeepsInv DEF UpdateDownload
  <1> QED
    BY <1>1, <1>2, <1>3, <1>4, <1>5, <1>6, <1>7, <1>8, <1>9, <1>10, <1>11 DEF Next

THEOREM Invariance == Spec => []ManagerInv
BY InitInv, NextKeepsInv, PTL DEF Spec

----------------------------------------------------------------------------
(* What the invariant gives.                                               *)

(* The state of the manager keeps its types.                               *)
THEOREM TypeCorrect == Spec => []TypeOK
  <1>1. ManagerInv => TypeOK
    BY DEF ManagerInv
  <1> QED BY <1>1, Invariance, PTL

(* The list and the dictionary name the same downloads, through additions, *)
(* deletions, state changes of deleted downloads and restarts.             *)
THEOREM ListAgreesWithDict == Spec => []ListIsDict
  <1>1. ManagerInv => ListIsDict
    BY DEF ManagerInv
  <1> QED BY <1>1, Invariance, PTL

(* Setting the state of a DownloadInfo saves it under the ID of a listed   *)
(* one, or under the empty ID.                                             *)
LEMMA SettingSavesListed ==
  ASSUME ManagerInv, NEW k \in Ids, NEW o \in Objects, NEW state \in States,
         info[o].life \in {"listed", "doomed"},
         info[o].life = "listed" => info'[o].state = state,
         json' = [json EXCEPT ![IdOf(o)] = state], dict' = dict
  PROVE  SaveIsOfListed(k)
PROOF
  <1>1. k \in Keys /\ k # EmptyId /\ json \in [Keys -> Entries]
    BY IdsAssumption DEF Keys, ManagerInv, TypeOK, Files, Entries
  <1>2. CASE IdOf(o) # k
    BY <1>1, <1>2 DEF SaveIsOfListed
  <1>3. CASE IdOf(o) = k
    <2>1. info[o].life = "listed" /\ o[1] = k
      BY <1>1, <1>3 DEF IdOf
    <2>2. PICK n \in 1..MaxObjects : o = <<k, n>>
      BY <2>1 DEF Objects
    <2>3. dict[k] = n /\ n # NoObject
      BY <1>1, <2>1, <2>2, MaxObjectsAssumption DEF ManagerInv, ListIsDict, NoObject
    <2>4. json'[k] = state /\ info'[<<k, n>>].state = state
      BY <1>1, <1>3, <2>1, <2>2
    <2> QED BY <2>3, <2>4 DEF SaveIsOfListed
  <1> QED BY <1>2, <1>3

LEMMA StepSavesListed ==
  ASSUME ManagerInv, [Next]_vars, NEW k \in Ids
  PROVE  SaveIsOfListed(k)
PROOF
  <1>1. k \in Keys /\ json \in [Keys -> Entries] /\ info \in [Objects -> Infos]
    BY DEF Keys, ManagerInv, TypeOK, Files, Entries, Infos
  <1>2. CASE UNCHANGED vars \/ LoadRefused
    BY <1>2 DEF vars, LoadRefused, SaveIsOfListed
  <1>3. CASE Load \/ Quit \/ Crash
    BY <1>3 DEF Load, Quit, Crash, Ends, SaveIsOfListed
  <1>4. ASSUME NEW q \in Ids, Ask(q) PROVE SaveIsOfListed(k)
    BY <1>4 DEF Ask, SaveIsOfListed
  <1>5. ASSUME NEW q \in Ids, AddDownload(q) PROVE SaveIsOfListed(k)
    <2>1. PICK n \in 1..MaxObjects :
            /\ info' = [info EXCEPT ![<<q, n>>] = Listed("Wait", TRUE)]
            /\ dict' = [dict EXCEPT ![q] = n]
      BY <1>5 DEF AddDownload
    <2>2. json' = [json EXCEPT ![q] = "Wait"]
      BY <1>5 DEF AddDownload
    <2>3. CASE q # k
      BY <1>1, <2>2, <2>3 DEF SaveIsOfListed
    <2>4. CASE q = k
      <3>1. <<k, n>> \in Objects /\ n # NoObject
        BY <1>1, MaxObjectsAssumption DEF Objects, NoObject
      <3>2. dict'[k] = n
        BY <1>1, <2>1, <2>4 DEF ManagerInv, TypeOK
      <3>3. info'[<<k, n>>].state = "Wait"
        BY <1>1, <2>1, <2>4, <3>1 DEF Listed, Unused
      <3>4. json'[k] = "Wait"
        BY <1>1, <2>2, <2>4
      <3> QED BY <3>1, <3>2, <3>3, <3>4 DEF SaveIsOfListed
    <2> QED BY <2>3, <2>4
  <1>6. ASSUME NEW q \in Keys, DeleteDownload(q) PROVE SaveIsOfListed(k)
    <2>1. json' = [json EXCEPT ![q] = NoEntry]
      BY <1>6 DEF DeleteDownload
    <2>2. json'[k] \in {json[k], NoEntry}
      BY <1>1, <2>1
    <2> QED BY <2>2 DEF SaveIsOfListed
  <1>7. ASSUME NEW o \in Objects, RunDelete(o) PROVE SaveIsOfListed(k)
    BY <1>7 DEF RunDelete, SaveIsOfListed
  <1>8. ASSUME NEW o \in Objects, NEW state \in States, TransportSetsState(o, state)
        PROVE  SaveIsOfListed(k)
    <2>1. info[o].life = "listed" => info'[o].state = state
      <3>1. info[o] \in Infos /\ info'[o] = Worked(info[o], state)
        BY <1>1, <1>8 DEF TransportSetsState
      <3>2. info[o].life = "listed" => Worked(info[o], state).state = state
        BY <3>1, WorkedState
      <3> QED BY <3>1, <3>2
    <2>2. /\ info[o].life \in {"listed", "doomed"}
          /\ json' = [json EXCEPT ![IdOf(o)] = state] /\ dict' = dict
      BY <1>8 DEF TransportSetsState
    <2> QED BY <2>1, <2>2, SettingSavesListed, Zenon
  <1>9. ASSUME NEW o \in Objects, NEW state \in States, UpdateDownload(o, state)
        PROVE  SaveIsOfListed(k)
    <2>1. info'[o].state = state
      BY <1>1, <1>9 DEF UpdateDownload, Infos
    <2>2. /\ info[o].life = "listed"
          /\ json' = [json EXCEPT ![IdOf(o)] = state] /\ dict' = dict
      BY <1>9 DEF UpdateDownload
    <2> QED BY <2>1, <2>2, SettingSavesListed, Zenon
  <1> QED BY <1>2, <1>3, <1>4, <1>5, <1>6, <1>7, <1>8, <1>9 DEF Next

(* What is saved of a download is the state of the one that is listed: a   *)
(* DownloadInfo that was removed and changes late reaches no entry but the *)
(* empty one.                                                              *)
THEOREM RemovedAreNotSaved == Spec => SavesAreOfListed
PROOF
  <1>1. ManagerInv /\ [Next]_vars => [\A k \in Ids : SaveIsOfListed(k)]_vars
    BY StepSavesListed
  <1> QED BY <1>1, Invariance, PTL DEF Spec, SavesAreOfListed

(* A state is never taken for a missing entry.                             *)
LEMMA StateIsEntry == \A state \in States : state # NoEntry
BY DEF States, NoEntry

(* Setting the state of some entry forgets none.                           *)
LEMMA SettingForgetsNone ==
  ASSUME ManagerInv, NEW k \in Ids, NEW q, NEW state \in States, up, up',
         json' = [json EXCEPT ![q] = state]
  PROVE  Survives(k)
PROOF
  <1>1. k \in Keys /\ json \in [Keys -> Entries]
    BY DEF Keys, ManagerInv, TypeOK, Files, Entries
  <1>2. json'[k] = state \/ json'[k] = json[k]
    BY <1>1
  <1> QED BY <1>2, StateIsEntry DEF Survives, Held

LEMMA StepSurvives ==
  ASSUME ManagerInv, [Next]_vars, NEW k \in Ids
  PROVE  Survives(k)
PROOF
  <1>1. k \in Keys /\ json \in Files /\ disk \in Files
    BY DEF Keys, ManagerInv, TypeOK
  <1>2. CASE UNCHANGED vars
    BY <1>2, StateIsEntry DEF vars, Survives, Held
  <1>3. CASE Load
    BY <1>1, <1>3, KeptEntries, StateIsEntry DEF Load, Survives, Held
  <1>4. CASE LoadRefused
    BY <1>4 DEF LoadRefused, Survives, NotRead, ManagerInv, MemoryIsGone
  <1>5. CASE Quit
    <2> DEFINE file == [q \in Keys |-> IF Marked(q) THEN NoEntry ELSE json[q]]
    <2>1. file \in Files /\ disk' \in {file, disk, EmptyFile} /\ up /\ ~up'
      BY <1>1, <1>5, QuitSaves, SavedType DEF Quit, Ends, Save, Saved
    <2>2. CASE disk' = file
      BY <1>1, <2>1, <2>2, StateIsEntry DEF Survives, Held, FinishedBefore
    <2>3. CASE disk' \in {disk, EmptyFile}
      BY <2>1, <2>3 DEF Survives, EndedUnsaved
    <2> QED BY <2>1, <2>2, <2>3
  <1>6. CASE Crash
    BY <1>6 DEF Crash, Ends, Survives, EndedUnsaved
  <1>7. ASSUME NEW q \in Ids, Ask(q) PROVE Survives(k)
    BY <1>7, StateIsEntry DEF Ask, Survives, Held
  <1>8. ASSUME NEW q \in Ids, AddDownload(q) PROVE Survives(k)
    BY <1>8, SettingForgetsNone DEF AddDownload, States
  <1>9. ASSUME NEW q \in Keys, DeleteDownload(q) PROVE Survives(k)
    <2>1. CASE q = k
      BY <1>1, <1>9, <2>1
         DEF DeleteDownload, Survives, RemovedByUser, ManagerInv, TypeOK
    <2>2. CASE q # k
      BY <1>1, <1>9, <2>2, StateIsEntry DEF DeleteDownload, Survives, Held, Files
    <2> QED BY <2>1, <2>2
  <1>10. ASSUME NEW o \in Objects, RunDelete(o) PROVE Survives(k)
    BY <1>10, StateIsEntry DEF RunDelete, Survives, Held
  <1>11. ASSUME NEW o \in Objects, NEW state \in States,
                TransportSetsState(o, state) \/ UpdateDownload(o, state)
         PROVE  Survives(k)
    <2>1. up /\ up' /\ json' = [json EXCEPT ![IdOf(o)] = state]
      BY <1>11 DEF TransportSetsState, UpdateDownload
    <2> QED BY <2>1, SettingForgetsNone
  <1> QED
    BY <1>2, <1>3, <1>4, <1>5, <1>6, <1>7, <1>8, <1>9, <1>10, <1>11 DEF Next

(* An unfinished download is forgotten only when the user removes it, when *)
(* the program ends without a save or cannot read the file, or when the    *)
(* download had finished once before.                                      *)
THEOREM NothingUnfinishedIsForgotten == Spec => UnfinishedSurvives
PROOF
  <1>1. ManagerInv /\ [Next]_vars =>
          [\A k \in Ids : Survives(k)]_vars
    BY StepSurvives
  <1> QED BY <1>1, Invariance, PTL DEF Spec, UnfinishedSurvives
=============================================================================
