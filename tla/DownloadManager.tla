-------------------------- MODULE DownloadManager --------------------------
(***************************************************************************)
(* The list of downloads (download_manager.cpp) and the file it is saved   *)
(* to (manager_utils.cpp), over sessions that end in an orderly way or by a*)
(* crash.  The manager keeps each download three times: as a DownloadInfo  *)
(* in the list and the dictionary, in a JSON object, and in the file.      *)
(*                                                                         *)
(* Download IDs are numbers, ordered as QJsonObject::keys orders them; the *)
(* empty string comes first.  An entry of the JSON object is represented by*)
(* its download state.  The order of the list is left out: nothing but the *)
(* view depends on it.                                                     *)
(***************************************************************************)
EXTENDS AppData

CONSTANTS Ids,            \* the download IDs
          MaxObjects,     \* DownloadInfos of one ID that may exist at once
          OddEntries      \* entries a file not written by this program holds

EmptyId == 0
NoObject == 0
ASSUME IdsAssumption == Ids \subseteq Nat \ {EmptyId}
ASSUME MaxObjectsAssumption == MaxObjects \in Nat \ {0}
ASSUME OddEntriesAssumption == OddEntries \subseteq OddEntry

Keys == Ids \cup {EmptyId}
Objects == Keys \X (1..MaxObjects)    \* <<k, n>>: the n-th object made for k
States == {"Pause", "Wait", "Active", "Finish", "Error"}
Lives == {"unused", "listed", "doomed"}
Files == [Keys -> States \cup OddEntries \cup {NoEntry}]
EmptyFile == [k \in Keys |-> NoEntry]

VARIABLES
  up,      \* the program runs
  info,    \* info[o]: a DownloadInfo; "doomed" has deleteLater called, and
           \* its state and mark are of no interest any more
  dict,    \* m_downloadInfoDict: the number of k's object, or NoObject
  json,    \* m_jsonUnfinishedDownloads
  disk     \* the file

vars == <<up, info, dict, json, disk>>

Unused == [life |-> "unused", state |-> "Pause", used |-> FALSE, forDelete |-> FALSE]
Listed(state, used) == [Unused EXCEPT !.life = "listed", !.state = state, !.used = used]
Doomed(used) == [Unused EXCEPT !.life = "doomed", !.used = used]

IdStays(o) == o[1]                                                 \* mutant
(* m_downloadID: deleteDownload moves it out of the DownloadInfo.          *)
IdOf(o) == IF info[o].life = "doomed" THEN EmptyId ELSE o[1]

Save(file) == disk' \in Saved(file, disk)

----------------------------------------------------------------------------
Init ==
  /\ up = FALSE
  /\ info = [o \in Objects |-> Unused]
  /\ dict = [k \in Keys |-> NoObject]
  /\ json = EmptyFile
  /\ disk \in [Keys -> OddEntries \cup {NoEntry}]

(* Reading stops at a finished download.                                   *)
Read == WasRead(disk, {"Finish"})

RewriteReadOnly ==                                                 \* mutant
  /\ ~up
  /\ up' = TRUE
  /\ info' = [o \in Objects |->
                IF o[1] \in Read /\ o[2] = 1 THEN Listed("Pause", FALSE) ELSE Unused]
  /\ dict' = [k \in Keys |-> IF k \in Read THEN 1 ELSE NoObject]
  /\ json' = [k \in Keys |-> IF k \in Read THEN disk[k] ELSE NoEntry]
  /\ Save(json')

(* readUnfinishedDownloads and initInfo, which pauses what it reads.       *)
Load ==
  /\ ~up
  /\ up' = TRUE
  /\ info' = [o \in Objects |->
                IF o[1] \in Read /\ o[2] = 1 THEN Listed("Pause", FALSE) ELSE Unused]
  /\ dict' = [k \in Keys |-> IF k \in Read THEN 1 ELSE NoObject]
  /\ json' = Kept(disk, {"Finish"})
  /\ IF Broken(disk, {"Finish"}) THEN UNCHANGED disk ELSE Save(json')

(* The file cannot be opened or is too large: nothing is read.             *)
LoadRefused ==
  /\ ~up
  /\ up' = TRUE
  /\ UNCHANGED <<info, dict, json, disk>>

(* Client::getFileRange: addDownload, which refuses a known ID, and a new  *)
(* transport that works on the DownloadInfo of the ID.                     *)
Ask(k) ==
  /\ up
  /\ dict[k] # NoObject
  /\ info' = [info EXCEPT ![<<k, dict[k]>>].used = TRUE]
  /\ UNCHANGED <<up, dict, json, disk>>

AddDownload(k) ==
  /\ up
  /\ dict[k] = NoObject
  /\ \E n \in 1..MaxObjects :
       /\ info[<<k, n>>].life = "unused"
       /\ info' = [info EXCEPT ![<<k, n>>] = Listed("Wait", TRUE)]
       /\ dict' = [dict EXCEPT ![k] = n]
  /\ json' = [json EXCEPT ![k] = "Wait"]
  /\ Save(json')
  /\ UNCHANGED up

IndexNotFound(k) ==                                                \* mutant
  /\ up
  /\ dict[k] # NoObject
  /\ info' = [info EXCEPT ![<<k, dict[k]>>] = Doomed(@.used)]
  /\ dict' = [dict EXCEPT ![k] = -1]
  /\ json' = [json EXCEPT ![k] = NoEntry]
  /\ Save(json')
  /\ UNCHANGED up

(* deleteDownload of the row of k.                                         *)
DeleteDownload(k) ==
  /\ up
  /\ dict[k] # NoObject
  /\ info' = [info EXCEPT ![<<k, dict[k]>>] = Doomed(@.used)]
  /\ dict' = [dict EXCEPT ![k] = NoObject]
  /\ json' = [json EXCEPT ![k] = NoEntry]
  /\ Save(json')
  /\ UNCHANGED up

(* The event loop deletes the DownloadInfo.                                *)
RunDelete(o) ==
  /\ up
  /\ info[o].life = "doomed"
  /\ info' = [info EXCEPT ![o] = Unused]
  /\ UNCHANGED <<up, dict, json, disk>>

(* A transport is done with a DownloadInfo that finished or failed, and    *)
(* marks it for deletion when it finished.                                 *)
Worked(i, state) ==
  IF i.life = "doomed" THEN Doomed(state = "Active")
  ELSE [i EXCEPT !.state = state, !.used = (state = "Active"),
                 !.forDelete = @ \/ state = "Finish"]

(* A transport sets the state of its DownloadInfo, if need be a doomed one.*)
(* The slot of downloadStateChanged is rewriteSelectAppData.               *)
TransportSetsState(o, state) ==
  /\ up
  /\ info[o].used
  /\ info[o].life \in {"listed", "doomed"}
  /\ state \in {"Active", "Finish", "Error"}
  /\ info' = [info EXCEPT ![o] = Worked(@, state)]
  /\ json' = [json EXCEPT ![IdOf(o)] = state]
  /\ Save(json')
  /\ UNCHANGED <<up, dict>>

(* updateDownload, which sets any property to any value; of the properties *)
(* the model has the state.  Updating another one but the ID is updating   *)
(* the state to what it is.                                                *)
UpdateDownload(o, state) ==
  /\ up
  /\ info[o].life = "listed"
  /\ info' = [info EXCEPT ![o].state = state]
  /\ json' = [json EXCEPT ![IdOf(o)] = state]
  /\ Save(json')
  /\ UNCHANGED <<up, dict>>

(* However the program ends, its memory is gone.                           *)
Ends ==
  /\ up
  /\ up' = FALSE
  /\ info' = [o \in Objects |-> Unused]
  /\ dict' = [k \in Keys |-> NoObject]
  /\ json' = EmptyFile

(* The destructor: deleteFinishedDownloads.                                *)
Marked(k) == dict[k] # NoObject /\ info[<<k, dict[k]>>].forDelete
Quit ==
  /\ Ends
  /\ Save([k \in Keys |-> IF Marked(k) THEN NoEntry ELSE json[k]])

(* A crash, possibly after a save has emptied the file and before it has   *)
(* written it.  What is left of a half-written file does not parse.        *)
Crash == Ends /\ disk' \in {disk, EmptyFile}

Next ==
  \/ Load \/ LoadRefused \/ Quit \/ Crash
  \/ \E k \in Ids : Ask(k) \/ AddDownload(k)
  \/ \E k \in Keys : DeleteDownload(k)
  \/ \E o \in Objects :
       \/ RunDelete(o)
       \/ \E state \in States : TransportSetsState(o, state) \/ UpdateDownload(o, state)

Spec == Init /\ [][Next]_vars

----------------------------------------------------------------------------
(* Type invariant.                                                         *)
TypeOK ==
  /\ up \in BOOLEAN
  /\ info \in [Objects -> [life : Lives, state : States, used : BOOLEAN,
                           forDelete : BOOLEAN]]
  /\ dict \in [Keys -> 0..MaxObjects]
  /\ json \in Files
  /\ disk \in Files

(* An entry changes only to the state of the listed download of its ID: a  *)
(* removed one whose state changes late neither brings its entry back nor  *)
(* takes that of the download that was added since under the same ID.      *)
SaveIsOfListed(k) ==
  up /\ up' /\ json'[k] \notin {json[k], NoEntry}
    => dict'[k] # NoObject /\ json'[k] = info'[<<k, dict'[k]>>].state
SavesAreOfListed == [][\A k \in Ids : SaveIsOfListed(k)]_vars

(* What the program holds of k: in memory while it runs, else in the file. *)
Held(k) == IF up THEN json[k] ELSE disk[k]
RemovedByUser(k) == up' /\ dict[k] # NoObject /\ dict'[k] = NoObject
EndedUnsaved == up /\ ~up' /\ disk' \in {disk, EmptyFile}
FinishedBefore(k) == up /\ ~up' /\ Marked(k)
NotRead == ~up /\ up' /\ json' = EmptyFile /\ disk' = disk
Survives(k) ==
  Held(k) \in States \ {"Finish"} /\ Held(k)' = NoEntry
    => RemovedByUser(k) \/ EndedUnsaved \/ NotRead \/ FinishedBefore(k)

(* An unfinished download is forgotten only when the user removes it: not  *)
(* because another entry stopped the reading, nor at the end of a session. *)
(* The exceptions are a crash, a save that failed, a file not read, and a  *)
(* download that had finished before and was asked for again: its mark for *)
(* deletion stays.                                                         *)
UnfinishedSurvives == [][\A k \in Ids : Survives(k)]_vars
=============================================================================
