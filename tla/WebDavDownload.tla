--------------------------- MODULE WebDavDownload ---------------------------
(***************************************************************************)
(* Downloading one file from a WebDAV server: the DownloadInfo of its      *)
(* download ID, the ClientWebDAV objects made for it (one for each         *)
(* getFile), their HTTP replies, and the one save file they all open.      *)
(*                                                                         *)
(* Byte i of the file is the number i; Junk is any byte that is not of the *)
(* file: of an error page, or never written.  Whether a reply ended with an*)
(* error is left out, because nothing asks for it.                         *)
(***************************************************************************)
EXTENDS Integers, Sequences

CONSTANTS Transports,  \* the ClientWebDAV objects
          FileSize,    \* bytes of the file
          Threshold,   \* 256,000: fewer bytes stay in the reply
          Resumes      \* m_lastReceivedByte of a download of an earlier session

ASSUME SizeAssumption == FileSize \in Nat \ {0} /\ Threshold \in Nat \ {0}
ASSUME ResumesAssumption == Resumes \subseteq 1..FileSize

Junk == 0
Source == [i \in 1..FileSize |-> i]
ErrorPage == <<Junk>>

VARIABLES
  info,       \* the DownloadInfo; state "Absent" is an ID nobody has asked for
  transport,  \* transport[t]: its reply, and whether it could open the save file
  saved       \* the save file

downloadVars == <<info, transport, saved>>

NoTransport ==
  [phase |-> "none", from |-> 0, opened |-> FALSE, body |-> <<>>, arrived |-> 0, written |-> 0]

DownloadInit ==
  /\ transport = [t \in Transports |-> NoTransport]
  /\ \/ /\ info = [state |-> "Absent", last |-> 0, forDelete |-> FALSE]
        /\ saved = <<>>
     \/ \E n \in Resumes :
          /\ info = [state |-> "Pause", last |-> n, forDelete |-> FALSE]
          /\ saved = SubSeq(Source, 1, n)

Known == IF info.state = "Absent" THEN [info EXCEPT !.state = "Wait"] ELSE info

(* Client::getFile and ClientWebDAV::getFile.  The save file is emptied    *)
(* when it is opened, and the bytes behind the last one received are asked *)
(* for.                                                                    *)
GetFile(t) ==
  /\ transport[t].phase = "none"
  /\ info' = Known
  /\ \E opened \in BOOLEAN :
       /\ transport' = [transport EXCEPT ![t] = [@ EXCEPT !.phase = "asked",
                                                          !.from = info.last,
                                                          !.opened = opened]]
       /\ saved' = IF opened THEN <<>> ELSE saved

(* The server sends the range asked for, or the whole file if it knows no  *)
(* ranges, or an error page.                                               *)
Answers(from) ==
  {Source, ErrorPage} \cup {SubSeq(Source, n + 1, FileSize) : n \in {from} \ {FileSize}}
ServerAnswers(t) ==
  /\ transport[t].phase = "asked"
  /\ \E body \in Answers(transport[t].from) :
       transport' = [transport EXCEPT ![t].phase = "answering", ![t].body = body]
  /\ UNCHANGED <<info, saved>>

(* QFile::write at a position, which another transport may have put beyond *)
(* the end of the file.                                                    *)
Write(file, at, bytes) ==
  LET end == at + Len(bytes)
  IN IF bytes = <<>> THEN file
     ELSE [i \in 1..(IF end > Len(file) THEN end ELSE Len(file)) |->
             IF i \in (at + 1)..end THEN bytes[i - at]
             ELSE IF i <= Len(file) THEN file[i] ELSE Junk]

(* The file after write(readAll()), which fails if it could not be opened. *)
WithArrived(t, arrived) ==
  IF transport[t].opened
  THEN Write(saved, transport[t].written,
             SubSeq(transport[t].body, transport[t].written + 1, arrived))
  ELSE saved

(* replyReadyRead.                                                         *)
ReplyReadyRead(t, arrived) ==
  IF arrived - transport[t].written < Threshold
  THEN /\ transport' = [transport EXCEPT ![t].arrived = arrived]
       /\ UNCHANGED saved
  ELSE /\ transport' = [transport EXCEPT ![t].arrived = arrived, ![t].written = arrived]
       /\ saved' = WithArrived(t, arrived)

(* Bytes arrive, and onDownloadProgress may be called.                     *)
Arrive(t) ==
  /\ transport[t].phase = "answering"
  /\ \E arrived \in (transport[t].arrived + 1)..Len(transport[t].body) :
       /\ ReplyReadyRead(t, arrived)
       /\ info' \in {info, [info EXCEPT !.last = arrived]}

ForgetRest(t) ==                                                   \* mutant
  /\ transport[t].phase \in {"asked", "answering"}
  /\ transport' = [transport EXCEPT ![t].phase = "done"]
  /\ info' = [info EXCEPT !.state = "Finish", !.forDelete = TRUE]
  /\ UNCHANGED saved

(* The protocol's replyFinished, which writes the rest and closes the file,*)
(* then onFileReceived.  The reply is complete, or its connection is lost, *)
(* or it is given up before an answer because it asks for the password     *)
(* again (replyError then deletes the file).                               *)
DownloadFinished(t) ==
  /\ transport[t].phase \in {"asked", "answering"}
  /\ transport' = [transport EXCEPT ![t].phase = "done", ![t].written = transport[t].arrived]
  /\ saved' = WithArrived(t, transport[t].arrived)
  /\ info' = [info EXCEPT !.state = "Finish", !.forDelete = TRUE]

DownloadNext ==
  \E t \in Transports :
    GetFile(t) \/ ServerAnswers(t) \/ Arrive(t) \/ DownloadFinished(t)

DownloadSpec == DownloadInit /\ [][DownloadNext]_downloadVars

----------------------------------------------------------------------------
(* If every transport that was used got the whole file, the save file is a *)
(* copy of it when the last of them is done, although each of them emptied *)
(* it under the hands of the others.                                       *)
GotAll(t) ==
  /\ transport[t].phase = "done"
  /\ transport[t].opened
  /\ transport[t].body = Source
  /\ transport[t].arrived = FileSize
Used == {t \in Transports : transport[t].phase # "none"}
WholeAnswersAreSaved ==
  Used # {} /\ (\A t \in Used : GotAll(t)) => saved = Source

=============================================================================
