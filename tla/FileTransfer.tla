---------------------------- MODULE FileTransfer ----------------------------
(***************************************************************************)
(* Downloading one file: the DownloadInfo of its download ID, the client   *)
(* transports (client_tcp_tls_transport.cpp) that work on it, the save     *)
(* files they append to, the network, and the server of FileServer at the  *)
(* other end.  Client::getFile creates one ClientTcpTlsTransport, with one *)
(* connection, per call; calls for the same file share the DownloadInfo,   *)
(* because the download ID is a hash of the file's path, so the transport  *)
(* is named by its connection.                                             *)
(*                                                                         *)
(* Client and server are two event loops: their steps interleave.  A lost  *)
(* link is noticed by each side in its own time.                           *)
(***************************************************************************)
EXTENDS FileServer, OffsetCodec, FiniteSetsExt

CONSTANTS Paths,         \* the save paths
          SaveChoices,   \* <<c, p>>: the user may have transport c save to p
          WriteBuffer,   \* the largest write QFile keeps in its buffer
          Leftovers,     \* what may be at a save path beforehand
          Resumes        \* m_lastReceivedByte of a download of an earlier session

ASSUME SaveChoicesAssumption == SaveChoices \subseteq Connections \X Paths
ASSUME WriteBufferAssumption == WriteBuffer \in 0..(ChunkSize - 1)
ASSUME LeftoversAssumption == Leftovers \subseteq [size : Nat, exact : BOOLEAN]
ASSUME ResumesAssumption == Resumes \subseteq Nat

VARIABLES
  info,        \* the DownloadInfo; state "Absent" is an ID nobody has asked for
  transport,   \* transport[c]: the client's socket of connection c
  link,        \* link[c]: the network still carries connection c
  request,     \* request[c]: the offset c asked for, NoRequest before that
  received,    \* received[c]: how many messages c has handled
  output,      \* output[c]: c's m_outputFile, with the range in its buffer
  saved        \* saved[p]: size of the file at p; is it a prefix of the source

clientVars == <<info, transport, link, request, received, output, saved>>
vars == <<serverVars, clientVars>>

NoRequest == -1
DownloadStates == {"Absent", "Pause", "Wait", "Active", "Finish", "Error"}
TransportStates == {"none", "connecting", "connected", "disconnected"}

----------------------------------------------------------------------------
(* Files.  Appending a range of the source keeps a prefix of the source    *)
(* only if the range starts where the file ends.                           *)
AppendRange(file, from, to) ==
  IF from = to THEN file
  ELSE [size |-> file.size + (to - from), exact |-> file.exact /\ from = file.size]

Buffered(c) == output[c].to - output[c].from

(* QFile writes out what transport c has buffered: flush, size and close.  *)
FlushOutput(c) ==
  [saved EXCEPT ![output[c].path] = AppendRange(@, output[c].from, output[c].to)]

(* QFile::write.  A small chunk stays in the buffer, a larger one goes to  *)
(* the file.  Only the last chunk of a stream is small, so the buffer is   *)
(* empty here.                                                             *)
Write(c, from, to) ==
  IF to - from <= WriteBuffer
  THEN /\ output' = [output EXCEPT ![c].from = from, ![c].to = to]
       /\ UNCHANGED saved
  ELSE /\ saved' = [saved EXCEPT ![output[c].path] = AppendRange(@, from, to)]
       /\ UNCHANGED output

----------------------------------------------------------------------------
(* The download may be known from an earlier session (then it is paused)   *)
(* and anything may be at the save path.                                   *)
Init ==
  /\ ServerInit
  /\ info \in [state : {"Absent"}, last : {0}, size : {0}, path : Paths, forDelete : {FALSE}]
       \cup [state : {"Pause"}, last : Resumes, size : {FileSize}, path : Paths,
             forDelete : {FALSE}]
  /\ transport = [c \in Connections |-> "none"]
  /\ link = [c \in Connections |-> TRUE]
  /\ request = [c \in Connections |-> NoRequest]
  /\ received = [c \in Connections |-> 0]
  /\ output \in [Connections -> [path : Paths, open : {FALSE}, from : {0}, to : {0}]]
  /\ \A c \in Connections : <<c, output[c].path>> \in SaveChoices
  /\ saved \in [Paths -> Leftovers \cup {[size |-> 0, exact |-> TRUE]}]

GetFileFromNowhere(c) ==                                           \* mutant
  /\ transport[c] = "none"
  /\ transport' = [transport EXCEPT ![c] = "connecting"]
  /\ info' = [info EXCEPT !.state = "Wait", !.last = NoRequest]
  /\ UNCHANGED <<serverVars, link, request, received, output, saved>>

(* Client::getFile: a new transport.  addDownload refuses an ID it has, and*)
(* the transport then works on the DownloadInfo of the earlier call.       *)
GetFile(c) ==
  /\ transport[c] = "none"
  /\ transport' = [transport EXCEPT ![c] = "connecting"]
  /\ info' = IF info.state # "Absent" THEN info
             ELSE [state |-> "Wait", last |-> 0, size |-> FileSize,
                   path |-> output[c].path, forDelete |-> FALSE]
  /\ UNCHANGED <<serverVars, link, request, received, output, saved>>

(* onConnected and requestFile.                                            *)
Connected(c) ==
  /\ transport[c] = "connecting"
  /\ transport' = [transport EXCEPT ![c] = "connected"]
  /\ info' = [info EXCEPT !.state = "Active"]
  /\ request' = [request EXCEPT ![c] = info.last]
  /\ UNCHANGED <<serverVars, link, received, output, saved>>

(* onSocketError while connecting: the error is emitted, and that is all.  *)
ConnectFailed(c) ==
  /\ transport[c] = "connecting"
  /\ transport' = [transport EXCEPT ![c] = "disconnected"]
  /\ UNCHANGED <<serverVars, info, link, request, received, output, saved>>

(* The network drops the connection.                                       *)
LoseLink(c) ==
  /\ transport[c] = "connected"
  /\ link[c]
  /\ link' = [link EXCEPT ![c] = FALSE]
  /\ UNCHANGED <<serverVars, info, transport, request, received, output, saved>>

(* onDisconnected: the save file is closed, the DownloadInfo left alone.   *)
(* MessageSocket emits the signal twice; the second finds the file closed. *)
ClientLosesServer(c) ==
  /\ transport[c] = "connected"
  /\ ~link[c]
  /\ transport' = [transport EXCEPT ![c] = "disconnected"]
  /\ saved' = FlushOutput(c)
  /\ output' = [output EXCEPT ![c].open = FALSE, ![c].from = 0, ![c].to = 0]
  /\ UNCHANGED <<serverVars, info, link, request, received>>

----------------------------------------------------------------------------
(* The server's side of the connection.                                    *)
ServerAccepts(c) ==
  /\ transport[c] = "connected"
  /\ link[c]
  /\ Accept(c)
  /\ UNCHANGED clientVars

ServerAnswers(c) ==
  /\ request[c] # NoRequest
  /\ StartTransfer(c, ReadOffset(request[c])) \/ RefuseTransfer(c)
  /\ UNCHANGED clientVars

ServerWorks(c) ==
  /\ Flush(c) \/ RunPosted(c)
  /\ UNCHANGED clientVars

ServerForgetsClient(c) ==                                          \* mutant
  /\ ~link[c]
  /\ socket[c] = "connected"
  /\ socket' = [socket EXCEPT ![c] = "deleted"]
  /\ UNCHANGED <<sender, stream, posted, late, clientVars>>
ServerLosesClient(c) ==
  /\ ~link[c]
  /\ ClientDisconnected(c)
  /\ UNCHANGED clientVars

----------------------------------------------------------------------------
(* onMessageReceived.  MessageSocket hands over whole messages, in order.  *)
NextMessage(c) == stream[c].sent[received[c] + 1]

Receives(c, kind) ==
  /\ transport[c] = "connected"
  /\ received[c] < Len(stream[c].sent)
  /\ NextMessage(c).kind = kind
  /\ NextMessage(c).end <= stream[c].flushed
  /\ received' = [received EXCEPT ![c] = @ + 1]
  /\ UNCHANGED <<serverVars, transport, link, request>>

(* ResponseOk: the save file is opened for appending, or cannot be.        *)
OnResponseOk(c) ==
  /\ Receives(c, "ResponseOk")
  /\ \/ /\ output' = [output EXCEPT ![c].open = TRUE]
        /\ info' = [info EXCEPT !.size = FileSize, !.state = "Active"]
     \/ /\ info' = [info EXCEPT !.size = FileSize, !.state = "Error"]
        /\ UNCHANGED output
  /\ UNCHANGED saved

OnResponseError(c) ==
  /\ Receives(c, "ResponseError")
  /\ info' = [info EXCEPT !.state = "Error"]
  /\ UNCHANGED <<output, saved>>

(* A chunk is refused unless the download is active and the file open.     *)
Expected(c) == info.state = "Active" /\ output[c].open

CountBeforeCheck(c) ==                                             \* mutant
  /\ Receives(c, "FileChunk")
  /\ LET m == NextMessage(c) IN
     /\ info' = [info EXCEPT !.last = @ + (m.to - m.from)]
     /\ IF Expected(c) THEN Write(c, m.from, m.to) ELSE UNCHANGED <<output, saved>>
OnFileChunk(c) ==
  /\ Receives(c, "FileChunk")
  /\ LET m == NextMessage(c) IN
     IF Expected(c)
     THEN /\ Write(c, m.from, m.to)
          /\ info' = [info EXCEPT !.last = @ + (m.to - m.from)]
     ELSE UNCHANGED <<info, output, saved>>

FinishUnchecked(c) ==                                              \* mutant
  /\ Receives(c, "TransferComplete")
  /\ IF info.state # "Active"
     THEN UNCHANGED <<info, output, saved>>
     ELSE /\ saved' = FlushOutput(c)
          /\ output' = [output EXCEPT ![c].from = 0, ![c].to = 0]
          /\ info' = [info EXCEPT !.state = "Finish", !.forDelete = TRUE]
FinishUnflushed(c) ==                                              \* mutant
  /\ Receives(c, "TransferComplete")
  /\ info' = IF info.state = "Active"
                  /\ saved[output[c].path].size + Buffered(c) = info.size
               THEN [info EXCEPT !.state = "Finish", !.forDelete = TRUE] ELSE info
  /\ UNCHANGED <<output, saved>>

(* TransferComplete: taken only while active, and only if the save file    *)
(* (whose size is asked for, which flushes it) has the announced size.     *)
OnTransferComplete(c) ==
  /\ Receives(c, "TransferComplete")
  /\ IF info.state # "Active"
     THEN UNCHANGED <<info, output, saved>>
     ELSE /\ saved' = FlushOutput(c)
          /\ output' = [output EXCEPT ![c].from = 0, ![c].to = 0]
          /\ info' = IF saved'[output[c].path].size # info.size THEN info
                     ELSE [info EXCEPT !.state = "Finish", !.forDelete = TRUE]

Receive(c) ==
  OnResponseOk(c) \/ OnResponseError(c) \/ OnFileChunk(c) \/ OnTransferComplete(c)

Next ==
  \E c \in Connections :
    \/ GetFile(c) \/ Connected(c) \/ ConnectFailed(c)
    \/ LoseLink(c) \/ ClientLosesServer(c) \/ ServerLosesClient(c)
    \/ ServerAccepts(c) \/ ServerAnswers(c) \/ ServerWorks(c)
    \/ Receive(c)

(* Both event loops keep running and the network carries what it is given  *)
(* until it drops the connection.  The user need not ask for anything.     *)
Fairness ==
  \A c \in Connections :
    /\ WF_vars(Connected(c) \/ ConnectFailed(c))
    /\ WF_vars(ServerAccepts(c))
    /\ WF_vars(ServerAnswers(c))
    /\ WF_vars(Flush(c) /\ UNCHANGED clientVars)
    /\ WF_vars(RunPosted(c) /\ UNCHANGED clientVars)
    /\ WF_vars(Receive(c))
    /\ WF_vars(ClientLosesServer(c))

Spec == Init /\ [][Next]_vars /\ Fairness

----------------------------------------------------------------------------
(* Type invariant of the client's state.                                   *)
TypeOK ==
  /\ ServerTypeOK
  /\ info \in [state : DownloadStates, last : Nat, size : Nat, path : Paths,
               forDelete : BOOLEAN]
  /\ transport \in [Connections -> TransportStates]
  /\ link \in [Connections -> BOOLEAN]
  /\ request \in [Connections -> Nat \cup {NoRequest}]
  /\ received \in [Connections -> Nat]
  /\ output \in [Connections -> [path : Paths, open : BOOLEAN, from : Nat, to : Nat]]
  /\ saved \in [Paths -> [size : Nat, exact : BOOLEAN]]

(* The environment FileServer assumes is the one the client provides: what *)
(* happens to the server here is a behaviour of FileServer.                *)
ServesAsSpecified == ServerInit /\ [][ServerNext]_serverVars

(* A download that reads Finish left an exact copy of the file at the path *)
(* it was saved to, whatever was lost, refused, buffered or appended to on *)
(* the way.                                                                *)
ExactCopy == [size |-> FileSize, exact |-> TRUE]
FinishedIsSaved == info.state = "Finish" => saved[info.path] = ExactCopy

(* The same of the transport that finishes the download, at its own path.  *)
SaverHasCopy ==
  info'.state = "Finish" /\ info.state # "Finish" =>
    \E c \in Connections : /\ received'[c] # received[c]
                           /\ saved'[output[c].path] = ExactCopy
FinishedBySaver == [][SaverHasCopy]_vars

(* The progress of a download is what its transports have put into the save*)
(* files or hold in a buffer for them: a refused chunk does not count, and *)
(* a lost connection loses nothing that was counted.                       *)
BytesSaved ==
  SumFunction([p \in Paths |-> saved[p].size]) + SumFunction([c \in Connections |-> Buffered(c)])
ProgressIsSaved == [][info'.last - info.last = BytesSaved' - BytesSaved]_vars

(* A download that starts from nothing finishes, fails, or its connection  *)
(* does.                                                                   *)
Undisturbed(c) == transport[c] # "disconnected" /\ link[c]
FreshDownloadEnds ==
  \A c \in Connections :
    /\ transport[c] = "connecting"
    /\ info.last = 0
    /\ saved[output[c].path].size = 0
    ~> info.state \in {"Finish", "Error"} \/ ~Undisturbed(c)

----------------------------------------------------------------------------
(* download_info.hpp says of m_lastReceivedByte: "Starting position in the *)
(* file (in bytes)": the answer to a request starts there.                 *)
AnswerStartsWhereAsked ==
  \A c \in Connections :
    /\ stream[c].sent # <<>>
    /\ stream[c].sent[1].kind = "ResponseOk"
    => stream[c].sent[1].to = request[c]
=============================================================================
