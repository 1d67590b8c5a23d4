----------------------------- MODULE FileServer -----------------------------
(***************************************************************************)
(* The transport server (server_tcp_tls_transport.cpp) with one FileSender *)
(* (file_sender.cpp) per request.  Everything runs in one Qt event loop:   *)
(* a slot runs to completion, and what a slot posts (queued calls and      *)
(* deleteLater) runs afterwards in the order of posting.                   *)
(*                                                                         *)
(* Bytes are counted, not represented.  A message records the range of the *)
(* file it carries and the number of bytes written to the connection once  *)
(* it is complete, so a message has left the socket's write buffer when    *)
(* end <= flushed.  A connection carries one request, as the only client   *)
(* of this protocol (ClientTcpTlsTransport) does.                          *)
(***************************************************************************)
EXTENDS Integers, Sequences

CONSTANTS Connections,   \* the connections the server will ever accept
          FileSize,      \* size of the requested file
          ChunkSize,     \* kTransportChunkSize
          HeaderSize,    \* bytes a packet adds to its chunk: length and status
          ReplySize,     \* bytes of a packet without a chunk
          Offsets        \* what the offset of a request may be read as

ASSUME FileSizeAssumption == FileSize \in Nat
ASSUME SizesAssumption == /\ ChunkSize \in Nat \ {0}
                          /\ HeaderSize \in Nat \ {0}
                          /\ ReplySize \in 1..(ChunkSize + HeaderSize)
ASSUME OffsetsAssumption == Offsets \subseteq Int

MaxChunkSize == ChunkSize * 2    \* kTransportMaxChunkSize

VARIABLES
  socket,     \* socket[c]: the server's MessageSocket of connection c
  sender,     \* sender[c]: the FileSender; "active" is m_transferActive
  stream,     \* stream[c]: read position of the file, and what was written
  posted,     \* posted[c]: the posted events of c's objects, oldest first
  late        \* history: connections whose request was read after stop()

serverVars == <<socket, sender, stream, posted, late>>

SocketStates == {"absent", "connected", "stopped", "disconnected", "deleted"}
SenderStates == {"none", "active", "finished", "deleted"}
Events == {"sendNextChunk", "deleteSender", "deleteClient"}
Kinds == {"ResponseOk", "ResponseError", "FileChunk", "TransferComplete"}

Message == [kind : Kinds, from : Nat, to : Nat, end : Nat]
Stream == [pos : Nat, sent : Seq(Message), written : Nat, flushed : Nat]

----------------------------------------------------------------------------
(* Operators on a stream.                                                  *)

AtEnd(s) == s.pos >= FileSize
Pending(s) == s.written - s.flushed      \* QSslSocket::bytesToWrite

(* MessageSocket::sendMessage on a connected socket: a packet of the given *)
(* kind that carries the file from s.pos to the position `to`.             *)
Send(s, kind, to, size) ==
  [pos |-> to,
   sent |-> Append(s.sent, [kind |-> kind, from |-> s.pos, to |-> to,
                            end |-> s.written + size]),
   written |-> s.written + size,
   flushed |-> s.flushed]

(* One iteration of the loop of sendNextChunk: QFile::read gives a whole   *)
(* chunk, or what the file has left.                                       *)
ChunkEnd(s) == IF s.pos + ChunkSize < FileSize THEN s.pos + ChunkSize ELSE FileSize
CanSendAlways(s) == ~AtEnd(s)                                      \* mutant
CanSend(s) == ~AtEnd(s) /\ Pending(s) <= MaxChunkSize
SendChunk(s) == Send(s, "FileChunk", ChunkEnd(s), ChunkEnd(s) - s.pos + HeaderSize)

ReadThenLook(s) ==                                                 \* mutant
  IF AtEnd(s) THEN s
  ELSE IF Pending(s) > MaxChunkSize THEN [s EXCEPT !.pos = ChunkEnd(s)]
  ELSE SendChunk(s)

(* The loop.  It runs at most twice: two whole packets exceed MaxChunkSize,*)
(* and a shorter one is the last (LoopExits in FileTransfer_proofs).       *)
SendChunkIfRoom(s) == IF CanSend(s) THEN SendChunk(s) ELSE s
SendNextChunk(s) == SendChunkIfRoom(SendChunkIfRoom(s))

(* The same loop once the socket is disconnected: sendMessage does nothing *)
(* and nothing fills the buffer, so the file is read to its end.           *)
ReadUnsent(s) == IF CanSend(s) THEN [s EXCEPT !.pos = FileSize] ELSE s

----------------------------------------------------------------------------
ServerInit ==
  /\ socket = [c \in Connections |-> "absent"]
  /\ sender = [c \in Connections |-> "none"]
  /\ stream = [c \in Connections |->
                 [pos |-> 0, sent |-> <<>>, written |-> 0, flushed |-> 0]]
  /\ posted = [c \in Connections |-> <<>>]
  /\ late = {}

SeekAnywhere(readOffset) == readOffset                             \* mutant

(* QFile::seek on the opened file: a negative offset fails and leaves the  *)
(* file at its beginning, an offset beyond the end succeeds.               *)
SeekTo(readOffset) == IF readOffset < 0 THEN 0 ELSE readOffset

Post(c, event) == posted' = [posted EXCEPT ![c] = Append(@, event)]

(* The socket takes bytes: it is connected, and not deleted yet.           *)
Open(c) == socket[c] \in {"connected", "stopped"}

(* onNewConnection: a MessageSocket for the pending connection.  The server*)
(* may have been stopped: it can be started again, and a handshake goes on *)
(* when the listening ends.                                                *)
Accept(c) ==
  /\ socket[c] = "absent"
  /\ socket' = [socket EXCEPT ![c] = "connected"]
  /\ UNCHANGED <<sender, stream, posted, late>>

(* onClientMessage with a RequestFile message, and FileSender::start on a  *)
(* file that opens.  Nothing keeps the message from being read after stop()*)
(* and before the client is deleted.                                       *)
StartTransfer(c, readOffset) ==
  /\ Open(c)
  /\ sender[c] = "none"
  /\ LET opened == [stream[c] EXCEPT !.pos = SeekTo(readOffset)]
     IN stream' = [stream EXCEPT
                     ![c] = Send(opened, "ResponseOk", SeekTo(readOffset), ReplySize)]
  /\ sender' = [sender EXCEPT ![c] = "active"]
  /\ Post(c, "sendNextChunk")
  /\ late' = IF socket[c] = "stopped" THEN late \cup {c} ELSE late
  /\ UNCHANGED socket

(* The same on a file that does not open: the error is sent and `finished` *)
(* is emitted, whose slot posts the deletion of the sender.                *)
RefuseTransfer(c) ==
  /\ Open(c)
  /\ sender[c] = "none"
  /\ stream' = [stream EXCEPT ![c] = Send(@, "ResponseError", 0, ReplySize)]
  /\ sender' = [sender EXCEPT ![c] = "finished"]
  /\ Post(c, "deleteSender")
  /\ UNCHANGED <<socket, late>>

RefillOnly(c, n) ==                                                \* mutant
  LET s == [stream[c] EXCEPT !.flushed = n]
  IN /\ Open(c)
     /\ n \in (stream[c].flushed + 1)..stream[c].written
     /\ stream' = [stream EXCEPT
                     ![c] = IF sender[c] = "active" /\ Pending(s) <= ChunkSize
                            THEN SendNextChunk(s) ELSE s]
     /\ UNCHANGED <<socket, sender, posted, late>>
CompleteWhenDrained(c, n) ==                                       \* mutant
  LET s == [stream[c] EXCEPT !.flushed = n]
      complete == Pending(s) = 0
  IN /\ Open(c)
     /\ n \in (stream[c].flushed + 1)..stream[c].written
     /\ stream' = [stream EXCEPT
                     ![c] = IF sender[c] # "active" THEN s
                            ELSE IF complete
                            THEN Send(s, "TransferComplete", s.pos, ReplySize)
                            ELSE SendNextChunk(s)]
     /\ sender' = [sender EXCEPT ![c] = IF @ = "active" /\ complete THEN "finished" ELSE @]
     /\ UNCHANGED <<socket, posted, late>>

(* The socket has written its buffered bytes up to n; the signal           *)
(* bytesWritten runs FileSender::onBytesWritten at once.                   *)
BytesWritten(c, n) ==
  LET s == [stream[c] EXCEPT !.flushed = n]
      refill == ~AtEnd(s) /\ Pending(s) <= ChunkSize
      complete == AtEnd(s) /\ Pending(s) = 0
  IN /\ Open(c)
     /\ n \in (stream[c].flushed + 1)..stream[c].written
     /\ IF sender[c] = "active" /\ complete
        THEN /\ stream' = [stream EXCEPT
                             ![c] = Send(s, "TransferComplete", s.pos, ReplySize)]
             /\ sender' = [sender EXCEPT ![c] = "finished"]
             /\ Post(c, "deleteSender")
        ELSE /\ stream' = [stream EXCEPT
                             ![c] = IF sender[c] = "active" /\ refill
                                    THEN SendNextChunk(s) ELSE s]
             /\ UNCHANGED <<sender, posted>>
     /\ UNCHANGED <<socket, late>>

(* The event loop delivers the oldest event of c's objects.                *)
Delivered(c, event) ==
  /\ posted[c] # <<>>
  /\ Head(posted[c]) = event
  /\ posted' = [posted EXCEPT ![c] = Tail(@)]

(* The queued call of FileSender::sendNextChunk.  What it does with a      *)
(* deleted client is undefined, and not modelled any further.              *)
RunSendNextChunk(c) ==
  /\ Delivered(c, "sendNextChunk")
  /\ sender[c] = "active" => socket[c] # "deleted"
  /\ stream' = [stream EXCEPT
                  ![c] = IF sender[c] # "active" THEN @
                         ELSE IF Open(c) THEN SendNextChunk(@)
                         ELSE ReadUnsent(@)]
  /\ UNCHANGED <<socket, sender, late>>

RunDeleteSender(c) ==
  /\ Delivered(c, "deleteSender")
  /\ sender' = [sender EXCEPT ![c] = "deleted"]
  /\ UNCHANGED <<socket, stream, late>>

RunDeleteClient(c) ==
  /\ Delivered(c, "deleteClient")
  /\ socket' = [socket EXCEPT ![c] = "deleted"]
  /\ UNCHANGED <<sender, stream, late>>

DeleteClientNow(c) ==                                              \* mutant
  /\ socket[c] = "connected"
  /\ socket' = [socket EXCEPT ![c] = "deleted"]
  /\ UNCHANGED <<sender, stream, posted, late>>

(* onClientDisconnected and cleanupClient.  MessageSocket emits            *)
(* `disconnected` twice, but a second deleteLater posts nothing, nor does  *)
(* one after stop().  The FileSender is not told: it keeps m_client and    *)
(* never finishes.                                                         *)
ClientDisconnected(c) ==
  /\ Open(c)
  /\ socket' = [socket EXCEPT ![c] = "disconnected"]
  /\ IF socket[c] = "connected" THEN Post(c, "deleteClient") ELSE UNCHANGED posted
  /\ UNCHANGED <<sender, stream, late>>

(* stop(), which returns early only if m_enabled is set, as nothing does:  *)
(* all clients are marked for deletion.  Their senders are not told.       *)
Stop ==
  /\ \E c \in Connections : socket[c] = "connected"
  /\ socket' = [c \in Connections |->
                  IF socket[c] = "connected" THEN "stopped" ELSE socket[c]]
  /\ posted' = [c \in Connections |->
                  IF socket[c] = "connected" THEN Append(posted[c], "deleteClient")
                  ELSE posted[c]]
  /\ UNCHANGED <<sender, stream, late>>

RunPosted(c) == RunSendNextChunk(c) \/ RunDeleteSender(c) \/ RunDeleteClient(c)
Flush(c) == \E n \in 1..stream[c].written : BytesWritten(c, n)

ServerNext ==
  \/ Stop
  \/ \E c \in Connections :
       \/ Accept(c)
       \/ \E readOffset \in Offsets : StartTransfer(c, readOffset)
       \/ RefuseTransfer(c)
       \/ Flush(c)
       \/ RunPosted(c)
       \/ ClientDisconnected(c)

(* The event loop keeps running and the socket keeps writing while it is   *)
(* connected.  Nothing is assumed of the client.                           *)
ServerFairness ==
  \A c \in Connections : WF_serverVars(Flush(c)) /\ WF_serverVars(RunPosted(c))

ServerSpec == ServerInit /\ [][ServerNext]_serverVars /\ ServerFairness

----------------------------------------------------------------------------
(* Type invariant of the server's state.                                   *)
ServerTypeOK ==
  /\ socket \in [Connections -> SocketStates]
  /\ sender \in [Connections -> SenderStates]
  /\ stream \in [Connections -> Stream]
  /\ posted \in [Connections -> Seq(Events)]
  /\ late \subseteq Connections

(* Back pressure: however chunks and bytesWritten signals alternate, and   *)
(* whichever of the two callers enters the loop of sendNextChunk, a        *)
(* connection never buffers more than the limit and one packet.            *)
BufferBounded ==
  \A c \in Connections :
    Pending(stream[c]) \in 0..(MaxChunkSize + ChunkSize + HeaderSize)

(* What follows what in the answer on a connection: the messages carry     *)
(* consecutive ranges of the file, nothing follows an error or a           *)
(* completion, and the completion is sent with the whole file behind it.   *)
Follows(m, next) ==
  /\ m.kind \in {"ResponseOk", "FileChunk"}
  /\ next.from = m.to
  /\ m.end < next.end
  /\ \/ /\ next.kind = "FileChunk"
        /\ next.to \in (next.from + 1)..FileSize
        /\ next.to - next.from <= ChunkSize
     \/ /\ next.kind = "TransferComplete"
        /\ next.to = next.from
        /\ next.from >= FileSize

(* The answer is gapless, in order and ended at most once, although it is  *)
(* produced by interleaved queued calls and bytesWritten signals.          *)
GaplessAnswer ==
  \A c \in Connections : LET sent == stream[c].sent IN
    /\ sent # <<>> => sent[1].kind \in {"ResponseOk", "ResponseError"}
    /\ \A i \in 1..(Len(sent) - 1) : Follows(sent[i], sent[i + 1])

(* The queued sendNextChunk uses m_client, which the FileSender does not   *)
(* own: the client must not have been deleted when the call is delivered,  *)
(* however it was lost.  A request that is read after stop() is the        *)
(* exception: its call comes after the deletion.                           *)
NoDanglingClient ==
  \A c \in Connections :
    /\ posted[c] # <<>>
    /\ Head(posted[c]) = "sendNextChunk"
    /\ sender[c] = "active"
    /\ c \notin late
    => socket[c] \in {"connected", "stopped", "disconnected"}

(* No wake-up is lost: a transfer that has started ends, or its client     *)
(* goes away.                                                              *)
TransferEnds ==
  \A c \in Connections :
    sender[c] = "active" ~> (sender[c] = "deleted" \/ socket[c] # "connected")

(* The server implements FileStream.  The abstract state is read off the   *)
(* last message sent, not off the sender: a connection lost in mid transfer*)
(* leaves the read position ahead of what was sent.                        *)
LastSent(c) == stream[c].sent[Len(stream[c].sent)]
PhaseOf(kind) ==
  CASE kind = "ResponseError" -> "failed"
    [] kind = "TransferComplete" -> "complete"
    [] OTHER -> "streaming"

AbstractPhase ==
  [c \in Connections |->
     IF stream[c].sent = <<>> THEN "idle" ELSE PhaseOf(LastSent(c).kind)]
AbstractProgress ==
  [c \in Connections |-> IF stream[c].sent = <<>> THEN 0 ELSE LastSent(c).to]

Abstract == INSTANCE FileStream WITH
  phase <- AbstractPhase, progress <- AbstractProgress

ImplementsFileStream == Abstract!StreamSpec
=============================================================================
