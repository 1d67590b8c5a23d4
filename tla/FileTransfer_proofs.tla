------------------------ MODULE FileTransfer_proofs ------------------------
(***************************************************************************)
(* Proofs about FileServer and FileTransfer.                               *)
(*                                                                         *)
(* Part 1 is about the server alone, with clients that do what they like:  *)
(* the type invariant, the back pressure bound, the safety of the queued   *)
(* call, the shape of the answer, and that the server implements           *)
(* FileStream, for every number of connections, file size, chunk size,     *)
(* packet size and request offset.  Part 2 is about the server and its     *)
(* transports, for every number of these and of save paths, and whatever is*)
(* lost on the way; it builds on the invariant of part 1.  Part 3 is about *)
(* the progress that a download shows.                                     *)
(***************************************************************************)
EXTENDS FileTransfer, Induction_proofs, FiniteSetTheorems

----------------------------------------------------------------------------
(* PART 1.  THE SERVER.                                                    *)

----------------------------------------------------------------------------
(* The inductive invariant.                                                *)

(* A stream: what is buffered is bounded, the messages follow one another, *)
(* and the last message ends where the writing ends.                       *)
Last(s) == s.sent[Len(s.sent)]

StreamInv(s) ==
  /\ s \in Stream
  /\ Pending(s) \in 0..(MaxChunkSize + ChunkSize + HeaderSize)
  /\ s.sent = <<>> => s.written = 0
  /\ s.sent # <<>> => /\ s.sent[1].kind \in {"ResponseOk", "ResponseError"}
                      /\ Last(s).end = s.written
  /\ \A i \in 1..(Len(s.sent) - 1) : Follows(s.sent[i], s.sent[i + 1])

(* The sender is in the middle of the answer, and the file is read up to   *)
(* what the last message carried.                                          *)
Streaming(s) ==
  /\ s.sent # <<>>
  /\ Last(s).kind \in {"ResponseOk", "FileChunk"}
  /\ Last(s).to = s.pos

(* Where the deletions stand among the posted events.  Of a request read   *)
(* after stop() nothing is said.                                           *)
CallBeforeDeletion(c) ==
  /\ socket[c] = "deleted" =>
       \A i \in 1..Len(posted[c]) : posted[c][i] # "sendNextChunk"
  /\ \A i, j \in 1..Len(posted[c]) :
       i < j /\ posted[c][i] = "deleteClient" => posted[c][j] # "sendNextChunk"

PostedInv(c) ==
  /\ socket[c] \in {"absent", "connected"} =>
       \A i \in 1..Len(posted[c]) : posted[c][i] # "deleteClient"
  /\ c \notin late => CallBeforeDeletion(c)
  /\ sender[c] \in {"none", "active"} =>
       \A i \in 1..Len(posted[c]) : posted[c][i] # "deleteSender"

ConnectionInv(c) ==
  /\ StreamInv(stream[c])
  /\ stream[c].sent = <<>> <=> sender[c] = "none"
  /\ socket[c] = "absent" => sender[c] = "none"
  /\ sender[c] = "active" /\ Open(c) => Streaming(stream[c])
  /\ PostedInv(c)

ServerInv == ServerTypeOK /\ \A c \in Connections : ConnectionInv(c)

----------------------------------------------------------------------------
(* Facts about the operators on streams.                                   *)

LEMMA ConstantTypes ==
  /\ FileSize \in Nat
  /\ ChunkSize \in Nat /\ ChunkSize > 0
  /\ HeaderSize \in Nat /\ HeaderSize > 0
  /\ ReplySize \in Nat /\ ReplySize > 0 /\ ReplySize <= ChunkSize + HeaderSize
  /\ MaxChunkSize \in Nat /\ MaxChunkSize = 2 * ChunkSize
BY FileSizeAssumption, SizesAssumption DEF MaxChunkSize

(* Sending appends one message, which ends the stream.                     *)
LEMMA SendAppends ==
  ASSUME NEW s \in Stream, NEW kind \in Kinds, NEW to \in Nat, NEW size \in Nat
  PROVE  LET t == Send(s, kind, to, size) IN
         /\ t \in Stream
         /\ t.pos = to
         /\ t.written = s.written + size
         /\ t.flushed = s.flushed
         /\ t.sent # <<>>
         /\ Len(t.sent) = Len(s.sent) + 1
         /\ Last(t) = [kind |-> kind, from |-> s.pos, to |-> to,
                       end |-> s.written + size]
         /\ \A i \in 1..Len(s.sent) : t.sent[i] = s.sent[i]
PROOF
  <1> DEFINE m == [kind |-> kind, from |-> s.pos, to |-> to, end |-> s.written + size]
             t == Send(s, kind, to, size)
  <1>1. s.pos \in Nat /\ s.written \in Nat /\ s.flushed \in Nat /\ s.sent \in Seq(Message)
    BY DEF Stream
  <1>2. m \in Message
    BY <1>1 DEF Message
  <1>3. t = [pos |-> to, sent |-> Append(s.sent, m), written |-> s.written + size,
             flushed |-> s.flushed]
    BY DEF Send, Stream
  <1>4. /\ Append(s.sent, m) \in Seq(Message)
        /\ Len(Append(s.sent, m)) = Len(s.sent) + 1
        /\ Append(s.sent, m) # <<>>
        /\ Append(s.sent, m)[Len(s.sent) + 1] = m
        /\ \A i \in 1..Len(s.sent) : Append(s.sent, m)[i] = s.sent[i]
    BY <1>1, <1>2
  <1> QED
    BY <1>1, <1>3, <1>4 DEF Stream, Last

(* One packet that properly continues a stream keeps its invariant.        *)
LEMMA SendKeepsInv ==
  ASSUME NEW s, StreamInv(s), NEW kind \in Kinds, NEW to \in Nat,
         NEW size \in Nat, size > 0,
         Pending(s) + size <= MaxChunkSize + ChunkSize + HeaderSize,
         \/ s.sent = <<>> /\ kind \in {"ResponseOk", "ResponseError"}
         \/ s.sent # <<>> /\ Follows(Last(s), [kind |-> kind, from |-> s.pos, to |-> to,
                                               end |-> s.written + size])
  PROVE  StreamInv(Send(s, kind, to, size))
PROOF
  <1> DEFINE t == Send(s, kind, to, size)
  <1> HIDE DEF t
  <1>1. s \in Stream /\ s.written \in Nat /\ s.flushed \in Nat /\ s.sent \in Seq(Message)
    BY DEF StreamInv, Stream
  <1>2. /\ t \in Stream
        /\ t.written = s.written + size
        /\ t.flushed = s.flushed
        /\ t.sent # <<>>
        /\ Len(t.sent) = Len(s.sent) + 1
        /\ t.sent[Len(t.sent)] = [kind |-> kind, from |-> s.pos, to |-> to,
                                  end |-> s.written + size]
        /\ \A i \in 1..Len(s.sent) : t.sent[i] = s.sent[i]
    <2>1. LET u == Send(s, kind, to, size) IN
          /\ u \in Stream
          /\ u.written = s.written + size
          /\ u.flushed = s.flushed
          /\ u.sent # <<>>
          /\ Len(u.sent) = Len(s.sent) + 1
          /\ Last(u) = [kind |-> kind, from |-> s.pos, to |-> to,
                        end |-> s.written + size]
          /\ \A i \in 1..Len(s.sent) : u.sent[i] = s.sent[i]
      BY <1>1, SendAppends
    <2> QED BY <2>1 DEF t, Last
  <1>3. Pending(t) \in 0..(MaxChunkSize + ChunkSize + HeaderSize)
    <2>1. s.written - s.flushed >= 0
      BY <1>1 DEF StreamInv, Pending
    <2>2. s.written - s.flushed + size <= MaxChunkSize + ChunkSize + HeaderSize
      BY DEF Pending
    <2>3. t.written = s.written + size /\ t.flushed = s.flushed
      BY <1>2
    <2>4. s.written \in Nat /\ s.flushed \in Nat
      BY <1>1
    <2>5. /\ Pending(t) = s.written - s.flushed + size
          /\ s.written - s.flushed + size \in Int /\ s.written - s.flushed + size >= 0
      BY <2>1, <2>3, <2>4 DEF Pending
    <2>6. MaxChunkSize + ChunkSize + HeaderSize \in Int
      BY ConstantTypes
    <2> QED BY <2>2, <2>5, <2>6
  <1>4. t.sent[1].kind \in {"ResponseOk", "ResponseError"}
    <2>1. CASE s.sent = <<>>
      <3>1. Len(t.sent) = 1
        BY <2>1, <1>2
      <3> QED BY <2>1, <3>1, <1>2
    <2>2. CASE s.sent # <<>>
      <3>1. 1 \in 1..Len(s.sent)
        BY <2>2, <1>1
      <3>2. t.sent[1] = s.sent[1] /\ s.sent[1].kind \in {"ResponseOk", "ResponseError"}
        BY <2>2, <3>1, <1>2 DEF StreamInv
      <3> QED BY <3>2
    <2> QED BY <2>1, <2>2
  <1>5. ASSUME NEW i \in 1..(Len(t.sent) - 1)
        PROVE  Follows(t.sent[i], t.sent[i + 1])
    <2>1. i \in 1..Len(s.sent) /\ Len(s.sent) \in Nat
      BY <1>1, <1>2
    <2>2. CASE i = Len(s.sent)
      BY <2>1, <2>2, <1>1, <1>2 DEF Last
    <2>3. CASE i # Len(s.sent)
      <3>1. i \in 1..(Len(s.sent) - 1) /\ i + 1 \in 1..Len(s.sent)
        BY <2>1, <2>3
      <3>2. Follows(s.sent[i], s.sent[i + 1])
        BY <3>1 DEF StreamInv
      <3>3. t.sent[i] = s.sent[i] /\ t.sent[i + 1] = s.sent[i + 1]
        BY <2>1, <3>1, <1>2
      <3> QED BY <3>2, <3>3
    <2> QED BY <2>2, <2>3
  <1>6. t.sent[Len(t.sent)].end = t.written
    BY <1>2
  <1> QED
    BY <1>2, <1>3, <1>4, <1>5, <1>6 DEF StreamInv, Last, t

(* One iteration of the loop.                                              *)
LEMMA ChunkKeepsInv ==
  ASSUME NEW s, StreamInv(s), Streaming(s)
  PROVE  StreamInv(SendChunkIfRoom(s)) /\ Streaming(SendChunkIfRoom(s))
PROOF
  <1>1. CASE ~CanSend(s)
    BY <1>1 DEF SendChunkIfRoom
  <1>2. CASE CanSend(s)
    <2> DEFINE to == ChunkEnd(s)
               size == to - s.pos + HeaderSize
               t == Send(s, "FileChunk", to, size)
    <2>1. s \in Stream /\ s.pos \in Nat /\ s.written \in Nat /\ s.flushed \in Nat
      BY DEF StreamInv, Stream
    <2>2. /\ to \in Nat /\ size \in Nat /\ size > 0
          /\ to > s.pos /\ to <= FileSize /\ to - s.pos <= ChunkSize
      BY <1>2, <2>1, ConstantTypes DEF CanSend, AtEnd, ChunkEnd
    <2>3. Pending(s) + size <= MaxChunkSize + ChunkSize + HeaderSize
      BY <1>2, <2>1, <2>2, ConstantTypes DEF CanSend, Pending
    <2>4. Follows(Last(s), [kind |-> "FileChunk", from |-> s.pos, to |-> to,
                            end |-> s.written + size])
      <3>1. Last(s).end = s.written
        BY DEF StreamInv, Streaming
      <3> HIDE DEF size
      <3> QED BY <3>1, <2>1, <2>2, ConstantTypes DEF Streaming, Follows
    <2>5. StreamInv(t)
      <3> HIDE DEF to, size
      <3> QED BY <2>2, <2>3, <2>4, SendKeepsInv DEF Streaming, Kinds
    <2>6. Streaming(t)
      <3> HIDE DEF to, size
      <3> QED BY <2>1, <2>2, SendAppends DEF Streaming, Kinds
    <2>7. SendChunkIfRoom(s) = t
      BY <1>2 DEF SendChunkIfRoom, SendChunk
    <2> QED BY <2>5, <2>6, <2>7
  <1> QED BY <1>1, <1>2

LEMMA LoopKeepsInv ==
  ASSUME NEW s, StreamInv(s), Streaming(s)
  PROVE  StreamInv(SendNextChunk(s)) /\ Streaming(SendNextChunk(s))
BY ChunkKeepsInv DEF SendNextChunk

(* Two iterations are all the loop makes: afterwards the file is at its end*)
(* or more than MaxChunkSize bytes are buffered.                           *)
THEOREM LoopExits ==
  ASSUME NEW s, StreamInv(s)
  PROVE  ~CanSend(SendNextChunk(s))
PROOF
  <1> DEFINE t == SendChunkIfRoom(s)
             u == SendChunkIfRoom(t)
  <1>1. s \in Stream /\ s.pos \in Nat /\ s.written \in Nat /\ s.flushed \in Nat
        /\ s.written >= s.flushed
    BY DEF StreamInv, Stream, Pending
  <1>2. ASSUME NEW r \in Stream, CanSend(r)
        PROVE  /\ SendChunkIfRoom(r) \in Stream
               /\ SendChunkIfRoom(r).flushed = r.flushed
               /\ \/ SendChunkIfRoom(r).pos = FileSize
                  \/ SendChunkIfRoom(r).written > r.written + ChunkSize
    <2> DEFINE size == ChunkEnd(r) - r.pos + HeaderSize
    <2>1. r.pos \in Nat /\ r.written \in Nat
      BY DEF Stream
    <2>2. ChunkEnd(r) \in Nat /\ size \in Nat /\ size > 0
      BY <1>2, <2>1, ConstantTypes DEF CanSend, AtEnd, ChunkEnd
    <2>3. ChunkEnd(r) = FileSize \/ size > ChunkSize
      BY <2>1, ConstantTypes DEF ChunkEnd
    <2> DEFINE q == Send(r, "FileChunk", ChunkEnd(r), size)
    <2>4. SendChunkIfRoom(r) = q
      BY <1>2 DEF SendChunkIfRoom, SendChunk
    <2> DEFINE to == ChunkEnd(r)
    <2> HIDE DEF size, to
    <2>5. /\ q \in Stream /\ q.flushed = r.flushed /\ q.pos = ChunkEnd(r)
          /\ q.written = r.written + size
      <3>1. r \in Stream /\ "FileChunk" \in Kinds /\ to \in Nat /\ size \in Nat
        BY <2>2 DEF Kinds, to
      <3>2. LET v == Send(r, "FileChunk", to, size) IN
            v \in Stream /\ v.flushed = r.flushed /\ v.pos = to
            /\ v.written = r.written + size
        BY ONLY <3>1, SendAppends
      <3> QED BY <3>2 DEF to
    <2> HIDE DEF q
    <2>6. q.pos = FileSize \/ q.written > r.written + ChunkSize
      BY <2>1, <2>2, <2>3, <2>5, ConstantTypes
    <2> QED BY <2>4, <2>5, <2>6
  <1>3. CASE ~CanSend(s)
    BY <1>3 DEF SendNextChunk, SendChunkIfRoom
  <1>4. CASE CanSend(s) /\ ~CanSend(t)
    BY <1>4 DEF SendNextChunk, SendChunkIfRoom
  <1>5. CASE CanSend(s) /\ CanSend(t)
    <2> HIDE DEF t, u
    <2>1. /\ t \in Stream /\ t.flushed = s.flushed
          /\ t.pos = FileSize \/ t.written > s.written + ChunkSize
      BY <1>1, <1>2, <1>5 DEF t
    <2>2. /\ u \in Stream /\ u.flushed = t.flushed
          /\ u.pos = FileSize \/ u.written > t.written + ChunkSize
      BY <2>1, <1>2, <1>5 DEF u
    <2>3. t.pos \in Nat /\ t.written \in Nat /\ u.pos \in Nat /\ u.written \in Nat
          /\ u.flushed \in Nat
      BY <2>1, <2>2 DEF Stream
    <2>4. t.written > s.written + ChunkSize
      BY <1>5, <2>1, <2>3, ConstantTypes DEF CanSend, AtEnd
    <2>5. ~CanSend(u)
      BY <1>1, <2>1, <2>2, <2>3, <2>4, ConstantTypes DEF CanSend, AtEnd, Pending
    <2> QED BY <2>5 DEF SendNextChunk, t, u
  <1> QED BY <1>3, <1>4, <1>5

(***************************************************************************)
(* The invariant is inductive.                                             *)
(***************************************************************************)
LEMMA InitInv == ServerInit => ServerInv
PROOF
  <1> SUFFICES ASSUME ServerInit PROVE ServerInv
    OBVIOUS
  <1> DEFINE empty == [pos |-> 0, sent |-> <<>>, written |-> 0, flushed |-> 0]
  <1>1. empty \in Stream
    BY DEF Stream
  <1>2. ServerTypeOK
    BY <1>1 DEF ServerInit, ServerTypeOK, SocketStates, SenderStates
  <1>3. StreamInv(empty)
    BY <1>1, ConstantTypes DEF StreamInv, Pending
  <1>4. ASSUME NEW c \in Connections PROVE ConnectionInv(c)
    <2>1. stream[c] = empty /\ sender[c] = "none" /\ socket[c] = "absent" /\ posted[c] = <<>>
      BY DEF ServerInit
    <2>2. PostedInv(c)
      BY <2>1 DEF PostedInv, CallBeforeDeletion
    <2> QED BY <2>1, <2>2, <1>3 DEF ConnectionInv
  <1> QED BY <1>2, <1>4 DEF ServerInv

(* A step that concerns one connection: the others keep their invariant.   *)
LEMMA OneConnection ==
  ASSUME ServerInv, ServerTypeOK', NEW c \in Connections, ConnectionInv(c)',
         \A d \in Connections \ {c} :
           /\ socket'[d] = socket[d] /\ sender'[d] = sender[d]
           /\ stream'[d] = stream[d] /\ posted'[d] = posted[d]
           /\ d \in late' <=> d \in late
  PROVE  ServerInv'
PROOF
  <1>1. ASSUME NEW d \in Connections PROVE ConnectionInv(d)'
    <2>1. CASE d = c
      BY <2>1
    <2>2. CASE d # c
      BY <2>2 DEF ServerInv, ConnectionInv, PostedInv, CallBeforeDeletion, Open
    <2> QED BY <2>1, <2>2
  <1> QED BY <1>1 DEF ServerInv

(* Posting an event other than the deletion keeps the order of events while*)
(* the client is open: a call that comes behind a deletion is late.        *)
LEMMA PostKeepsOrder ==
  ASSUME ServerInv, NEW c \in Connections, Open(c),
         NEW event \in {"sendNextChunk", "deleteSender"}, Post(c, event),
         UNCHANGED socket,
         \/ /\ event = "sendNextChunk" /\ sender[c] \in {"none", "active"}
            /\ late' = IF socket[c] = "stopped" THEN late \cup {c} ELSE late
         \/ /\ event = "deleteSender" /\ sender'[c] = "finished"
            /\ late' = late
  PROVE  PostedInv(c)' /\ posted' \in [Connections -> Seq(Events)]
PROOF
  <1>1. posted[c] \in Seq(Events) /\ event \in Events
    BY DEF ServerInv, ServerTypeOK, Events
  <1>2. /\ posted'[c] = Append(posted[c], event)
        /\ posted' \in [Connections -> Seq(Events)]
    BY <1>1 DEF Post, ServerInv, ServerTypeOK
  <1>3. PostedInv(c) /\ socket'[c] # "deleted"
    BY DEF ServerInv, ConnectionInv, Open
  <1>4. socket'[c] \in {"absent", "connected"} =>
          \A i \in 1..Len(posted'[c]) : posted'[c][i] # "deleteClient"
    BY <1>1, <1>2, <1>3 DEF PostedInv
  <1>5. sender'[c] \in {"none", "active"} =>
          \A i \in 1..Len(posted'[c]) : posted'[c][i] # "deleteSender"
    BY <1>1, <1>2, <1>3 DEF PostedInv
  <1>6. c \notin late' => CallBeforeDeletion(c)'
    <2>1. CASE event = "sendNextChunk"
      <3>1. c \notin late' => socket'[c] = "connected"
        BY <2>1 DEF Open
      <3> QED BY <3>1, <1>3, <1>4 DEF CallBeforeDeletion
    <2>2. CASE event = "deleteSender"
      BY <2>2, <1>1, <1>2, <1>3 DEF PostedInv, CallBeforeDeletion
    <2> QED BY <2>1, <2>2
  <1> QED BY <1>2, <1>4, <1>5, <1>6 DEF PostedInv

(* Delivering the oldest event keeps the order of the rest.                *)
LEMMA DeliveryKeepsOrder ==
  ASSUME ServerInv, NEW c \in Connections, NEW event, Delivered(c, event)
  PROVE  /\ posted' \in [Connections -> Seq(Events)]
         /\ posted[c][1] = event
         /\ Len(posted'[c]) = Len(posted[c]) - 1
         /\ Len(posted[c]) \in Nat \ {0}
         /\ \A i \in 1..Len(posted'[c]) : posted'[c][i] = posted[c][i + 1]
         /\ \A d \in Connections \ {c} : posted'[d] = posted[d]
PROOF
  <1>1. posted[c] \in Seq(Events) /\ posted[c] # <<>>
    BY DEF ServerInv, ServerTypeOK, Delivered
  <1>2. posted'[c] = Tail(posted[c]) /\ Tail(posted[c]) \in Seq(Events)
    BY <1>1 DEF Delivered, ServerInv, ServerTypeOK
  <1> QED BY <1>1, <1>2 DEF Delivered, ServerInv, ServerTypeOK

LEMMA DeliveryKeepsPostedInv ==
  ASSUME ServerInv, NEW c \in Connections, NEW event, Delivered(c, event),
         UNCHANGED <<socket, late>>, sender'[c] = sender[c] \/ sender'[c] = "deleted"
  PROVE  PostedInv(c)'
PROOF
  <1>1. PostedInv(c)
    BY DEF ServerInv, ConnectionInv
  <1> DEFINE n == Len(posted[c])
  <1>2. /\ n \in Nat \ {0}
        /\ Len(posted'[c]) = n - 1
        /\ \A i \in 1..(n - 1) : posted'[c][i] = posted[c][i + 1]
    BY DeliveryKeepsOrder
  <1>3. \A i \in 1..(n - 1) : i + 1 \in 1..n
    BY <1>2
  <1>4. ASSUME NEW kind, \A i \in 1..n : posted[c][i] # kind
        PROVE  \A i \in 1..Len(posted'[c]) : posted'[c][i] # kind
    BY <1>2, <1>3, <1>4
  <1>5. ASSUME c \notin late,
               NEW i \in 1..Len(posted'[c]), NEW j \in 1..Len(posted'[c]),
               i < j, posted'[c][i] = "deleteClient"
        PROVE  posted'[c][j] # "sendNextChunk"
    <2>1. /\ i + 1 \in 1..n /\ j + 1 \in 1..n /\ i + 1 < j + 1
          /\ posted[c][i + 1] = "deleteClient"
          /\ posted'[c][j] = posted[c][j + 1]
      BY <1>2, <1>3, <1>5
    <2> QED BY <2>1, <1>1, <1>5 DEF PostedInv, CallBeforeDeletion
  <1>6. c \notin late' => CallBeforeDeletion(c)'
    BY <1>1, <1>4, <1>5 DEF PostedInv, CallBeforeDeletion
  <1> QED BY <1>1, <1>4, <1>6 DEF PostedInv

(***************************************************************************)
(* One lemma per action.                                                   *)
(***************************************************************************)
LEMMA AcceptKeepsInv ==
  ASSUME ServerInv, NEW c \in Connections, Accept(c)
  PROVE  ServerInv'
PROOF
  <1>1. ServerTypeOK'
    BY DEF ServerInv, ServerTypeOK, Accept, SocketStates
  <1>2. socket'[c] = "connected"
    BY DEF Accept, ServerInv, ServerTypeOK
  <1>3. stream[c].sent = <<>> <=> sender[c] = "none"
    BY DEF ServerInv, ConnectionInv
  <1>4. ConnectionInv(c)'
    <2>1. PostedInv(c)'
      BY <1>2 DEF Accept, ServerInv, ConnectionInv, PostedInv, CallBeforeDeletion
    <2>2. sender[c] = "none"
      BY DEF Accept, ServerInv, ConnectionInv
    <2> QED BY <1>2, <2>1, <2>2 DEF Accept, ServerInv, ConnectionInv
  <1> QED BY <1>1, <1>4, OneConnection DEF Accept, ServerInv, ServerTypeOK

(* A request starts the stream with its first message.                     *)
LEMMA FirstMessage ==
  ASSUME NEW s, StreamInv(s), s.sent = <<>>, NEW start \in Nat,
         NEW kind \in {"ResponseOk", "ResponseError"}
  PROVE  LET t == Send([s EXCEPT !.pos = start], kind, start, ReplySize) IN
         StreamInv(t) /\ t.sent # <<>> /\ Last(t).to = t.pos /\ Last(t).kind = kind
PROOF
  <1> DEFINE r == [s EXCEPT !.pos = start]
             t == Send(r, kind, start, ReplySize)
  <1>1. s \in Stream /\ s.written = 0 /\ s.flushed \in Nat /\ Pending(s) >= 0
    BY ConstantTypes DEF StreamInv, Stream
  <1>2. s.flushed = 0 /\ Pending(s) = 0
    BY <1>1 DEF Pending
  <1>3. r \in Stream /\ r.sent = <<>> /\ r.written = 0 /\ r.flushed = 0
    BY <1>1, <1>2 DEF Stream, StreamInv
  <1>4. StreamInv(r) /\ Pending(r) = 0 /\ ReplySize <= MaxChunkSize + ChunkSize + HeaderSize
    BY <1>3, ConstantTypes DEF StreamInv, Pending
  <1> HIDE DEF r
  <1>5. StreamInv(t)
    <2>1. Pending(r) + ReplySize <= MaxChunkSize + ChunkSize + HeaderSize
      BY <1>4, ConstantTypes
    <2> QED BY <1>3, <1>4, <2>1, ConstantTypes, SendKeepsInv DEF Kinds
  <1>6. t.sent # <<>> /\ Last(t).to = t.pos /\ Last(t).kind = kind
    <2>1. kind \in Kinds /\ ReplySize \in Nat /\ r \in Stream
      BY <1>3, ConstantTypes DEF Kinds
    <2>2. /\ t.sent # <<>> /\ t.pos = start
          /\ Last(t) = [kind |-> kind, from |-> r.pos, to |-> start,
                        end |-> r.written + ReplySize]
      BY <2>1, SendAppends
    <2> HIDE DEF t
    <2> QED BY <2>2
  <1> QED BY <1>5, <1>6 DEF r

LEMMA StartTransferKeepsInv ==
  ASSUME ServerInv, NEW c \in Connections, NEW readOffset \in Int,
         StartTransfer(c, readOffset)
  PROVE  ServerInv'
PROOF
  <1> DEFINE start == SeekTo(readOffset)
             t == Send([stream[c] EXCEPT !.pos = start], "ResponseOk", start, ReplySize)
  <1>1. start \in Nat
    BY DEF SeekTo
  <1>2. stream[c].sent = <<>> /\ StreamInv(stream[c])
    BY DEF StartTransfer, ServerInv, ConnectionInv
  <1>3. StreamInv(t) /\ Streaming(t)
    BY <1>1, <1>2, FirstMessage DEF Streaming
  <1>4. stream' = [stream EXCEPT ![c] = t] /\ stream \in [Connections -> Stream]
    BY DEF StartTransfer, ServerInv, ServerTypeOK
  <1> HIDE DEF t
  <1>5. stream'[c] = t /\ stream' \in [Connections -> Stream]
    BY <1>3, <1>4 DEF StreamInv
  <1>6. PostedInv(c)' /\ posted' \in [Connections -> Seq(Events)]
    BY PostKeepsOrder DEF StartTransfer
  <1>7. /\ sender' = [sender EXCEPT ![c] = "active"]
        /\ sender'[c] = "active"
        /\ sender' \in [Connections -> SenderStates]
        /\ socket' = socket
        /\ late' \subseteq Connections
        /\ \A d \in Connections \ {c} : d \in late' <=> d \in late
    BY DEF StartTransfer, ServerInv, ServerTypeOK, SenderStates
  <1>8. ConnectionInv(c)'
    BY <1>3, <1>5, <1>6, <1>7 DEF ConnectionInv, Streaming, StartTransfer, Open
  <1>9. ServerTypeOK'
    BY <1>5, <1>6, <1>7 DEF ServerInv, ServerTypeOK
  <1> QED BY <1>7, <1>8, <1>9, OneConnection DEF StartTransfer, Post, ServerInv, ServerTypeOK

LEMMA RefuseTransferKeepsInv ==
  ASSUME ServerInv, NEW c \in Connections, RefuseTransfer(c)
  PROVE  ServerInv'
PROOF
  <1> DEFINE s == stream[c]
             t == Send(s, "ResponseError", 0, ReplySize)
  <1>1. s.sent = <<>> /\ StreamInv(s)
    BY DEF RefuseTransfer, ServerInv, ConnectionInv
  <1>2. s.written = 0 /\ s.flushed \in Nat /\ Pending(s) >= 0 /\ s \in Stream
    BY <1>1, ConstantTypes DEF StreamInv, Stream
  <1>3. Pending(s) = 0
    BY <1>2 DEF Pending
  <1>4. StreamInv(t) /\ t.sent # <<>>
    BY <1>1, <1>2, <1>3, ConstantTypes, SendKeepsInv, SendAppends DEF Kinds
  <1>5. stream' = [stream EXCEPT ![c] = t] /\ stream \in [Connections -> Stream]
    BY DEF RefuseTransfer, ServerInv, ServerTypeOK
  <1> HIDE DEF t
  <1>6. stream'[c] = t /\ stream' \in [Connections -> Stream]
    BY <1>4, <1>5 DEF StreamInv
  <1>7. /\ sender' = [sender EXCEPT ![c] = "finished"]
        /\ sender'[c] = "finished"
        /\ sender' \in [Connections -> SenderStates]
        /\ socket' = socket /\ socket[c] # "absent" /\ late' = late
    BY DEF RefuseTransfer, Open, ServerInv, ServerTypeOK, SenderStates
  <1>8. PostedInv(c)' /\ posted' \in [Connections -> Seq(Events)]
    BY <1>7, PostKeepsOrder DEF RefuseTransfer
  <1>9. ConnectionInv(c)'
    BY <1>4, <1>6, <1>7, <1>8 DEF ConnectionInv
  <1>10. ServerTypeOK'
    BY <1>6, <1>7, <1>8 DEF ServerInv, ServerTypeOK
  <1> QED BY <1>9, <1>10, OneConnection DEF RefuseTransfer, Post, ServerInv, ServerTypeOK

(* The buffer drains.                                                      *)
LEMMA DrainKeepsInv ==
  ASSUME NEW s, StreamInv(s), NEW n \in (s.flushed + 1)..s.written
  PROVE  LET t == [s EXCEPT !.flushed = n] IN
         /\ StreamInv(t)
         /\ t.sent = s.sent /\ t.pos = s.pos /\ t.written = s.written
         /\ s.sent # <<>>
PROOF
  <1> DEFINE t == [s EXCEPT !.flushed = n]
  <1>1. s \in Stream /\ s.written \in Nat /\ s.flushed \in Nat
    BY DEF StreamInv, Stream
  <1>2. n \in Nat /\ s.flushed < n /\ n <= s.written
    BY <1>1
  <1>3. /\ t \in Stream /\ t.sent = s.sent /\ t.pos = s.pos
        /\ t.written = s.written /\ t.flushed = n
    BY <1>1, <1>2 DEF Stream
  <1> HIDE DEF t
  <1>4. Pending(t) \in 0..(MaxChunkSize + ChunkSize + HeaderSize)
    BY <1>1, <1>2, <1>3, ConstantTypes DEF StreamInv, Pending
  <1>5. s.sent # <<>>
    BY <1>1, <1>2 DEF StreamInv
  <1>6. StreamInv(t)
    BY <1>3, <1>4, <1>5 DEF StreamInv, Last
  <1> QED BY <1>3, <1>5, <1>6 DEF t

LEMMA CompletionKeepsInv ==
  ASSUME NEW s, StreamInv(s), Streaming(s), AtEnd(s), Pending(s) = 0
  PROVE  LET t == Send(s, "TransferComplete", s.pos, ReplySize) IN
         StreamInv(t) /\ t.sent # <<>>
PROOF
  <1>1. s \in Stream /\ s.pos \in Nat /\ s.written \in Nat
    BY DEF StreamInv, Stream
  <1>2. Last(s).end = s.written
    BY DEF StreamInv, Streaming
  <1>3. Follows(Last(s), [kind |-> "TransferComplete", from |-> s.pos, to |-> s.pos,
                          end |-> s.written + ReplySize])
    BY <1>1, <1>2, ConstantTypes DEF Follows, Streaming, AtEnd
  <1> QED BY <1>1, <1>3, ConstantTypes, SendKeepsInv, SendAppends DEF Kinds, Streaming

LEMMA BytesWrittenKeepsInv ==
  ASSUME ServerInv, NEW c \in Connections, NEW n, BytesWritten(c, n)
  PROVE  ServerInv'
PROOF
  <1> DEFINE s == [stream[c] EXCEPT !.flushed = n]
  <1>1. /\ Open(c) /\ socket[c] # "absent" /\ socket' = socket /\ late' = late
        /\ n \in (stream[c].flushed + 1)..stream[c].written
    BY DEF BytesWritten, Open
  <1>2. /\ StreamInv(s)
        /\ s.sent = stream[c].sent /\ s.pos = stream[c].pos /\ s.sent # <<>>
    BY <1>1, DrainKeepsInv DEF ServerInv, ConnectionInv
  <1>3. sender[c] # "none" /\ (sender[c] = "active" => Streaming(s))
    BY <1>1, <1>2 DEF ServerInv, ConnectionInv, Streaming, Last
  <1>4. PostedInv(c)
    BY DEF ServerInv, ConnectionInv
  <1>5. CASE sender[c] = "active" /\ AtEnd(s) /\ Pending(s) = 0
    <2> DEFINE t == Send(s, "TransferComplete", s.pos, ReplySize)
    <2>1. /\ stream' = [stream EXCEPT ![c] = t]
          /\ sender' = [sender EXCEPT ![c] = "finished"]
          /\ Post(c, "deleteSender")
      BY <1>5 DEF BytesWritten
    <2>2. StreamInv(t) /\ t.sent # <<>>
      BY <1>2, <1>3, <1>5, CompletionKeepsInv
    <2> HIDE DEF t
    <2>3. stream'[c] = t /\ stream' \in [Connections -> Stream]
      BY <2>1, <2>2 DEF StreamInv, ServerInv, ServerTypeOK
    <2>4. sender'[c] = "finished" /\ sender' \in [Connections -> SenderStates]
      BY <2>1 DEF ServerInv, ServerTypeOK, SenderStates
    <2>5. PostedInv(c)' /\ posted' \in [Connections -> Seq(Events)]
      BY <1>1, <2>1, <2>4, PostKeepsOrder
    <2>6. ConnectionInv(c)'
      BY <1>1, <2>2, <2>3, <2>4, <2>5 DEF ConnectionInv
    <2>7. ServerTypeOK'
      BY <1>1, <2>3, <2>4, <2>5 DEF ServerInv, ServerTypeOK
    <2> QED BY <1>1, <2>1, <2>6, <2>7, OneConnection DEF Post, ServerInv, ServerTypeOK
  <1>6. CASE ~(sender[c] = "active" /\ AtEnd(s) /\ Pending(s) = 0)
    <2> DEFINE t == IF sender[c] = "active" /\ ~AtEnd(s) /\ Pending(s) <= ChunkSize
                    THEN SendNextChunk(s) ELSE s
    <2>1. /\ stream' = [stream EXCEPT ![c] = t]
          /\ sender' = sender /\ posted' = posted
      BY <1>6 DEF BytesWritten
    <2>2. StreamInv(t) /\ t.sent # <<>> /\ (sender[c] = "active" => Streaming(t))
      <3> HIDE DEF s
      <3> QED BY <1>2, <1>3, LoopKeepsInv DEF Streaming
    <2> HIDE DEF t
    <2>3. stream'[c] = t /\ stream' \in [Connections -> Stream]
      BY <2>1, <2>2 DEF StreamInv, ServerInv, ServerTypeOK
    <2>4. ConnectionInv(c)'
      BY <1>1, <1>3, <1>4, <2>1, <2>2, <2>3
         DEF ConnectionInv, PostedInv, CallBeforeDeletion, Streaming, Open
    <2>5. ServerTypeOK'
      BY <1>1, <2>1, <2>3 DEF ServerInv, ServerTypeOK
    <2> QED BY <1>1, <2>1, <2>4, <2>5, OneConnection DEF ServerInv, ServerTypeOK
  <1> QED BY <1>5, <1>6

(* The queued sendNextChunk: it sends, or on a disconnected socket only    *)
(* reads; a disconnected socket promises nothing of the read position.     *)
LEMMA RunSendNextChunkKeepsInv ==
  ASSUME ServerInv, NEW c \in Connections, RunSendNextChunk(c)
  PROVE  ServerInv'
PROOF
  <1> DEFINE s == stream[c]
             t == IF sender[c] # "active" THEN s
                  ELSE IF Open(c) THEN SendNextChunk(s)
                  ELSE ReadUnsent(s)
  <1>1. /\ Delivered(c, "sendNextChunk")
        /\ stream' = [stream EXCEPT ![c] = t]
        /\ sender' = sender /\ socket' = socket /\ late' = late
    BY DEF RunSendNextChunk
  <1>2. /\ StreamInv(s) /\ (s.sent = <<>> <=> sender[c] = "none")
        /\ sender[c] = "active" /\ Open(c) => Streaming(s)
        /\ socket[c] = "absent" => sender[c] = "none"
    BY DEF ServerInv, ConnectionInv
  <1>3. /\ StreamInv(t) /\ (t.sent = <<>> <=> sender[c] = "none")
        /\ sender[c] = "active" /\ Open(c) => Streaming(t)
    <2> HIDE DEF s
    <2>1. CASE sender[c] # "active"
      BY <2>1, <1>2
    <2>2. CASE sender[c] = "active" /\ Open(c)
      BY <2>2, <1>2, LoopKeepsInv DEF Streaming
    <2>3. CASE sender[c] = "active" /\ ~Open(c)
      <3>1. t = ReadUnsent(s)
        BY <2>3
      <3>2. s \in Stream
        BY <1>2 DEF StreamInv
      <3>3. /\ ReadUnsent(s) \in Stream
            /\ ReadUnsent(s).sent = s.sent /\ ReadUnsent(s).written = s.written
            /\ ReadUnsent(s).flushed = s.flushed
        BY <3>2, ConstantTypes DEF ReadUnsent, Stream
      <3>4. StreamInv(ReadUnsent(s))
        BY <1>2, <3>3 DEF StreamInv, Pending, Last
      <3> QED BY <2>3, <1>2, <3>1, <3>3, <3>4
    <2> QED BY <2>1, <2>2, <2>3
  <1> HIDE DEF t
  <1>4. stream'[c] = t /\ stream' \in [Connections -> Stream]
    BY <1>1, <1>3 DEF StreamInv, ServerInv, ServerTypeOK
  <1>5. PostedInv(c)'
    BY <1>1, DeliveryKeepsPostedInv
  <1>6. ConnectionInv(c)'
    BY <1>1, <1>2, <1>3, <1>4, <1>5 DEF ConnectionInv, Open
  <1>7. ServerTypeOK'
    BY <1>1, <1>4, DeliveryKeepsOrder DEF ServerInv, ServerTypeOK
  <1>8. \A d \in Connections \ {c} : posted'[d] = posted[d]
    BY <1>1, DeliveryKeepsOrder
  <1> QED BY <1>1, <1>6, <1>7, <1>8, OneConnection DEF ServerInv, ServerTypeOK

LEMMA RunDeleteSenderKeepsInv ==
  ASSUME ServerInv, NEW c \in Connections, RunDeleteSender(c)
  PROVE  ServerInv'
PROOF
  <1>1. /\ Delivered(c, "deleteSender")
        /\ sender' = [sender EXCEPT ![c] = "deleted"]
        /\ stream' = stream /\ socket' = socket /\ late' = late
    BY DEF RunDeleteSender
  <1>2. sender'[c] = "deleted" /\ sender' \in [Connections -> SenderStates]
    BY <1>1 DEF ServerInv, ServerTypeOK, SenderStates
  <1>3. PostedInv(c)'
    BY <1>1, <1>2, DeliveryKeepsPostedInv
  <1>4. sender[c] \notin {"none", "active"}
    BY <1>1, DeliveryKeepsOrder DEF ServerInv, ConnectionInv, PostedInv
  <1>5. ConnectionInv(c)'
    BY <1>1, <1>2, <1>3, <1>4 DEF ServerInv, ConnectionInv, Open
  <1>6. ServerTypeOK'
    BY <1>1, <1>2, DeliveryKeepsOrder DEF ServerInv, ServerTypeOK
  <1>7. \A d \in Connections \ {c} : posted'[d] = posted[d]
    BY <1>1, DeliveryKeepsOrder
  <1> QED BY <1>1, <1>5, <1>6, <1>7, OneConnection DEF ServerInv, ServerTypeOK

(* The deletion of the client: the call of sendNextChunk, if there was one,*)
(* was posted before it and has been delivered.                            *)
LEMMA RunDeleteClientKeepsInv ==
  ASSUME ServerInv, NEW c \in Connections, RunDeleteClient(c)
  PROVE  ServerInv'
PROOF
  <1> DEFINE n == Len(posted[c])
  <1>1. /\ Delivered(c, "deleteClient")
        /\ socket' = [socket EXCEPT ![c] = "deleted"]
        /\ stream' = stream /\ sender' = sender /\ late' = late
    BY DEF RunDeleteClient
  <1>2. socket'[c] = "deleted" /\ socket' \in [Connections -> SocketStates]
    BY <1>1 DEF ServerInv, ServerTypeOK, SocketStates
  <1>3. PostedInv(c)
    BY DEF ServerInv, ConnectionInv
  <1>4. /\ n \in Nat \ {0} /\ posted[c][1] = "deleteClient"
        /\ Len(posted'[c]) = n - 1
        /\ \A i \in 1..(n - 1) : posted'[c][i] = posted[c][i + 1]
    BY <1>1, DeliveryKeepsOrder
  <1>5. ASSUME NEW i \in 1..(n - 1)
        PROVE  /\ c \notin late => posted'[c][i] # "sendNextChunk"
               /\ sender[c] \in {"none", "active"} => posted'[c][i] # "deleteSender"
    <2>1. 1 \in 1..n /\ i + 1 \in 1..n /\ 1 < i + 1
      BY <1>4
    <2> QED BY <2>1, <1>3, <1>4 DEF PostedInv, CallBeforeDeletion
  <1>6. PostedInv(c)'
    BY <1>1, <1>2, <1>4, <1>5 DEF PostedInv, CallBeforeDeletion
  <1>7. ConnectionInv(c)'
    BY <1>1, <1>2, <1>6 DEF ServerInv, ConnectionInv, Open
  <1>8. ServerTypeOK'
    BY <1>1, <1>2, DeliveryKeepsOrder DEF ServerInv, ServerTypeOK
  <1>9. \A d \in Connections \ {c} : posted'[d] = posted[d]
    BY <1>1, DeliveryKeepsOrder
  <1> QED BY <1>1, <1>7, <1>8, <1>9, OneConnection DEF ServerInv, ServerTypeOK

(* Posting the deletion of a connected client, when it has disconnected or *)
(* the server is stopped.                                                  *)
LEMMA PostedDeletionKeepsInv ==
  ASSUME ServerInv, NEW c \in Connections, socket[c] = "connected",
         socket'[c] \in {"disconnected", "stopped"},
         posted'[c] = Append(posted[c], "deleteClient"),
         UNCHANGED <<stream, sender, late>>
  PROVE  ConnectionInv(c)' /\ posted'[c] \in Seq(Events)
PROOF
  <1> DEFINE n == Len(posted[c])
  <1>1. posted[c] \in Seq(Events) /\ "deleteClient" \in Events /\ n \in Nat
    BY DEF ServerInv, ServerTypeOK, Events
  <1>2. /\ posted'[c] \in Seq(Events)
        /\ Len(posted'[c]) = n + 1
        /\ posted'[c][n + 1] = "deleteClient"
        /\ \A i \in 1..n : posted'[c][i] = posted[c][i]
    BY <1>1
  <1>3. PostedInv(c)
    BY DEF ServerInv, ConnectionInv
  <1>4. ASSUME NEW i \in 1..(n + 1), NEW j \in 1..(n + 1), i < j,
               posted'[c][i] = "deleteClient"
        PROVE  posted'[c][j] # "sendNextChunk"
    <2>1. i \in 1..n /\ posted[c][i] = "deleteClient"
      BY <1>1, <1>2, <1>4
    <2> QED BY <2>1, <1>3 DEF PostedInv
  <1>5. ASSUME NEW i \in 1..(n + 1), sender[c] \in {"none", "active"}
        PROVE  posted'[c][i] # "deleteSender"
    BY <1>1, <1>2, <1>3, <1>5 DEF PostedInv
  <1>6. PostedInv(c)'
    BY <1>2, <1>4, <1>5 DEF PostedInv, CallBeforeDeletion
  <1>7. ConnectionInv(c)'
    BY <1>6 DEF ServerInv, ConnectionInv, Open
  <1> QED BY <1>2, <1>7

LEMMA ClientDisconnectedKeepsInv ==
  ASSUME ServerInv, NEW c \in Connections, ClientDisconnected(c)
  PROVE  ServerInv'
PROOF
  <1>1. /\ socket' = [socket EXCEPT ![c] = "disconnected"]
        /\ stream' = stream /\ sender' = sender /\ late' = late
        /\ \A d \in Connections \ {c} : posted'[d] = posted[d]
    BY DEF ClientDisconnected, Post, ServerInv, ServerTypeOK
  <1>2. socket'[c] = "disconnected" /\ socket' \in [Connections -> SocketStates]
    BY <1>1 DEF ServerInv, ServerTypeOK, SocketStates
  <1>3. CASE socket[c] = "connected"
    <2>1. posted' = [posted EXCEPT ![c] = Append(@, "deleteClient")]
      BY <1>3 DEF ClientDisconnected, Post
    <2>2. posted'[c] = Append(posted[c], "deleteClient")
      BY <2>1 DEF ServerInv, ServerTypeOK
    <2>3. ConnectionInv(c)' /\ posted'[c] \in Seq(Events)
      BY <1>1, <1>2, <1>3, <2>2, PostedDeletionKeepsInv
    <2>4. ServerTypeOK'
      BY <1>1, <1>2, <2>1, <2>2, <2>3 DEF ServerInv, ServerTypeOK
    <2> QED BY <1>1, <2>3, <2>4, OneConnection DEF ServerInv, ServerTypeOK
  <1>4. CASE socket[c] = "stopped"
    <2>1. posted' = posted
      BY <1>4 DEF ClientDisconnected
    <2>2. ConnectionInv(c)'
      BY <1>1, <1>2, <1>4, <2>1
         DEF ServerInv, ConnectionInv, PostedInv, CallBeforeDeletion, Open
    <2>3. ServerTypeOK'
      BY <1>1, <1>2, <2>1 DEF ServerInv, ServerTypeOK
    <2> QED BY <1>1, <2>2, <2>3, OneConnection DEF ServerInv, ServerTypeOK
  <1> QED BY <1>3, <1>4 DEF ClientDisconnected, Open

LEMMA StopKeepsInv ==
  ASSUME ServerInv, Stop
  PROVE  ServerInv'
PROOF
  <1>1. stream' = stream /\ sender' = sender /\ late' = late
    BY DEF Stop
  <1>2. ASSUME NEW c \in Connections
        PROVE  ConnectionInv(c)' /\ posted'[c] \in Seq(Events)
    <2>1. CASE socket[c] = "connected"
      <3>1. socket'[c] = "stopped" /\ posted'[c] = Append(posted[c], "deleteClient")
        BY <2>1 DEF Stop
      <3> QED BY <1>1, <2>1, <3>1, PostedDeletionKeepsInv
    <2>2. CASE socket[c] # "connected"
      <3>1. socket'[c] = socket[c] /\ posted'[c] = posted[c]
        BY <2>2 DEF Stop
      <3>2. ConnectionInv(c) /\ posted[c] \in Seq(Events)
        BY DEF ServerInv, ServerTypeOK
      <3> QED BY <1>1, <3>1, <3>2 DEF ConnectionInv, PostedInv, CallBeforeDeletion, Open
    <2> QED BY <2>1, <2>2
  <1>3. posted' \in [Connections -> Seq(Events)]
    BY <1>2 DEF Stop
  <1>4. socket' \in [Connections -> SocketStates]
    BY DEF Stop, ServerInv, ServerTypeOK, SocketStates
  <1>5. ServerTypeOK'
    BY <1>1, <1>3, <1>4 DEF ServerInv, ServerTypeOK
  <1> QED BY <1>2, <1>5 DEF ServerInv

LEMMA NextKeepsInv == ServerInv /\ [ServerNext]_serverVars => ServerInv'
PROOF
  <1> SUFFICES ASSUME ServerInv, [ServerNext]_serverVars PROVE ServerInv'
    OBVIOUS
  <1>1. CASE UNCHANGED serverVars
    BY <1>1 DEF serverVars, ServerInv, ServerTypeOK, ConnectionInv, PostedInv,
                CallBeforeDeletion, Open
  <1>2. ASSUME NEW c \in Connections, Accept(c) PROVE ServerInv'
    BY <1>2, AcceptKeepsInv
  <1>3. ASSUME NEW c \in Connections, NEW readOffset \in Offsets,
               StartTransfer(c, readOffset)
        PROVE  ServerInv'
    BY <1>3, OffsetsAssumption, StartTransferKeepsInv
  <1>4. ASSUME NEW c \in Connections, RefuseTransfer(c) PROVE ServerInv'
    BY <1>4, RefuseTransferKeepsInv
  <1>5. ASSUME NEW c \in Connections, Flush(c) PROVE ServerInv'
    BY <1>5, BytesWrittenKeepsInv DEF Flush
  <1>6. ASSUME NEW c \in Connections, RunPosted(c) PROVE ServerInv'
    BY <1>6, RunSendNextChunkKeepsInv, RunDeleteSenderKeepsInv, RunDeleteClientKeepsInv
       DEF RunPosted
  <1>7. ASSUME NEW c \in Connections, ClientDisconnected(c) PROVE ServerInv'
    BY <1>7, ClientDisconnectedKeepsInv
  <1>8. CASE Stop
    BY <1>8, StopKeepsInv
  <1> QED
    BY <1>1, <1>2, <1>3, <1>4, <1>5, <1>6, <1>7, <1>8 DEF ServerNext

THEOREM ServerInvariance == ServerSpec => []ServerInv
BY InitInv, NextKeepsInv, PTL DEF ServerSpec

(***************************************************************************)
(* What the invariant gives.                                               *)
(***************************************************************************)

(* The state of the server keeps its types.                                *)
THEOREM ServerTypeCorrect == ServerSpec => []ServerTypeOK
  <1>1. ServerInv => ServerTypeOK
    BY DEF ServerInv
  <1> QED BY <1>1, ServerInvariance, PTL

(* No connection ever buffers more than two chunks and a packet, whatever  *)
(* the file, the chunk size and the way the socket drains.                 *)
THEOREM BackPressure == ServerSpec => []BufferBounded
  <1>1. ServerInv => BufferBounded
    BY DEF ServerInv, ConnectionInv, StreamInv, BufferBounded
  <1> QED BY <1>1, ServerInvariance, PTL

(* The messages of an answer carry the file in order and without gap, and  *)
(* nothing follows an error or the completion.                             *)
THEOREM AnswerIsGapless == ServerSpec => []GaplessAnswer
  <1>1. ServerInv => GaplessAnswer
    BY DEF ServerInv, ConnectionInv, StreamInv, GaplessAnswer
  <1> QED BY <1>1, ServerInvariance, PTL

(* The queued sendNextChunk never runs with its client deleted: it was     *)
(* posted before the deletion, unless the request was read after stop(),   *)
(* and events are delivered in order.                                      *)
THEOREM QueuedCallIsSafe == ServerSpec => []NoDanglingClient
  <1>1. ServerInv => NoDanglingClient
    <2> SUFFICES ASSUME ServerInv, NEW c \in Connections, posted[c] # <<>>,
                        Head(posted[c]) = "sendNextChunk", sender[c] = "active",
                        c \notin late
                 PROVE  socket[c] \in {"connected", "stopped", "disconnected"}
      BY DEF NoDanglingClient
    <2>1. posted[c] \in Seq(Events) /\ socket[c] \in SocketStates
      BY DEF ServerInv, ServerTypeOK
    <2>2. 1 \in 1..Len(posted[c]) /\ posted[c][1] = "sendNextChunk"
      BY <2>1
    <2>3. socket[c] # "deleted" /\ socket[c] # "absent"
      BY <2>2 DEF ServerInv, ConnectionInv, PostedInv, CallBeforeDeletion
    <2> QED BY <2>1, <2>3 DEF SocketStates
  <1> QED BY <1>1, ServerInvariance, PTL

(***************************************************************************)
(* The server implements FileStream.                                       *)
(***************************************************************************)

(* The loop sends nothing, or takes the stream further.                    *)
LEMMA IterationAdvances ==
  ASSUME NEW s, StreamInv(s), Streaming(s)
  PROVE  LET t == SendChunkIfRoom(s) IN
         \/ t = s
         \/ Last(t).kind = "FileChunk" /\ Last(t).to \in (Last(s).to + 1)..FileSize
PROOF
  <1>1. CASE ~CanSend(s)
    BY <1>1 DEF SendChunkIfRoom
  <1>2. CASE CanSend(s)
    <2> DEFINE to == ChunkEnd(s)
               size == to - s.pos + HeaderSize
    <2>1. s \in Stream /\ s.pos \in Nat
      BY DEF StreamInv, Stream
    <2>2. to \in Nat /\ size \in Nat /\ to > s.pos /\ to <= FileSize
      BY <1>2, <2>1, ConstantTypes DEF CanSend, AtEnd, ChunkEnd
    <2>3. SendChunkIfRoom(s) = Send(s, "FileChunk", to, size)
      BY <1>2 DEF SendChunkIfRoom, SendChunk
    <2> HIDE DEF to, size
    <2>4. LET t == Send(s, "FileChunk", to, size) IN
          Last(t) = [kind |-> "FileChunk", from |-> s.pos, to |-> to,
                     end |-> s.written + size]
      BY <2>1, <2>2, SendAppends DEF Kinds
    <2> QED BY <2>1, <2>2, <2>3, <2>4, ConstantTypes DEF Streaming
  <1> QED BY <1>1, <1>2

LEMMA LoopAdvances ==
  ASSUME NEW s, StreamInv(s), Streaming(s)
  PROVE  LET t == SendNextChunk(s) IN
         \/ t = s
         \/ Last(t).kind = "FileChunk" /\ Last(t).to \in (Last(s).to + 1)..FileSize
PROOF
  <1> DEFINE t == SendChunkIfRoom(s)
             u == SendChunkIfRoom(t)
  <1>1. StreamInv(t) /\ Streaming(t)
    BY ChunkKeepsInv
  <1>2. t = s \/ (Last(t).kind = "FileChunk" /\ Last(t).to \in (Last(s).to + 1)..FileSize)
    BY IterationAdvances
  <1>3. u = t \/ (Last(u).kind = "FileChunk" /\ Last(u).to \in (Last(t).to + 1)..FileSize)
    BY <1>1, IterationAdvances
  <1>4. s.pos \in Nat /\ Last(s).to = s.pos /\ t.pos \in Nat /\ Last(t).to = t.pos
    BY <1>1 DEF StreamInv, Streaming, Stream
  <1> HIDE DEF t, u
  <1>5. u = s \/ (Last(u).kind = "FileChunk" /\ Last(u).to \in (Last(s).to + 1)..FileSize)
    BY <1>2, <1>3, <1>4, ConstantTypes
  <1> QED BY <1>5 DEF SendNextChunk, t, u

(* The abstract state of connection c.                                     *)
PhaseIn(s) == IF s.sent = <<>> THEN "idle" ELSE PhaseOf(Last(s).kind)
ProgressIn(s) == IF s.sent = <<>> THEN 0 ELSE Last(s).to

(* The abstract state changes as FileStream allows when only the stream of *)
(* connection c changes, and it changes in one of these ways.              *)
LEMMA StreamStepMaps ==
  ASSUME ServerInv, NEW c \in Connections, NEW t \in Stream,
         stream' = [stream EXCEPT ![c] = t],
         LET s == stream[c] IN
         \/ PhaseIn(t) = PhaseIn(s) /\ ProgressIn(t) = ProgressIn(s)
         \/ PhaseIn(s) = "idle" /\ PhaseIn(t) = "streaming" /\ ProgressIn(t) \in Nat
         \/ PhaseIn(s) = "idle" /\ PhaseIn(t) = "failed" /\ ProgressIn(t) = ProgressIn(s)
         \/ /\ PhaseIn(s) = "streaming" /\ PhaseIn(t) = "streaming"
            /\ ProgressIn(t) \in (ProgressIn(s) + 1)..FileSize
         \/ /\ PhaseIn(s) = "streaming" /\ PhaseIn(t) = "complete"
            /\ ProgressIn(t) = ProgressIn(s) /\ ProgressIn(s) >= FileSize
  PROVE  [Abstract!StreamNext]_(Abstract!streamVars)
PROOF
  <1>1. stream \in [Connections -> Stream] /\ stream'[c] = t
    BY DEF ServerInv, ServerTypeOK
  <1>2. /\ AbstractPhase = [d \in Connections |-> PhaseIn(stream[d])]
        /\ AbstractProgress = [d \in Connections |-> ProgressIn(stream[d])]
        /\ AbstractPhase' = [d \in Connections |-> PhaseIn(stream'[d])]
        /\ AbstractProgress' = [d \in Connections |-> ProgressIn(stream'[d])]
    BY DEF AbstractPhase, AbstractProgress, PhaseIn, ProgressIn, LastSent, Last
  <1>3. /\ AbstractPhase' = [AbstractPhase EXCEPT ![c] = PhaseIn(t)]
        /\ AbstractProgress' = [AbstractProgress EXCEPT ![c] = ProgressIn(t)]
        /\ AbstractPhase[c] = PhaseIn(stream[c])
        /\ AbstractProgress[c] = ProgressIn(stream[c])
        /\ AbstractProgress'[c] = ProgressIn(t)
        /\ AbstractPhase = [AbstractPhase EXCEPT ![c] = PhaseIn(stream[c])]
        /\ AbstractProgress = [AbstractProgress EXCEPT ![c] = ProgressIn(stream[c])]
    BY <1>1, <1>2
  <1> HIDE DEF PhaseIn, ProgressIn
  <1> QED
    BY <1>3 DEF Abstract!StreamNext, Abstract!streamVars, Abstract!Open, Abstract!Refuse,
                Abstract!Advance, Abstract!Complete

LEMMA InitMaps == ServerInit => Abstract!StreamInit
BY DEF ServerInit, Abstract!StreamInit, AbstractPhase, AbstractProgress

LEMMA StepMaps ==
  ServerInv /\ [ServerNext]_serverVars => [Abstract!StreamNext]_(Abstract!streamVars)
PROOF
  <1> SUFFICES ASSUME ServerInv, [ServerNext]_serverVars
               PROVE  [Abstract!StreamNext]_(Abstract!streamVars)
    OBVIOUS
  <1>1. CASE UNCHANGED stream
    BY <1>1 DEF Abstract!streamVars, AbstractPhase, AbstractProgress, LastSent
  <1>2. ASSUME NEW c \in Connections, NEW readOffset \in Offsets,
               StartTransfer(c, readOffset)
        PROVE  [Abstract!StreamNext]_(Abstract!streamVars)
    <2> DEFINE start == SeekTo(readOffset)
               t == Send([stream[c] EXCEPT !.pos = start], "ResponseOk", start, ReplySize)
    <2>1. start \in Nat
      BY OffsetsAssumption DEF SeekTo
    <2>2. stream[c].sent = <<>> /\ StreamInv(stream[c])
      BY <1>2 DEF StartTransfer, ServerInv, ConnectionInv
    <2>3. /\ t.sent # <<>> /\ Last(t).kind = "ResponseOk" /\ Last(t).to = t.pos
          /\ StreamInv(t)
      BY <2>1, <2>2, FirstMessage
    <2>4. stream' = [stream EXCEPT ![c] = t]
      BY <1>2 DEF StartTransfer
    <2> HIDE DEF t
    <2>5. t \in Stream /\ t.pos \in Nat
      BY <2>3 DEF StreamInv, Stream
    <2>6. PhaseIn(stream[c]) = "idle" /\ PhaseIn(t) = "streaming" /\ ProgressIn(t) \in Nat
      BY <2>2, <2>3, <2>5 DEF PhaseIn, ProgressIn, PhaseOf
    <2> QED BY <2>4, <2>5, <2>6, StreamStepMaps
  <1>3. ASSUME NEW c \in Connections, RefuseTransfer(c)
        PROVE  [Abstract!StreamNext]_(Abstract!streamVars)
    <2> DEFINE s == stream[c]
               t == Send(s, "ResponseError", 0, ReplySize)
    <2>1. stream[c].sent = <<>> /\ stream[c] \in Stream
      BY <1>3 DEF RefuseTransfer, ServerInv, ConnectionInv, StreamInv
    <2>2. t \in Stream /\ t.sent # <<>>
          /\ Last(t) = [kind |-> "ResponseError", from |-> s.pos, to |-> 0,
                        end |-> s.written + ReplySize]
      <3>1. s \in Stream /\ "ResponseError" \in Kinds /\ 0 \in Nat /\ ReplySize \in Nat
        BY <2>1, ConstantTypes DEF Kinds
      <3> HIDE DEF s
      <3> QED BY ONLY <3>1, SendAppends
    <2>3. stream' = [stream EXCEPT ![c] = t]
      BY <1>3 DEF RefuseTransfer
    <2> HIDE DEF t
    <2>4. PhaseIn(stream[c]) = "idle" /\ PhaseIn(t) = "failed" /\ ProgressIn(t) = 0
          /\ ProgressIn(stream[c]) = 0
      BY <2>1, <2>2 DEF PhaseIn, ProgressIn, PhaseOf
    <2> QED BY <2>2, <2>3, <2>4, StreamStepMaps
  <1>4. ASSUME NEW s, StreamInv(s), Streaming(s), NEW t, t = SendNextChunk(s)
        PROVE  /\ t \in Stream
               /\ PhaseIn(s) = "streaming" /\ PhaseIn(t) = "streaming"
               /\ \/ t = s
                  \/ ProgressIn(t) \in (ProgressIn(s) + 1)..FileSize
    <2>1. StreamInv(t) /\ Streaming(t)
      BY <1>4, LoopKeepsInv
    <2>2. t = s \/ Last(t).to \in (Last(s).to + 1)..FileSize
      BY <1>4, LoopAdvances
    <2> QED BY <1>4, <2>1, <2>2 DEF Streaming, StreamInv, PhaseIn, ProgressIn, PhaseOf
  <1>5. ASSUME NEW c \in Connections, NEW n, BytesWritten(c, n)
        PROVE  [Abstract!StreamNext]_(Abstract!streamVars)
    <2> DEFINE s == [stream[c] EXCEPT !.flushed = n]
    <2>1. /\ Open(c) /\ n \in (stream[c].flushed + 1)..stream[c].written
      BY <1>5 DEF BytesWritten
    <2>2. StreamInv(s) /\ s.sent = stream[c].sent /\ s.pos = stream[c].pos
      BY <2>1, DrainKeepsInv DEF ServerInv, ConnectionInv
    <2>3. sender[c] = "active" => Streaming(s)
      BY <2>1, <2>2 DEF ServerInv, ConnectionInv, Streaming, Last
    <2>4. PhaseIn(stream[c]) = PhaseIn(s) /\ ProgressIn(stream[c]) = ProgressIn(s)
      BY <2>2 DEF PhaseIn, ProgressIn, Last
    <2>5. CASE sender[c] = "active" /\ AtEnd(s) /\ Pending(s) = 0
      <3> DEFINE t == Send(s, "TransferComplete", s.pos, ReplySize)
      <3>1. stream' = [stream EXCEPT ![c] = t]
        BY <1>5, <2>5 DEF BytesWritten
      <3>2. s \in Stream /\ s.pos \in Nat
        BY <2>2 DEF StreamInv, Stream
      <3>3. t \in Stream /\ t.sent # <<>>
            /\ Last(t) = [kind |-> "TransferComplete", from |-> s.pos, to |-> s.pos,
                          end |-> s.written + ReplySize]
        <4> HIDE DEF s
        <4> QED BY <3>2, ConstantTypes, SendAppends DEF Kinds
      <3> HIDE DEF t, s
      <3>4. /\ PhaseIn(s) = "streaming" /\ PhaseIn(t) = "complete"
            /\ ProgressIn(t) = ProgressIn(s) /\ ProgressIn(s) >= FileSize
        BY <2>3, <2>5, <3>3 DEF PhaseIn, ProgressIn, PhaseOf, Streaming, AtEnd
      <3> QED BY <2>4, <3>1, <3>3, <3>4, StreamStepMaps
    <2>6. CASE ~(sender[c] = "active" /\ AtEnd(s) /\ Pending(s) = 0)
      <3> DEFINE t == IF sender[c] = "active" /\ ~AtEnd(s) /\ Pending(s) <= ChunkSize
                      THEN SendNextChunk(s) ELSE s
      <3>1. stream' = [stream EXCEPT ![c] = t]
        BY <1>5, <2>6 DEF BytesWritten
      <3> HIDE DEF s
      <3>2. /\ t \in Stream
            /\ \/ t = s
               \/ /\ PhaseIn(s) = "streaming" /\ PhaseIn(t) = "streaming"
                  /\ ProgressIn(t) \in (ProgressIn(s) + 1)..FileSize
        <4>1. s \in Stream
          BY <2>2 DEF StreamInv
        <4> QED BY <1>4, <2>2, <2>3, <4>1
      <3> HIDE DEF t
      <3> QED BY <2>4, <3>1, <3>2, StreamStepMaps
    <2> QED BY <2>5, <2>6
  <1>6. ASSUME NEW c \in Connections, RunSendNextChunk(c)
        PROVE  [Abstract!StreamNext]_(Abstract!streamVars)
    <2> DEFINE s == stream[c]
               t == IF sender[c] # "active" THEN s
                    ELSE IF Open(c) THEN SendNextChunk(s)
                    ELSE ReadUnsent(s)
    <2>1. stream' = [stream EXCEPT ![c] = t]
      BY <1>6 DEF RunSendNextChunk
    <2>2. /\ StreamInv(s) /\ s \in Stream
          /\ sender[c] = "active" /\ Open(c) => Streaming(s)
      BY DEF ServerInv, ConnectionInv, StreamInv
    <2>3. /\ t \in Stream
          /\ \/ PhaseIn(t) = PhaseIn(s) /\ ProgressIn(t) = ProgressIn(s)
             \/ /\ PhaseIn(s) = "streaming" /\ PhaseIn(t) = "streaming"
                /\ ProgressIn(t) \in (ProgressIn(s) + 1)..FileSize
      <3> HIDE DEF s
      <3>1. ReadUnsent(s) \in Stream /\ ReadUnsent(s).sent = s.sent
        BY <2>2, ConstantTypes DEF ReadUnsent, Stream
      <3>2. PhaseIn(ReadUnsent(s)) = PhaseIn(s) /\ ProgressIn(ReadUnsent(s)) = ProgressIn(s)
        BY <3>1 DEF PhaseIn, ProgressIn, Last
      <3> QED BY <1>4, <2>2, <3>1, <3>2
    <2> HIDE DEF t
    <2> QED BY <2>1, <2>3, StreamStepMaps
  <1>7. ASSUME NEW c \in Connections,
               Accept(c) \/ RunDeleteSender(c) \/ RunDeleteClient(c) \/ ClientDisconnected(c)
        PROVE  UNCHANGED stream
    BY <1>7 DEF Accept, RunDeleteSender, RunDeleteClient, ClientDisconnected
  <1>8. Stop => UNCHANGED stream
    BY DEF Stop
  <1> QED
    BY <1>1, <1>2, <1>3, <1>5, <1>6, <1>7, <1>8
    DEF ServerNext, serverVars, Flush, RunPosted

(* Every behaviour of the server is a behaviour of FileStream.             *)
THEOREM ServerImplementation == ServerSpec => ImplementsFileStream
BY ServerInvariance, InitMaps, StepMaps, PTL
   DEF ServerSpec, ImplementsFileStream, Abstract!StreamSpec

----------------------------------------------------------------------------
(* PART 2.  THE SERVER AND ITS TRANSPORTS.                                 *)

----------------------------------------------------------------------------
(* Hypotheses.  The server's specification has to allow for every offset   *)
(* that a request may be read as; that a finished download is whole is said*)
(* of transports that save to paths of their own: one transport to what an *)
(* earlier session left, or several that start with empty files.           *)
OffsetsFit == \A n \in Nat : ReadOffset(n) \in Offsets
Single == \A c, d \in Connections : c = d
OwnPaths ==
  \A c, d \in Connections, p \in Paths :
    <<c, p>> \in SaveChoices /\ <<d, p>> \in SaveChoices => c = d
ExactLeft == \A file \in Leftovers : file.exact
NothingLeft == \A file \in Leftovers : file.exact /\ file.size = 0
OneSaverEach == (Single /\ ExactLeft) \/ (OwnPaths /\ NothingLeft)

----------------------------------------------------------------------------
(* What crosses the wire is eight bytes, and what the server reads from    *)
(* eight bytes, whatever they are, is a number.                            *)
Byte == 0..255

LEMMA RestIsDefined ==
  ASSUME NEW n \in Nat, NEW k \in Nat
  PROVE  LET rest[i \in 0..k] == IF i = 0 THEN n ELSE rest[i - 1] \div 256
         IN  \A i \in 0..k : rest[i] \in Nat
PROOF
  <1> DEFINE step == [p \in Nat \X Nat |-> p[1] \div 256]
             Fits(f) == f = [i \in 0..k |-> IF i = 0 THEN n ELSE f[i - 1] \div 256]
             rest == CHOOSE f : Fits(f)
             T == {i \in Nat : i <= k => rest[i] \in Nat}
  <1>1. step \in [Nat \X Nat -> Nat]
    OBVIOUS
  <1>2. PICK f \in [0..k -> Nat] : Recursion(f, k, n, step)
    <2> HIDE DEF step
    <2> QED BY <1>1, RecursionDefines
  <1>3. Fits(f)
    <2>1. \A i \in 0..k : f[i] = IF i = 0 THEN n ELSE f[i - 1] \div 256
      <3> SUFFICES ASSUME NEW i \in 0..k PROVE f[i] = IF i = 0 THEN n ELSE f[i - 1] \div 256
        OBVIOUS
      <3>1. f[i] = IF i = 0 THEN n ELSE step[<<f[i - 1], i>>]
        BY <1>2 DEF Recursion
      <3>2. i # 0 => f[i - 1] \in Nat /\ i \in Nat
        BY <1>2
      <3> QED BY <3>1, <3>2
    <2> QED BY <2>1
  <1>4. Fits(rest)
    <2> HIDE DEF Fits
    <2> QED BY <1>3
  <1>5. \A i \in 0..k : rest[i] = IF i = 0 THEN n ELSE rest[i - 1] \div 256
    <2> HIDE DEF rest
    <2> QED BY Zenon, <1>4
  <1> HIDE DEF rest
  <1>6. 0 \in T
    BY <1>5
  <1>7. ASSUME NEW i \in Nat, i \in T PROVE i + 1 \in T
    <2> SUFFICES ASSUME i + 1 <= k PROVE rest[i + 1] \in Nat
      OBVIOUS
    <2>1. rest[i] \in Nat /\ i + 1 \in 0..k /\ i + 1 # 0 /\ (i + 1) - 1 = i
      BY <1>7
    <2>2. rest[i + 1] = rest[i] \div 256
      BY <1>5, <2>1
    <2> QED BY <2>1, <2>2
  <1> HIDE DEF T
  <1>8. \A i \in Nat : i \in T
    BY <1>6, <1>7, Induction
  <1>9. \A i \in 0..k : rest[i] \in Nat
    <2>1. \A i \in 0..k : i \in Nat /\ i <= k
      OBVIOUS
    <2> QED BY <1>8, <2>1 DEF T
  <1> QED BY <1>9 DEF rest

LEMMA EncodedIsBytes ==
  ASSUME NEW n \in Nat PROVE EncodeOffset(n) \in [1..OffsetBytes -> Byte]
PROOF
  <1> DEFINE Fits(f) == f = [i \in 0..OffsetBytes |-> IF i = 0 THEN n ELSE f[i - 1] \div 256]
             rest == CHOOSE f : Fits(f)
  <1>1. \A i \in 0..OffsetBytes : rest[i] \in Nat
    BY RestIsDefined DEF OffsetBytes
  <1>2. EncodeOffset(n) = [i \in 1..OffsetBytes |-> rest[i - 1] % 256]
    BY DEF EncodeOffset
  <1> HIDE DEF rest
  <1>3. \A i \in 1..OffsetBytes : rest[i - 1] % 256 \in Byte
    BY <1>1 DEF OffsetBytes, Byte
  <1> QED BY <1>2, <1>3

(* The digits that are found are all there, so that their value is defined.*)
Value(bytes, first, k) ==
  LET value[i \in 0..k] == IF i = 0 THEN 0 ELSE value[i - 1] * 10 + bytes[first + i - 1] - 48
  IN  value[k]

LEMMA ValueIsDefined ==
  ASSUME NEW n \in Nat, NEW bytes \in [1..n -> Byte], NEW first \in Nat, first > 0,
         NEW k \in Nat, first + k <= n + 1
  PROVE  Value(bytes, first, k) \in Int
PROOF
  <1> DEFINE Next10(v, i) == v * 10 + bytes[first + i - 1] - 48
             step == [p \in Int \X Nat |-> IF p[2] \in 1..k THEN Next10(p[1], p[2]) ELSE 0]
             Fits(f) == f = [i \in 0..k |-> IF i = 0 THEN 0 ELSE Next10(f[i - 1], i)]
             value == CHOOSE f : Fits(f)
             T == {i \in Nat : i <= k => value[i] \in Int}
  <1>1. ASSUME NEW v \in Int, NEW i \in 1..k PROVE Next10(v, i) \in Int
    <2>1. PICK j \in 1..n : j = first + i - 1
      OBVIOUS
    <2>2. PICK b \in Byte : b = bytes[j]
      OBVIOUS
    <2>3. Next10(v, i) = v * 10 + b - 48
      BY <2>1, <2>2
    <2>4. v * 10 + b - 48 \in Int
      BY DEF Byte
    <2> HIDE DEF Next10
    <2> QED BY <2>3, <2>4
  <1> HIDE DEF Next10
  <1>2. step \in [Int \X Nat -> Int]
    BY <1>1
  <1>3. PICK f \in [0..k -> Int] : Recursion(f, k, 0, step)
    <2> HIDE DEF step
    <2>1. 0 \in Int
      OBVIOUS
    <2> QED BY <1>2, <2>1, RecursionDefines
  <1>4. Fits(f)
    <2>1. \A i \in 0..k : f[i] = IF i = 0 THEN 0 ELSE Next10(f[i - 1], i)
      <3> SUFFICES ASSUME NEW i \in 0..k PROVE f[i] = IF i = 0 THEN 0 ELSE Next10(f[i - 1], i)
        OBVIOUS
      <3>1. f[i] = IF i = 0 THEN 0 ELSE step[<<f[i - 1], i>>]
        BY <1>3 DEF Recursion
      <3>2. i # 0 => f[i - 1] \in Int /\ i \in Nat /\ i \in 1..k
        BY <1>3
      <3> QED BY <3>1, <3>2
    <2> QED BY <2>1
  <1>5. Fits(value)
    <2> HIDE DEF Fits
    <2> QED BY <1>4
  <1>6. \A i \in 0..k : value[i] = IF i = 0 THEN 0 ELSE Next10(value[i - 1], i)
    <2> HIDE DEF value
    <2> QED BY Zenon, <1>5
  <1> HIDE DEF value
  <1>7. 0 \in T
    BY <1>6
  <1>8. ASSUME NEW i \in Nat, i \in T PROVE i + 1 \in T
    <2> SUFFICES ASSUME i + 1 <= k PROVE value[i + 1] \in Int
      OBVIOUS
    <2>1. value[i] \in Int /\ i + 1 \in 1..k /\ i + 1 \in 0..k /\ i + 1 # 0 /\ (i + 1) - 1 = i
      BY <1>8
    <2>2. value[i + 1] = Next10(value[i], i + 1)
      BY <1>6, <2>1
    <2> QED BY <1>1, <2>1, <2>2
  <1> HIDE DEF T
  <1>9. k \in T
    BY <1>7, <1>8, Induction
  <1>10. value[k] \in Int
    BY <1>9 DEF T
  <1> QED BY <1>10 DEF Value, value, Next10

LEMMA BytesReadAsNumber ==
  ASSUME NEW bytes \in [1..OffsetBytes -> Byte] PROVE ToLongLong(bytes) \in Int
PROOF
  <1> DEFINE n == Len(bytes)
             Spaces == {j \in 1..(n + 1) : j <= n => ~IsSpace(bytes[j])}
             first == Behind(bytes, 1, IsSpace)
             signed == first <= n /\ bytes[first] \in {Plus, Minus}
             digits == IF signed THEN first + 1 ELSE first
             Digits == {j \in digits..(n + 1) : j <= n => ~IsDigit(bytes[j])}
             next == Behind(bytes, digits, IsDigit)
             k == next - digits
             number == Value(bytes, digits, k)
             whole == next > n \/ bytes[next] = 0
  <1>1. n = OffsetBytes /\ n \in Nat
    BY DEF OffsetBytes, Byte
  <1>2. first \in 1..(n + 1)
    <2>1. first = Min(Spaces)
      BY DEF Behind
    <2>2. Spaces \in SUBSET Nat /\ n + 1 \in Spaces
      BY <1>1
    <2> HIDE DEF Spaces, first
    <2>3. first \in Spaces
      BY <2>1, <2>2, LeastIsIn
    <2> QED BY <2>3 DEF Spaces
  <1> HIDE DEF first
  <1>3. digits \in 1..(n + 1)
    BY <1>1, <1>2
  <1> HIDE DEF digits
  <1>4. next \in digits..(n + 1)
    <2>1. next = Min(Digits)
      BY DEF Behind
    <2>2. Digits \in SUBSET Nat /\ n + 1 \in Digits
      BY <1>1, <1>3
    <2> HIDE DEF Digits, next
    <2>3. next \in Digits
      BY <2>1, <2>2, LeastIsIn
    <2> QED BY <2>3 DEF Digits
  <1> HIDE DEF next
  <1>5. k \in Nat /\ digits \in Nat /\ digits > 0 /\ digits + k <= n + 1
    BY <1>1, <1>3, <1>4
  <1>6. number \in Int
    <2> HIDE DEF k, n
    <2>1. bytes \in [1..n -> Byte]
      BY <1>1
    <2> QED BY <1>1, <1>5, <2>1, ValueIsDefined
  <1>7. ToLongLong(bytes) = IF next = digits \/ ~whole THEN 0
                            ELSE IF signed /\ bytes[first] = Minus THEN 0 - number ELSE number
    BY DEF ToLongLong, Value, first, digits, next
  <1> HIDE DEF number, whole, signed
  <1> QED BY <1>6, <1>7

(* Whatever a client asks for, the server reads a number: the offsets that *)
(* Int allows a request to be read as are those the code can come up with. *)
THEOREM EveryOffsetFits == Offsets = Int => OffsetsFit
PROOF
  <1>1. ASSUME NEW n \in Nat PROVE ReadOffset(n) \in Int
    BY EncodedIsBytes, BytesReadAsNumber DEF ReadOffset
  <1> QED BY <1>1 DEF OffsetsFit

----------------------------------------------------------------------------
(* The inductive invariant, first of all transports, whatever they save to.*)

(* What is not yet written of a file is the end of the answer.             *)
ChunksAreWhole(s) ==
  \A i \in 1..Len(s.sent) :
    s.sent[i].kind = "FileChunk" =>
      s.sent[i].to = FileSize \/ s.sent[i].to - s.sent[i].from = ChunkSize
Position(c) == IF received[c] = 0 THEN 0 ELSE stream[c].sent[received[c]].to
ClientInv(c) ==
  /\ received[c] <= Len(stream[c].sent)
  /\ received[c] > 0 => transport[c] \in {"connected", "disconnected"}
  /\ transport[c] # "none" => info.state # "Absent"
  /\ output[c].from <= output[c].to
  /\ Buffered(c) > 0 => received[c] > 0 /\ Position(c) = FileSize

TransferInv ==
  /\ ServerInv /\ TypeOK
  /\ \A c \in Connections : ChunksAreWhole(stream[c]) /\ ClientInv(c)
  /\ info.state # "Absent" => info.size = FileSize

(* Then of each transport and the file only it saves to: a file that is as *)
(* long as the answer has got so far is a prefix of the source.  What keeps*)
(* it so when chunks are refused: several transports start with nothing and*)
(* fall behind for good; a single one is not Active any more.              *)
At(c) == output[c].path
Size(c) == saved[At(c)].size + Buffered(c)
IsExact(c) == saved[At(c)].exact /\ (Buffered(c) > 0 => output[c].from = saved[At(c)].size)
Fits(c) == Size(c) = Position(c) \/ Position(c) > FileSize => IsExact(c)
SaverInv(c) ==
  /\ received[c] = 0 => saved[At(c)].exact
  /\ (Single => info.state = "Active") => Fits(c)
  /\ ~Single => Size(c) <= Position(c)
  /\ Single /\ info.state = "Active" /\ transport[c] = "connected" /\ received[c] > 0
       => output[c].open
PathsApart == \A c, d \in Connections : c # d => At(c) # At(d)
FilesInv == PathsApart /\ \A c \in Connections : SaverInv(c)

(* Last, of the one transport there is, after it has finished.             *)
FinishedInv ==
  info.state = "Finish" =>
    /\ Connections # {}
    /\ \A c \in Connections : Buffered(c) = 0 /\ saved[At(c)] = ExactCopy

----------------------------------------------------------------------------
(* The server only adds to what it has sent, and whole chunks at that.     *)
Grows(s, t) ==
  /\ Len(s.sent) <= Len(t.sent)
  /\ \A i \in 1..Len(s.sent) : t.sent[i] = s.sent[i]
  /\ ChunksAreWhole(s) => ChunksAreWhole(t)

LEMMA SameGrows == \A s, t : s \in Stream /\ t.sent = s.sent => Grows(s, t)
PROOF
  <1> SUFFICES ASSUME NEW s \in Stream, NEW t, t.sent = s.sent PROVE Grows(s, t)
    OBVIOUS
  <1>1. Len(s.sent) \in Nat
    BY DEF Stream
  <1> QED BY <1>1 DEF Grows, ChunksAreWhole

LEMMA GrowsTwice ==
  ASSUME NEW s \in Stream, NEW t \in Stream, NEW u \in Stream, Grows(s, t), Grows(t, u)
  PROVE  Grows(s, u)
PROOF
  <1>1. Len(s.sent) \in Nat /\ Len(t.sent) \in Nat /\ Len(u.sent) \in Nat
    BY DEF Stream
  <1>2. Len(s.sent) <= Len(u.sent) /\ \A i \in 1..Len(s.sent) : u.sent[i] = s.sent[i]
    BY <1>1 DEF Grows
  <1> QED BY <1>2 DEF Grows

LEMMA SendGrows ==
  ASSUME NEW s \in Stream, NEW kind \in Kinds, NEW to \in Nat, NEW size \in Nat,
         kind = "FileChunk" => to = FileSize \/ to - s.pos = ChunkSize
  PROVE  Send(s, kind, to, size) \in Stream /\ Grows(s, Send(s, kind, to, size))
PROOF
  <1> DEFINE t == Send(s, kind, to, size)
  <1>1. /\ t \in Stream /\ Len(t.sent) = Len(s.sent) + 1
        /\ Last(t) = [kind |-> kind, from |-> s.pos, to |-> to, end |-> s.written + size]
        /\ \A i \in 1..Len(s.sent) : t.sent[i] = s.sent[i]
    BY SendAppends
  <1> HIDE DEF t
  <1>2. Len(s.sent) \in Nat
    BY DEF Stream
  <1>3. ASSUME ChunksAreWhole(s), NEW i \in 1..Len(t.sent), t.sent[i].kind = "FileChunk"
        PROVE  t.sent[i].to = FileSize \/ t.sent[i].to - t.sent[i].from = ChunkSize
    <2>1. CASE i \in 1..Len(s.sent)
      BY <1>1, <1>3, <2>1 DEF ChunksAreWhole
    <2>2. CASE i = Len(t.sent)
      BY <1>1, <1>3, <2>2 DEF Last
    <2> QED BY <1>1, <1>2, <2>1, <2>2
  <1>4. Grows(s, t)
    BY <1>1, <1>2, <1>3 DEF Grows, ChunksAreWhole
  <1> QED BY <1>1, <1>4 DEF t

LEMMA IterationGrows ==
  ASSUME NEW s \in Stream PROVE SendChunkIfRoom(s) \in Stream /\ Grows(s, SendChunkIfRoom(s))
PROOF
  <1>1. CASE ~CanSend(s)
    BY <1>1, SameGrows DEF SendChunkIfRoom
  <1>2. CASE CanSend(s)
    <2> DEFINE to == ChunkEnd(s)
               size == to - s.pos + HeaderSize
    <2>1. s.pos \in Nat
      BY DEF Stream
    <2>2. /\ to \in Nat /\ size \in Nat /\ (to = FileSize \/ to - s.pos = ChunkSize)
      BY <1>2, <2>1, ConstantTypes DEF CanSend, AtEnd, ChunkEnd
    <2>3. SendChunkIfRoom(s) = Send(s, "FileChunk", to, size)
      BY <1>2 DEF SendChunkIfRoom, SendChunk
    <2> HIDE DEF to, size
    <2> QED BY <2>2, <2>3, SendGrows DEF Kinds
  <1> QED BY <1>1, <1>2

LEMMA LoopGrows == ASSUME NEW s \in Stream PROVE Grows(s, SendNextChunk(s))
BY IterationGrows, GrowsTwice DEF SendNextChunk

LEMMA ServerStepGrows ==
  ASSUME ServerInv, [ServerNext]_serverVars, NEW c \in Connections
  PROVE  Grows(stream[c], stream'[c])
PROOF
  <1>1. stream \in [Connections -> Stream] /\ stream[c] \in Stream
    BY DEF ServerInv, ServerTypeOK
  <1>2. CASE stream' = stream
    BY <1>1, <1>2, SameGrows
  <1>3. ASSUME NEW d \in Connections, NEW t, Grows(stream[d], t),
               stream' = [stream EXCEPT ![d] = t]
        PROVE  Grows(stream[c], stream'[c])
    <2>1. CASE c = d
      BY <1>1, <1>3, <2>1
    <2>2. CASE c # d
      BY <1>1, <1>3, <2>2, SameGrows
    <2> QED BY <2>1, <2>2
  <1>4. ASSUME NEW d \in Connections, NEW readOffset \in Offsets, StartTransfer(d, readOffset)
        PROVE  Grows(stream[c], stream'[c])
    <2> DEFINE start == SeekTo(readOffset)
               s == [stream[d] EXCEPT !.pos = start]
               t == Send(s, "ResponseOk", start, ReplySize)
    <2>1. start \in Nat
      BY OffsetsAssumption DEF SeekTo
    <2>2. s \in Stream /\ s.sent = stream[d].sent /\ stream[d] \in Stream
      BY <1>1, <2>1 DEF Stream
    <2>3. stream' = [stream EXCEPT ![d] = t]
      BY <1>4 DEF StartTransfer
    <2>4. Grows(stream[d], s)
      BY <2>2, SameGrows
    <2> HIDE DEF s, start
    <2>5. t \in Stream /\ Grows(s, t)
      BY <2>1, <2>2, ConstantTypes, SendGrows DEF Kinds
    <2> HIDE DEF t
    <2>6. Grows(stream[d], t)
      BY <2>2, <2>4, <2>5, GrowsTwice
    <2> QED BY <1>3, <2>3, <2>6
  <1>5. ASSUME NEW d \in Connections, RefuseTransfer(d)
        PROVE  Grows(stream[c], stream'[c])
    <2> DEFINE t == Send(stream[d], "ResponseError", 0, ReplySize)
    <2>1. stream' = [stream EXCEPT ![d] = t]
      BY <1>5 DEF RefuseTransfer
    <2>2. Grows(stream[d], t)
      BY <1>1, ConstantTypes, SendGrows DEF Kinds
    <2> QED BY <1>3, <2>1, <2>2
  <1>6. ASSUME NEW d \in Connections, NEW n, BytesWritten(d, n)
        PROVE  Grows(stream[c], stream'[c])
    <2> DEFINE s == [stream[d] EXCEPT !.flushed = n]
    <2>1. n \in Nat /\ stream[d] \in Stream
      BY <1>1, <1>6 DEF BytesWritten, Stream
    <2>2. s \in Stream /\ s.sent = stream[d].sent /\ s.pos \in Nat
      BY <2>1 DEF Stream
    <2>3. Grows(stream[d], s)
      BY <2>1, <2>2, SameGrows
    <2>4. PICK t \in {s, SendNextChunk(s), Send(s, "TransferComplete", s.pos, ReplySize)} :
            stream' = [stream EXCEPT ![d] = t]
      BY <1>6 DEF BytesWritten
    <2> HIDE DEF s
    <2>5. SendNextChunk(s) \in Stream /\ Grows(s, SendNextChunk(s))
      BY <2>2, IterationGrows, LoopGrows DEF SendNextChunk
    <2>6. LET u == Send(s, "TransferComplete", s.pos, ReplySize) IN u \in Stream /\ Grows(s, u)
      BY <2>2, ConstantTypes, SendGrows DEF Kinds
    <2>7. Grows(stream[d], t)
      BY <2>1, <2>2, <2>3, <2>4, <2>5, <2>6, GrowsTwice
    <2> QED BY <1>3, <2>4, <2>7
  <1>7. ASSUME NEW d \in Connections, RunSendNextChunk(d)
        PROVE  Grows(stream[c], stream'[c])
    <2>1. PICK t \in {stream[d], SendNextChunk(stream[d]), ReadUnsent(stream[d])} :
            stream' = [stream EXCEPT ![d] = t]
      BY <1>7 DEF RunSendNextChunk
    <2>2. Grows(stream[d], SendNextChunk(stream[d]))
      BY <1>1, LoopGrows
    <2>3. ReadUnsent(stream[d]).sent = stream[d].sent
      BY <1>1 DEF ReadUnsent, Stream
    <2>4. Grows(stream[d], t)
      BY <1>1, <2>1, <2>2, <2>3, SameGrows
    <2> QED BY <1>3, <2>1, <2>4
  <1>8. ASSUME NEW d \in Connections,
               Accept(d) \/ RunDeleteSender(d) \/ RunDeleteClient(d) \/ ClientDisconnected(d)
        PROVE  stream' = stream
    BY <1>8 DEF Accept, RunDeleteSender, RunDeleteClient, ClientDisconnected
  <1>9. Stop => stream' = stream
    BY DEF Stop
  <1> QED
    BY <1>2, <1>4, <1>5, <1>6, <1>7, <1>8, <1>9 DEF ServerNext, serverVars, Flush, RunPosted

----------------------------------------------------------------------------
(* Types, files and messages.                                              *)
File == [size : Nat, exact : BOOLEAN]
Info == [state : DownloadStates, last : Nat, size : Nat, path : Paths, forDelete : BOOLEAN]
Output == [path : Paths, open : BOOLEAN, from : Nat, to : Nat]
ClientTypes ==
  /\ info \in Info
  /\ transport \in [Connections -> TransportStates]
  /\ link \in [Connections -> BOOLEAN]
  /\ request \in [Connections -> Nat \cup {NoRequest}]
  /\ received \in [Connections -> Nat]
  /\ output \in [Connections -> Output]
  /\ saved \in [Paths -> File]

LEMMA Types == TypeOK <=> ServerTypeOK /\ ClientTypes
BY DEF TypeOK, ClientTypes, Info, Output, File

LEMMA OutputTypes ==
  ASSUME ClientTypes, NEW c \in Connections
  PROVE  /\ output[c] \in Output /\ At(c) \in Paths /\ saved[At(c)] \in File
         /\ output[c].from \in Nat /\ output[c].to \in Nat /\ saved[At(c)].size \in Nat
         /\ received[c] \in Nat
BY DEF ClientTypes, Output, File, At

Appended(new, file, from, to) ==
  /\ new \in File
  /\ new.size = file.size + (to - from)
  /\ new.exact <=> file.exact /\ (from = to \/ from = file.size)

LEMMA AppendsRange ==
  ASSUME NEW file \in File, NEW from \in Nat, NEW to \in Nat, from <= to
  PROVE  Appended(AppendRange(file, from, to), file, from, to)
PROOF
  <1>1. file.size \in Nat /\ file.exact \in BOOLEAN
    BY DEF File
  <1>2. CASE from = to
    BY <1>1, <1>2 DEF AppendRange, Appended
  <1>3. CASE from # to
    <2> DEFINE exact == file.exact /\ from = file.size
               size == file.size + (to - from)
    <2>1. AppendRange(file, from, to) = [size |-> size, exact |-> exact]
      BY <1>3 DEF AppendRange
    <2>2. exact \in BOOLEAN /\ size \in Nat
      BY <1>1
    <2>3. exact <=> file.exact /\ (from = to \/ from = file.size)
      BY <1>3
    <2> HIDE DEF exact
    <2>4. [size |-> size, exact |-> exact] \in File
      BY <2>2 DEF File
    <2>5. [size |-> size, exact |-> exact].exact = exact
      OBVIOUS
    <2> QED BY <2>1, <2>3, <2>4, <2>5 DEF Appended
  <1> QED BY <1>2, <1>3

(* Flushing makes the file what it is with the buffer.                     *)
LEMMA FlushFacts ==
  ASSUME ClientTypes, NEW c \in Connections, output[c].from <= output[c].to
  PROVE  /\ FlushOutput(c) \in [Paths -> File]
         /\ FlushOutput(c)[At(c)].size = Size(c)
         /\ FlushOutput(c)[At(c)].exact <=> IsExact(c)
         /\ \A p \in Paths \ {At(c)} : FlushOutput(c)[p] = saved[p]
PROOF
  <1> DEFINE file == saved[At(c)]
             from == output[c].from
             to == output[c].to
             new == AppendRange(file, from, to)
  <1>1. file \in File /\ from \in Nat /\ to \in Nat /\ At(c) \in Paths /\ file.size \in Nat
    BY OutputTypes
  <1>2. FlushOutput(c) = [saved EXCEPT ![At(c)] = new]
    BY DEF FlushOutput, At
  <1>3. /\ new \in File /\ new.size = file.size + (to - from)
        /\ new.exact <=> file.exact /\ (from = to \/ from = file.size)
    <2>1. Appended(new, file, from, to)
      BY <1>1, AppendsRange
    <2> HIDE DEF new, file, from, to
    <2> QED BY <2>1 DEF Appended
  <1>4. IsExact(c) <=> file.exact /\ (from = to \/ from = file.size)
    <2>1. Buffered(c) > 0 <=> from # to
      BY <1>1 DEF Buffered
    <2> QED BY <2>1 DEF IsExact
  <1>5. Size(c) = file.size + (to - from)
    BY DEF Size, Buffered
  <1> HIDE DEF new, from, to
  <1>6. /\ FlushOutput(c) \in [Paths -> File] /\ FlushOutput(c)[At(c)] = new
        /\ \A p \in Paths \ {At(c)} : FlushOutput(c)[p] = saved[p]
    BY <1>1, <1>2, <1>3 DEF ClientTypes
  <1> QED BY <1>3, <1>4, <1>5, <1>6

(* What the next message is, by what came before it.                       *)
LEMMA MessageFacts ==
  ASSUME TransferInv, NEW c \in Connections, NEW kind \in Kinds, Receives(c, kind)
  PROVE  LET m == NextMessage(c) IN
         /\ m.from \in Nat /\ m.to \in Nat /\ Position(c) \in Nat
         /\ received' = [received EXCEPT ![c] = received[c] + 1]
         /\ received[c] + 1 <= Len(stream[c].sent)
         /\ stream' = stream /\ stream[c].sent[received[c] + 1] = m
         /\ received[c] = 0 => kind \in {"ResponseOk", "ResponseError"}
         /\ received[c] > 0 => kind \in {"FileChunk", "TransferComplete"} /\ m.from = Position(c)
         /\ kind = "FileChunk" => /\ m.to \in (m.from + 1)..FileSize
                                  /\ m.to = FileSize \/ m.to - m.from = ChunkSize
         /\ kind = "TransferComplete" => m.to = m.from /\ m.from >= FileSize
PROOF
  <1> DEFINE n == received[c]
             sent == stream[c].sent
             m == sent[n + 1]
  <1>1. n \in Nat /\ n < Len(sent) /\ m.kind = kind /\ sent \in Seq(Message)
        /\ received \in [Connections -> Nat]
    BY Types DEF TransferInv, ClientTypes, ServerTypeOK, Stream, Receives, NextMessage
  <1>2. /\ received' = [received EXCEPT ![c] = n + 1] /\ stream' = stream
    BY DEF Receives, serverVars
  <1>3. m \in Message /\ n + 1 \in 1..Len(sent) /\ Len(sent) \in Nat
    BY <1>1
  <1>4. m.from \in Nat /\ m.to \in Nat
    BY <1>3 DEF Message
  <1>5. StreamInv(stream[c]) /\ ChunksAreWhole(stream[c])
    BY DEF TransferInv, ServerInv, ConnectionInv
  <1>6. kind = "FileChunk" => m.to = FileSize \/ m.to - m.from = ChunkSize
    BY <1>1, <1>3, <1>5 DEF ChunksAreWhole
  <1>7. CASE n = 0
    <2>1. sent # <<>> /\ m = sent[1]
      BY <1>1, <1>7
    <2>2. kind \in {"ResponseOk", "ResponseError"}
      BY <1>1, <1>5, <2>1 DEF StreamInv
    <2>3. Position(c) = 0
      BY <1>7 DEF Position
    <2> QED BY <1>1, <1>2, <1>3, <1>4, <1>6, <1>7, <2>2, <2>3 DEF NextMessage
  <1>8. CASE n > 0
    <2>1. n \in 1..(Len(sent) - 1)
      BY <1>1, <1>3, <1>8
    <2>2. Follows(sent[n], m)
      BY <1>5, <2>1 DEF StreamInv
    <2>3. Position(c) = sent[n].to /\ sent[n] \in Message
      BY <1>1, <1>8, <2>1 DEF Position
    <2>4. Position(c) \in Nat
      BY <2>3 DEF Message
    <2>5. /\ m.from = Position(c) /\ kind \in {"FileChunk", "TransferComplete"}
          /\ kind = "FileChunk" => m.to \in (m.from + 1)..FileSize
          /\ kind = "TransferComplete" => m.to = m.from /\ m.from >= FileSize
      BY <1>1, <2>2, <2>3 DEF Follows
    <2> QED BY <1>1, <1>2, <1>3, <1>4, <1>6, <1>8, <2>4, <2>5 DEF NextMessage
  <1> QED BY <1>1, <1>7, <1>8

----------------------------------------------------------------------------
(* TransferInv is inductive.                                               *)

(* What happens here to the server is a step of its specification.         *)
LEMMA ServesHere ==
  ASSUME OffsetsFit, TransferInv, [Next]_vars PROVE [ServerNext]_serverVars
PROOF
  <1>1. CASE UNCHANGED vars
    BY <1>1 DEF vars, serverVars
  <1>2. ASSUME NEW c \in Connections, ServerAnswers(c) PROVE [ServerNext]_serverVars
    <2>1. request[c] \in Nat
      BY <1>2, Types DEF TransferInv, ClientTypes, ServerAnswers
    <2>2. ReadOffset(request[c]) \in Offsets
      BY <2>1 DEF OffsetsFit
    <2> QED BY <1>2, <2>2 DEF ServerAnswers, ServerNext
  <1>3. ASSUME NEW c \in Connections,
               ServerAccepts(c) \/ ServerWorks(c) \/ ServerLosesClient(c)
        PROVE  [ServerNext]_serverVars
    BY <1>3 DEF ServerAccepts, ServerWorks, ServerLosesClient, ServerNext
  <1>4. ASSUME NEW c \in Connections,
               \/ GetFile(c) \/ Connected(c) \/ ConnectFailed(c)
               \/ LoseLink(c) \/ ClientLosesServer(c)
        PROVE  UNCHANGED serverVars
    BY <1>4 DEF GetFile, Connected, ConnectFailed, LoseLink, ClientLosesServer
  <1>5. ASSUME NEW c \in Connections, Receive(c) PROVE UNCHANGED serverVars
    BY <1>5 DEF Receive, OnResponseOk, OnResponseError, OnFileChunk, OnTransferComplete, Receives
  <1> QED BY <1>1, <1>2, <1>3, <1>4, <1>5 DEF Next

(* A step of the server, which sees nothing of the client.                 *)
LEMMA PositionStays ==
  ASSUME TransferInv, [ServerNext]_serverVars, received' = received, NEW c \in Connections
  PROVE  Position(c)' = Position(c) /\ received[c] <= Len(stream'[c].sent)
PROOF
  <1>1. Grows(stream[c], stream'[c])
    BY ServerStepGrows DEF TransferInv
  <1>2. received[c] \in Nat /\ received[c] <= Len(stream[c].sent) /\ stream[c] \in Stream
    BY Types, OutputTypes DEF TransferInv, ClientInv, ServerTypeOK
  <1>3. stream[c].sent \in Seq(Message) /\ Len(stream[c].sent) \in Nat
    BY <1>2 DEF Stream
  <1>4. stream'[c] \in Stream
    BY NextKeepsInv DEF TransferInv, ServerInv, ServerTypeOK
  <1>5. Len(stream'[c].sent) \in Nat
    BY <1>4 DEF Stream
  <1> QED BY <1>1, <1>2, <1>3, <1>5 DEF Grows, Position

LEMMA ServerStepKeepsInv ==
  ASSUME TransferInv, [ServerNext]_serverVars, UNCHANGED clientVars PROVE TransferInv'
PROOF
  <1>1. ServerInv'
    BY NextKeepsInv DEF TransferInv
  <1>2. /\ info' = info /\ transport' = transport /\ link' = link /\ request' = request
        /\ received' = received /\ output' = output /\ saved' = saved
    BY DEF clientVars
  <1>3. ClientTypes'
    BY <1>2, Types DEF TransferInv, ClientTypes
  <1>4. TypeOK'
    BY <1>1, <1>2, <1>3 DEF ServerInv, TypeOK, ClientTypes, Info, Output, File
  <1>5. ASSUME NEW c \in Connections PROVE ChunksAreWhole(stream[c])' /\ ClientInv(c)'
    <2>1. ChunksAreWhole(stream'[c])
      BY ServerStepGrows DEF TransferInv, Grows
    <2>2. Position(c)' = Position(c) /\ received[c] <= Len(stream'[c].sent)
      BY <1>2, PositionStays
    <2>3. ClientInv(c)
      BY DEF TransferInv
    <2>4. ClientInv(c)'
      BY <1>2, <2>2, <2>3 DEF ClientInv, Buffered
    <2> QED BY <2>1, <2>4
  <1> QED BY <1>1, <1>2, <1>4, <1>5 DEF TransferInv

(* A step of transport c.                                                  *)
LEMMA ClientStep ==
  ASSUME TransferInv, UNCHANGED serverVars, ClientTypes', NEW c \in Connections, ClientInv(c)',
         info.state # "Absent" => info'.state # "Absent",
         info'.state # "Absent" => info'.size = FileSize,
         \A d \in Connections \ {c} :
           transport'[d] = transport[d] /\ received'[d] = received[d] /\ output'[d] = output[d]
  PROVE  TransferInv'
PROOF
  <1>1. ServerInv' /\ stream' = stream
    BY NextKeepsInv DEF TransferInv, serverVars
  <1>2. TypeOK'
    BY <1>1 DEF ServerInv, TypeOK, ClientTypes, Info, Output, File
  <1>3. ASSUME NEW d \in Connections PROVE ChunksAreWhole(stream[d])' /\ ClientInv(d)'
    <2>1. ChunksAreWhole(stream[d])'
      BY <1>1 DEF TransferInv
    <2>2. CASE d = c
      BY <2>1, <2>2
    <2>3. CASE d # c
      <3>1. ClientInv(d)
        BY DEF TransferInv
      <3>2. ClientInv(d)'
        BY <1>1, <2>3, <3>1 DEF ClientInv, Position, Buffered
      <3> QED BY <2>1, <3>2
    <2> QED BY <2>2, <2>3
  <1> QED BY <1>1, <1>2, <1>3 DEF TransferInv

LEMMA GetFileKeepsInv == ASSUME TransferInv, NEW c \in Connections, GetFile(c) PROVE TransferInv'
PROOF
  <1>1. /\ transport[c] = "none" /\ transport' = [transport EXCEPT ![c] = "connecting"]
        /\ link' = link /\ request' = request /\ received' = received /\ output' = output
        /\ saved' = saved /\ UNCHANGED serverVars
    BY DEF GetFile
  <1>2. ClientTypes /\ ClientInv(c) /\ (info.state # "Absent" => info.size = FileSize)
    BY Types DEF TransferInv
  <1>3. info' \in Info /\ info'.state # "Absent" /\ info'.size = FileSize
    <2>1. CASE info.state # "Absent"
      BY <1>2, <2>1 DEF GetFile, ClientTypes
    <2>2. CASE info.state = "Absent"
      <3>1. info' = [state |-> "Wait", last |-> 0, size |-> FileSize,
                     path |-> output[c].path, forDelete |-> FALSE]
        BY <2>2 DEF GetFile
      <3>2. output[c].path \in Paths
        BY <1>2, OutputTypes DEF At
      <3> QED BY <3>1, <3>2, ConstantTypes DEF Info, DownloadStates
    <2> QED BY <2>1, <2>2
  <1>4. ClientTypes'
    BY <1>1, <1>2, <1>3 DEF ClientTypes, TransportStates
  <1>5. transport'[c] = "connecting"
    BY <1>1, <1>2 DEF ClientTypes
  <1>6. received[c] = 0
    BY <1>1, <1>2, OutputTypes DEF ClientInv
  <1>7. ClientInv(c)'
    BY <1>1, <1>2, <1>3, <1>5, <1>6 DEF ClientInv, Buffered
  <1>8. \A d \in Connections \ {c} : transport'[d] = transport[d]
    BY <1>1, <1>2 DEF ClientTypes
  <1> QED BY <1>1, <1>3, <1>4, <1>7, <1>8, ClientStep

LEMMA ConnectedKeepsInv == ASSUME TransferInv, NEW c \in Connections, Connected(c) PROVE TransferInv'
PROOF
  <1>1. /\ transport[c] = "connecting" /\ transport' = [transport EXCEPT ![c] = "connected"]
        /\ info' = [info EXCEPT !.state = "Active"]
        /\ request' = [request EXCEPT ![c] = info.last]
        /\ link' = link /\ received' = received /\ output' = output
        /\ saved' = saved /\ UNCHANGED serverVars
    BY DEF Connected
  <1>2. ClientTypes /\ ClientInv(c) /\ (info.state # "Absent" => info.size = FileSize)
    BY Types DEF TransferInv
  <1>3. info' \in Info /\ info'.state = "Active" /\ info'.size = FileSize /\ info.last \in Nat
    BY <1>1, <1>2 DEF ClientTypes, ClientInv, Info, DownloadStates
  <1>4. ClientTypes'
    BY <1>1, <1>2, <1>3 DEF ClientTypes, TransportStates
  <1>5. transport'[c] = "connected" /\ stream' = stream
    BY <1>1, <1>2 DEF ClientTypes, serverVars
  <1>6. ClientInv(c)'
    BY <1>1, <1>2, <1>3, <1>5 DEF ClientInv, Buffered, Position
  <1>7. \A d \in Connections \ {c} : transport'[d] = transport[d]
    BY <1>1, <1>2 DEF ClientTypes
  <1> QED BY <1>1, <1>3, <1>4, <1>6, <1>7, ClientStep

LEMMA DroppingKeepsInv ==
  ASSUME TransferInv, NEW c \in Connections, ConnectFailed(c) \/ LoseLink(c) PROVE TransferInv'
PROOF
  <1>1. /\ transport' \in {transport, [transport EXCEPT ![c] = "disconnected"]}
        /\ transport[c] \in {"connecting", "connected"}
        /\ link' \in {link, [link EXCEPT ![c] = FALSE]}
        /\ info' = info /\ request' = request /\ received' = received /\ output' = output
        /\ saved' = saved /\ UNCHANGED serverVars
    BY DEF ConnectFailed, LoseLink
  <1>2. ClientTypes /\ ClientInv(c) /\ (info.state # "Absent" => info.size = FileSize)
    BY Types DEF TransferInv
  <1>3. ClientTypes'
    BY <1>1, <1>2 DEF ClientTypes, TransportStates
  <1>4. transport'[c] \in {transport[c], "disconnected"} /\ stream' = stream
    BY <1>1, <1>2 DEF ClientTypes, serverVars
  <1>5. ClientInv(c)'
    BY <1>1, <1>2, <1>4 DEF ClientInv, Buffered, Position
  <1>6. \A d \in Connections \ {c} : transport'[d] = transport[d]
    BY <1>1, <1>2 DEF ClientTypes
  <1> QED BY <1>1, <1>2, <1>3, <1>5, <1>6, ClientStep

(* The file is flushed when the connection is lost.                        *)
LEMMA LosingKeepsInv == ASSUME TransferInv, NEW c \in Connections, ClientLosesServer(c) PROVE TransferInv'
PROOF
  <1> DEFINE closed == [output[c] EXCEPT !.open = FALSE, !.from = 0, !.to = 0]
  <1>1. ClientTypes /\ ClientInv(c) /\ (info.state # "Absent" => info.size = FileSize)
    BY Types DEF TransferInv
  <1>2. /\ transport[c] = "connected" /\ transport' = [transport EXCEPT ![c] = "disconnected"]
        /\ saved' = FlushOutput(c)
        /\ output' = [output EXCEPT ![c] = closed]
        /\ info' = info /\ link' = link /\ request' = request /\ received' = received
        /\ UNCHANGED serverVars
    BY <1>1 DEF ClientLosesServer, ClientTypes
  <1>3. closed \in Output /\ closed.from = 0 /\ closed.to = 0
    BY <1>1, OutputTypes DEF Output
  <1> HIDE DEF closed
  <1>4. saved' \in [Paths -> File]
    BY <1>1, <1>2, FlushFacts DEF ClientInv
  <1>5. ClientTypes'
    BY <1>1, <1>2, <1>3, <1>4 DEF ClientTypes, TransportStates
  <1>6. transport'[c] = "disconnected" /\ stream' = stream /\ output'[c] = closed
    BY <1>1, <1>2 DEF ClientTypes, serverVars
  <1>7. ClientInv(c)'
    BY <1>1, <1>2, <1>3, <1>6 DEF ClientInv, Buffered, Position
  <1>8. \A d \in Connections \ {c} : transport'[d] = transport[d] /\ output'[d] = output[d]
    BY <1>1, <1>2 DEF ClientTypes
  <1> QED BY <1>1, <1>2, <1>5, <1>7, <1>8, ClientStep

(* What receiving a message does, whatever its kind.                       *)
LEMMA ReceiveFacts ==
  ASSUME TransferInv, NEW c \in Connections, NEW kind \in Kinds, Receives(c, kind)
  PROVE  /\ transport' = transport /\ link' = link /\ request' = request
         /\ UNCHANGED serverVars /\ stream' = stream
         /\ received' \in [Connections -> Nat] /\ received'[c] = received[c] + 1
         /\ received'[c] <= Len(stream[c].sent) /\ Position(c)' = NextMessage(c).to
         /\ received[c] \in Nat /\ transport[c] = "connected"
         /\ \A d \in Connections \ {c} : received'[d] = received[d]
PROOF
  <1>1. ClientTypes /\ received[c] \in Nat
    BY Types, OutputTypes DEF TransferInv
  <1>2. /\ received' = [received EXCEPT ![c] = received[c] + 1]
        /\ received[c] + 1 <= Len(stream[c].sent)
        /\ stream' = stream /\ stream[c].sent[received[c] + 1] = NextMessage(c)
    BY MessageFacts
  <1>3. /\ transport' = transport /\ link' = link /\ request' = request
        /\ UNCHANGED serverVars /\ transport[c] = "connected"
    BY DEF Receives
  <1>4. received'[c] = received[c] + 1 /\ received' \in [Connections -> Nat]
        /\ \A d \in Connections \ {c} : received'[d] = received[d]
    BY <1>1, <1>2 DEF ClientTypes
  <1>5. Position(c)' = NextMessage(c).to
    BY <1>1, <1>2, <1>4 DEF Position
  <1> QED BY <1>1, <1>2, <1>3, <1>4, <1>5

(* A response: the first message, so that nothing is in the buffer.        *)
LEMMA ResponseFacts ==
  ASSUME TransferInv, NEW c \in Connections, OnResponseOk(c) \/ OnResponseError(c)
  PROVE  /\ \E kind \in Kinds : Receives(c, kind)
         /\ received[c] = 0 /\ Buffered(c) = 0 /\ saved' = saved
         /\ output' \in {output, [output EXCEPT ![c] = [output[c] EXCEPT !.open = TRUE]]}
         /\ info' \in Info /\ info'.state \in {"Active", "Error"}
         /\ info'.size \in {info.size, FileSize}
         /\ info'.state = "Active" =>
              output' = [output EXCEPT ![c] = [output[c] EXCEPT !.open = TRUE]]
         /\ info'.path = info.path
PROOF
  <1>1. ClientTypes /\ ClientInv(c) /\ info \in Info
    BY Types DEF TransferInv, ClientTypes
  <1>2. PICK kind \in {"ResponseOk", "ResponseError"} : Receives(c, kind)
    BY DEF OnResponseOk, OnResponseError
  <1>3. kind \in Kinds
    BY DEF Kinds
  <1>4. received[c] = 0
    BY <1>2, <1>3, MessageFacts, ReceiveFacts
  <1>5. Buffered(c) = 0
    BY <1>1, <1>4, OutputTypes DEF ClientInv, Buffered
  <1>6. saved' = saved
    BY DEF OnResponseOk, OnResponseError
  <1>7. CASE OnResponseError(c)
    <2>1. info' = [info EXCEPT !.state = "Error"] /\ output' = output
      BY <1>7 DEF OnResponseError
    <2> QED BY <1>1, <1>2, <1>3, <1>4, <1>5, <1>6, <2>1 DEF Info, DownloadStates
  <1>8. CASE OnResponseOk(c)
    <2>1. CASE /\ output' = [output EXCEPT ![c].open = TRUE]
               /\ info' = [info EXCEPT !.size = FileSize, !.state = "Active"]
      <3>1. output' = [output EXCEPT ![c] = [output[c] EXCEPT !.open = TRUE]]
        BY <1>1, <2>1 DEF ClientTypes
      <3> QED BY <1>1, <1>2, <1>3, <1>4, <1>5, <1>6, <2>1, <3>1, ConstantTypes
              DEF Info, DownloadStates
    <2>2. CASE output' = output /\ info' = [info EXCEPT !.size = FileSize, !.state = "Error"]
      BY <1>1, <1>2, <1>3, <1>4, <1>5, <1>6, <2>2, ConstantTypes DEF Info, DownloadStates
    <2> QED BY <1>8, <2>1, <2>2 DEF OnResponseOk
  <1> QED BY <1>7, <1>8

LEMMA ResponseKeepsInv ==
  ASSUME TransferInv, NEW c \in Connections, OnResponseOk(c) \/ OnResponseError(c)
  PROVE  TransferInv'
PROOF
  <1>1. ClientTypes /\ ClientInv(c) /\ (info.state # "Absent" => info.size = FileSize)
    BY Types DEF TransferInv
  <1>2. /\ transport' = transport /\ link' = link /\ request' = request
        /\ UNCHANGED serverVars /\ stream' = stream
        /\ received' \in [Connections -> Nat] /\ received'[c] = received[c] + 1
        /\ received'[c] <= Len(stream[c].sent) /\ received[c] \in Nat
        /\ transport[c] = "connected"
        /\ \A d \in Connections \ {c} : received'[d] = received[d]
    BY ResponseFacts, ReceiveFacts
  <1>3. /\ saved' = saved /\ info' \in Info /\ info'.state \in {"Active", "Error"}
        /\ info'.size \in {info.size, FileSize} /\ Buffered(c) = 0
        /\ output' \in {output, [output EXCEPT ![c] = [output[c] EXCEPT !.open = TRUE]]}
    BY ResponseFacts
  <1>4. [output[c] EXCEPT !.open = TRUE] \in Output
    BY <1>1, OutputTypes DEF Output
  <1>5. /\ output' \in [Connections -> Output]
        /\ \A d \in Connections \ {c} : output'[d] = output[d]
        /\ output'[c].from = output[c].from /\ output'[c].to = output[c].to
    <2>1. CASE output' = output
      BY <1>1, <2>1 DEF ClientTypes
    <2>2. CASE output' = [output EXCEPT ![c] = [output[c] EXCEPT !.open = TRUE]]
      <3>1. output'[c] = [output[c] EXCEPT !.open = TRUE] /\ output[c] \in Output
        BY <1>1, <2>2 DEF ClientTypes
      <3>2. output'[c].from = output[c].from /\ output'[c].to = output[c].to
        BY <3>1 DEF Output
      <3>3. /\ output' \in [Connections -> Output]
            /\ \A d \in Connections \ {c} : output'[d] = output[d]
        BY <1>1, <1>4, <2>2 DEF ClientTypes
      <3> QED BY <3>2, <3>3
    <2> QED BY <1>3, <2>1, <2>2
  <1>6. ClientTypes'
    BY <1>1, <1>2, <1>3, <1>5 DEF ClientTypes
  <1>7. info.state # "Absent" /\ info'.size = FileSize
    BY <1>1, <1>2, <1>3 DEF ClientInv
  <1>8. Buffered(c)' = 0
    BY <1>3, <1>5 DEF Buffered
  <1>9. ClientInv(c)'
    BY <1>1, <1>2, <1>3, <1>5, <1>7, <1>8 DEF ClientInv
  <1> QED BY <1>2, <1>3, <1>5, <1>6, <1>7, <1>9, ClientStep

(* A chunk: it follows what was received, and finds the buffer empty.  If  *)
(* it is taken, the file and its buffer have it at their end.              *)
LEMMA ChunkFacts ==
  ASSUME TransferInv, NEW c \in Connections, OnFileChunk(c)
  PROVE  LET m == NextMessage(c) IN
         /\ Receives(c, "FileChunk") /\ "FileChunk" \in Kinds
         /\ received[c] > 0 /\ Buffered(c) = 0
         /\ m.from = Position(c) /\ m.from \in Nat /\ m.to \in (m.from + 1)..FileSize
         /\ ~Expected(c) => info' = info /\ output' = output /\ saved' = saved
         /\ Expected(c) =>
              /\ info' = [info EXCEPT !.last = @ + (m.to - m.from)]
              /\ \/ /\ saved' = saved /\ m.to = FileSize
                    /\ output' = [output EXCEPT ![c] = [output[c] EXCEPT !.from = m.from, !.to = m.to]]
                 \/ /\ output' = output
                    /\ saved' = [saved EXCEPT ![At(c)] = AppendRange(saved[At(c)], m.from, m.to)]
PROOF
  <1> DEFINE m == NextMessage(c)
  <1>1. ClientTypes /\ ClientInv(c)
    BY Types DEF TransferInv
  <1>2. Receives(c, "FileChunk") /\ "FileChunk" \in Kinds
    BY DEF OnFileChunk, Kinds
  <1>3. /\ m.from \in Nat /\ m.to \in Nat /\ received[c] \in Nat /\ received[c] # 0
        /\ received[c] > 0 => m.from = Position(c)
        /\ m.to \in (m.from + 1)..FileSize
        /\ m.to = FileSize \/ m.to - m.from = ChunkSize
    BY <1>2, MessageFacts, ReceiveFacts
  <1>4. Buffered(c) = 0
    <2>1. Buffered(c) \in Nat
      BY <1>1, OutputTypes DEF ClientInv, Buffered
    <2>2. Buffered(c) > 0 => Position(c) = FileSize
      BY <1>1 DEF ClientInv
    <2> QED BY <1>3, <2>1, <2>2
  <1>5. ~Expected(c) => info' = info /\ output' = output /\ saved' = saved
    BY DEF OnFileChunk
  <1>6. ASSUME Expected(c)
        PROVE  /\ info' = [info EXCEPT !.last = @ + (m.to - m.from)]
               /\ \/ /\ saved' = saved /\ m.to = FileSize
                     /\ output' = [output EXCEPT ![c] = [output[c] EXCEPT !.from = m.from, !.to = m.to]]
                  \/ /\ output' = output
                     /\ saved' = [saved EXCEPT ![At(c)] = AppendRange(saved[At(c)], m.from, m.to)]
    <2>1. info' = [info EXCEPT !.last = @ + (m.to - m.from)] /\ Write(c, m.from, m.to)
      BY <1>6 DEF OnFileChunk
    <2> HIDE DEF m
    <2>2. CASE m.to - m.from <= WriteBuffer
      <3>1. output' = [output EXCEPT ![c].from = m.from, ![c].to = m.to] /\ saved' = saved
        BY <2>1, <2>2 DEF Write
      <3>2. output' = [output EXCEPT ![c] = [output[c] EXCEPT !.from = m.from, !.to = m.to]]
        BY <1>1, <3>1 DEF ClientTypes
      <3>3. m.to = FileSize
        BY <1>3, <2>2, WriteBufferAssumption, ConstantTypes
      <3> QED BY <2>1, <3>1, <3>2, <3>3
    <2>3. CASE ~(m.to - m.from <= WriteBuffer)
      BY <2>1, <2>3 DEF Write, At
    <2> QED BY <2>2, <2>3
  <1> QED BY <1>2, <1>3, <1>4, <1>5, <1>6

LEMMA ChunkKeepsTransferInv ==
  ASSUME TransferInv, NEW c \in Connections, OnFileChunk(c) PROVE TransferInv'
PROOF
  <1> DEFINE m == NextMessage(c)
  <1>1. ClientTypes /\ ClientInv(c) /\ (info.state # "Absent" => info.size = FileSize)
    BY Types DEF TransferInv
  <1>2. /\ received[c] > 0 /\ Buffered(c) = 0
        /\ m.from = Position(c) /\ m.from \in Nat /\ m.to \in (m.from + 1)..FileSize
    BY ChunkFacts
  <1>3. /\ transport' = transport /\ link' = link /\ request' = request
        /\ UNCHANGED serverVars /\ stream' = stream
        /\ received' \in [Connections -> Nat] /\ received'[c] = received[c] + 1
        /\ received'[c] <= Len(stream[c].sent) /\ Position(c)' = m.to
        /\ received[c] \in Nat /\ transport[c] = "connected"
        /\ \A d \in Connections \ {c} : received'[d] = received[d]
    BY ChunkFacts, ReceiveFacts
  <1>4. \/ info' = info
        \/ info' = [info EXCEPT !.last = @ + (m.to - m.from)]
    BY ChunkFacts
  <1>5. \/ output' = output /\ saved' = saved
        \/ /\ saved' = saved /\ m.to = FileSize
           /\ output' = [output EXCEPT ![c] = [output[c] EXCEPT !.from = m.from, !.to = m.to]]
        \/ /\ output' = output
           /\ saved' = [saved EXCEPT ![At(c)] = AppendRange(saved[At(c)], m.from, m.to)]
    BY ChunkFacts
  <1> HIDE DEF m
  <1>6. m.to \in Nat /\ m.to - m.from \in Nat /\ m.from <= m.to
    BY <1>2, ConstantTypes
  <1>7. info' \in Info /\ info'.state = info.state /\ info'.size = info.size
    BY <1>1, <1>4, <1>6 DEF ClientTypes, Info
  <1>8. [output[c] EXCEPT !.from = m.from, !.to = m.to] \in Output
    BY <1>1, <1>2, <1>6, OutputTypes DEF Output
  <1>9. /\ output' \in [Connections -> Output]
        /\ \A d \in Connections \ {c} : output'[d] = output[d]
    BY <1>1, <1>5, <1>8 DEF ClientTypes
  <1>10. AppendRange(saved[At(c)], m.from, m.to) \in File
    BY <1>1, <1>2, <1>6, OutputTypes, AppendsRange DEF Appended
  <1>11. saved' \in [Paths -> File]
    BY <1>1, <1>5, <1>10 DEF ClientTypes
  <1>12. ClientTypes'
    BY <1>1, <1>3, <1>7, <1>9, <1>11 DEF ClientTypes
  <1>13. /\ output'[c].from <= output'[c].to
         /\ Buffered(c)' > 0 => m.to = FileSize
    <2>1. CASE output' = output
      BY <1>1, <1>2, <2>1 DEF ClientInv, Buffered
    <2>2. CASE /\ m.to = FileSize
               /\ output' = [output EXCEPT ![c] = [output[c] EXCEPT !.from = m.from, !.to = m.to]]
      <3>1. output'[c].from = m.from /\ output'[c].to = m.to
        BY <1>1, <2>2 DEF ClientTypes, Output
      <3> QED BY <1>6, <2>2, <3>1
    <2> QED BY <1>5, <2>1, <2>2
  <1>14. ClientInv(c)'
    BY <1>1, <1>3, <1>7, <1>13 DEF ClientInv
  <1> QED BY <1>1, <1>3, <1>7, <1>9, <1>12, <1>14, ClientStep

(* The end of the answer: the file is flushed, and asked for its size.     *)
LEMMA CompleteFacts ==
  ASSUME TransferInv, NEW c \in Connections, OnTransferComplete(c)
  PROVE  /\ Receives(c, "TransferComplete") /\ "TransferComplete" \in Kinds
         /\ received[c] > 0 /\ Position(c)' = Position(c) /\ Position(c) >= FileSize
         /\ info.state # "Active" => info' = info /\ output' = output /\ saved' = saved
         /\ info.state = "Active" =>
              /\ saved' = FlushOutput(c)
              /\ output' = [output EXCEPT ![c] = [output[c] EXCEPT !.from = 0, !.to = 0]]
              /\ \/ saved'[At(c)].size # FileSize /\ info' = info
                 \/ /\ saved'[At(c)].size = FileSize
                    /\ info' = [info EXCEPT !.state = "Finish", !.forDelete = TRUE]
PROOF
  <1>1. ClientTypes /\ (info.state # "Absent" => info.size = FileSize)
    BY Types DEF TransferInv
  <1>2. Receives(c, "TransferComplete") /\ "TransferComplete" \in Kinds
    BY DEF OnTransferComplete, Kinds
  <1>3. received[c] > 0 /\ Position(c)' = Position(c) /\ Position(c) >= FileSize
    <2>1. /\ received[c] \in Nat /\ received[c] # 0 /\ Position(c)' = NextMessage(c).to
          /\ received[c] > 0 => NextMessage(c).from = Position(c)
          /\ NextMessage(c).to = NextMessage(c).from /\ NextMessage(c).from >= FileSize
      BY <1>2, MessageFacts, ReceiveFacts
    <2> QED BY <2>1
  <1>4. info.state # "Active" => info' = info /\ output' = output /\ saved' = saved
    BY DEF OnTransferComplete
  <1>5. ASSUME info.state = "Active"
        PROVE  /\ saved' = FlushOutput(c)
               /\ output' = [output EXCEPT ![c] = [output[c] EXCEPT !.from = 0, !.to = 0]]
               /\ \/ saved'[At(c)].size # FileSize /\ info' = info
                  \/ /\ saved'[At(c)].size = FileSize
                     /\ info' = [info EXCEPT !.state = "Finish", !.forDelete = TRUE]
    <2>1. /\ saved' = FlushOutput(c)
          /\ output' = [output EXCEPT ![c].from = 0, ![c].to = 0]
          /\ info' = IF saved'[At(c)].size # info.size THEN info
                     ELSE [info EXCEPT !.state = "Finish", !.forDelete = TRUE]
      BY <1>5 DEF OnTransferComplete, At
    <2>2. info.size = FileSize
      BY <1>1, <1>5
    <2>3. output' = [output EXCEPT ![c] = [output[c] EXCEPT !.from = 0, !.to = 0]]
      BY <1>1, <2>1 DEF ClientTypes
    <2>4. \/ saved'[At(c)].size # FileSize /\ info' = info
          \/ /\ saved'[At(c)].size = FileSize
             /\ info' = [info EXCEPT !.state = "Finish", !.forDelete = TRUE]
      BY <2>1, <2>2
    <2> QED BY <2>1, <2>3, <2>4
  <1> QED BY <1>2, <1>3, <1>4, <1>5

LEMMA CompleteKeepsTransferInv ==
  ASSUME TransferInv, NEW c \in Connections, OnTransferComplete(c) PROVE TransferInv'
PROOF
  <1> DEFINE empty == [output[c] EXCEPT !.from = 0, !.to = 0]
  <1>1. ClientTypes /\ ClientInv(c) /\ (info.state # "Absent" => info.size = FileSize)
    BY Types DEF TransferInv
  <1>2. /\ transport' = transport /\ link' = link /\ request' = request
        /\ UNCHANGED serverVars /\ stream' = stream
        /\ received' \in [Connections -> Nat] /\ received'[c] = received[c] + 1
        /\ received'[c] <= Len(stream[c].sent)
        /\ received[c] \in Nat /\ transport[c] = "connected"
        /\ \A d \in Connections \ {c} : received'[d] = received[d]
    BY CompleteFacts, ReceiveFacts
  <1>3. received[c] > 0 /\ Position(c)' = Position(c)
    BY CompleteFacts
  <1>4. \/ info' = info
        \/ info' = [info EXCEPT !.state = "Finish", !.forDelete = TRUE]
    BY CompleteFacts
  <1>5. \/ output' = output /\ saved' = saved
        \/ output' = [output EXCEPT ![c] = empty] /\ saved' = FlushOutput(c)
    BY CompleteFacts
  <1>6. empty \in Output /\ empty.from = 0 /\ empty.to = 0
    BY <1>1, OutputTypes DEF Output
  <1> HIDE DEF empty
  <1>7. info' \in Info /\ info'.size = info.size /\ info'.state \in {info.state, "Finish"}
    BY <1>1, <1>4 DEF ClientTypes, Info, DownloadStates
  <1>8. /\ output' \in [Connections -> Output] /\ output'[c] \in {output[c], empty}
        /\ \A d \in Connections \ {c} : output'[d] = output[d]
    BY <1>1, <1>5, <1>6 DEF ClientTypes
  <1>9. saved' \in [Paths -> File]
    BY <1>1, <1>5, FlushFacts DEF ClientTypes, ClientInv
  <1>10. ClientTypes'
    BY <1>1, <1>2, <1>7, <1>8, <1>9 DEF ClientTypes
  <1>11. info.state # "Absent"
    BY <1>1, <1>2 DEF ClientInv
  <1>12. output'[c].from <= output'[c].to /\ (Buffered(c)' > 0 => Buffered(c) > 0)
    BY <1>1, <1>6, <1>8 DEF ClientInv, Buffered
  <1>13. ClientInv(c)'
    BY <1>1, <1>2, <1>3, <1>7, <1>11, <1>12 DEF ClientInv
  <1> QED BY <1>1, <1>2, <1>7, <1>8, <1>10, <1>11, <1>13, ClientStep

LEMMA Starts == Init => TransferInv
PROOF
  <1> SUFFICES ASSUME Init PROVE TransferInv
    OBVIOUS
  <1> DEFINE No == {FALSE}
  <1>a. No \subseteq BOOLEAN
    OBVIOUS
  <1>1. ServerInv
    BY InitInv DEF Init
  <1>2. info \in Info /\ (info.state # "Absent" => info.size = FileSize)
    <2> DEFINE Unknown == [state : {"Absent"}, last : {0}, size : {0}, path : Paths,
                           forDelete : No]
               Earlier == [state : {"Pause"}, last : Resumes, size : {FileSize}, path : Paths,
                           forDelete : No]
    <2>1. info \in Unknown \cup Earlier
      BY DEF Init
    <2> HIDE DEF No
    <2>2. Unknown \subseteq Info /\ \A i \in Unknown : i.state = "Absent"
      BY <1>a DEF Info, DownloadStates
    <2>3. Earlier \subseteq Info /\ \A i \in Earlier : i.size = FileSize
      BY <1>a, ConstantTypes, ResumesAssumption DEF Info, DownloadStates
    <2> HIDE DEF Unknown, Earlier
    <2> QED BY <2>1, <2>2, <2>3
  <1>3. output \in [Connections -> Output]
        /\ \A c \in Connections : output[c].from = 0 /\ output[c].to = 0
    <2> DEFINE Closed == [path : Paths, open : No, from : {0}, to : {0}]
    <2>1. output \in [Connections -> Closed]
      BY DEF Init
    <2> HIDE DEF No
    <2>2. Closed \subseteq Output /\ \A o \in Closed : o.from = 0 /\ o.to = 0
      BY <1>a DEF Output
    <2> HIDE DEF Closed
    <2> QED BY <2>1, <2>2
  <1>4. saved \in [Paths -> File]
    <2>1. Leftovers \cup {[size |-> 0, exact |-> TRUE]} \subseteq File
      <3>1. [size |-> 0, exact |-> TRUE] \in File
        BY DEF File
      <3> QED BY <3>1, LeftoversAssumption DEF File
    <2>2. saved \in [Paths -> Leftovers \cup {[size |-> 0, exact |-> TRUE]}]
      BY DEF Init
    <2> QED BY <2>1, <2>2
  <1>5. ClientTypes
    BY <1>2, <1>3, <1>4 DEF Init, ClientTypes, TransportStates
  <1>6. TypeOK
    BY <1>1, <1>5, Types DEF ServerInv
  <1>7. ASSUME NEW c \in Connections PROVE ChunksAreWhole(stream[c]) /\ ClientInv(c)
    <2>1. stream[c].sent = <<>>
      BY DEF Init, ServerInit
    <2>2. ChunksAreWhole(stream[c])
      BY <2>1 DEF ChunksAreWhole
    <2>3. ClientInv(c)
      BY <1>3, <2>1 DEF Init, ClientInv, Buffered
    <2> QED BY <2>2, <2>3
  <1> QED BY <1>1, <1>2, <1>6, <1>7 DEF TransferInv

LEMMA NextKeepsTransferInv ==
  ASSUME OffsetsFit, TransferInv, [Next]_vars PROVE TransferInv'
PROOF
  <1>1. CASE UNCHANGED vars
    BY <1>1, ServerStepKeepsInv DEF vars, serverVars
  <1>2. ASSUME NEW c \in Connections,
               ServerAccepts(c) \/ ServerAnswers(c) \/ ServerWorks(c) \/ ServerLosesClient(c)
        PROVE  TransferInv'
    <2>1. UNCHANGED clientVars
      BY <1>2 DEF ServerAccepts, ServerAnswers, ServerWorks, ServerLosesClient
    <2>2. Next
      BY <1>2 DEF Next
    <2> QED BY <2>1, <2>2, ServesHere, ServerStepKeepsInv
  <1>3. ASSUME NEW c \in Connections,
               \/ GetFile(c) \/ Connected(c) \/ ConnectFailed(c)
               \/ LoseLink(c) \/ ClientLosesServer(c)
        PROVE  TransferInv'
    BY <1>3, GetFileKeepsInv, ConnectedKeepsInv, DroppingKeepsInv, LosingKeepsInv
  <1>4. ASSUME NEW c \in Connections, Receive(c) PROVE TransferInv'
    BY <1>4, ResponseKeepsInv, ChunkKeepsTransferInv, CompleteKeepsTransferInv DEF Receive
  <1> QED BY <1>1, <1>2, <1>3, <1>4 DEF Next

LEMMA TransferInvariance == ASSUME OffsetsFit PROVE Spec => []TransferInv
PROOF
  <1>1. TransferInv /\ [Next]_vars => TransferInv'
    BY NextKeepsTransferInv
  <1> QED BY <1>1, Starts, PTL DEF Spec

(* The client's and the server's state stay of their types, whatever is    *)
(* lost and however many transports share the DownloadInfo.                *)
THEOREM TransferTypeCorrect == ASSUME OffsetsFit PROVE Spec => []TypeOK
PROOF
  <1>1. TransferInv => TypeOK
    BY DEF TransferInv
  <1> QED BY <1>1, TransferInvariance, PTL

(* What a client here can do to the server, the specification of the server*)
(* has allowed for: what is proved of FileServer holds of this server.     *)
THEOREM ServerIsUsedAsSpecified == ASSUME OffsetsFit PROVE Spec => ServesAsSpecified
PROOF
  <1>1. Init => ServerInit
    BY DEF Init
  <1>2. TransferInv /\ [Next]_vars => [ServerNext]_serverVars
    BY ServesHere
  <1> QED BY <1>1, <1>2, TransferInvariance, PTL DEF Spec, ServesAsSpecified

----------------------------------------------------------------------------
(* FilesInv is inductive.                                                  *)
LEMMA Numbers ==
  ASSUME TransferInv, NEW c \in Connections
  PROVE  /\ ClientTypes /\ ClientInv(c) /\ received[c] \in Nat
         /\ Buffered(c) \in Nat /\ Position(c) \in Nat /\ Size(c) \in Nat
         /\ received[c] = 0 => Buffered(c) = 0 /\ Position(c) = 0
PROOF
  <1>1. ClientTypes /\ ClientInv(c)
    BY Types DEF TransferInv
  <1>2. received[c] \in Nat /\ Buffered(c) \in Nat /\ Size(c) \in Nat
    BY <1>1, OutputTypes DEF ClientInv, Buffered, Size
  <1>3. received[c] = 0 => Buffered(c) = 0 /\ Position(c) = 0
    BY <1>1, <1>2 DEF ClientInv, Position
  <1>4. Position(c) \in Nat
    <2>1. CASE received[c] = 0
      BY <1>3, <2>1
    <2>2. CASE received[c] > 0
      <3>1. stream[c].sent \in Seq(Message)
        BY DEF TransferInv, TypeOK, ServerTypeOK, Stream
      <3>2. received[c] \in 1..Len(stream[c].sent)
        BY <1>1, <1>2, <2>2, <3>1 DEF ClientInv
      <3>3. stream[c].sent[received[c]] \in Message
        BY <3>1, <3>2
      <3> QED BY <2>2, <3>3 DEF Position, Message
    <2> QED BY <1>2, <2>1, <2>2
  <1> QED BY <1>1, <1>2, <1>3, <1>4

(* A transport whose file and answer are left alone.                       *)
LEMMA IdleKeepsSaver ==
  ASSUME NEW c \in Connections, SaverInv(c),
         info'.state = "Active" => info.state = "Active",
         transport'[c] = "connected" => transport[c] = "connected",
         received'[c] = received[c], output'[c] = output[c],
         saved'[At(c)] = saved[At(c)], Position(c)' = Position(c)
  PROVE  SaverInv(c)'
PROOF
  <1>1. /\ At(c)' = At(c) /\ Buffered(c)' = Buffered(c) /\ saved[At(c)]' = saved[At(c)]
    BY DEF At, Buffered
  <1>2. Size(c)' = Size(c) /\ (IsExact(c)' <=> IsExact(c))
    BY <1>1 DEF Size, IsExact
  <1>3. Fits(c)' <=> Fits(c)
    BY <1>2 DEF Fits
  <1> QED BY <1>1, <1>2, <1>3 DEF SaverInv

(* The files of the others are left alone by a step of transport c, and    *)
(* then SaverInv does not depend on the DownloadInfo.                      *)
LEMMA SaverStep ==
  ASSUME FilesInv, NEW c \in Connections, SaverInv(c)', At(c)' = At(c),
         stream' = stream,
         \A p \in Paths : p # At(c) => saved'[p] = saved[p],
         \A d \in Connections : At(d) \in Paths,
         \A d \in Connections \ {c} : received'[d] = received[d] /\ output'[d] = output[d]
  PROVE  FilesInv'
PROOF
  <1>1. \A d \in Connections : At(d)' = At(d)
    BY DEF At
  <1>2. PathsApart'
    BY <1>1 DEF FilesInv, PathsApart
  <1>3. ASSUME NEW d \in Connections, d # c PROVE SaverInv(d)'
    <2>1. ~Single
      BY <1>3 DEF Single
    <2>2. SaverInv(d) /\ At(d) # At(c) /\ At(d) \in Paths
      BY <1>3 DEF FilesInv, PathsApart
    <2>3. /\ received'[d] = received[d] /\ output'[d] = output[d]
          /\ At(d)' = At(d) /\ saved'[At(d)] = saved[At(d)]
      BY <1>1, <1>3, <2>2
    <2>4. Position(d)' = Position(d)
      BY <2>3 DEF Position
    <2>5. saved[At(d)]' = saved[At(d)] /\ Buffered(d)' = Buffered(d)
      BY <2>3 DEF Buffered
    <2>6. Size(d)' = Size(d) /\ (IsExact(d)' <=> IsExact(d))
      BY <2>3, <2>5 DEF Size, IsExact
    <2>7. Fits(d)' <=> Fits(d)
      BY <2>4, <2>6 DEF Fits
    <2> QED BY <2>1, <2>2, <2>3, <2>4, <2>5, <2>6, <2>7 DEF SaverInv
  <1> QED BY <1>2, <1>3 DEF FilesInv

LEMMA IdleKeepsFiles ==
  ASSUME FilesInv,
         info'.state = "Active" => info.state = "Active",
         \A c \in Connections :
           /\ transport'[c] = "connected" => transport[c] = "connected"
           /\ Position(c)' = Position(c),
         received' = received, output' = output, saved' = saved
  PROVE  FilesInv'
PROOF
  <1>1. PathsApart'
    BY DEF FilesInv, PathsApart, At
  <1>2. ASSUME NEW c \in Connections PROVE SaverInv(c)'
    <2>1. SaverInv(c)
      BY DEF FilesInv
    <2> QED BY <2>1, IdleKeepsSaver
  <1> QED BY <1>1, <1>2 DEF FilesInv

LEMMA ServerStepKeepsFiles ==
  ASSUME TransferInv, FilesInv, [ServerNext]_serverVars, UNCHANGED clientVars PROVE FilesInv'
PROOF
  <1>1. /\ info' = info /\ transport' = transport
        /\ received' = received /\ output' = output /\ saved' = saved
    BY DEF clientVars
  <1>2. \A c \in Connections : Position(c)' = Position(c)
    BY <1>1, PositionStays
  <1> QED BY <1>1, <1>2, IdleKeepsFiles

LEMMA DroppingKeepsFiles ==
  ASSUME TransferInv, FilesInv, NEW c \in Connections,
         GetFile(c) \/ ConnectFailed(c) \/ LoseLink(c)
  PROVE  FilesInv'
PROOF
  <1>1. /\ \/ transport' = transport
           \/ transport' = [transport EXCEPT ![c] = "connecting"]
           \/ transport' = [transport EXCEPT ![c] = "disconnected"]
        /\ stream' = stream /\ received' = received /\ output' = output /\ saved' = saved
    BY DEF GetFile, ConnectFailed, LoseLink, serverVars
  <1>2. info'.state = "Active" => info.state = "Active"
    BY DEF GetFile, ConnectFailed, LoseLink
  <1>3. transport \in [Connections -> TransportStates]
    BY Types DEF TransferInv, ClientTypes
  <1>4. ASSUME NEW d \in Connections
        PROVE  /\ transport'[d] = "connected" => transport[d] = "connected"
               /\ Position(d)' = Position(d)
    BY <1>1, <1>3 DEF Position
  <1> QED BY <1>1, <1>2, <1>4, IdleKeepsFiles

(* Before the answer the buffer is empty, and so the file exact.           *)
LEMMA ConnectedKeepsFiles ==
  ASSUME TransferInv, FilesInv, NEW c \in Connections, Connected(c) PROVE FilesInv'
PROOF
  <1>1. /\ transport[c] = "connecting" /\ stream' = stream
        /\ received' = received /\ output' = output /\ saved' = saved
    BY DEF Connected, serverVars
  <1>2. ClientTypes /\ ClientInv(c) /\ received[c] \in Nat /\ Position(c) \in Nat
    BY Numbers
  <1>3. received[c] = 0 /\ Buffered(c) = 0
    BY <1>1, <1>2, Numbers DEF ClientInv
  <1>4. SaverInv(c)
    BY DEF FilesInv
  <1>5. At(c)' = At(c) /\ Buffered(c)' = 0 /\ saved[At(c)]' = saved[At(c)]
    BY <1>1, <1>3 DEF At, Buffered
  <1>6. Size(c)' = Size(c) /\ Position(c)' = Position(c)
    BY <1>1, <1>5, <1>3 DEF Size, Position
  <1>7. IsExact(c)'
    <2>1. saved[At(c)].exact
      BY <1>3, <1>4 DEF SaverInv
    <2> QED BY <1>5, <2>1 DEF IsExact
  <1>8. SaverInv(c)'
    <2>1. Fits(c)'
      BY <1>7 DEF Fits
    <2>2. ~Single => Size(c)' <= Position(c)'
      BY <1>4, <1>6 DEF SaverInv
    <2>3. saved[At(c)]'.exact
      BY <1>3, <1>4, <1>5 DEF SaverInv
    <2> QED BY <1>1, <1>3, <2>1, <2>2, <2>3 DEF SaverInv
  <1>9. \A d \in Connections : At(d) \in Paths
    BY <1>2, OutputTypes
  <1> QED BY <1>1, <1>5, <1>8, <1>9, SaverStep

(* A flush writes out what was in the buffer.                              *)
LEMMA FlushedSaver ==
  ASSUME TransferInv, FilesInv, NEW c \in Connections, saved' = FlushOutput(c),
         At(c)' = At(c), Buffered(c)' = 0
  PROVE  /\ Size(c)' = Size(c) /\ (IsExact(c)' <=> IsExact(c))
         /\ received[c] = 0 => saved[At(c)]'.exact
         /\ \A p \in Paths : p # At(c) => saved'[p] = saved[p]
         /\ \A d \in Connections : At(d) \in Paths
PROOF
  <1>1. /\ ClientTypes /\ output[c].from <= output[c].to
        /\ Size(c) \in Nat /\ (received[c] = 0 => Buffered(c) = 0)
    BY Numbers DEF ClientInv
  <1>2. /\ saved[At(c)]'.size = Size(c) /\ (saved[At(c)]'.exact <=> IsExact(c))
        /\ \A p \in Paths \ {At(c)} : saved'[p] = saved[p]
    BY <1>1, FlushFacts
  <1>3. Size(c)' = Size(c)
    BY <1>1, <1>2 DEF Size
  <1>4. IsExact(c)' <=> IsExact(c)
    <2>1. IsExact(c)' <=> saved[At(c)]'.exact
      BY DEF IsExact
    <2> QED BY <1>2, <2>1
  <1>5. received[c] = 0 => IsExact(c)
    <2>1. SaverInv(c)
      BY DEF FilesInv
    <2> QED BY <1>1, <2>1 DEF SaverInv, IsExact
  <1>6. \A d \in Connections : At(d) \in Paths
    BY <1>1, OutputTypes
  <1> QED BY <1>2, <1>3, <1>4, <1>5, <1>6

LEMMA LosingKeepsFiles ==
  ASSUME TransferInv, FilesInv, NEW c \in Connections, ClientLosesServer(c) PROVE FilesInv'
PROOF
  <1> DEFINE closed == [output[c] EXCEPT !.open = FALSE, !.from = 0, !.to = 0]
  <1>1. ClientTypes /\ SaverInv(c) /\ output[c] \in Output
    BY Numbers, OutputTypes DEF FilesInv
  <1>2. /\ transport' = [transport EXCEPT ![c] = "disconnected"]
        /\ saved' = FlushOutput(c) /\ output' = [output EXCEPT ![c] = closed]
        /\ info' = info /\ received' = received /\ stream' = stream
    BY <1>1 DEF ClientLosesServer, ClientTypes, serverVars
  <1>3. closed.path = At(c) /\ closed.from = 0 /\ closed.to = 0
    BY <1>1 DEF Output, At
  <1> HIDE DEF closed
  <1>4. /\ output'[c] = closed /\ transport'[c] = "disconnected"
        /\ \A d \in Connections \ {c} : output'[d] = output[d]
    BY <1>1, <1>2 DEF ClientTypes
  <1>5. At(c)' = At(c) /\ Buffered(c)' = 0 /\ Position(c)' = Position(c)
    BY <1>2, <1>3, <1>4 DEF At, Buffered, Position
  <1>6. /\ Size(c)' = Size(c) /\ (IsExact(c)' <=> IsExact(c))
        /\ received[c] = 0 => saved[At(c)]'.exact
        /\ \A p \in Paths : p # At(c) => saved'[p] = saved[p]
        /\ \A d \in Connections : At(d) \in Paths
    BY <1>2, <1>5, FlushedSaver
  <1>7. Fits(c)' <=> Fits(c)
    BY <1>5, <1>6 DEF Fits
  <1>8. SaverInv(c)'
    BY <1>1, <1>2, <1>4, <1>5, <1>6, <1>7 DEF SaverInv
  <1> QED BY <1>2, <1>4, <1>5, <1>6, <1>8, SaverStep

LEMMA ResponseKeepsFiles ==
  ASSUME TransferInv, FilesInv, NEW c \in Connections, OnResponseOk(c) \/ OnResponseError(c)
  PROVE  FilesInv'
PROOF
  <1>1. ClientTypes /\ SaverInv(c) /\ output[c] \in Output /\ Size(c) \in Nat
    BY Numbers, OutputTypes DEF FilesInv
  <1>2. PICK kind \in Kinds : Receives(c, kind)
    BY ResponseFacts
  <1>3. /\ stream' = stream /\ received'[c] = received[c] + 1
        /\ \A d \in Connections \ {c} : received'[d] = received[d]
        /\ Position(c)' = NextMessage(c).to
    BY <1>2, ReceiveFacts
  <1>4. NextMessage(c).to \in Nat
    BY <1>2, MessageFacts
  <1>5. /\ received[c] = 0 /\ Buffered(c) = 0 /\ saved' = saved
        /\ output' \in {output, [output EXCEPT ![c] = [output[c] EXCEPT !.open = TRUE]]}
        /\ info'.state = "Active" =>
             output' = [output EXCEPT ![c] = [output[c] EXCEPT !.open = TRUE]]
    BY ResponseFacts
  <1>6. /\ At(c)' = At(c) /\ Buffered(c)' = 0
        /\ \A d \in Connections \ {c} : output'[d] = output[d]
        /\ info'.state = "Active" => output'[c].open
    <2>1. CASE output' = output
      <3>1. info'.state = "Active" => [output EXCEPT ![c] = [output[c] EXCEPT !.open = TRUE]][c].open
        BY <1>1 DEF ClientTypes, Output
      <3> QED BY <1>5, <2>1, <3>1 DEF At, Buffered
    <2>2. CASE output' = [output EXCEPT ![c] = [output[c] EXCEPT !.open = TRUE]]
      <3>1. output'[c] = [output[c] EXCEPT !.open = TRUE]
            /\ \A d \in Connections \ {c} : output'[d] = output[d]
        BY <1>1, <2>2 DEF ClientTypes
      <3>2. /\ output'[c].path = output[c].path /\ output'[c].from = output[c].from
            /\ output'[c].to = output[c].to
        BY <1>1, <3>1 DEF Output
      <3>3. output'[c].open
        BY <1>1, <3>1 DEF Output
      <3> QED BY <1>5, <3>1, <3>2, <3>3 DEF At, Buffered
    <2> QED BY <1>5, <2>1, <2>2
  <1>7. saved[At(c)].exact /\ saved[At(c)]' = saved[At(c)]
    BY <1>1, <1>5, <1>6 DEF SaverInv
  <1>8. IsExact(c)' /\ Fits(c)'
    BY <1>6, <1>7 DEF IsExact, Fits
  <1>9. ~Single => Size(c)' <= Position(c)'
    <2>1. ~Single => Size(c) <= 0
      <3>1. Position(c) = 0
        BY <1>5, Numbers
      <3> QED BY <1>1, <3>1 DEF SaverInv
    <2>2. Size(c)' = Size(c)
      BY <1>5, <1>6, <1>7 DEF Size
    <2> QED BY <1>1, <1>3, <1>4, <2>1, <2>2
  <1>10. SaverInv(c)'
    BY <1>6, <1>7, <1>8, <1>9 DEF SaverInv
  <1>11. \A d \in Connections : At(d) \in Paths
    BY <1>1, OutputTypes
  <1> QED BY <1>3, <1>5, <1>6, <1>10, <1>11, SaverStep

(* A chunk that is refused: one transport is not Active any more; of       *)
(* several, this one's file has fallen behind for good.                    *)
LEMMA RefusedKeepsFiles ==
  ASSUME TransferInv, FilesInv, NEW c \in Connections, OnFileChunk(c), ~Expected(c)
  PROVE  FilesInv'
PROOF
  <1> DEFINE m == NextMessage(c)
  <1>1. /\ Receives(c, "FileChunk") /\ "FileChunk" \in Kinds /\ received[c] > 0
        /\ Buffered(c) = 0 /\ m.from = Position(c) /\ m.from \in Nat
        /\ m.to \in (m.from + 1)..FileSize
        /\ info' = info /\ output' = output /\ saved' = saved
    BY ChunkFacts
  <1>2. /\ stream' = stream /\ received'[c] = received[c] + 1 /\ transport' = transport
        /\ \A d \in Connections \ {c} : received'[d] = received[d]
        /\ Position(c)' = m.to /\ transport[c] = "connected"
    BY <1>1, ReceiveFacts
  <1> HIDE DEF m
  <1>3. /\ ClientTypes /\ SaverInv(c) /\ Size(c) \in Nat /\ Position(c) \in Nat
        /\ received[c] \in Nat
    BY Numbers DEF FilesInv
  <1>4. Position(c)' > Position(c) /\ Position(c)' <= FileSize /\ Position(c)' \in Nat
    BY <1>1, <1>2, ConstantTypes
  <1>5. /\ At(c)' = At(c) /\ saved[At(c)]' = saved[At(c)] /\ Buffered(c)' = Buffered(c)
    BY <1>1 DEF At, Buffered
  <1>6. Size(c)' = Size(c)
    BY <1>5 DEF Size
  <1>7. SaverInv(c)'
    <2>1. CASE Single
      <3>1. info'.state # "Active"
        BY <1>1, <1>2, <1>3, <2>1 DEF SaverInv, Expected
      <3> QED BY <1>2, <1>3, <2>1, <3>1 DEF SaverInv
    <2>2. CASE ~Single
      <3>1. Size(c) <= Position(c)
        BY <1>3, <2>2 DEF SaverInv
      <3>2. Fits(c)'
        BY <1>3, <1>4, <1>6, <3>1, ConstantTypes DEF Fits
      <3>3. Size(c)' <= Position(c)'
        BY <1>3, <1>4, <1>6, <3>1
      <3> QED BY <1>2, <1>3, <2>2, <3>2, <3>3 DEF SaverInv
    <2> QED BY <2>1, <2>2
  <1>8. \A d \in Connections : At(d) \in Paths
    BY <1>3, OutputTypes
  <1> QED BY <1>1, <1>2, <1>5, <1>7, <1>8, SaverStep

(* A chunk that is taken: file and answer advance by the same.             *)
LEMMA TakenKeepsFiles ==
  ASSUME TransferInv, FilesInv, NEW c \in Connections, OnFileChunk(c), Expected(c)
  PROVE  FilesInv'
PROOF
  <1> DEFINE m == NextMessage(c)
             held == [output[c] EXCEPT !.from = m.from, !.to = m.to]
             new == AppendRange(saved[At(c)], m.from, m.to)
  <1>1. /\ Receives(c, "FileChunk") /\ "FileChunk" \in Kinds /\ received[c] > 0
        /\ Buffered(c) = 0 /\ m.from = Position(c) /\ m.from \in Nat
        /\ m.to \in (m.from + 1)..FileSize
        /\ info' = [info EXCEPT !.last = @ + (m.to - m.from)]
    BY ChunkFacts
  <1>2. \/ saved' = saved /\ output' = [output EXCEPT ![c] = held]
        \/ output' = output /\ saved' = [saved EXCEPT ![At(c)] = new]
    BY ChunkFacts
  <1>3. /\ stream' = stream /\ received'[c] = received[c] + 1
        /\ \A d \in Connections \ {c} : received'[d] = received[d]
        /\ Position(c)' = m.to
    BY <1>1, ReceiveFacts
  <1> HIDE DEF m
  <1>4. /\ ClientTypes /\ SaverInv(c) /\ Size(c) \in Nat /\ Position(c) \in Nat
        /\ received[c] \in Nat /\ info \in Info
    BY Numbers DEF FilesInv, ClientTypes
  <1>5. /\ output[c] \in Output /\ At(c) \in Paths /\ saved[At(c)] \in File
        /\ saved[At(c)].size \in Nat
    BY <1>4, OutputTypes
  <1>6. m.to \in Nat /\ m.to > m.from /\ m.to <= FileSize
    BY <1>1, ConstantTypes
  <1>7. info'.state = info.state /\ info.state = "Active" /\ output[c].open
    BY <1>1, <1>4 DEF Info, Expected
  <1>8. Size(c) = saved[At(c)].size
    BY <1>1, <1>5 DEF Size
  <1>9. Fits(c)
    BY <1>4, <1>7 DEF SaverInv
  <1>10. Size(c) = Position(c) => saved[At(c)].exact
    BY <1>9 DEF Fits, IsExact
  <1>11. /\ At(c)' = At(c) /\ output'[c].open
         /\ \A d \in Connections \ {c} : output'[d] = output[d]
         /\ \A p \in Paths : p # At(c) => saved'[p] = saved[p]
         /\ Size(c)' = Size(c) + (m.to - m.from)
         /\ Size(c) = Position(c) => IsExact(c)'
    <2>1. CASE saved' = saved /\ output' = [output EXCEPT ![c] = held]
      <3>1. held.path = At(c) /\ held.from = m.from /\ held.to = m.to
        BY <1>5 DEF Output, At
      <3>2. held.open
        BY <1>5, <1>7 DEF Output
      <3> HIDE DEF held
      <3>3. output'[c] = held /\ \A d \in Connections \ {c} : output'[d] = output[d]
        BY <1>4, <2>1 DEF ClientTypes
      <3>4. At(c)' = At(c) /\ Buffered(c)' = m.to - m.from
        BY <3>1, <3>3 DEF At, Buffered
      <3>5. saved[At(c)]' = saved[At(c)]
        BY <2>1, <3>4
      <3>6. Size(c)' = Size(c) + (m.to - m.from)
        BY <1>8, <3>4, <3>5 DEF Size
      <3>7. Size(c) = Position(c) => IsExact(c)'
        <4>1. output'[c].from = Position(c)
          BY <1>1, <3>1, <3>3
        <4> QED BY <1>8, <1>10, <3>5, <4>1 DEF IsExact
      <3> QED BY <2>1, <3>2, <3>3, <3>4, <3>6, <3>7
    <2>2. CASE output' = output /\ saved' = [saved EXCEPT ![At(c)] = new]
      <3>1. /\ new.size = saved[At(c)].size + (m.to - m.from)
            /\ saved[At(c)].exact /\ m.from = saved[At(c)].size => new.exact
        <4>1. Appended(new, saved[At(c)], m.from, m.to)
          BY <1>1, <1>5, <1>6, AppendsRange
        <4> HIDE DEF new
        <4> QED BY <4>1 DEF Appended
      <3> HIDE DEF new
      <3>2. At(c)' = At(c) /\ Buffered(c)' = 0
        BY <1>1, <2>2 DEF At, Buffered
      <3>3. saved[At(c)]' = new
        BY <1>4, <1>5, <2>2, <3>2 DEF ClientTypes
      <3>4. Size(c)' = Size(c) + (m.to - m.from)
        BY <1>1, <1>5, <1>6, <1>8, <3>1, <3>2, <3>3 DEF Size
      <3>5. Size(c) = Position(c) => IsExact(c)'
        BY <1>1, <1>8, <1>10, <3>1, <3>2, <3>3 DEF IsExact
      <3>6. \A p \in Paths : p # At(c) => saved'[p] = saved[p]
        BY <1>4, <2>2 DEF ClientTypes
      <3> QED BY <1>7, <2>2, <3>2, <3>4, <3>5, <3>6
    <2> QED BY <1>2, <2>1, <2>2
  <1>12. /\ Size(c)' = Position(c)' => Size(c) = Position(c)
         /\ Size(c) <= Position(c) => Size(c)' <= Position(c)'
         /\ ~(Position(c)' > FileSize)
    BY <1>1, <1>3, <1>4, <1>6, <1>11, ConstantTypes
  <1>13. Fits(c)'
    BY <1>11, <1>12 DEF Fits
  <1>14. SaverInv(c)'
    BY <1>3, <1>4, <1>11, <1>12, <1>13 DEF SaverInv
  <1>15. \A d \in Connections : At(d) \in Paths
    BY <1>4, OutputTypes
  <1> QED BY <1>3, <1>11, <1>14, <1>15, SaverStep

LEMMA CompleteKeepsFiles ==
  ASSUME TransferInv, FilesInv, NEW c \in Connections, OnTransferComplete(c) PROVE FilesInv'
PROOF
  <1> DEFINE empty == [output[c] EXCEPT !.from = 0, !.to = 0]
  <1>1. /\ Receives(c, "TransferComplete") /\ "TransferComplete" \in Kinds
        /\ received[c] > 0 /\ Position(c)' = Position(c)
    BY CompleteFacts
  <1>2. /\ stream' = stream /\ received'[c] = received[c] + 1 /\ transport' = transport
        /\ \A d \in Connections \ {c} : received'[d] = received[d]
        /\ transport[c] = "connected"
    BY <1>1, ReceiveFacts
  <1>3. ClientTypes /\ SaverInv(c) /\ received[c] \in Nat /\ output[c] \in Output
    BY Numbers, OutputTypes DEF FilesInv
  <1>4. \A d \in Connections : At(d) \in Paths
    BY <1>3, OutputTypes
  <1>5. CASE info.state # "Active"
    <2>1. info' = info /\ output' = output /\ saved' = saved
      BY <1>5, CompleteFacts
    <2>2. /\ At(c)' = At(c) /\ saved[At(c)]' = saved[At(c)] /\ Buffered(c)' = Buffered(c)
      BY <2>1 DEF At, Buffered
    <2>3. Size(c)' = Size(c) /\ (IsExact(c)' <=> IsExact(c))
      BY <2>1, <2>2 DEF Size, IsExact
    <2>4. Fits(c)' <=> Fits(c)
      BY <1>1, <2>3 DEF Fits
    <2>5. SaverInv(c)'
      BY <1>1, <1>2, <1>3, <1>5, <2>1, <2>3, <2>4 DEF SaverInv
    <2> QED BY <1>2, <1>4, <2>1, <2>2, <2>5, SaverStep
  <1>6. CASE info.state = "Active"
    <2>1. saved' = FlushOutput(c) /\ output' = [output EXCEPT ![c] = empty]
      BY <1>6, CompleteFacts
    <2>2. /\ empty.path = At(c) /\ empty.from = 0 /\ empty.to = 0
      BY <1>3 DEF Output, At
    <2>3. empty.open = output[c].open
      BY <1>3 DEF Output
    <2> HIDE DEF empty
    <2>4. output'[c] = empty /\ \A d \in Connections \ {c} : output'[d] = output[d]
      BY <1>3, <2>1 DEF ClientTypes
    <2>5. At(c)' = At(c) /\ Buffered(c)' = 0
      BY <2>2, <2>4 DEF At, Buffered
    <2>6. /\ Size(c)' = Size(c) /\ (IsExact(c)' <=> IsExact(c))
          /\ \A p \in Paths : p # At(c) => saved'[p] = saved[p]
      BY <2>1, <2>5, FlushedSaver
    <2>7. Fits(c)' <=> Fits(c)
      BY <1>1, <2>6 DEF Fits
    <2>8. output'[c].open = output[c].open
      BY <2>3, <2>4
    <2>9. Fits(c) /\ (Single => output[c].open)
      BY <1>1, <1>2, <1>3, <1>6 DEF SaverInv
    <2>10. SaverInv(c)'
      <3>1. received'[c] # 0
        BY <1>2, <1>3
      <3>2. ~Single => Size(c)' <= Position(c)'
        BY <1>1, <1>3, <2>6 DEF SaverInv
      <3> QED BY <2>7, <2>8, <2>9, <3>1, <3>2 DEF SaverInv
    <2> QED BY <1>2, <1>4, <2>4, <2>5, <2>6, <2>10, SaverStep
  <1> QED BY <1>5, <1>6

LEMMA FilesStart == ASSUME OneSaverEach, Init PROVE FilesInv
PROOF
  <1>1. TransferInv
    BY Starts
  <1>2. ASSUME NEW p \in Paths
        PROVE  saved[p].exact /\ (NothingLeft => saved[p].size = 0)
    <2>1. saved[p] \in Leftovers \cup {[size |-> 0, exact |-> TRUE]}
      BY DEF Init
    <2>2. CASE saved[p] = [size |-> 0, exact |-> TRUE]
      BY <2>2
    <2>3. CASE saved[p] \in Leftovers
      BY <2>3 DEF OneSaverEach, ExactLeft, NothingLeft
    <2> QED BY <2>1, <2>2, <2>3
  <1>3. \A c \in Connections : At(c) \in Paths /\ <<c, At(c)>> \in SaveChoices
    BY <1>1, Types, OutputTypes DEF TransferInv, Init, At
  <1>4. PathsApart
    BY <1>3 DEF OneSaverEach, Single, OwnPaths, PathsApart
  <1>5. ASSUME NEW c \in Connections PROVE SaverInv(c)
    <2>1. received[c] = 0
      BY DEF Init
    <2>2. Buffered(c) = 0 /\ Position(c) = 0
      BY <1>1, <2>1, Numbers
    <2>3. saved[At(c)].exact
      BY <1>2, <1>3
    <2>4. ~Single => saved[At(c)].size = 0
      BY <1>2, <1>3 DEF OneSaverEach
    <2>5. ~Single => Size(c) <= Position(c)
      BY <2>2, <2>4 DEF Size
    <2>6. Fits(c)
      BY <2>2, <2>3 DEF Fits, IsExact
    <2> QED BY <2>1, <2>3, <2>5, <2>6 DEF SaverInv
  <1> QED BY <1>4, <1>5 DEF FilesInv

LEMMA NextKeepsFiles ==
  ASSUME OffsetsFit, TransferInv, FilesInv, [Next]_vars PROVE FilesInv'
PROOF
  <1>1. CASE UNCHANGED vars
    BY <1>1, ServerStepKeepsFiles DEF vars, serverVars
  <1>2. ASSUME NEW c \in Connections,
               ServerAccepts(c) \/ ServerAnswers(c) \/ ServerWorks(c) \/ ServerLosesClient(c)
        PROVE  FilesInv'
    <2>1. UNCHANGED clientVars
      BY <1>2 DEF ServerAccepts, ServerAnswers, ServerWorks, ServerLosesClient
    <2>2. Next
      BY <1>2 DEF Next
    <2> QED BY <2>1, <2>2, ServesHere, ServerStepKeepsFiles
  <1>3. ASSUME NEW c \in Connections,
               \/ GetFile(c) \/ Connected(c) \/ ConnectFailed(c)
               \/ LoseLink(c) \/ ClientLosesServer(c)
        PROVE  FilesInv'
    BY <1>3, DroppingKeepsFiles, ConnectedKeepsFiles, LosingKeepsFiles
  <1>4. ASSUME NEW c \in Connections, Receive(c) PROVE FilesInv'
    BY <1>4, ResponseKeepsFiles, RefusedKeepsFiles, TakenKeepsFiles, CompleteKeepsFiles DEF Receive
  <1> QED BY <1>1, <1>2, <1>3, <1>4 DEF Next

LEMMA FilesInvariance ==
  ASSUME OffsetsFit, OneSaverEach PROVE Spec => [](TransferInv /\ FilesInv)
PROOF
  <1>1. Init => TransferInv /\ FilesInv
    BY Starts, FilesStart
  <1>2. TransferInv /\ FilesInv /\ [Next]_vars => (TransferInv /\ FilesInv)'
    BY NextKeepsTransferInv, NextKeepsFiles
  <1> QED BY <1>1, <1>2, PTL DEF Spec

----------------------------------------------------------------------------
(* A file of the source's size, after an answer that went to its end, is   *)
(* the source.                                                             *)
LEMMA FinishFacts ==
  ASSUME TransferInv, FilesInv, [Next]_vars, info'.state = "Finish", info.state # "Finish"
  PROVE  \E c \in Connections : /\ received'[c] # received[c]
                                /\ saved'[At(c)] = ExactCopy
                                /\ At(c)' = At(c) /\ Buffered(c)' = 0
PROOF
  <1>1. PICK c \in Connections : OnTransferComplete(c)
    <2>1. ~UNCHANGED vars
      BY DEF vars, clientVars
    <2>2. ASSUME NEW c \in Connections,
                 \/ ServerAccepts(c) \/ ServerAnswers(c) \/ ServerWorks(c) \/ ServerLosesClient(c)
                 \/ ConnectFailed(c) \/ LoseLink(c) \/ ClientLosesServer(c)
          PROVE  info' = info
      BY <2>2 DEF ServerAccepts, ServerAnswers, ServerWorks, ServerLosesClient, ConnectFailed,
                  LoseLink, ClientLosesServer, clientVars
    <2>3. ASSUME NEW c \in Connections, GetFile(c) PROVE info'.state \in {info.state, "Wait"}
      BY <2>3 DEF GetFile
    <2>4. info \in Info
      BY Types DEF TransferInv, ClientTypes
    <2>5. ASSUME NEW c \in Connections, Connected(c) PROVE info'.state = "Active"
      BY <2>4, <2>5 DEF Connected, Info
    <2>6. ASSUME NEW c \in Connections, OnResponseOk(c) \/ OnResponseError(c)
          PROVE  info'.state \in {"Active", "Error"}
      BY <2>6, ResponseFacts
    <2>7. ASSUME NEW c \in Connections, OnFileChunk(c) PROVE info'.state = info.state
      BY <2>4, <2>7, ChunkFacts DEF Info
    <2> QED BY <2>1, <2>2, <2>3, <2>5, <2>6, <2>7 DEF Next, Receive
  <1> DEFINE empty == [output[c] EXCEPT !.from = 0, !.to = 0]
  <1>2. /\ Receives(c, "TransferComplete") /\ "TransferComplete" \in Kinds
        /\ received[c] > 0 /\ Position(c) >= FileSize
    BY <1>1, CompleteFacts
  <1>3. received'[c] = received[c] + 1 /\ transport[c] = "connected"
    BY <1>2, ReceiveFacts
  <1>4. /\ ClientTypes /\ SaverInv(c) /\ Position(c) \in Nat /\ Size(c) \in Nat
        /\ received[c] \in Nat /\ output[c] \in Output /\ output[c].from <= output[c].to
    BY Numbers, OutputTypes DEF FilesInv, ClientInv
  <1>5. info.state = "Active"
    BY <1>1, CompleteFacts
  <1>6. /\ saved' = FlushOutput(c) /\ saved'[At(c)].size = FileSize
        /\ output' = [output EXCEPT ![c] = empty]
    <2>1. saved'[At(c)].size # FileSize => info' = info
      BY <1>1, <1>5, CompleteFacts
    <2> QED BY <1>1, <1>5, <2>1, CompleteFacts
  <1>7. saved'[At(c)] \in File /\ Size(c) = FileSize /\ (saved'[At(c)].exact <=> IsExact(c))
    BY <1>4, <1>6, FlushFacts, OutputTypes
  <1>8. Fits(c)
    BY <1>4, <1>5 DEF SaverInv
  <1>9. IsExact(c)
    <2>1. Size(c) = Position(c) \/ Position(c) > FileSize
      BY <1>2, <1>4, <1>7, ConstantTypes
    <2> QED BY <1>8, <2>1 DEF Fits
  <1>10. saved'[At(c)] = ExactCopy
    <2>1. saved'[At(c)].exact = TRUE
      BY <1>7, <1>9 DEF File
    <2> QED BY <1>6, <1>7, <2>1 DEF File, ExactCopy
  <1>11. At(c)' = At(c) /\ Buffered(c)' = 0
    <2>1. empty.path = At(c) /\ empty.from = 0 /\ empty.to = 0
      BY <1>4 DEF Output, At
    <2> HIDE DEF empty
    <2>2. output'[c] = empty
      BY <1>4, <1>6 DEF ClientTypes
    <2> QED BY <2>1, <2>2 DEF At, Buffered
  <1>12. received'[c] # received[c]
    BY <1>3, <1>4
  <1> QED BY <1>10, <1>11, <1>12

(* A download becomes Finish only in a transport whose save file is then an*)
(* exact copy: of one transport, whatever part of the file was there from  *)
(* an earlier session; of several that share the DownloadInfo, if each     *)
(* saves to a path of its own, with nothing there.                         *)
THEOREM OnlyACopyFinishes == ASSUME OffsetsFit, OneSaverEach PROVE Spec => FinishedBySaver
PROOF
  <1>1. TransferInv /\ FilesInv /\ [Next]_vars => [SaverHasCopy]_vars
    BY FinishFacts DEF SaverHasCopy, At
  <1> QED BY <1>1, FilesInvariance, PTL DEF Spec, FinishedBySaver

----------------------------------------------------------------------------
(* What a single transport has finished it leaves alone.                   *)
LEMMA FinishedStays ==
  ASSUME Single, TransferInv, FilesInv, FinishedInv, [Next]_vars, info.state = "Finish",
         info'.state = "Finish"
  PROVE  FinishedInv'
PROOF
  <1>1. /\ ClientTypes /\ Connections # {}
        /\ \A c \in Connections : Buffered(c) = 0 /\ saved[At(c)] = ExactCopy
    BY Types DEF TransferInv, FinishedInv
  <1>2. CASE output' = output /\ saved' = saved
    BY <1>1, <1>2 DEF FinishedInv, Buffered, At
  <1>3. ASSUME NEW c \in Connections, ClientLosesServer(c) PROVE FinishedInv'
    <2> DEFINE closed == [output[c] EXCEPT !.open = FALSE, !.from = 0, !.to = 0]
    <2>1. output' = [output EXCEPT ![c] = closed]
      BY <1>1, <1>3 DEF ClientLosesServer, ClientTypes
    <2>2. closed.path = At(c) /\ closed.from = 0 /\ closed.to = 0
      BY <1>1, OutputTypes DEF Output, At
    <2> HIDE DEF closed
    <2>3. At(c)' = At(c) /\ Buffered(c)' = 0
      BY <1>1, <2>1, <2>2 DEF ClientTypes, At, Buffered
    <2>4. output[c].from = output[c].to
      BY <1>1, OutputTypes DEF Buffered
    <2>5. saved'[At(c)] = saved[At(c)]
      <3>1. saved' = [saved EXCEPT ![At(c)] =
                        AppendRange(saved[At(c)], output[c].from, output[c].to)]
        BY <1>3 DEF ClientLosesServer, FlushOutput, At
      <3> QED BY <1>1, <2>4, <3>1, OutputTypes DEF AppendRange, ClientTypes
    <2>6. \A d \in Connections : d = c
      BY DEF Single
    <2> QED BY <1>1, <2>3, <2>5, <2>6 DEF FinishedInv, ExactCopy
  <1>4. ASSUME NEW c \in Connections, OnResponseOk(c) PROVE FinishedInv'
    BY <1>4, ResponseFacts
  <1>5. ASSUME NEW c \in Connections, OnFileChunk(c) PROVE output' = output /\ saved' = saved
    <2>1. ~Expected(c)
      BY DEF Expected
    <2> QED BY <1>5, <2>1, ChunkFacts
  <1>6. ASSUME NEW c \in Connections, OnTransferComplete(c)
        PROVE  output' = output /\ saved' = saved
    BY <1>6, CompleteFacts
  <1>7. ASSUME NEW c \in Connections,
               \/ GetFile(c) \/ Connected(c) \/ ConnectFailed(c) \/ LoseLink(c)
               \/ ServerAccepts(c) \/ ServerAnswers(c) \/ ServerWorks(c) \/ ServerLosesClient(c)
               \/ OnResponseError(c)
        PROVE  output' = output /\ saved' = saved
    BY <1>7 DEF GetFile, Connected, ConnectFailed, LoseLink, ServerAccepts, ServerAnswers,
                ServerWorks, ServerLosesClient, OnResponseError, clientVars
  <1>8. UNCHANGED vars => output' = output /\ saved' = saved
    BY DEF vars, clientVars
  <1> QED BY <1>2, <1>3, <1>4, <1>5, <1>6, <1>7, <1>8 DEF Next, Receive

LEMMA NextKeepsFinished ==
  ASSUME Single, TransferInv, FilesInv, FinishedInv, [Next]_vars PROVE FinishedInv'
PROOF
  <1>1. CASE info'.state # "Finish"
    BY <1>1 DEF FinishedInv
  <1>2. CASE info'.state = "Finish" /\ info.state = "Finish"
    BY <1>2, FinishedStays
  <1>3. CASE info'.state = "Finish" /\ info.state # "Finish"
    <2>1. PICK c \in Connections :
            saved'[At(c)] = ExactCopy /\ At(c)' = At(c) /\ Buffered(c)' = 0
      BY <1>3, FinishFacts
    <2>2. \A d \in Connections : d = c
      BY DEF Single
    <2>3. saved[At(c)]' = ExactCopy
      BY <2>1
    <2> QED BY <2>1, <2>2, <2>3 DEF FinishedInv, ExactCopy
  <1> QED BY <1>1, <1>2, <1>3

(* Of one transport, and one path to save to, the finished download is at  *)
(* the path its DownloadInfo names, and stays there as it was.             *)
THEOREM FinishedDownloadIsSaved ==
  ASSUME OffsetsFit, Single, ExactLeft, \A p, q \in Paths : p = q
  PROVE  Spec => []FinishedIsSaved
PROOF
  <1>1. Init => FinishedInv
    <2>1. ASSUME Init PROVE info.state # "Finish"
      <3> DEFINE Fields(i) == i.state \in {"Absent", "Pause"}
      <3>1. \A i \in [state : {"Absent"}, last : {0}, size : {0}, path : Paths, forDelete : {FALSE}]
              \cup [state : {"Pause"}, last : Resumes, size : {FileSize}, path : Paths,
                    forDelete : {FALSE}] : Fields(i)
        OBVIOUS
      <3>2. Fields(info)
        BY <2>1, <3>1 DEF Init
      <3> QED BY <3>2
    <2> QED BY <2>1 DEF FinishedInv
  <1>2. TransferInv /\ FilesInv /\ FinishedInv /\ [Next]_vars => FinishedInv'
    BY NextKeepsFinished
  <1>3. TransferInv /\ FinishedInv => FinishedIsSaved
    <2> SUFFICES ASSUME TransferInv, FinishedInv, info.state = "Finish"
                 PROVE  saved[info.path] = ExactCopy
      BY DEF FinishedIsSaved
    <2>1. PICK c \in Connections : saved[At(c)] = ExactCopy
      BY DEF FinishedInv
    <2>2. At(c) \in Paths /\ info.path \in Paths
      BY Types, OutputTypes DEF TransferInv, ClientTypes, Info
    <2> QED BY <2>1, <2>2
  <1>4. Spec => [](TransferInv /\ FilesInv)
    BY FilesInvariance DEF OneSaverEach
  <1> QED BY <1>1, <1>2, <1>3, <1>4, PTL DEF Spec

----------------------------------------------------------------------------
(* PART 3.  THE PROGRESS OF A DOWNLOAD.                                    *)
(* However many transports share the DownloadInfo, and whatever path they  *)
(* save to: a step moves the progress by what it moves the files and the   *)
(* buffers.                                                                *)

(* What SumFunction computes: the sums over the subsets of S, each by way of *)
(* the subset without the element that CHOOSE takes first.                 *)
Taken(s) == CHOOSE x \in s : TRUE
Sums(h, f, S) == h = [s \in SUBSET S |-> IF s = {} THEN 0 ELSE f[Taken(s)] + h[s \ {Taken(s)}]]

LEMMA SumsExist ==
  ASSUME NEW S, IsFiniteSet(S), NEW f \in [S -> Int]
  PROVE  \E h \in [SUBSET S -> Int] : Sums(h, f, S)
PROOF
  <1> DEFINE Sum(h, s) == IF s = {} THEN 0 ELSE f[Taken(s)] + h[s \ {Taken(s)}]
             Small(n) == {s \in SUBSET S : Cardinality(s) <= n}
             T == {n \in Nat : \E h \in [SUBSET S -> Int] : \A s \in Small(n) : h[s] = Sum(h, s)}
  <1>1. \A s \in SUBSET S : Cardinality(s) \in Nat /\ (Cardinality(s) = 0 <=> s = {})
    BY FS_Subset, FS_CardinalityType, FS_EmptySet
  <1>2. ASSUME NEW s \in SUBSET S, s # {}
        PROVE  /\ Taken(s) \in s /\ s \ {Taken(s)} \in SUBSET S
               /\ Cardinality(s \ {Taken(s)}) = Cardinality(s) - 1
    <2>1. Taken(s) \in s
      BY <1>2 DEF Taken
    <2> QED BY <1>2, <2>1, FS_Subset, FS_RemoveElement
  <1>3. 0 \in T
    <2> DEFINE h == [s \in SUBSET S |-> 0]
    <2>1. h \in [SUBSET S -> Int]
      OBVIOUS
    <2>2. ASSUME NEW s \in Small(0) PROVE h[s] = Sum(h, s)
      <3>1. s = {}
        BY <1>1
      <3> QED BY <3>1
    <2> QED BY <2>1, <2>2
  <1>4. ASSUME NEW n \in Nat, n \in T PROVE n + 1 \in T
    <2>1. PICK g \in [SUBSET S -> Int] : \A s \in Small(n) : g[s] = Sum(g, s)
      BY <1>4
    <2> DEFINE h == [s \in SUBSET S |-> IF s \in Small(n) THEN g[s] ELSE Sum(g, s)]
    <2>2. ASSUME NEW s \in SUBSET S PROVE Sum(g, s) \in Int
      <3>1. CASE s = {}
        BY <3>1
      <3>2. CASE s # {}
        <4>1. Taken(s) \in S /\ s \ {Taken(s)} \in SUBSET S
          BY <1>2, <3>2
        <4> HIDE DEF Taken
        <4> QED BY <2>1, <3>2, <4>1
      <3> QED BY <3>1, <3>2
    <2>3. h \in [SUBSET S -> Int]
      <3> HIDE DEF Sum, Small
      <3> QED BY <2>1, <2>2
    <2>4. ASSUME NEW s \in Small(n + 1) PROVE h[s] = Sum(h, s)
      <3>1. h[s] = Sum(g, s)
        BY <2>1
      <3>2. CASE s = {}
        BY <3>1, <3>2
      <3>3. CASE s # {}
        <4>1. s \ {Taken(s)} \in Small(n) /\ s \ {Taken(s)} \in SUBSET S
          BY <1>1, <1>2, <3>3
        <4>2. h[s \ {Taken(s)}] = g[s \ {Taken(s)}]
          <5> HIDE DEF Small, Sum
          <5> QED BY <4>1
        <4> HIDE DEF h
        <4> QED BY <3>1, <3>3, <4>2
      <3> QED BY <3>2, <3>3
    <2> HIDE DEF h, Small, Sum
    <2>5. \E k \in [SUBSET S -> Int] : \A s \in Small(n + 1) : k[s] = Sum(k, s)
      BY <2>3, <2>4
    <2> QED BY <2>5
  <1> HIDE DEF T
  <1>5. Cardinality(S) \in T
    <2>1. \A n \in Nat : n \in T
      BY <1>3, <1>4, Induction
    <2> QED BY <2>1, FS_CardinalityType
  <1>6. PICK h \in [SUBSET S -> Int] : \A s \in Small(Cardinality(S)) : h[s] = Sum(h, s)
    BY <1>5 DEF T
  <1>7. \A s \in SUBSET S : s \in Small(Cardinality(S))
    BY FS_Subset
  <1>8. \A s \in SUBSET S : h[s] = IF s = {} THEN 0 ELSE f[Taken(s)] + h[s \ {Taken(s)}]
    <2> HIDE DEF Small
    <2> QED BY <1>6, <1>7
  <1>9. Sums(h, f, S)
    BY <1>8 DEF Sums
  <1> QED BY <1>9

LEMMA SumIsOne ==
  ASSUME NEW S, IsFiniteSet(S), NEW f \in [S -> Int]
  PROVE  \E h : Sums(h, f, S) /\ SumFunction(f) = h[S]
PROOF
  <1>1. DOMAIN f = S
    OBVIOUS
  <1>2. SumFunction(f) = (CHOOSE h : Sums(h, f, S))[S]
    BY <1>1 DEF SumFunction, SumFunctionOnSet, FoldFunctionOnSet, MapThenFoldSet, Sums, Taken
  <1>3. \E h : Sums(h, f, S)
    BY SumsExist
  <1> QED BY <1>2, <1>3

LEMMA SumChanges ==
  ASSUME NEW S, IsFiniteSet(S), NEW f \in [S -> Int], NEW g \in [S -> Int],
         NEW x \in S, \A y \in S \ {x} : g[y] = f[y]
  PROVE  /\ SumFunction(f) \in Int /\ SumFunction(g) \in Int
         /\ SumFunction(g) - SumFunction(f) = g[x] - f[x]
PROOF
  <1>1. PICK sf : Sums(sf, f, S) /\ SumFunction(f) = sf[S]
    BY SumIsOne
  <1>2. PICK sg : Sums(sg, g, S) /\ SumFunction(g) = sg[S]
    BY SumIsOne
  <1> DEFINE Change(s) == IF x \in s THEN g[x] - f[x] ELSE 0
             Good(s) == sf[s] \in Int /\ sg[s] \in Int /\ sg[s] - sf[s] = Change(s)
             T == {n \in Nat : \A s \in SUBSET S : Cardinality(s) = n => Good(s)}
  <1>3. \A s \in SUBSET S : Cardinality(s) \in Nat /\ (Cardinality(s) = 0 <=> s = {})
    BY FS_Subset, FS_CardinalityType, FS_EmptySet
  <1>4. sf[{}] = 0 /\ sg[{}] = 0
    BY <1>1, <1>2 DEF Sums
  <1>5. ASSUME NEW s \in SUBSET S, s # {}
        PROVE  /\ Taken(s) \in s /\ s \ {Taken(s)} \in SUBSET S
               /\ Cardinality(s \ {Taken(s)}) = Cardinality(s) - 1
               /\ sf[s] = f[Taken(s)] + sf[s \ {Taken(s)}]
               /\ sg[s] = g[Taken(s)] + sg[s \ {Taken(s)}]
    <2>1. Taken(s) \in s
      BY <1>5 DEF Taken
    <2>2. s \ {Taken(s)} \in SUBSET S /\ Cardinality(s \ {Taken(s)}) = Cardinality(s) - 1
      BY <1>5, <2>1, FS_Subset, FS_RemoveElement
    <2>3. sf[s] = f[Taken(s)] + sf[s \ {Taken(s)}]
      BY <1>1, <1>5 DEF Sums
    <2>4. sg[s] = g[Taken(s)] + sg[s \ {Taken(s)}]
      BY <1>2, <1>5 DEF Sums
    <2> QED BY <2>1, <2>2, <2>3, <2>4
  <1>6. 0 \in T
    <2>1. ASSUME NEW s \in SUBSET S, Cardinality(s) = 0 PROVE Good(s)
      <3>1. s = {}
        BY <1>3, <2>1
      <3> QED BY <1>4, <3>1
    <2> HIDE DEF Good
    <2> QED BY <2>1
  <1>7. ASSUME NEW n \in Nat, n \in T PROVE n + 1 \in T
    <2>1. ASSUME NEW s \in SUBSET S, Cardinality(s) = n + 1 PROVE Good(s)
      <3>1. s # {}
        BY <1>3, <2>1
      <3>2. PICK y \in s, r \in SUBSET S :
              /\ r = s \ {y} /\ Cardinality(r) = n
              /\ sf[s] = f[y] + sf[r] /\ sg[s] = g[y] + sg[r]
        <4> DEFINE y == Taken(s)
                   r == s \ {y}
        <4>1. y \in s /\ r \in SUBSET S /\ Cardinality(r) = Cardinality(s) - 1
          BY <1>5, <3>1
        <4>2. sf[s] = f[y] + sf[r] /\ sg[s] = g[y] + sg[r]
          BY <1>5, <3>1
        <4>3. r = s \ {y} /\ Cardinality(r) = n
          BY <2>1, <4>1
        <4> HIDE DEF y, r
        <4> QED BY <4>1, <4>2, <4>3
      <3>3. Good(r)
        BY <1>7, <3>2
      <3>4. f[y] \in Int /\ g[y] \in Int /\ (y # x => g[y] = f[y])
        OBVIOUS
      <3>5. CASE y = x
        BY <3>2, <3>3, <3>4, <3>5
      <3>6. CASE y # x
        BY <3>2, <3>3, <3>4, <3>6
      <3> QED BY <3>5, <3>6
    <2> HIDE DEF Good
    <2> QED BY <2>1
  <1> HIDE DEF T
  <1>8. Good(S)
    <2>1. \A n \in Nat : n \in T
      BY <1>6, <1>7, Induction
    <2>2. Cardinality(S) \in T
      BY <2>1, FS_CardinalityType
    <2> HIDE DEF Good
    <2> QED BY <2>2 DEF T
  <1> QED BY <1>1, <1>2, <1>8

(* A step of transport c changes the bytes saved by what it changes of its *)
(* own file and buffer.                                                    *)
FinitelyMany == IsFiniteSet(Connections) /\ IsFiniteSet(Paths)

LEMMA BytesChange ==
  ASSUME FinitelyMany, TransferInv, TransferInv', NEW c \in Connections,
         \A p \in Paths \ {At(c)} : saved'[p] = saved[p],
         \A d \in Connections \ {c} : output'[d] = output[d]
  PROVE  /\ Size(c) \in Int /\ saved'[At(c)].size \in Int /\ Buffered(c)' \in Int
         /\ BytesSaved' - BytesSaved = (saved'[At(c)].size + Buffered(c)') - Size(c)
PROOF
  <1> DEFINE sizes == [p \in Paths |-> saved[p].size]
             buffers == [d \in Connections |-> Buffered(d)]
  <1>1. ClientTypes /\ ClientTypes' /\ At(c) \in Paths
    <2>1. ClientTypes /\ At(c) \in Paths
      BY Types, OutputTypes DEF TransferInv
    <2>2. ClientTypes'
      BY DEF TransferInv, TypeOK, ClientTypes, Info, Output, File
    <2> QED BY <2>1, <2>2
  <1>2. PICK newSizes \in [Paths -> Int] : newSizes = [p \in Paths |-> saved'[p].size]
    <2>1. \A p \in Paths : saved'[p].size \in Int
      BY <1>1 DEF ClientTypes, File
    <2> QED BY <2>1
  <1>3. PICK newBuffers \in [Connections -> Int] :
          newBuffers = [d \in Connections |-> output'[d].to - output'[d].from]
    <2>1. \A d \in Connections : output'[d].to - output'[d].from \in Int
      BY <1>1 DEF ClientTypes, Output
    <2> QED BY <2>1
  <1>4. sizes \in [Paths -> Int] /\ buffers \in [Connections -> Int]
    BY <1>1 DEF ClientTypes, Output, File, Buffered
  <1>5. BytesSaved = SumFunction(sizes) + SumFunction(buffers)
    BY DEF BytesSaved
  <1>6. BytesSaved' = SumFunction(newSizes) + SumFunction(newBuffers)
    BY <1>2, <1>3 DEF BytesSaved, Buffered
  <1>7. /\ newSizes[At(c)] = saved'[At(c)].size /\ sizes[At(c)] = saved[At(c)].size
        /\ newBuffers[c] = Buffered(c)' /\ buffers[c] = Buffered(c)
    BY <1>1, <1>2, <1>3 DEF Buffered
  <1>8. /\ \A p \in Paths \ {At(c)} : newSizes[p] = sizes[p]
        /\ \A d \in Connections \ {c} : newBuffers[d] = buffers[d]
    BY <1>2, <1>3 DEF Buffered
  <1>9. /\ newSizes[At(c)] \in Int /\ sizes[At(c)] \in Int
        /\ newBuffers[c] \in Int /\ buffers[c] \in Int
    BY <1>1, <1>4
  <1> HIDE DEF sizes, buffers
  <1>10. /\ SumFunction(sizes) \in Int /\ SumFunction(newSizes) \in Int
         /\ SumFunction(newSizes) - SumFunction(sizes) = newSizes[At(c)] - sizes[At(c)]
    BY <1>1, <1>4, <1>8, SumChanges DEF FinitelyMany
  <1>11. /\ SumFunction(buffers) \in Int /\ SumFunction(newBuffers) \in Int
         /\ SumFunction(newBuffers) - SumFunction(buffers) = newBuffers[c] - buffers[c]
    BY <1>4, <1>8, SumChanges DEF FinitelyMany
  <1>12. BytesSaved' - BytesSaved = (newSizes[At(c)] + newBuffers[c]) - (sizes[At(c)] + buffers[c])
    BY <1>5, <1>6, <1>9, <1>10, <1>11
  <1> QED BY <1>7, <1>9, <1>12 DEF Size

(* A download nobody has asked for has no progress.                        *)
FromNothing == info.state = "Absent" => info.last = 0
Counted == info'.last - info.last = BytesSaved' - BytesSaved

LEMMA IdleCounts ==
  ASSUME FinitelyMany, TransferInv, TransferInv', NEW c \in Connections,
         info'.last = info.last, saved' = saved,
         output' \in {output, [output EXCEPT ![c] = [output[c] EXCEPT !.open = TRUE]]}
  PROVE  Counted
PROOF
  <1>1. ClientTypes /\ output[c] \in Output /\ info.last \in Nat
    BY Types, OutputTypes DEF TransferInv, ClientTypes, Info
  <1>2. \A d \in Connections \ {c} : output'[d] = output[d]
    BY <1>1 DEF ClientTypes
  <1>3. Buffered(c)' = Buffered(c)
    BY <1>1 DEF ClientTypes, Output, Buffered
  <1>4. /\ Size(c) \in Int
        /\ BytesSaved' - BytesSaved = (saved'[At(c)].size + Buffered(c)') - Size(c)
    BY <1>2, BytesChange
  <1>5. saved'[At(c)].size + Buffered(c)' = Size(c)
    BY <1>3 DEF Size
  <1> QED BY <1>1, <1>4, <1>5 DEF Counted

(* Flushing moves bytes from the buffer to the file.                       *)
LEMMA FlushCounts ==
  ASSUME FinitelyMany, TransferInv, TransferInv', NEW c \in Connections,
         info'.last = info.last, saved' = FlushOutput(c), Buffered(c)' = 0,
         \A d \in Connections \ {c} : output'[d] = output[d]
  PROVE  Counted
PROOF
  <1>1. ClientTypes /\ ClientInv(c) /\ info.last \in Nat
    BY Types DEF TransferInv, ClientTypes, Info
  <1>2. saved'[At(c)].size = Size(c) /\ \A p \in Paths \ {At(c)} : saved'[p] = saved[p]
    BY <1>1, FlushFacts DEF ClientInv
  <1>3. /\ Size(c) \in Int
        /\ BytesSaved' - BytesSaved = (saved'[At(c)].size + Buffered(c)') - Size(c)
    BY <1>2, BytesChange
  <1> QED BY <1>1, <1>2, <1>3 DEF Counted

(* A chunk that is taken goes to the empty buffer or to the file.          *)
LEMMA ChunkCounts ==
  ASSUME FinitelyMany, TransferInv, TransferInv', NEW c \in Connections, OnFileChunk(c)
  PROVE  Counted
PROOF
  <1> DEFINE m == NextMessage(c)
  <1>1. ClientTypes /\ info \in Info /\ info.last \in Nat
    BY Types DEF TransferInv, ClientTypes, Info
  <1>2. Buffered(c) = 0 /\ m.from \in Nat /\ m.to \in Nat /\ m.from <= m.to
    <2>1. Buffered(c) = 0 /\ m.from \in Nat /\ m.to \in (m.from + 1)..FileSize
      BY ChunkFacts
    <2> HIDE DEF m
    <2> QED BY <2>1, ConstantTypes
  <1>3. CASE ~Expected(c)
    BY <1>3, ChunkFacts, IdleCounts
  <1>4. CASE Expected(c)
    <2>1. info' = [info EXCEPT !.last = @ + (m.to - m.from)]
      BY <1>4, ChunkFacts
    <2>2. \/ /\ saved' = saved
             /\ output' = [output EXCEPT ![c] = [output[c] EXCEPT !.from = m.from, !.to = m.to]]
          \/ /\ output' = output
             /\ saved' = [saved EXCEPT ![At(c)] = AppendRange(saved[At(c)], m.from, m.to)]
      BY <1>4, ChunkFacts
    <2> HIDE DEF m
    <2>3. info'.last - info.last = m.to - m.from
      BY <1>1, <1>2, <2>1 DEF Info
    <2>4. /\ \A p \in Paths \ {At(c)} : saved'[p] = saved[p]
          /\ \A d \in Connections \ {c} : output'[d] = output[d]
      BY <1>1, <2>2 DEF ClientTypes
    <2>5. /\ Size(c) \in Int /\ saved'[At(c)].size \in Int /\ Buffered(c)' \in Int
          /\ BytesSaved' - BytesSaved = (saved'[At(c)].size + Buffered(c)') - Size(c)
      BY <2>4, BytesChange
    <2>6. (saved'[At(c)].size + Buffered(c)') - Size(c) = m.to - m.from
      <3>1. saved[At(c)].size \in Nat /\ Size(c) = saved[At(c)].size
            /\ saved[At(c)] \in File /\ At(c) \in Paths /\ output[c] \in Output
        BY <1>1, <1>2, OutputTypes DEF Size
      <3>2. CASE /\ saved' = saved
                 /\ output' = [output EXCEPT ![c] = [output[c] EXCEPT !.from = m.from, !.to = m.to]]
        <4>1. Buffered(c)' = m.to - m.from
          BY <1>1, <3>1, <3>2 DEF ClientTypes, Output, Buffered
        <4> QED BY <1>2, <3>1, <3>2, <4>1
      <3>3. CASE /\ output' = output
                 /\ saved' = [saved EXCEPT ![At(c)] = AppendRange(saved[At(c)], m.from, m.to)]
        <4>1. Buffered(c)' = 0
          BY <1>2, <3>3 DEF Buffered
        <4>2. saved'[At(c)].size = saved[At(c)].size + (m.to - m.from)
          <5>1. saved'[At(c)] = AppendRange(saved[At(c)], m.from, m.to)
            BY <1>1, <3>1, <3>3 DEF ClientTypes
          <5>2. Appended(AppendRange(saved[At(c)], m.from, m.to), saved[At(c)], m.from, m.to)
            BY <1>2, <3>1, AppendsRange
          <5> QED BY <5>1, <5>2 DEF Appended
        <4> QED BY <1>2, <3>1, <4>1, <4>2
      <3> QED BY <2>2, <3>2, <3>3
    <2> QED BY <2>3, <2>5, <2>6 DEF Counted
  <1> QED BY <1>3, <1>4

LEMMA CompleteCounts ==
  ASSUME FinitelyMany, TransferInv, TransferInv', NEW c \in Connections, OnTransferComplete(c)
  PROVE  Counted
PROOF
  <1> DEFINE empty == [output[c] EXCEPT !.from = 0, !.to = 0]
  <1>1. ClientTypes /\ info \in Info /\ output[c] \in Output
    BY Types, OutputTypes DEF TransferInv, ClientTypes
  <1>2. CASE info.state # "Active"
    BY <1>2, CompleteFacts, IdleCounts
  <1>3. CASE info.state = "Active"
    <2>1. /\ saved' = FlushOutput(c) /\ output' = [output EXCEPT ![c] = empty]
          /\ info' \in {info, [info EXCEPT !.state = "Finish", !.forDelete = TRUE]}
      BY <1>3, CompleteFacts
    <2>2. info'.last = info.last
      BY <1>1, <2>1 DEF Info
    <2>3. empty.from = 0 /\ empty.to = 0
      BY <1>1 DEF Output
    <2> HIDE DEF empty
    <2>4. Buffered(c)' = 0 /\ \A d \in Connections \ {c} : output'[d] = output[d]
      BY <1>1, <2>1, <2>3 DEF ClientTypes, Buffered
    <2> QED BY <2>1, <2>2, <2>4, FlushCounts
  <1> QED BY <1>2, <1>3

LEMMA LosingCounts ==
  ASSUME FinitelyMany, TransferInv, TransferInv', NEW c \in Connections, ClientLosesServer(c)
  PROVE  Counted
PROOF
  <1> DEFINE closed == [output[c] EXCEPT !.open = FALSE, !.from = 0, !.to = 0]
  <1>1. ClientTypes /\ output[c] \in Output
    BY Types, OutputTypes DEF TransferInv
  <1>2. saved' = FlushOutput(c) /\ output' = [output EXCEPT ![c] = closed] /\ info' = info
    BY <1>1 DEF ClientLosesServer, ClientTypes
  <1>3. closed.from = 0 /\ closed.to = 0
    BY <1>1 DEF Output
  <1> HIDE DEF closed
  <1>4. Buffered(c)' = 0 /\ \A d \in Connections \ {c} : output'[d] = output[d]
    BY <1>1, <1>2, <1>3 DEF ClientTypes, Buffered
  <1> QED BY <1>2, <1>4, FlushCounts

LEMMA NextCounts ==
  ASSUME FinitelyMany, TransferInv, TransferInv', FromNothing, Next
  PROVE  Counted /\ FromNothing'
PROOF
  <1>1. ClientTypes /\ info \in Info
    BY Types DEF TransferInv, ClientTypes
  <1>2. ASSUME NEW c \in Connections,
               \/ ServerAccepts(c) \/ ServerAnswers(c) \/ ServerWorks(c) \/ ServerLosesClient(c)
               \/ ConnectFailed(c) \/ LoseLink(c)
        PROVE  Counted /\ FromNothing'
    <2>1. info' = info /\ saved' = saved /\ output' = output
      BY <1>2 DEF ServerAccepts, ServerAnswers, ServerWorks, ServerLosesClient, ConnectFailed,
                  LoseLink, clientVars
    <2> QED BY <2>1, IdleCounts DEF FromNothing
  <1>3. ASSUME NEW c \in Connections, GetFile(c) PROVE Counted /\ FromNothing'
    <2>1. saved' = saved /\ output' = output /\ info'.last = info.last /\ FromNothing'
      BY <1>1, <1>3 DEF GetFile, FromNothing
    <2> QED BY <2>1, IdleCounts
  <1>4. ASSUME NEW c \in Connections, Connected(c) PROVE Counted /\ FromNothing'
    <2>1. /\ saved' = saved /\ output' = output
          /\ info'.last = info.last /\ info'.state = "Active"
      BY <1>1, <1>4 DEF Connected, Info
    <2> QED BY <2>1, IdleCounts DEF FromNothing
  <1>5. ASSUME NEW c \in Connections, ClientLosesServer(c) PROVE Counted /\ FromNothing'
    <2>1. info' = info
      BY <1>5 DEF ClientLosesServer
    <2> QED BY <1>5, <2>1, LosingCounts DEF FromNothing
  <1>6. ASSUME NEW c \in Connections, OnResponseOk(c) \/ OnResponseError(c)
        PROVE  Counted /\ FromNothing'
    <2>1. /\ saved' = saved
          /\ output' \in {output, [output EXCEPT ![c] = [output[c] EXCEPT !.open = TRUE]]}
          /\ info'.state \in {"Active", "Error"}
      BY <1>6, ResponseFacts
    <2>2. info'.last = info.last
      BY <1>1, <1>6 DEF OnResponseOk, OnResponseError, Info
    <2> QED BY <2>1, <2>2, IdleCounts DEF FromNothing
  <1>7. ASSUME NEW c \in Connections, OnFileChunk(c) PROVE Counted /\ FromNothing'
    <2>1. Expected(c) \/ info' = info
      BY <1>7, ChunkFacts
    <2>2. Expected(c) => info'.state = "Active"
      BY <1>1, <1>7, ChunkFacts DEF Expected, Info
    <2> QED BY <1>7, <2>1, <2>2, ChunkCounts DEF FromNothing
  <1>8. ASSUME NEW c \in Connections, OnTransferComplete(c) PROVE Counted /\ FromNothing'
    <2>1. info' \in {info, [info EXCEPT !.state = "Finish", !.forDelete = TRUE]}
      BY <1>8, CompleteFacts
    <2> QED BY <1>1, <1>8, <2>1, CompleteCounts DEF FromNothing, Info
  <1> QED BY <1>2, <1>3, <1>4, <1>5, <1>6, <1>7, <1>8 DEF Next, Receive

(* What the progress of a download gains, its save files and the buffers   *)
(* before them gain, byte for byte, in every step: of any number of        *)
(* transports, that may save to one path or to several, over whatever was  *)
(* there.                                                                  *)
THEOREM ProgressCountsBytes == ASSUME OffsetsFit, FinitelyMany PROVE Spec => ProgressIsSaved
PROOF
  <1>1. Init => FromNothing
    <2> DEFINE Empty(i) == i.state = "Absent" => i.last = 0
    <2>1. \A i \in [state : {"Absent"}, last : {0}, size : {0}, path : Paths, forDelete : {FALSE}]
            \cup [state : {"Pause"}, last : Resumes, size : {FileSize}, path : Paths,
                  forDelete : {FALSE}] : Empty(i)
      OBVIOUS
    <2>2. Init => Empty(info)
      BY <2>1 DEF Init
    <2> QED BY <2>2 DEF FromNothing
  <1>2. TransferInv /\ FromNothing /\ [Next]_vars => (TransferInv /\ FromNothing)'
    <2>1. UNCHANGED vars /\ FromNothing => FromNothing'
      BY DEF vars, clientVars, FromNothing
    <2> QED BY <2>1, NextCounts, NextKeepsTransferInv
  <1>3. TransferInv /\ FromNothing /\ [Next]_vars
        => [info'.last - info.last = BytesSaved' - BytesSaved]_vars
    BY NextCounts, NextKeepsTransferInv DEF Counted
  <1> QED BY <1>1, <1>2, <1>3, Starts, PTL DEF Spec, ProgressIsSaved
=============================================================================
