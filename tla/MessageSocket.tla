--------------------------- MODULE MessageSocket ---------------------------
(***************************************************************************)
(* One direction of a transport connection: the MessageSocket of the sender*)
(* puts the size of a message before it, and that of the receiver finds the*)
(* messages again in bytes that arrive in any pieces.                      *)
(*                                                                         *)
(* Bytes are digits, HeaderSize of which make a size, the most significant *)
(* first.  When the link is lost, what was under way arrives in part.      *)
(***************************************************************************)
EXTENDS Integers, Sequences

CONSTANTS Base,        \* the values of a byte
          HeaderSize,  \* constants::kTransportHeaderSize
          Messages,    \* what may be sent
          MaxSent      \* bound on the messages sent

Bytes == 0..(Base - 1)
Weight[i \in 0..HeaderSize] == IF i = 0 THEN 1 ELSE Base * Weight[i - 1]
ASSUME BytesAssumption == Base \in Nat /\ Base > 1 /\ HeaderSize \in Nat \ {0}

(* A message with its header is shorter than an int can tell: the longest  *)
(* the program sends is a chunk of 65,536 bytes behind a byte of status.   *)
IntRange == Weight[HeaderSize] \div 2
ASSUME MessagesAssumption ==
  Messages \subseteq {m \in Seq(Bytes) : HeaderSize + Len(m) < IntRange}
ASSUME SentAssumption == MaxSent \in Nat

VARIABLES
  open,      \* the sender's socket is in ConnectedState
  wire,      \* bytes under way
  buffer,    \* m_buffer of the receiver
  sent,      \* history: the messages sent
  delivered  \* the messages messageReceived was emitted for

socketVars == <<open, wire, buffer, sent, delivered>>

SocketInit ==
  /\ open = TRUE
  /\ wire = <<>> /\ buffer = <<>>
  /\ sent = <<>> /\ delivered = <<>>

----------------------------------------------------------------------------
(* A quint32 in a QDataStream.                                             *)
Header(n) == [i \in 1..HeaderSize |-> (n \div Weight[HeaderSize - i]) % Base]
MessageSize(bytes) ==
  LET value[i \in 0..HeaderSize] == IF i = 0 THEN 0 ELSE value[i - 1] * Base + bytes[i]
  IN value[HeaderSize]

(* sendMessage, which does nothing on a socket that is not connected.      *)
SendMessage(m) ==
  /\ open
  /\ Len(sent) < MaxSent
  /\ wire' = wire \o Header(Len(m)) \o m
  /\ sent' = Append(sent, m)
  /\ UNCHANGED <<open, buffer, delivered>>

(* The size as an int: from half the range on it is negative, and a buffer *)
(* with such a size is taken as if the message had arrived.                *)
SizeAsInt(bytes) ==
  ((MessageSize(bytes) + IntRange) % Weight[HeaderSize]) - IntRange

WaitForMore(bytes) ==                                              \* mutant
  Len(bytes) >= HeaderSize /\ Len(bytes) > HeaderSize + SizeAsInt(bytes)
HasMessage(bytes) ==
  Len(bytes) >= HeaderSize /\ Len(bytes) >= HeaderSize + SizeAsInt(bytes)

(* mid, which ends with the buffer at the latest, and remove, whose length *)
(* is a sum of quint32.                                                    *)
Message(bytes) ==
  LET end == HeaderSize + MessageSize(bytes)
  IN SubSeq(bytes, HeaderSize + 1, IF end < Len(bytes) THEN end ELSE Len(bytes))
HeaderStays(bytes) ==                                              \* mutant
  SubSeq(bytes, MessageSize(bytes) + 1, Len(bytes))
Rest(bytes) ==
  SubSeq(bytes, ((HeaderSize + MessageSize(bytes)) % Weight[HeaderSize]) + 1, Len(bytes))

(* tryExtractMessages: one turn of the loop, which goes on while the buffer*)
(* has a whole message, and so for as many turns as it has headers at most.*)
ExtractOne(found) ==
  LET bytes == found.rest
  IN IF ~HasMessage(bytes) THEN found
     ELSE [messages |-> Append(found.messages, Message(bytes)), rest |-> Rest(bytes)]

OnlyOne(bytes) == ExtractOne([messages |-> <<>>, rest |-> bytes])  \* mutant
TryExtractMessages(bytes) ==
  LET turns == Len(bytes) \div HeaderSize
      after[turn \in 0..turns] ==
        IF turn = 0 THEN [messages |-> <<>>, rest |-> bytes] ELSE ExtractOne(after[turn - 1])
  IN after[turns]

(* onReadyRead: some of the bytes have arrived.                            *)
OnReadyRead ==
  /\ \E n \in 1..Len(wire) :
       LET found == TryExtractMessages(buffer \o SubSeq(wire, 1, n))
       IN /\ wire' = SubSeq(wire, n + 1, Len(wire))
          /\ buffer' = found.rest
          /\ delivered' = delivered \o found.messages
  /\ UNCHANGED <<open, sent>>

(* The link is lost.  Bytes that had arrived are read before the socket is *)
(* disconnected.                                                           *)
LoseLink ==
  /\ open
  /\ open' = FALSE
  /\ \E n \in 0..Len(wire) : wire' = SubSeq(wire, 1, n)
  /\ UNCHANGED <<buffer, sent, delivered>>

SocketNext == (\E m \in Messages : SendMessage(m)) \/ OnReadyRead \/ LoseLink

(* TCP brings the bytes of a link that stays up, and the event loop reads  *)
(* what has come.                                                          *)
SocketSpec == SocketInit /\ [][SocketNext]_socketVars /\ WF_socketVars(OnReadyRead)

----------------------------------------------------------------------------
(* Type invariant.                                                         *)
TypeOK ==
  /\ open \in BOOLEAN
  /\ wire \in Seq(Bytes) /\ buffer \in Seq(Bytes)
  /\ sent \in Seq(Messages) /\ delivered \in Seq(Messages)

Channel == INSTANCE MessageChannel

(* However the bytes are cut into pieces, and wherever the link breaks, the*)
(* two sockets take the steps of a channel of whole messages in order.     *)
ImplementsChannel == Channel!ChannelSafety

(* They are as fair as the channel: while the link is up, nothing that was *)
(* sent stays behind for ever.                                             *)
ChannelIsFair == Channel!ChannelFairness

(* A message that has arrived whole is delivered with the bytes that       *)
(* complete it: none waits in the buffer for bytes of a later one.         *)
NoMessageWaits == ~HasMessage(buffer)
=============================================================================
