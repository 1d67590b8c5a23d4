--------------------------- MODULE MessageChannel ---------------------------
(***************************************************************************)
(* What the two ends of a transport connection rely on: messages that were *)
(* sent while the link was up arrive whole, once and in order, several at a*)
(* time perhaps, and all of them as long as the link stays up.             *)
(***************************************************************************)
EXTENDS Naturals, Sequences

CONSTANTS Messages  \* what may be sent

VARIABLES
  open,      \* the link is up
  sent,      \* the messages sent
  delivered  \* the messages that have arrived

channelVars == <<open, sent, delivered>>

ChannelInit == open = TRUE /\ sent = <<>> /\ delivered = <<>>

Send(m) ==
  /\ open
  /\ sent' = Append(sent, m)
  /\ UNCHANGED <<open, delivered>>

Deliver ==
  /\ \E k \in (Len(delivered) + 1)..Len(sent) : delivered' = SubSeq(sent, 1, k)
  /\ UNCHANGED <<open, sent>>

Close ==
  /\ open' = FALSE
  /\ UNCHANGED <<sent, delivered>>

ChannelNext == (\E m \in Messages : Send(m)) \/ Deliver \/ Close

ChannelSafety == ChannelInit /\ [][ChannelNext]_channelVars
ChannelFairness == WF_channelVars(open /\ Deliver)
ChannelSpec == ChannelSafety /\ ChannelFairness
=============================================================================
