----------------------------- MODULE Messenger -----------------------------
(***************************************************************************)
(* The client's WebSocket messenger (client_websocket_messenger.cpp): how  *)
(* it connects, and how it finds out by pings that its peer is gone.  Every*)
(* ping starts a timer of its own that counts one missed pong when it runs *)
(* out; a pong sets the count to zero.                                     *)
(*                                                                         *)
(* Time passes in whole seconds, and only when no timer is due.            *)
(***************************************************************************)
EXTENDS Integers, Sequences

CONSTANTS PingInterval,   \* m_pingTimer's interval
          PongTimeout,    \* m_pongTimeout
          MaxDelay,       \* the longest a peer that answers takes to
          MaxConnects     \* bound on the calls of connectToServer

ASSUME PingIntervalAssumption == PingInterval \in Nat \ {0}
ASSUME PongTimeoutAssumption == PongTimeout \in 1..(PingInterval - 1)
ASSUME MaxDelayAssumption == MaxDelay \in 0..(PongTimeout - 1)
ASSUME MaxConnectsAssumption == MaxConnects \in Nat \ {0}

VARIABLES
  socket,    \* "unconnected", "connecting", "connected" or "closing"
  slots,     \* how often each signal of m_socket is connected
  state,     \* r_connectionInfo->m_connectionState: "Connected" or "Disconnected"
  pingTimer, \* seconds until m_pingTimer fires, or Off
  checks,    \* seconds until each single-shot timer fires, soonest first
  missed,    \* m_missedPongs; more than DeadAfter makes no difference
  pings,     \* age of each ping that is not answered yet, oldest first
  peer,      \* does the peer answer; a silent one is gone without a word
  silence    \* for how long the peer of the connected socket is silent;
             \* more than TooLong makes no difference

vars == <<socket, slots, state, pingTimer, checks, missed, pings, peer, silence>>

Off == -1
DeadAfter == 2
TooLong == PingInterval + PongTimeout + 1

Init ==
  /\ socket = "unconnected"
  /\ slots = 0
  /\ state = "Disconnected"
  /\ pingTimer = Off
  /\ checks = <<>>
  /\ missed = 0
  /\ pings = <<>>
  /\ peer = "answers"
  /\ silence = 0

Repeat(x, n) == [i \in 1..n |-> x]

(* connectToServer, from the constructor and later from the user.  Every   *)
(* call that gets through connects the signals once more.                  *)
ConnectToServer ==
  /\ socket = "unconnected"
  /\ slots < MaxConnects
  /\ socket' = "connecting"
  /\ slots' = slots + 1
  /\ UNCHANGED <<state, pingTimer, checks, missed, pings, peer, silence>>

NoTimer ==                                                         \* mutant
  /\ socket = "connecting"
  /\ socket' = "connected"
  /\ state' = "Connected"
  /\ pings' = Repeat(0, slots)
  /\ checks' = checks \o Repeat(PongTimeout, slots)
  /\ peer' = "answers"
  /\ silence' = 0
  /\ UNCHANGED <<slots, pingTimer, missed>>

(* onConnected, once for each connection of the signal: a ping at once, and*)
(* the timer for the next.                                                 *)
OnConnected ==
  /\ socket = "connecting"
  /\ socket' = "connected"
  /\ state' = "Connected"
  /\ pings' = Repeat(0, slots)
  /\ checks' = checks \o Repeat(PongTimeout, slots)
  /\ pingTimer' = PingInterval
  /\ peer' = "answers"
  /\ silence' = 0
  /\ UNCHANGED <<slots, missed>>

(* onDisconnected: the attempt failed, the peer closed the connection, or  *)
(* closing it has come to an end.  The single-shot timers keep running, and*)
(* the count of missed pongs stays.                                        *)
OnDisconnected ==
  /\ socket # "unconnected"
  /\ socket' = "unconnected"
  /\ state' = "Disconnected"
  /\ pingTimer' = Off
  /\ pings' = <<>>
  /\ silence' = 0
  /\ UNCHANGED <<slots, checks, missed, peer>>

(* disconnectFromServer.                                                   *)
DisconnectFromServer ==
  /\ socket = "connected"
  /\ socket' = "closing"
  /\ UNCHANGED <<slots, state, pingTimer, checks, missed, pings, peer, silence>>

(* sendPing, when m_pingTimer fires.                                       *)
SendPing ==
  /\ pingTimer = 0
  /\ pingTimer' = PingInterval
  /\ IF socket = "connected"
     THEN /\ pings' = Append(pings, 0)
          /\ checks' = Append(checks, PongTimeout)
     ELSE UNCHANGED <<pings, checks>>
  /\ UNCHANGED <<socket, slots, state, missed, peer, silence>>

MissedAgain == IF missed < DeadAfter THEN missed + 1 ELSE missed

ForgetMissed ==                                                    \* mutant
  /\ checks # <<>>
  /\ Head(checks) = 0
  /\ checks' = Tail(checks)
  /\ missed' = IF pings = <<>> THEN missed ELSE 1
  /\ UNCHANGED <<socket, slots, state, pingTimer, pings, peer, silence>>

(* The single-shot timer of a ping.  It asks neither whether the pong came *)
(* nor whether the connection is still the one of the ping.                *)
CountMissedPong ==
  /\ checks # <<>>
  /\ Head(checks) = 0
  /\ checks' = Tail(checks)
  /\ missed' = MissedAgain
  /\ socket' = IF missed' >= DeadAfter /\ socket \in {"connecting", "connected"}
               THEN "closing" ELSE socket
  /\ UNCHANGED <<slots, state, pingTimer, pings, peer, silence>>

KeepMissed ==                                                      \* mutant
  /\ socket = "connected"
  /\ peer = "answers"
  /\ pings # <<>>
  /\ pings' = Tail(pings)
  /\ UNCHANGED <<socket, slots, state, pingTimer, checks, missed, peer, silence>>

(* onPong.                                                                 *)
OnPong ==
  /\ socket = "connected"
  /\ peer = "answers"
  /\ pings # <<>>
  /\ pings' = Tail(pings)
  /\ missed' = 0
  /\ UNCHANGED <<socket, slots, state, pingTimer, checks, peer, silence>>

(* The peer or the network is gone, and nobody closes the connection.      *)
PeerGoesSilent ==
  /\ socket = "connected"
  /\ peer = "answers"
  /\ peer' = "silent"
  /\ UNCHANGED <<socket, slots, state, pingTimer, checks, missed, pings, silence>>

(* A second passes: no timer is due, no answer overdue.  A ping that will  *)
(* not be answered any more is of no interest.                             *)
Tick ==
  /\ pingTimer # 0
  /\ checks # <<>> => Head(checks) > 0
  /\ socket = "connected" /\ peer = "answers" /\ pings # <<>> => Head(pings) < MaxDelay
  /\ pingTimer' = IF pingTimer = Off THEN Off ELSE pingTimer - 1
  /\ checks' = [i \in DOMAIN checks |-> checks[i] - 1]
  /\ pings' = IF socket = "connected" /\ peer = "answers"
              THEN [i \in DOMAIN pings |-> pings[i] + 1] ELSE <<>>
  /\ silence' = IF socket = "connected" /\ peer = "silent" /\ silence < TooLong
                THEN silence + 1 ELSE silence
  /\ UNCHANGED <<socket, slots, state, missed, peer>>

Next ==
  \/ ConnectToServer \/ OnConnected \/ OnDisconnected \/ DisconnectFromServer
  \/ SendPing \/ CountMissedPong \/ OnPong
  \/ PeerGoesSilent \/ Tick

(* Time passes, timers fire when they are due, and closing ends.           *)
Fairness ==
  /\ WF_vars(Tick)
  /\ WF_vars(SendPing)
  /\ WF_vars(CountMissedPong)
  /\ WF_vars(OnPong)
  /\ WF_vars(socket = "closing" /\ OnDisconnected)

Spec == Init /\ [][Next]_vars /\ Fairness

----------------------------------------------------------------------------
(* A connection to a silent peer is given up one ping and one timeout after*)
(* the last pong could have come, however the pings, the pongs under way   *)
(* and the timers of earlier connections lie to each other.                *)
SilenceBounded == socket = "connected" => silence < TooLong

(* The user sees a silent peer disconnected in the end.                    *)
SilenceIsNoticed ==
  socket = "connected" /\ peer = "silent" ~> state = "Disconnected"

(* A connection is given up only when its peer is silent, however late the *)
(* pongs come, as long as they come in time: on the first connection.      *)
GivesUp == CountMissedPong /\ socket = "connected" /\ socket' = "closing"
FirstIsClosedWhenDead == [][GivesUp /\ slots = 1 => peer = "silent"]_vars

=============================================================================
