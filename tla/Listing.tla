------------------------------ MODULE Listing ------------------------------
(***************************************************************************)
(* Browsing the directories of several hosts: Client, which talks to the   *)
(* active one, a ClientWebSocketMessenger for each host, the               *)
(* ServerWebSocketMessenger of that host, and the one DirectoryManager all *)
(* messengers write to.                                                    *)
(*                                                                         *)
(* A connection is known by its host.  Requests are numbered as they are   *)
(* made; an answer and the FileInfos made of it have its request's number. *)
(* Pings are in Messenger.  That a messenger connects its slots again with *)
(* every connection is left out: updateDirectory with one answer twice does*)
(* what it does once.                                                      *)
(***************************************************************************)
EXTENDS Integers, Sequences

CONSTANTS Hosts,        \* the saved connections
          Paths,        \* the directories asked for
          LongPaths,    \* those whose request is over 1,024 characters long
          Directories,  \* Directories[h]: the paths h has, and not empty
          MaxRequests   \* bound on the requests

ASSUME PathsAssumption == LongPaths \subseteq Paths /\ Directories \in [Hosts -> SUBSET Paths]
ASSUME RequestsAssumption == MaxRequests \in Nat

NoHost == "no host"
NoRequest == 0
Requests == 1..MaxRequests
ASSUME HostsAssumption == NoHost \notin Hosts

VARIABLES
  active,    \* m_activeConnection
  socket,    \* socket[h]: state of the m_socket of h's messenger, if there is one
  listens,   \* listens[h]: the server of h runs
  accepted,  \* accepted[h]: the client's socket is in the m_clients of h
  asked,     \* the requests made so far, with host and path
  toServer,  \* toServer[h]: requests under way to h
  toClient,  \* toClient[h]: answers under way from h
  cache,     \* m_cachedDirectories: whose FileInfos are owned for a path
  shown,     \* m_activeDirectory: whose FileInfos it points to
  late,      \* history: requests under way when the user chose a host
  before     \* history: the number of requests made until then

client == <<active, cache, shown, late, before>>
vars == <<socket, listens, accepted, asked, toServer, toClient, client>>

Init ==
  /\ active = NoHost
  /\ socket = [h \in Hosts |-> "absent"]
  /\ listens = [h \in Hosts |-> FALSE]
  /\ accepted = [h \in Hosts |-> FALSE]
  /\ asked = <<>>
  /\ toServer = [h \in Hosts |-> <<>>]
  /\ toClient = [h \in Hosts |-> <<>>]
  /\ cache = [p \in Paths |-> NoRequest]
  /\ shown = {}
  /\ late = {} /\ before = 0

UnderWay(h) ==
  {n \in Requests : \/ \E i \in DOMAIN toServer[h] : toServer[h][i] = n
                    \/ \E i \in DOMAIN toClient[h] : toClient[h][i].request = n}

KeepList(h) ==                                                     \* mutant
  /\ active' = h
  /\ socket' = [socket EXCEPT ![h] = IF @ = "absent" THEN "connecting" ELSE @]
  /\ late' = UNION {UnderWay(g) : g \in Hosts}
  /\ before' = Len(asked)
  /\ UNCHANGED <<listens, accepted, asked, toServer, toClient, cache, shown>>

(* setActiveConnection, whose signal clears the active directory.  The     *)
(* first time a messenger is made, which connects.                         *)
SetActiveConnection(h) ==
  /\ active' = h
  /\ socket' = [socket EXCEPT ![h] = IF @ = "absent" THEN "connecting" ELSE @]
  /\ shown' = {}
  /\ late' = UNION {UnderWay(g) : g \in Hosts}
  /\ before' = Len(asked)
  /\ UNCHANGED <<listens, accepted, asked, toServer, toClient, cache>>

(* connectToServer and disconnectFromServer, for the active host.          *)
ConnectToServer ==
  /\ active # NoHost
  /\ socket[active] = "unconnected"
  /\ socket' = [socket EXCEPT ![active] = "connecting"]
  /\ UNCHANGED <<listens, accepted, asked, toServer, toClient, client>>

DisconnectFromServer ==
  /\ active # NoHost
  /\ socket[active] = "connected"
  /\ socket' = [socket EXCEPT ![active] = "closing"]
  /\ UNCHANGED <<listens, accepted, asked, toServer, toClient, client>>

(* The connection is made, and the server's onNewConnection takes it.      *)
OnNewConnection(h) ==
  /\ socket[h] = "connecting"
  /\ listens[h]
  /\ socket' = [socket EXCEPT ![h] = "connected"]
  /\ accepted' = [accepted EXCEPT ![h] = TRUE]
  /\ UNCHANGED <<listens, asked, toServer, toClient, client>>

(* It could not be made, is lost, or has been closed by either side: both  *)
(* see it disconnected, and what was under way is gone.                    *)
OnDisconnected(h) ==
  /\ socket[h] \in {"connecting", "connected", "closing"}
  /\ socket' = [socket EXCEPT ![h] = "unconnected"]
  /\ accepted' = [accepted EXCEPT ![h] = FALSE]
  /\ toServer' = [toServer EXCEPT ![h] = <<>>]
  /\ toClient' = [toClient EXCEPT ![h] = <<>>]
  /\ UNCHANGED <<listens, asked, client>>

(* getNetworkDirectory, which does nothing without a connection.           *)
GetNetworkDirectory(p) ==
  /\ active # NoHost
  /\ socket[active] = "connected"
  /\ Len(asked) < MaxRequests
  /\ asked' = Append(asked, [host |-> active, path |-> p])
  /\ toServer' = [toServer EXCEPT ![active] = Append(@, Len(asked) + 1)]
  /\ UNCHANGED <<socket, listens, accepted, toClient, client>>

(* start and stop of the server.  A stopped one answers nothing more, but  *)
(* answers on their way still arrive.                                      *)
ServerStarts(h) ==
  /\ ~listens[h]
  /\ listens' = [listens EXCEPT ![h] = TRUE]
  /\ UNCHANGED <<socket, accepted, asked, toServer, toClient, client>>

ServerStops(h) ==
  /\ listens[h]
  /\ listens' = [listens EXCEPT ![h] = FALSE]
  /\ accepted' = [accepted EXCEPT ![h] = FALSE]
  /\ UNCHANGED <<socket, asked, toServer, toClient, client>>

(* processRequest: there is no answer to a request that is too long, and an*)
(* error for a directory that does not exist or is empty.                  *)
Answer(n) == [request |-> n, error |-> asked[n].path \notin Directories[asked[n].host]]
SendResponse(h, n) ==
  toClient' = IF asked[n].path \in LongPaths THEN toClient
              ELSE [toClient EXCEPT ![h] = Append(@, Answer(n))]

NewestFirst(h) ==                                                  \* mutant
  /\ accepted[h]
  /\ toServer[h] # <<>>
  /\ SendResponse(h, toServer[h][Len(toServer[h])])
  /\ toServer' = [toServer EXCEPT ![h] = SubSeq(@, 1, Len(@) - 1)]
  /\ UNCHANGED <<socket, listens, accepted, asked, client>>

(* The server's onTextMessageReceived.                                     *)
ProcessRequest(h) ==
  /\ accepted[h]
  /\ toServer[h] # <<>>
  /\ SendResponse(h, Head(toServer[h]))
  /\ toServer' = [toServer EXCEPT ![h] = Tail(@)]
  /\ UNCHANGED <<socket, listens, accepted, asked, client>>

AddToShown(n) ==                                                   \* mutant
  /\ cache' = [cache EXCEPT ![asked[n].path] = n]
  /\ shown' = shown \cup {n}
ClearLast(n) ==                                                    \* mutant
  /\ cache' = [cache EXCEPT ![asked[n].path] = n]
  /\ shown' = {}

(* updateDirectory: the FileInfos the path had before are deleted.         *)
UpdateDirectory(n) ==
  /\ cache' = [cache EXCEPT ![asked[n].path] = n]
  /\ shown' = {n}

(* The client's onTextMessageReceived, whichever host is active.           *)
OnTextMessageReceived(h) ==
  /\ toClient[h] # <<>>
  /\ toClient' = [toClient EXCEPT ![h] = Tail(@)]
  /\ IF Head(toClient[h]).error THEN UNCHANGED <<cache, shown>>
     ELSE UpdateDirectory(Head(toClient[h]).request)
  /\ UNCHANGED <<active, socket, listens, accepted, asked, toServer, late, before>>

Next ==
  \/ ConnectToServer \/ DisconnectFromServer
  \/ \E p \in Paths : GetNetworkDirectory(p)
  \/ \E h \in Hosts :
       \/ SetActiveConnection(h) \/ OnNewConnection(h) \/ OnDisconnected(h)
       \/ ServerStarts(h) \/ ServerStops(h)
       \/ ProcessRequest(h) \/ OnTextMessageReceived(h)

(* Both event loops deliver what has arrived.                              *)
Fairness ==
  \A h \in Hosts : WF_vars(ProcessRequest(h)) /\ WF_vars(OnTextMessageReceived(h))

Spec == Init /\ [][Next]_vars /\ Fairness

----------------------------------------------------------------------------
(* The rows of the view are FileInfos that still exist, whichever answers  *)
(* of whichever hosts have replaced the cached directories since.          *)
EntriesAreLive == shown \subseteq {cache[p] : p \in Paths}

(* What the user sees, and picks files from for the active host, is of the *)
(* active host, unless it is an answer that came late: to a request that   *)
(* was under way when the user chose the host.                             *)
ListedIsOfActive == \A n \in shown : asked[n].host = active \/ n \in late

(* The list never goes back to an earlier request to the same host.        *)
NotBefore == \A m \in shown, n \in shown' : asked[m].host = asked[n].host => m <= n
ListingsInOrder == [][NotBefore]_vars

(* The directory asked for last is shown if the host has it, the request   *)
(* is not too long, and user and network leave things as they are; and then*)
(* it stays until the user asks for another or chooses a host, whatever    *)
(* becomes of the connection.  Only an answer of another host that comes   *)
(* late may take its place.                                                *)
MovedOn(n) == Len(asked) # n \/ n <= before
IsPending(n) ==
  /\ ~MovedOn(n)
  /\ n \in UnderWay(asked[n].host)
  /\ asked[n].path \in Directories[asked[n].host] \ LongPaths
  /\ accepted[asked[n].host]
Interrupted(n) == MovedOn(n) \/ ~accepted[asked[n].host]
IsReplaced(n) == \E m \in late : shown = {m} /\ asked[m].host # asked[n].host
Stays(n) == [](shown = {n} \/ MovedOn(n) \/ IsReplaced(n))
LastAskedIsShown ==
  \A n \in Requests : IsPending(n) ~> (Interrupted(n) \/ (shown = {n} /\ Stays(n)))
=============================================================================
