------------------------- MODULE ClientConnections -------------------------
(***************************************************************************)
(* The Client over its ClientConnectionManager.  It makes a messenger of   *)
(* the kind of the connection the first time one is chosen, and keeps it by*)
(* the connection's name for the rest of the session; the messenger keeps  *)
(* the pointer to the ConnectionInfo it was made for.                      *)
(*                                                                         *)
(* Whether a connection is a WebDAV connection is seen by its address.     *)
(* What the messengers do is in Messenger, Listing and WebDavListing.      *)
(***************************************************************************)
EXTENDS ConnectionManager

CONSTANTS WebDavAddresses  \* addresses of WebDAV servers

ASSUME WebDavAssumption == WebDavAddresses \subseteq Addresses

VARIABLES
  websocket,  \* m_websocketMessengers: by name, the ConnectionInfo of the messenger
  webDav,     \* m_webDavMessengers, likewise
  gone        \* history: names of connections removed in this session

clientVars == <<vars, websocket, webDav, gone>>

NoMessengers == [k \in Names |-> NoConnection]

ClientInit ==
  /\ Init
  /\ websocket = NoMessengers /\ webDav = NoMessengers
  /\ gone = {}

IsWebDav(o) == info[o].address \in WebDavAddresses

(* The messenger by the connection's name, made if there is none.          *)
WithMessenger(messengers, o) ==
  [messengers EXCEPT ![info[o].name] = IF @ = NoConnection THEN o ELSE @]

StaleActive(o) ==                                                  \* mutant
  websocket' = [websocket EXCEPT ![info[o].name] = active] /\ UNCHANGED webDav
(* connectToServer and setConnectionPreferences, by kind.                  *)
ConnectToServer(o) ==
  IF IsWebDav(o)
  THEN webDav' = WithMessenger(webDav, o) /\ UNCHANGED websocket
  ELSE websocket' = WithMessenger(websocket, o) /\ UNCHANGED webDav

(* setActiveConnection, which connects unless there is a websocket         *)
(* messenger of that name: a WebDAV messenger connects again each time.    *)
ClientSetActiveConnection(r) ==
  /\ SetActiveConnection(r)
  /\ IF websocket[info[list[r]].name] = NoConnection
     THEN ConnectToServer(list[r])
     ELSE UNCHANGED <<websocket, webDav>>
  /\ UNCHANGED gone

(* The list changes under the messengers.                                  *)
ClientDeleteConnection(a, r) ==
  /\ DeleteConnection(a, r)
  /\ gone' = gone \cup {info[list[r]].name}
  /\ UNCHANGED <<websocket, webDav>>

ListChanges ==
  /\ \/ Load \/ LoadRefused
     \/ \E name \in Names, address \in Addresses \ WebDavAddresses :
          AddConnection(name, address)
     \/ \E name \in Names, address \in WebDavAddresses : AddWebDavConnection(name, address)
     \/ \E r \in DOMAIN list, address \in Addresses :
          /\ address \in WebDavAddresses <=> IsWebDav(list[r])
          /\ UpdateConnection(r, address)
     \/ \E o \in Objects : RunDelete(o)
  /\ UNCHANGED <<websocket, webDav, gone>>

(* A messenger reports the ConnectionInfo it points to.  What it does with *)
(* one that is deleted is undefined, and left out.                         *)
ClientUpdateConnection ==
  /\ \E k \in Names, o \in Objects : o \in {websocket[k], webDav[k]} /\ MessengerReports(o)
  /\ UNCHANGED <<websocket, webDav, gone>>

ClientEnd ==
  /\ End
  /\ websocket' = NoMessengers /\ webDav' = NoMessengers
  /\ gone' = {}

ClientNext ==
  \/ ListChanges \/ ClientUpdateConnection \/ ClientEnd
  \/ \E r \in Objects :
       \/ ClientSetActiveConnection(r)
       \/ \E a \in Objects \cup {NoRow} : ClientDeleteConnection(a, r)

ClientSpec == ClientInit /\ [][ClientNext]_clientVars

----------------------------------------------------------------------------
(* As long as no connection of its name has been removed and no second one*)
(* given it, a connection's messenger, looked up by name among those of its*)
(* kind, is its own, and the active connection has one: nothing is asked of*)
(* another host, and no choice of the user is left without an answer.  A   *)
(* pointer to a deleted connection may be that of a new one by now.        *)
MessengersFit ==
  \A r \in DOMAIN list :
    LET o == list[r]
        own == IF IsWebDav(o) THEN webDav[info[o].name] ELSE websocket[info[o].name]
    IN info[o].name \notin gone \cup shared
         => /\ own \in {NoConnection, o}
            /\ o = active /\ ~dangling => own = o
=============================================================================
