--------------------------- MODULE WebDavListing ---------------------------
(***************************************************************************)
(* Browsing a WebDAV server: the ClientWebDAV of a connection, its         *)
(* WebdavDirParser, which lists one directory at a time, and its           *)
(* ClientWebDAVProtocol, which owns the HTTP replies of listings and of    *)
(* pings and answers the server's challenges.                              *)
(*                                                                         *)
(* A reply is known by its address, which a later reply may get when the   *)
(* earlier one is deleted.  MultiStatus has the parsing of a listing.  The *)
(* ping timers only write to the log.                                      *)
(***************************************************************************)
EXTENDS MultiStatus

CONSTANTS Paths,     \* the directories asked for; their paths end in "/"
          MaxGets    \* bound on the pings whose replies exist

ASSUME GetsAssumption == MaxGets \in Nat

(* Two listings exist at most: one that is being made while the one before *)
(* it is being deleted.                                                    *)
Replies == 1..(MaxGets + 2)
NoReply == 0
NoPath == "no path"
NoListing == <<>>
ASSUME NoPathAssumption == NoPath \notin Paths

VARIABLES
  reply,      \* reply[r]: the QNetworkReply at address r
  device,     \* device[r]: m_outDataDevices has a device for r
  current,    \* m_reply of the parser
  busy,       \* m_busy
  items,      \* m_dirList
  path,       \* m_path of ClientWebDAV
  shown,      \* m_activeDirectory: its items and the path they are cached for; history:
              \* the path was asked for while a listing was under way, the answer was whole
  lastReply,  \* m_authenticator_lastReply
  posted,     \* posted events, in order
  overtaken   \* history: path was asked for while a listing was under way

vars == <<reply, device, current, busy, items, path, shown, lastReply, posted, overtaken>>

Unused == [kind |-> "none", life |-> "unused", path |-> NoPath, unread |-> FALSE]
Running(kind, p) == [kind |-> kind, life |-> "running", path |-> p, unread |-> FALSE]
Event(kind, r) == [kind |-> kind, reply |-> r]

Init ==
  /\ reply = [r \in Replies |-> Unused]
  /\ device = [r \in Replies |-> FALSE]
  /\ current = NoReply
  /\ busy = FALSE
  /\ items = NoListing
  /\ path = NoPath
  /\ shown = [key |-> NoPath, items |-> NoListing, overtaken |-> FALSE, whole |-> FALSE]
  /\ lastReply = NoReply
  /\ posted = <<>>
  /\ overtaken = FALSE

ListDirectory(p) ==
  \E r \in Replies :
    /\ reply[r].life = "unused"
    /\ reply' = [reply EXCEPT ![r] = Running("list", p)]
    /\ device' = [device EXCEPT ![r] = TRUE]
    /\ current' = r
    /\ busy' = TRUE
    /\ items' = NoListing

AcceptsAlways == TRUE                                              \* mutant
Accepts == ~busy /\ current = NoReply

(* getNetworkDirectory notes the path before the parser refuses.           *)
GetNetworkDirectory(p) ==
  /\ path' = p
  /\ overtaken' = (current # NoReply)
  /\ IF Accepts THEN ListDirectory(p)
     ELSE UNCHANGED <<reply, device, current, busy, items>>
  /\ UNCHANGED <<shown, lastReply, posted>>

(* connectToServer and sendPing; their replies are never deleted.          *)
Get ==
  /\ Cardinality({r \in Replies : reply[r].kind = "get"}) < MaxGets
  /\ \E r \in Replies :
       /\ reply[r].life = "unused"
       /\ reply' = [reply EXCEPT ![r] = Running("get", NoPath)]
  /\ UNCHANGED <<device, current, busy, items, path, shown, lastReply, posted, overtaken>>

(* The slots of finished(): the protocol's replyFinished; then replyFinished*)
(* of the parser for a listing, with onDirectoryReceived, whatever the     *)
(* reply says.  The body of an error is not read.                          *)
Finish(r, document, whole, unread) ==
  /\ reply' = [reply EXCEPT ![r].life = "finished", ![r].unread = unread]
  /\ IF current # r THEN UNCHANGED <<current, items, shown>>
     ELSE /\ items' = ParseMultiResponse(reply[r].path, items, document)
          /\ shown' = [key |-> path, items |-> items', overtaken |-> overtaken, whole |-> whole]
          /\ current' = NoReply
  /\ UNCHANGED <<device, path, overtaken>>

(* Content that is not XML is not parsed.                                  *)
NotXml == <<>>

PostFinished(r) ==
  IF reply[r].kind = "list"
  THEN <<Event("deleteDevice", r), Event("replyDeleteLater", r)>>
  ELSE <<Event("deleteDevice", r)>>

ReplyFinished(r, document, whole, unread) ==
  /\ Finish(r, document, whole, unread)
  /\ posted' = posted \o PostFinished(r)
  /\ UNCHANGED <<busy, lastReply>>

(* The reply ends: with a listing in the server's style, with a faulty one,*)
(* with something that is not XML, or with an error.                       *)
ReplyEnds(r) ==
  /\ reply[r].life = "running"
  /\ \/ \E style \in Styles : ReplyFinished(r, Document(style), TRUE, FALSE)
     \/ \E document \in FaultyDocuments : ReplyFinished(r, document, FALSE, FALSE)
     \/ \E unread \in BOOLEAN : ReplyFinished(r, NotXml, FALSE, unread)

DeleteFirst(r) ==                                                  \* mutant
  /\ reply[r].life = "running"
  /\ IF r = lastReply
     THEN /\ Finish(r, NotXml, FALSE, FALSE)
          /\ posted' = (posted \o <<Event("delete", r)>>) \o PostFinished(r)
          /\ lastReply' = NoReply
     ELSE /\ lastReply' = r
          /\ UNCHANGED <<reply, device, current, items, path, shown, posted, overtaken>>
  /\ UNCHANGED busy

(* provideAuthenication: the reply challenged before as the last one is    *)
(* aborted, which finishes it at once, and deleted.                        *)
ProvideAuthentication(r) ==
  /\ reply[r].life = "running"
  /\ IF r = lastReply
     THEN /\ Finish(r, NotXml, FALSE, FALSE)
          /\ posted' = posted \o Append(PostFinished(r), Event("delete", r))
          /\ lastReply' = NoReply
     ELSE /\ lastReply' = r
          /\ UNCHANGED <<reply, device, current, items, path, shown, posted, overtaken>>
  /\ UNCHANGED busy

----------------------------------------------------------------------------
(* The posted events.  The protocol's replyDeleteLater deletes the device  *)
(* that holds the request.                                                 *)
RunDeleteDevice(r) ==
  /\ posted # <<>> /\ Head(posted) = Event("deleteDevice", r)
  /\ posted' = Tail(posted)
  /\ device' = [device EXCEPT ![r] = FALSE]
  /\ UNCHANGED <<reply, current, busy, items, path, shown, lastReply, overtaken>>

RepostUnread(r) ==                                                 \* mutant
  /\ posted # <<>> /\ Head(posted) = Event("replyDeleteLater", r)
  /\ IF reply[r].unread
     THEN /\ posted' = Append(Tail(posted), Head(posted))
          /\ UNCHANGED busy
     ELSE /\ posted' = Append(Tail(posted), Event("delete", r))
          /\ busy' = FALSE
  /\ UNCHANGED <<reply, device, current, items, path, shown, lastReply, overtaken>>

(* The parser's replyDeleteLater, which comes back once for unread bytes.  *)
RunReplyDeleteLater(r) ==
  /\ posted # <<>> /\ Head(posted) = Event("replyDeleteLater", r)
  /\ IF reply[r].life = "running" \/ reply[r].unread
     THEN /\ reply' = [reply EXCEPT ![r].unread = FALSE]
          /\ posted' = Append(Tail(posted), Head(posted))
          /\ UNCHANGED busy
     ELSE /\ posted' = Append(Tail(posted), Event("delete", r))
          /\ busy' = FALSE
          /\ UNCHANGED reply
  /\ UNCHANGED <<device, current, items, path, shown, lastReply, overtaken>>

(* deleteLater; another such event of the object goes with it.  No more    *)
(* than one is left: PostedReplyExists has none find its reply gone.       *)
Without(events, e) ==
  IF \E i \in DOMAIN events : events[i] = e
  THEN RemoveAt(events, CHOOSE i \in DOMAIN events : events[i] = e) ELSE events

RunDelete(r) ==
  /\ posted # <<>> /\ Head(posted) = Event("delete", r)
  /\ posted' = Without(Tail(posted), Event("delete", r))
  /\ reply' = [reply EXCEPT ![r] = Unused]
  /\ UNCHANGED <<device, current, busy, items, path, shown, lastReply, overtaken>>

RunPosted ==
  \E r \in Replies : RunDeleteDevice(r) \/ RunReplyDeleteLater(r) \/ RunDelete(r)

Next ==
  \/ \E p \in Paths : GetNetworkDirectory(p)
  \/ Get
  \/ \E r \in Replies : ReplyEnds(r) \/ ProvideAuthentication(r)
  \/ RunPosted

(* The event loop delivers posted events.  The server need not answer.     *)
Spec == Init /\ [][Next]_vars /\ WF_vars(RunPosted)

----------------------------------------------------------------------------
(* A listing that runs is the one the parser waits for, and starts with no *)
(* items: the entries of two directories never mix, however listings,      *)
(* deletions and challenges follow each other.                             *)
OneListing ==
  \A r \in Replies :
    reply[r].kind = "list" /\ reply[r].life = "running"
      => current = r /\ busy /\ items = NoListing

(* A posted event finds the reply it was posted for, neither deleted by the*)
(* other of its two owners nor replaced by a new one at its address.       *)
PostedReplyExists ==
  \A i \in DOMAIN posted : reply[posted[i].reply].life = "finished"

(* Whatever the style of the server, a whole answer shows each resource of *)
(* the directory once and the directory itself not at all, a file with its *)
(* size, and a directory with a path that listDirectory accepts.           *)
ListingIsContents ==
  shown.whole /\ ~shown.overtaken
    => /\ ToSet(shown.items) = Contents(shown.key)
       /\ Len(shown.items) = Cardinality(Names)

(* When a listing has ended, however it did, the parser can list again.    *)
ParserIsFreed == busy /\ current = NoReply ~> ~busy
=============================================================================
