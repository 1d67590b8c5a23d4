# Glowworm in TLA+

A verification project for [Glowworm](../src/README.md), a Qt application that
lets two users browse and download each other's files: TLA+ modules that model
its components, TLC configurations that check them on small instances, and
proofs that TLAPS checks for every instance. Line numbers below refer to the
sources as they stand; `PROJECT.json` maps every definition to its lines.

## 1. The system

Every Glowworm process is a client and a server at once, each with one Qt event
loop. There are no threads in the program's own code: a slot runs to completion,
and what can interleave are *slots* (socket signals, timers, calls from QML),
*posted events* (queued calls, `deleteLater`) and the two processes at the ends
of a connection. That, deferred deletion, and state kept in several places at
once is what makes the program hard.

| component | state | operations | talks to |
|---|---|---|---|
| `Initialize`, `Server` | settings, certificate and key files, "was started" | generateCerts, startServers, stopServers, generateConnectionKey | both servers; the client by the connection key |
| `ServerTcpTlsTransport` | accepted `MessageSocket`s | start, stop, onNewConnection, onClientMessage, onClientDisconnected, onFileSendFinished | one `FileSender` per request |
| `FileSender` | open file and its read position, "transfer active" | start, sendNextChunk (called directly and through a queued call), onBytesWritten | the client's `MessageSocket`, which it does not own |
| `MessageSocket` | TLS socket, read buffer | sendMessage, onReadyRead (length-prefixed messages), disconnected | both transports |
| `ClientTcpTlsTransport` | socket, output file, pointer to a `DownloadInfo` | getFile, onConnected/requestFile, onMessageReceived (4 kinds), onDisconnected, onSocketError | server; `DownloadInfo` |
| `DownloadInfo` | ID, paths, size, progress, state, "for delete" | setters that emit signals | saved by the manager's slots |
| `DownloadManager` (+ `manager_utils`) | list, dictionary, JSON object, file | read, add, delete, update, save, destructor | `DownloadInfo`, file |
| `Client` | active connection, messengers by name, transports by download ID | setActiveConnection, connect/disconnect, getNetworkDirectory, getFile | everything on the client's side |
| `ClientWebSocketMessenger` | socket, ping timer, missed pongs | connectToServer, disconnectFromServer, sendPing, onPong, getNetworkDirectory, onTextMessageReceived | server messenger; `DirectoryManager` |
| `ServerWebSocketMessenger` | accepted sockets | start, stop, requests for listings | clients |
| `DirectoryManager` | active directory, cache by path | updateDirectory, clearActiveDirectory | messengers, view |
| `ClientConnectionManager` | list, names, JSON object, file, active connection | add (3 ways), delete, update, read | `ConnectionInfo`, file |
| `ClientWebDAV`, `WebdavDirParser`, `ClientWebDAVProtocol` | current reply, listing, login | listDirectory, get, reply signals | HTTP server; `DirectoryManager` |

How they interact: `Client::getFile` adds a `DownloadInfo` to the manager and
makes a transport for it; the transport connects, asks the server for the file
from a byte offset, and appends the chunks it gets to a save file; each change
of state of the `DownloadInfo` makes the manager save all downloads. Listings go
over a separate WebSocket connection, kept alive by pings.

What makes each component correct:

* *transport server*: bounded buffering, an answer without gaps or additions, no
  use of a deleted client, every transfer ends;
* *download*: "Finish" means an exact copy; progress counts what was saved; a
  fresh download ends;
* *download manager*: what is saved under an ID is the state of its listed
  download; nothing unfinished is forgotten;
* *messenger*: a dead peer, and only a dead peer, is given up;
* *listings*: what is shown exists, belongs to the host it is shown for, comes to
  be what was asked for last, and stays that unless a late answer of another host
  takes its place;
* *connections*: row numbers are right; list, taken names and the JSON object
  agree on every name that was not given twice; the active connection is one of
  the list as long as who deletes one says rightly which is active; a connection's
  messenger is its own;
* *WebDAV*: a reply is used for the request it answers and while it exists; a
  listing shows what the server has, whatever its style; what was received is
  what is saved;
* *message socket*: messages arrive whole, once and in order;
* *start-up*: certificate and key belong together; a key handed out stays good;
  the user is told the truth about the servers.

`PROJECT.json` lists the hazards line by line.

## 2. Modules

| module | models | composes |
|---|---|---|
| `FileStream` | what a server promises for each stream (abstract) | |
| `FileServer` | `ServerTcpTlsTransport`, `FileSender`, the sending side of `MessageSocket` | refines `FileStream` |
| `MessageChannel` | what the two ends of a connection rely on (abstract) | |
| `MessageSocket` | sizes, pieces and reassembly | refines `MessageChannel` |
| `OffsetCodec` | how the start offset crosses the wire | |
| `FileTransfer` | `Client::getFile`, `ClientTcpTlsTransport`, `DownloadInfo`, save files, the network | `FileServer`, `OffsetCodec` |
| `AppData` | `manager_utils`: the files of both managers, and what reading one of any content gives | |
| `DownloadManager` | `DownloadManager`, sessions and crashes | `AppData` |
| `ConnectionManager` | `ClientConnectionManager`, sessions | `AppData` |
| `ClientConnections` | `Client`'s choice of a connection and its messengers by name | `ConnectionManager` |
| `Messenger` | connection and heartbeat of `ClientWebSocketMessenger` | |
| `Listing` | `Client` with several hosts, requests and answers of both WebSocket messengers, `DirectoryManager` | |
| `MultiStatus` | the documents WebDAV servers answer with, and how `WebdavDirParser` reads them | |
| `WebDavListing` | `ClientWebDAV`'s listings and pings, `WebdavDirParser`, replies and authentication of `ClientWebDAVProtocol` | `MultiStatus` |
| `WebDavDownload` | `ClientWebDAV`'s downloads, save file and reply slots of `ClientWebDAVProtocol` | |
| `Application` | `Initialize`, `ssl_cert`, `Server`, the loading and listening of both servers, connection keys and what a client makes of them | |
| the modules in `MC` | values for TLC | |
| the modules in `_proofs` | theorems about the module they are named after (section 5); `FileTransfer_proofs` covers `FileServer` and `OffsetCodec` too, `ClientConnections_proofs` covers `ConnectionManager`, `WebDav_proofs` the three modules about WebDAV, `Messaging_proofs` covers `MessageSocket` and `Messenger` | |
| `Induction_proofs` | lemmas the other proofs share: induction over the naturals, functions defined by recursion, folds | |

**FileServer.** `socket[c]` is the life of the `MessageSocket` of connection
`c`; `sender[c]` that of its `FileSender`, where "active" is `m_transferActive`;
`stream[c]` has the read position of the file and everything written to the
connection; `posted[c]` are the posted events of the two objects, delivered in
order. `Accept` is `onNewConnection`; `StartTransfer`/`RefuseTransfer` are
`onClientMessage` with `FileSender::start`; `BytesWritten` is `onBytesWritten`
after the socket has drained any number of bytes; `RunSendNextChunk`,
`RunDeleteSender`, `RunDeleteClient` deliver posted events; `ClientDisconnected`
is `onClientDisconnected` with `cleanupClient`; `Stop` is `stop()`, after which
a client is open but marked for deletion ("stopped"). `late` is history: the
connections whose request was read in that state. `start()` changes nothing
here but that connections may come, and `Accept` never asks. Bytes are counted: a message
carries a range `from..to` of the file and the number of bytes written when it
is complete. The loop of `sendNextChunk` is unrolled twice, which theorem
`LoopExits` shows to be all of it. A connection carries one request, because the
only client sends one.

**MessageSocket.** Bytes are digits of a small base, `Weight` what a digit of a
size counts for. `SendMessage` puts the size
before a message, as `sendMessage` does with a `quint32`; `OnReadyRead` appends
any number of the bytes under way to `buffer` and takes out what
`TryExtractMessages` finds. The size is compared as an `int` (`SizeAsInt`): half the
range on it is negative, and the buffer is taken at once, as much of it as there is
(`Message`, `Rest`). `MessagesAssumption` has the messages shorter than that; the
longest the program sends is a chunk of 65,536 bytes (`file_sender.hpp:12`) behind
one of status, and nothing it receives from its own kind is longer. `LoseLink` cuts what is under way anywhere. The
refinement of `MessageChannel` needs no mapping: `open`, `sent` and `delivered`
are the channel's own variables. It is checked in two parts, the channel's steps
(`ChannelSafety`) and its fairness (`ChannelFairness`), since the first can be
proved and the second cannot. `FileTransfer` is built on what the channel
promises.

**FileTransfer.** One download ID, the transports working on it (one for each
`getFile`), their save files, and the server. `info` is the shared
`DownloadInfo`. `output[c]` is `m_outputFile` with the range its buffer holds: a
write no larger than `WriteBuffer` stays in the buffer until the file is flushed
by `size()` or `close()`. A save file is its size and whether it is a prefix of
the source. The handlers are actions of the same names; `LoseLink` is the
network's.

**DownloadManager.** `info[<<k, n>>]` is the `n`-th `DownloadInfo` of ID `k`,
with its life (unused, listed, doomed by `deleteLater`), state, mark for
deletion and whether a transport uses it; `dict`, `json`, `disk` are the
dictionary, the JSON object and the file, where an entry is its state. `Load` is
`readUnfinishedDownloads` with `readAppData`, whose loop in key order `AppData`
describes by the first entry it stops at. `Ask` and `AddDownload` are the two
cases of `getFileRange`, the first for an ID that is listed, finished ones
included; `TransportSetsState` is `setDownloadState` with the
slot it triggers; `UpdateDownload` is `updateDownload` with any property but the ID
(one the model does not have is the state set to what it is); nothing in the
program calls it. `Quit` is the destructor; `Crash` may leave the file empty.
The order of the list and progress are left out.

**ConnectionManager.** `info[o]` is a `ConnectionInfo`, used again once the event
loop has deleted it; `list`, `row`, `names`, `json`, `disk`, `active` are the
members of the manager and its file. `Add` is the `addConnection` every way of
adding ends in, reached by `AddConnection` (which refuses a taken name; a quick
connection goes this way too) and by `AddWebDavConnection` (which does not look).
`DeleteConnection` has the active row as a parameter, as in the code, which clears
`m_activeConnection` only if that is the row it deletes. Nothing calls it but a line
that is commented out (`BurgerMenu.qml:330`), so any row may be given, and none. `shared`
and `dangling` are history: names that a second connection was given, and that a
connection was deleted without its pointer being cleared. `MessengerReports` is `updateConnection(connectionInfo, ...)`, whose
`operator[]` puts a removed pointer back into the dictionary.

**ClientConnections.** `websocket` and `webDav` are `m_websocketMessengers` and
`m_webDavMessengers`: under each name the `ConnectionInfo` the messenger was made
for. `ClientSetActiveConnection` is `setActiveConnection` with `connectToServer`
and `setConnectionPreferences`; a WebDAV connection is known by its address.
`gone` is history: names of connections that have been removed.

**Application.** `at[i]` is what instance `i` of the program does next: it starts
(`Start`: settings, and the decision whether to make a certificate), opens and
writes the two files (`OpenCert` to `WriteCert`, `saveCertificateToFile`), loads
them in the constructors of the two servers, and is up. A certificate and its key
are known by the number of their pair; a file can be absent, too small to count,
or torn. `StartServers`, `StopServers` and `GenerateConnectionKey` are the
methods of `Server`; `TransportPort` and `MessengerPort` are what a client makes
of a key. `torn` and `clash` are history.

**MultiStatus.** A server has a *style*: URLs or paths, directories with or
without a slash, the propstat of missing properties first or last, the directory
itself first or last. `Document` writes a listing in a style; `ParseMultiResponse`
with `ParseResponse` and `DavParsePropstat` is what the parser makes of one,
faulty ones included.

**Listing.** A connection is its host; requests are numbered, and answers and the
`FileInfo`s made of them bear the number of their request. `socket[h]`,
`listens[h]`, `accepted[h]` are the two ends of a connection, `toServer[h]` and
`toClient[h]` what is on its way. `cache` is `m_cachedDirectories` as the request
whose `FileInfo`s a path owns, `shown` the requests whose `FileInfo`s
`m_activeDirectory` points to. `SetActiveConnection` clears the view by its
signal; `OnTextMessageReceived` calls `UpdateDirectory` whichever host is active,
as the code does; `late` and `before` are history: the requests under way at the
last choice of a host, and how many had been made by then.

**WebDavListing.** `reply[r]` is the `QNetworkReply` at address `r`, which a later
reply may get; `current`, `busy`, `items` are `m_reply`, `m_busy`, `m_dirList` of
the parser (an item is what `MultiStatus` has read), `path` is `m_path` of `ClientWebDAV`, which is noted even when the
parser refuses. `posted` are the posted events of three objects, in order.
`ReplyEnds` runs the slots of `finished()`; `ProvideAuthentication` is the slot
of that name, whose `abort()` finishes the reply at once.

**WebDavDownload.** One download ID: `info`, the save file as a sequence of bytes,
and for each `ClientWebDAV` its HTTP reply (what was asked for, the body, how much
has arrived, how much is written). `GetFile` empties the file; `Arrive` is
`replyReadyRead` with `onDownloadProgress`; `ReplyFinished` is the protocol's slot
followed by `onFileReceived`, which does not ask how the reply ended.

**Messenger.** `slots` counts how often the signals are connected; `checks` are
the running single-shot timers, `pings` the unanswered pings with their ages.
Time is in seconds with the program's values (5, 3); `Tick` waits for due timers.

Definitions marked `\* mutant` are variants of the definition below them with a
plausible bug; no specification uses them. Each property is known to fail when
its mutant takes the definition's place.

## 3. What the runs check

| run | bounds | states | shows |
|---|---|---|---|
| `FileServer.cfg` | 2 connections; a file of 5, chunks of 2, header 1, reply 2; offsets −1, 0, 3, 5, 6 | 239,121 | type correctness; `BufferBounded`; `GaplessAnswer`; `NoDanglingClient`; `TransferEnds`; refinement of `FileStream` |
| `MessageSocket.cfg` | bytes of 4 values, sizes of 2 bytes; messages of 0, 1, 2 and 5 bytes; 3 messages | 8,001 | `NoMessageWaits`; refinement of `MessageChannel`, steps (`ImplementsChannel`) and fairness (`ChannelIsFair`) |
| `FileTransferOne.cfg` | 1 transport; a file of 50, chunks of 20; resumed at 0 or 49 or fresh; save files of 0, 1, 20, 50 bytes | 31,892 | type correctness; `FinishedIsSaved`; `FreshDownloadEnds`; the server is used within its specification |
| `FileTransferTwo.cfg` | 2 transports with paths of their own; a file of 3, chunks of 2 | 739,277 | `FinishedBySaver`; `ProgressIsSaved` |
| `DownloadManager.cfg` | 1 ID and the empty one, 2 objects each; odd entries; deletion in mid transfer; finished downloads asked for again | 114,284 | type correctness; `SavesAreOfListed`; `UnfinishedSurvives` |
| `ClientConnections.cfg` | 2 names, 3 addresses of which one is a WebDAV server's, 2 objects; files with odd entries; a session is followed until every name has been removed or shared | 798,567 | type correctness; `RowsAreRight`; `CopiesAgree`; `MessengersFit` |
| `Listing.cfg` | 2 hosts; 3 paths, one too long to be asked for; 2 requests | 137,844 | `EntriesAreLive`; `ListedIsOfActive`; `ListingsInOrder`; `LastAskedIsShown` |
| `WebDavListing.cfg` | 2 paths; 3 reply addresses, one for pings; a file and a directory; 16 styles, and faulty answers of one | 268,585 | `OneListing`; `PostedReplyExists`; `ListingIsContents`; `ParserIsFreed` |
| `WebDavDownload.cfg` | 2 transports; a file of 4, a threshold of 2; resumed at 1 or 4 or fresh | 59,363 | `WholeAnswersAreSaved` |
| `Messenger.cfg` | 3 connections | 2,518 | `SilenceBounded`; `SilenceIsNoticed`; `FirstIsClosedWhenDead` |
| `Application.cfg` | 2 instances; 3 pairs; ports below 8 (`HalfRange = 4`), set to nothing, 0, 6 or one that is too wide | 201,736 | type correctness; `PairFits`; `KeysStayGood`; `RefusesWhenTorn`; `ReportIsTrue`; `KeyLeadsThere` |

Why the bounds suffice. *FileServer*: two whole packets (3 each)
exceed the limit of 4 in the middle of the file, the last chunk is a short one, and drains of every size stop at every
place relative to both thresholds; connections share nothing but the event
loop and `stop()`, so two show all there is. *MessageSocket*: sizes of one and of
two significant digits, an empty message, contents that look like a header, and the
longest message whose size with its header an `int` can tell (7 of 8); three messages, so that one can end, another be whole and a third begin in what arrives
at once. *FileTransferOne*: 49 is `'1'` in ASCII, the one
byte pattern among small offsets that the server reads as something else than
zero, hence the larger file; the leftovers are one of each relation to the chunk
and file sizes. *FileTransferTwo*: two transports interfere through `info`; a
third adds nothing but more of the same, and exchanging the two with their paths
is a symmetry. *DownloadManager*: the reading order,
the stop at an entry and an entry behind it need two keys, of which the empty ID
is one (a removed download whose state changes late is saved under it, and the
next session lists it); deletion racing re-addition needs two objects. *Messenger*: the real intervals; timers of one earlier
connection can reach into the next, and slots that run three times close a
connection no later than twice. *ClientConnections*: two rows show every shift of
row numbers; a removed object is used again by the next connection, with the name
of the removed one or the other one, and of either kind. When both names have been
removed or shared (`SomeNameIsGood` ends the search there), all that `CopiesAgree`
and `MessengersFit` speak of has been exempted; row numbers do not depend on names,
and until then rows of one name come and go as often as they like; the two addresses that are no WebDAV server's are
interchangeable (`SYMMETRY`). *Listing*: an order, a late answer and a
replaced directory each take two requests, and the two may be of one host or two,
of one path or two; the paths are one that both hosts have, one that the second
lacks, and one whose request is dropped. *WebDavListing*: a listing can be under
way while the one before it is being deleted, and a ping next to both is what a
challenge can alternate with; more replies wait for nothing else; faults are put
into the style in which the parser looks back at the item before. *WebDavDownload*:
a file of two thresholds has a write in the middle, a rest, and arrivals of every
size in between; a third transport does to the file what the second does.
*Application*: two instances are what can make a pair at the same time and want
the same ports; one pair is in the files, one in the memory of another instance,
one being made; half the range of a port and its end lie among the settings.

Deadlock is not an error in the runs of `FileServer`, `FileTransfer`,
`MessageSocket` and `WebDavDownload`: transfers end, links break and connections
are used once, so these systems may really stop. The other runs check for it.

### Disagreements with the program's own words

One run ends in a violation. `FileTransferResume.cfg` checks what
`download_info.hpp:161` says of the byte a download resumes at, "Starting
position in the file": the offset is sent as eight binary bytes and read as text,
and the answer starts at 0 (`AnswerStartsWhereAsked`).

The models also have the following behaviours. The properties name them as
exceptions, or the configurations leave them out by a constant; changing it shows
them.

* `stop()` marks the clients for deletion and does not keep their messages from
  being read before that. The sender made for such a request posts its call
  behind the deletion, and the call uses a deleted client (`late` in
  `NoDanglingClient`).
* After a reconnect every signal of the messenger's socket is connected twice
  (`client_websocket_messenger.cpp:37`): two pings start two timers, neither of
  which asks whether the pong has come, and the second count closes a healthy
  connection after three seconds (`FirstIsClosedWhenDead` speaks of the first
  connection only).
* A finished download that is asked for again keeps its mark and is forgotten at
  the end of the session (`FinishedBefore` in `UnfinishedSurvives`).
* A crash or a full disk between the two files of the certificate leaves one of
  them, and the program never starts again, although it reports that the
  certificates already exist (`initialize.cpp:74`); two instances that are
  started for the first time at once may leave a certificate with the key of the
  other (`torn` and `clash`).
* A port from 32,768 on is negative in a quick connection: the transport makes it
  right again, the messenger's address is no address (`KeyLeadsThere`). A port
  that the system was to choose is handed out as 0.
* The messengers of removed connections stay: a new connection with the name of a
  removed one gets its messenger, whose `ConnectionInfo` is deleted (`gone` in
  `MessengersFit`).
* `addWebDavConnection` does not ask whether a name is taken, as `addConnection`
  does: two rows get one name, and with it one entry in the file and one
  messenger (`shared` in `CopiesAgree` and `MessengersFit`). Removing one of them
  frees the name and removes the entry of both.
* `deleteConnection` believes its caller which row is active. Told another, or none,
  it leaves `m_activeConnection` to the connection it deletes
  (`client_connection_manager.cpp:164`, `dangling` in the same properties).
* A message whose size is from 2<sup>31</sup> on is taken before it is whole, since
  its size is negative as an `int` (`message_socket.cpp:81`; kept out by
  `MessagesAssumption`, as no such message is sent).
* A listing of a path that is too long is not asked for, and nothing says so
  (`LastAskedIsShown` speaks of requests that were sent).
* Two transports of one download that append to one path: the first to complete
  sees the announced size while the other has its bytes in a buffer, and the file
  ends up longer (two connections with `SaveChoices <- AnyPath` break
  `FinishedIsSaved`). A second `getFile` with another path saves there and leaves
  the first path in the `DownloadInfo`.
* A WebDAV reply that failed, or that brought an error page, reads Finish; a
  resumed WebDAV download empties its file and keeps the tail
  (`WholeAnswersAreSaved` speaks of whole answers only).
* A WebDAV directory asked for while another is being listed is not listed; the
  other one is cached for it (`overtaken` in `ListingIsContents`).
* A first response of a listing that gives no item, as one without a whole
  propstat does, has the parser look at the last item of an empty list
  (`webdav_dir_parser.cpp:266`); what follows is undefined, and such documents
  are left out.
* After the loss of a connection a download stays Active.
* Reading a saved file stops at the first finished download, and those behind it
  are listed only in the next session.
* A sender whose client has left stays for ever.
* A late answer of another host becomes the active directory, and stays so in place
  of the one asked for last (`late` in `ListedIsOfActive`, `IsReplaced` in
  `LastAskedIsShown`).

## 4. Fairness

* `FileServer`: weak fairness of `Flush` and `RunPosted` for each connection: the
  event loop keeps delivering posted events, and a connected socket keeps
  writing what it holds. Nothing is assumed of the client, so `TransferEnds`
  allows for its leaving.
* `FileTransfer`: the same for both event loops, and for connecting one way or
  the other. Neither the user nor the network (`LoseLink`) has to do anything.
* `Messenger`: time passes, due timers fire, a peer that answers does so, and a
  socket that is closing ends up closed. `SilenceIsNoticed` needs no more.
* `Listing`: both event loops deliver the messages that have arrived
  (`ProcessRequest`, `OnTextMessageReceived`). Connections need not be made, nor
  stay; `LastAskedIsShown` allows for a loss, a new request, a new choice of host,
  and for a late answer of another host, if it is that answer that is shown.
* `MessageSocket`: what has arrived is read (`OnReadyRead`), TCP bringing it as
  long as the link stays up. The link may break at any time, and the channel's
  fairness ends there.
* `WebDavListing`: posted events are delivered. The server need not answer:
  `ParserIsFreed` starts when a reply has ended.
* `DownloadManager`, `ClientConnections`, `WebDavDownload` and `Application` have
  only safety properties and assume no fairness.

## 5. Proofs

What the runs show on small instances, these theorems state for every value of
the constants: any number of connections, hosts, downloads, sizes, ports. The
assumptions on constants are those named in the modules, which TLC evaluates in
every run. Beyond the sizes and types one expects there are three worth naming:
`ObjectsAssumption` of `ConnectionManager` has finitely many names and no fewer
objects than names; `SizesAssumption` of `FileServer` has a reply no larger than
a packet; `MessagesAssumption` of `MessageSocket` has messages whose size is positive
as an `int`. Where a theorem needs more, it says so in its `ASSUME`.

| module | theorem | property | hypotheses |
|---|---|---|---|
| `FileTransfer_proofs` (part 1: `FileServer`) | `ServerInvariance` | `ServerInv`, inductive | |
| | `ServerTypeCorrect`, `BackPressure`, `AnswerIsGapless`, `QueuedCallIsSafe` | the run's four invariants | |
| | `LoopExits` | the loop of `sendNextChunk` ends after two packets | |
| | `ServerImplementation` | `ImplementsFileStream` | |
| (part 2: `FileTransfer`) | `TransferTypeCorrect` | `TypeOK` | `OffsetsFit` |
| | `ServerIsUsedAsSpecified` | `ServesAsSpecified` | `OffsetsFit` |
| | `OnlyACopyFinishes` | `FinishedBySaver` | `OffsetsFit`, `OneSaverEach` |
| | `FinishedDownloadIsSaved` | `FinishedIsSaved` | `OffsetsFit`, `Single`, `ExactLeft`, one path |
| | `EveryOffsetFits` | `OffsetsFit` itself | `Offsets = Int` |
| (part 3: progress) | `ProgressCountsBytes` | `ProgressIsSaved` | `OffsetsFit`, `FinitelyMany` |
| `DownloadManager_proofs` | `Invariance` | `ManagerInv`, inductive | |
| | `TypeCorrect`, `RemovedAreNotSaved` | `TypeOK`, `SavesAreOfListed` | |
| | `ListAgreesWithDict` | `ListIsDict`, which no run checks | |
| | `NothingUnfinishedIsForgotten` | `UnfinishedSurvives` | |
| `ClientConnections_proofs` | `ConnectionsTypeCorrect`, `DictionaryGivesTheRow` | `TypeOK`, `RowsAreRight` | |
| | `ListNamesAndJsonAgree` | `CopiesAgree` | |
| | `MessengerIsTheConnectionsOwn` | `MessengersFit` | |
| `Listing_proofs` | `EntriesExist`, `ListedIsOfTheActiveHost` | `EntriesAreLive`, `ListedIsOfActive` | |
| | `ListingsStayInOrder` | `ListingsInOrder` | |
| `WebDav_proofs` (part 1: `WebDavListing`, `MultiStatus`) | `ListingsNeverMix`, `PostedEventsFindTheirReply` | `OneListing`, `PostedReplyExists` | |
| | `WholeAnswersShowTheContents` | `ListingIsContents` | `Names` is finite |
| (part 2: `WebDavDownload`) | `WholeAnswersMakeACopy` | `WholeAnswersAreSaved` | |
| `Messaging_proofs` (part 1: `MessageSocket`) | `SocketTypeCorrect`, `NothingWaits` | `TypeOK`, which no run checks, and `NoMessageWaits` | |
| | `SocketsAreAChannel` | `ImplementsChannel` | |
| (part 2: `Messenger`) | `SilentPeerIsGivenUp`, `HealthyPeerIsKept` | `SilenceBounded`, `FirstIsClosedWhenDead` | |
| `Application_proofs` | `ApplicationTypeCorrect` | `TypeOK` | |
| | `CertificateFitsKey`, `HandedKeysStayGood`, `RefusesOnlyWhenTorn` | `PairFits`, `KeysStayGood`, `RefusesWhenTorn` | |
| | `StartServersTellsTheTruth`, `KeyLeadsToTheServers` | `ReportIsTrue`, `KeyLeadsThere` | |

The hypotheses. `OffsetsFit` says that `Offsets`, the positions the server is
specified for, has whatever the server reads in an encoded offset. `EveryOffsetFits`
proves that `Int` has it, so that the theorems hold of the program with every
offset allowed for; they are stated for fewer since TLC needs finitely many, and
those of the runs have what the offsets of the runs are read as. `FinitelyMany`
has finitely many transports and paths, without which
there is no sum of what they hold; a server's directory has finitely many `Names`
likewise. `OneSaverEach` is what the
two runs of `FileTransfer` have between them: one transport, over any part of the
file that an earlier session has left, or several that save to paths of their own
with nothing there. Without it the property is false (section 3). That there is one
path keeps a resumed download from being asked for with another one, which leaves
the old path in its `DownloadInfo`.

*Why stronger invariants.* None of these properties is inductive as it stands.
Each module has the conjunction it needs under the name `Inv`, or one that says
of what, and its proof has a lemma for every action that can disturb it.

* `FileServer` (`ServerInv`). The buffer bound needs to know that a position is
  only reached by whole chunks and that what is flushed never exceeds what is
  written. The gapless answer needs the last message to end where the reading
  stands — except after the client has left, when the file is read without being
  sent — and the kind of the last message for each state of the sender. That no
  queued call meets a deleted client rests on order: the call is posted while the
  client is connected, the deletion can only be posted later, and events are
  delivered in order (`CallBeforeDeletion`; of a `late` request it says nothing).
  The refinement maps the last message sent to the abstract phase and progress;
  `StepMaps` shows every action to be an abstract step or a stutter.
* `FileTransfer`. `TransferInv` adds to `ServerInv` that the client is behind the
  server by whole messages, and that what it holds in a buffer can only be the end
  of the file: a write buffer is smaller than a chunk. Every server action is
  shown only to add to what was sent (`ServerStepGrows`), so that a message once
  sent stays what the client will read. `FilesInv` is about the save files: a file
  as long as the answer has got is a prefix of the source (`Fits`). The difficulty
  is chunks that are refused because another transport has paused the download:
  of several transports one that has missed a chunk is behind for good, and never
  sees the announced size; a single one is not Active any more. `FinishedInv`
  keeps the copy after the end. That `ReadOffset` gives a number for any bytes
  follows `ToLongLong` from one search to the next, each of which ends behind the
  last byte at the latest.
* `FileTransfer`, progress. A step counts what it writes: a flush moves bytes from
  a buffer to the file, a chunk adds to one of the two, the rest changes neither.
  A sum over the transports is a fold that takes them in an order it chooses, and
  what has to be shown of it is that one changed summand changes the sum by as
  much (`SumChanges`), whatever the order. `FromNothing` says that a download
  nobody has asked for has no progress to lose.
* `DownloadManager` (`ManagerInv`): the types, that list and dictionary have the
  same downloads (`ListIsDict`), and that nothing is in the memory of a program that
  does not run. The work is in the two action properties. `SavesAreOfListed` rests on
  `ListIsDict`: what is saved for an object that is listed is the state of the one
  the dictionary has under its ID, and an object that is not listed has lost its ID.
  For `UnfinishedSurvives` each step is shown to keep an unfinished entry, or to be
  one of the exceptions.
* `ClientConnections`. `ListInv` has the rows and row numbers, for all sessions,
  with the pigeonhole argument that an unused object leaves a row number
  for it (`RoomForOneMore`). `CopiesInv` adds that a name not in `shared` has one row
  at most, whose it is in the names and the JSON object, and that the active
  connection is of a row unless it is `dangling`. `MessengersInv` adds, for every
  name that no removed and no second connection has had, that there is a messenger of
  one kind at most, and that it is of the row with the name.
* `Listing` (`Inv`): to each host, requests and answers are in the order of
  asking, answers before requests, and what is shown came before both. It is this
  order over two queues that survives reconnects. That what is listed is of the active host
  needs the host and the age of everything under way (`RequestsFit`,
  `AnswersFit`).
* `WebDavListing` (`Inv`): a reply is deleted after every other event that was
  posted for it (`DeletedLast`), two of its events end in a deletion at most, one
  for each owner (`TwoAtMost`), and one listing ends at a time (`OneEnds`); here the
  documents may be anything. What a whole answer shows needs `PathIsAsked`, that
  the listing under way is of the path noted last unless another was asked for
  since, and the parsing of a document: `PropstatsAreRead` has what is read of one
  response, in either order of its propstats, `ResponseIsRead` what it does to the
  list, the response of the directory itself included, and `WholeAnswerIsRead`
  goes through a document, with the list after each response as the function that
  a fold has to reach.
* `WebDavDownload` (`DownloadInv`): while only whole files were sent, what *some*
  transport has written is in the file. It is the one that emptied the file last;
  the others write nothing that differs, over it or behind it.
* `MessageSocket` (`SocketInv`): the bytes written are those of the messages sent,
  one behind the other (`Encodes`); buffer and wire are, in order, the part behind
  the last message delivered, and all of it while the link is up. A buffer with
  no whole message is what lets the next size be found where a message starts. The
  loop of `TryExtractMessages` gets a byte shorter with each message it finds,
  and so ends within as many turns as there are bytes (`LoopFindsMessages`).
  `SizeIsRead` has that what `Header` writes `MessageSize` reads, for every base
  and number of digits, and `SizeIsKept` that a size below half the range is the same
  as an `int`.
* `Messenger` (`Inv`): while a peer answers, the timer of the last ping is still
  running or has counted once without a pong to come; pings that are not answered
  are of the age of the last one. Of a silent peer the first ping it does not get
  is either still to be sent (`BeforePing`) or on its timer, with one missed pong
  counted already (`AfterPing`). Timers of earlier connections only count more.
* `Application` (`Inv`): which files may exist, and with what in them, at each
  stage of a start; unless there was a clash, one instance at most makes a pair,
  and only where there is none (`PairInv`). Settings are made once, so that the
  ports of all instances and keys are the same (`PortInv`). `ReportIsTrue` is
  inductive relative to these. `PortNumbers` is the arithmetic of the conversions
  between `quint16` and `qint16`, for every width.

TLC finds no violation of the inductive invariants on the instances of the runs
either (of `SocketInv` with the bytes of the messages sent written out, since it
says that there are some).

*Induction.* The theorems of the library that one would cite have an operator as
their parameter, which the provers do not instantiate. `Induction_proofs` has
induction over sets instead: a set of naturals with 0 and with the successor of
each has them all, which follows from the well-foundedness of their order. From
it come the existence of functions defined by recursion (`RecursionDefines`) and
of folds over sequences (`FoldsExist`), and what a fold comes to (`FoldReaches`).

*Only model-checked.* Liveness: `TransferEnds`, `FreshDownloadEnds`,
`SilenceIsNoticed`, `LastAskedIsShown`, `ParserIsFreed`, and of the
refinement of `MessageChannel` its fairness (`ChannelIsFair`). The prover does not
handle fairness. Every other property of the passing runs is proved. That an
answer does not start where it was asked to (section 3) is what TLC shows, and
needs no more than one case.

## 6. Not modelled

Of WebDAV the dates of an item, the XML below the elements of a multistatus
document, the requests other than PROPFIND and GET, which nothing makes, the ping
timers, which only write to the log, and that a connection reads Connected after
any answer; `onSslError`, which accepts every certificate; of a
`DownloadInfo` all but state, progress, size and path, and what its ID is made of;
of a `ConnectionInfo` all but name and one value, and in `Application` the ports
(so not the members the WebDAV constructor leaves uninitialised); renaming a
connection, which nothing in the program does; the list views; the making of keys
and certificates by OpenSSL, the host key, the local address, the relay;
logging and QML, which hold no state of interest. A transport server that stops
is a lost link to the client in `FileTransfer`. `Listing` leaves out that a reconnected
messenger runs its slots several times: `updateDirectory` with one answer twice
does what it does once.
Freed memory: where the program would use a deleted object the model either shows
that it does not (`NoDanglingClient`, `PostedReplyExists`), or ends there
(`FileServer` for a `late` request, `DownloadManager` for a transport that outlives
its `DownloadInfo`, `ClientConnections` for a messenger that reports on a deleted
`ConnectionInfo`). What the program does through an active connection that is
deleted (`dangling`) is not followed either, nor `updateDownload` of a download's ID.

## 7. Plan

1. Done: the modules of section 2, and the proofs of section 5.
2. No safety property is left without a proof.
3. `FileTransfer` composed with `DownloadManager` over a restart: what is resumed
   fits what was saved. Download IDs over several hosts.
