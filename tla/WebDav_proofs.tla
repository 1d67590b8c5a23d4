---------------------------- MODULE WebDav_proofs ----------------------------
(***************************************************************************)
(* Proofs about the two halves of ClientWebDAV: its listings and pings for *)
(* every set of directories, every number of pings and servers that answer *)
(* anything at all, with what a whole answer shows for every finite set of *)
(* names and every style (part 1), and its downloads for any number of     *)
(* objects, any size of the file and any threshold (part 2).               *)
(***************************************************************************)
EXTENDS WebDavListing, WebDavDownload, Induction_proofs, FiniteSetTheorems,
        SequenceTheorems, TLAPS

----------------------------------------------------------------------------
(***************************************************************************)
(* Part 1: WebDavListing.                                                  *)
(***************************************************************************)
----------------------------------------------------------------------------
(* The inductive invariant, first of the posted events.  A reply is deleted*)
(* after the other events that were posted for it, and two events that end *)
(* in its deletion are posted at most: its two owners' own.                *)
EventKinds == {"deleteDevice", "replyDeleteLater", "delete"}
Events == [kind : EventKinds, reply : Replies]
Deletes(e) == e.kind = "delete"
Ends(e) == e.kind = "replyDeleteLater"

DeletedLast(s) ==
  \A i, j \in 1..Len(s) :
    i < j /\ Deletes(s[i]) /\ s[j].reply = s[i].reply => Deletes(s[j])
TwoAtMost(s) ==
  \A i, j, k \in 1..Len(s) :
    i < j /\ j < k /\ s[i].reply = s[j].reply /\ s[j].reply = s[k].reply
      => \E l \in {i, j, k} : s[l].kind = "deleteDevice"
OneEnds(s) == \A i, j \in 1..Len(s) : Ends(s[i]) /\ Ends(s[j]) => i = j
EventsInv(s) == s \in Seq(Events) /\ DeletedLast(s) /\ TwoAtMost(s) /\ OneEnds(s)

(* The parser waits for the listing that runs, and is busy from its start  *)
(* until the last event posted for it.                                     *)
Reply == [kind : {"none", "list", "get"}, life : {"unused", "running", "finished"},
          path : Paths \cup {NoPath}, unread : BOOLEAN]
IsListing(rep) == rep.kind = "list" /\ rep.life = "running"
Types ==
  /\ reply \in [Replies -> Reply]
  /\ current \in Replies \cup {NoReply}
  /\ busy \in BOOLEAN
ParserInv ==
  /\ current # NoReply => IsListing(reply[current]) /\ busy /\ items = NoListing
  /\ \A r \in Replies : IsListing(reply[r]) => current = r
  /\ \A i \in 1..Len(posted) : Ends(posted[i]) => busy /\ current = NoReply

(* Bytes are left unread only in a reply that nobody has deleted yet.      *)
UnreadInv ==
  \A r \in Replies :
    reply[r].unread => /\ reply[r].life = "finished"
                       /\ \A i \in 1..Len(posted) : posted[i] # Event("delete", r)

AllFinished == \A i \in 1..Len(posted) : reply[posted[i].reply].life = "finished"
Inv == Types /\ EventsInv(posted) /\ ParserInv /\ UnreadInv /\ AllFinished

----------------------------------------------------------------------------
(* Sequences of events.                                                    *)
LEMMA EventType ==
  ASSUME NEW kind \in EventKinds, NEW r \in Replies
  PROVE  /\ Event(kind, r) \in Events
         /\ Event(kind, r).kind = kind /\ Event(kind, r).reply = r
BY DEF Event, Events

LEMMA EventIs ==
  ASSUME NEW e \in Events, NEW kind, NEW r, e.kind = kind, e.reply = r
  PROVE  e = Event(kind, r)
BY DEF Event, Events

LEMMA Appending ==
  ASSUME NEW s, EventsInv(s), NEW e \in Events,
         ~Deletes(e) => \A i \in 1..Len(s) : s[i].reply = e.reply => ~Deletes(s[i]),
         \A i, j \in 1..Len(s) :
           i < j /\ s[i].reply = e.reply /\ s[j].reply = e.reply
             => "deleteDevice" \in {s[i].kind, s[j].kind, e.kind},
         Ends(e) => \A i \in 1..Len(s) : ~Ends(s[i])
  PROVE  /\ EventsInv(Append(s, e))
         /\ Len(Append(s, e)) = Len(s) + 1 /\ Len(s) \in Nat
         /\ \A i \in 1..Len(s) : Append(s, e)[i] = s[i]
         /\ Append(s, e)[Len(s) + 1] = e
PROOF
  <1> DEFINE t == Append(s, e)
  <1>1. s \in Seq(Events) /\ Len(s) \in Nat
    BY DEF EventsInv
  <1>2. /\ t \in Seq(Events) /\ Len(t) = Len(s) + 1
        /\ \A i \in 1..Len(s) : t[i] = s[i]
        /\ t[Len(s) + 1] = e
    BY <1>1
  <1> HIDE DEF t
  <1>3. DeletedLast(t)
    BY <1>1, <1>2 DEF EventsInv, DeletedLast
  <1>4. TwoAtMost(t)
    <2> SUFFICES ASSUME NEW i \in 1..Len(t), NEW j \in 1..Len(t), NEW k \in 1..Len(t),
                        i < j, j < k, t[i].reply = t[j].reply, t[j].reply = t[k].reply
                 PROVE  \E l \in {i, j, k} : t[l].kind = "deleteDevice"
      BY DEF TwoAtMost
    <2>1. i \in 1..Len(s) /\ j \in 1..Len(s) /\ t[i] = s[i] /\ t[j] = s[j]
      BY <1>1, <1>2
    <2>2. CASE k \in 1..Len(s)
      BY <1>2, <2>1, <2>2 DEF EventsInv, TwoAtMost
    <2>3. CASE k = Len(s) + 1
      BY <1>2, <2>1, <2>3
    <2> QED BY <1>1, <1>2, <2>2, <2>3
  <1>5. OneEnds(t)
    BY <1>1, <1>2 DEF EventsInv, OneEnds
  <1> QED BY <1>1, <1>2, <1>3, <1>4, <1>5 DEF EventsInv, t

LEMMA AppendsOneByOne ==
  ASSUME NEW s \in Seq(Events), NEW a \in Events, NEW b \in Events, NEW c \in Events
  PROVE  /\ s \o <<a>> = Append(s, a)
         /\ s \o <<a, b>> = Append(Append(s, a), b)
         /\ s \o Append(<<a>>, c) = Append(Append(s, a), c)
         /\ s \o Append(<<a, b>>, c) = Append(Append(Append(s, a), b), c)
OBVIOUS

(* Leaving out the k-th event.                                             *)
Shorter(t, s, k) ==
  /\ t \in Seq(Events) /\ Len(s) = Len(t) + 1 /\ k \in 1..Len(s)
  /\ \A i \in 1..Len(t) : t[i] = s[IF i < k THEN i ELSE i + 1]

LEMMA ShorterKeeps ==
  ASSUME NEW s, EventsInv(s), NEW t, NEW k, Shorter(t, s, k)
  PROVE  EventsInv(t) /\ \A i \in 1..Len(t) : \E j \in 1..Len(s) : t[i] = s[j]
PROOF
  <1> DEFINE at(i) == IF i < k THEN i ELSE i + 1
  <1>1. /\ t \in Seq(Events) /\ Len(t) \in Nat /\ Len(s) = Len(t) + 1 /\ k \in 1..Len(s)
        /\ \A i \in 1..Len(t) : t[i] = s[at(i)]
    BY DEF Shorter
  <1>2. /\ \A i \in 1..Len(t) : at(i) \in 1..Len(s)
        /\ \A i, j \in 1..Len(t) : i < j => at(i) < at(j)
        /\ \A i, j \in 1..Len(t) : at(i) = at(j) => i = j
    BY <1>1
  <1> HIDE DEF at
  <1>3. DeletedLast(t)
    BY <1>1, <1>2 DEF EventsInv, DeletedLast
  <1>4. TwoAtMost(t)
    <2> SUFFICES ASSUME NEW i \in 1..Len(t), NEW j \in 1..Len(t), NEW l \in 1..Len(t),
                        i < j, j < l, t[i].reply = t[j].reply, t[j].reply = t[l].reply
                 PROVE  \E n \in {i, j, l} : t[n].kind = "deleteDevice"
      BY DEF TwoAtMost
    <2>1. \E n \in {at(i), at(j), at(l)} : s[n].kind = "deleteDevice"
      BY <1>1, <1>2 DEF EventsInv, TwoAtMost
    <2> QED BY <1>1, <2>1
  <1>5. OneEnds(t)
    BY <1>1, <1>2 DEF EventsInv, OneEnds
  <1> QED BY <1>1, <1>2, <1>3, <1>4, <1>5 DEF EventsInv

LEMMA TailIsShorter ==
  ASSUME NEW s \in Seq(Events), s # <<>>
  PROVE  Shorter(Tail(s), s, 1) /\ Head(s) = s[1] /\ Head(s) \in Events
BY DEF Shorter

LEMMA WithoutIsShorter ==
  ASSUME NEW s \in Seq(Events), NEW e, NEW n \in 1..Len(s), s[n] = e
  PROVE  \E k \in 1..Len(s) : s[k] = e /\ Shorter(Without(s, e), s, k)
PROOF
  <1> DEFINE k == CHOOSE i \in DOMAIN s : s[i] = e
  <1>1. DOMAIN s = 1..Len(s) /\ Len(s) \in Nat
    OBVIOUS
  <1>2. k \in 1..Len(s) /\ s[k] = e /\ Without(s, e) = RemoveAt(s, k)
    BY <1>1 DEF Without
  <1> HIDE DEF k
  <1> DEFINE before == SubSeq(s, 1, k - 1)
             behind == SubSeq(s, k + 1, Len(s))
  <1>3. /\ before \in Seq(Events) /\ Len(before) = k - 1
        /\ \A i \in 1..(k - 1) : before[i] = s[i]
    BY <1>1, <1>2
  <1>4. /\ behind \in Seq(Events) /\ Len(behind) = Len(s) - k
        /\ \A i \in 1..(Len(s) - k) : behind[i] = s[k + i]
    <2>1. /\ k + 1 \in Int /\ Len(s) \in Int /\ Len(s) - (k + 1) + 1 = Len(s) - k
          /\ \A i \in (k + 1)..Len(s) : s[i] \in Events
      BY <1>1, <1>2
    <2>2. /\ behind \in Seq(Events)
          /\ Len(behind) = IF k + 1 <= Len(s) THEN Len(s) - (k + 1) + 1 ELSE 0
          /\ \A i \in 1..(Len(s) - (k + 1) + 1) : behind[i] = s[(k + 1) + i - 1]
      BY <2>1, SubSeqProperties
    <2> HIDE DEF behind
    <2>3. Len(behind) = Len(s) - k
      <3>1. Len(behind) = IF k + 1 <= Len(s) THEN Len(s) - (k + 1) + 1 ELSE 0
        BY <2>2
      <3>2. k \in 1..Len(s) /\ Len(s) \in Nat
        BY <1>1, <1>2
      <3>3. \A m \in Nat : \A l \in 1..m : (IF l + 1 <= m THEN m - (l + 1) + 1 ELSE 0) = m - l
        OBVIOUS
      <3> QED BY <3>1, <3>2, <3>3
    <2>4. \A i \in 1..(Len(s) - k) : (k + 1) + i - 1 = k + i
      BY <1>1, <1>2
    <2> QED BY <2>1, <2>2, <2>3, <2>4
  <1>5. RemoveAt(s, k) = before \o behind
    BY DEF RemoveAt
  <1> HIDE DEF before, behind
  <1> DEFINE t == before \o behind
  <1>6. /\ t \in Seq(Events) /\ Len(t) = Len(s) - 1
        /\ \A i \in 1..Len(t) : t[i] = IF i < k THEN before[i] ELSE behind[i - (k - 1)]
    <2>1. /\ t \in Seq(Events) /\ Len(t) = Len(before) + Len(behind)
          /\ \A i \in 1..(Len(before) + Len(behind)) :
               t[i] = IF i <= Len(before) THEN before[i] ELSE behind[i - Len(before)]
      <3>1. before \in Seq(Events) /\ behind \in Seq(Events)
        BY <1>3, <1>4
      <3> QED BY <3>1, ConcatProperties
    <2> HIDE DEF t
    <2>2. Len(t) = Len(s) - 1 /\ \A i \in 1..Len(t) : i < k <=> i <= Len(before)
      BY <1>1, <1>2, <1>3, <1>4, <2>1
    <2> QED BY <1>3, <2>1, <2>2
  <1> HIDE DEF t
  <1>7. \A i \in 1..Len(t) : t[i] = s[IF i < k THEN i ELSE i + 1]
    <2> TAKE i \in 1..Len(t)
    <2>1. CASE i < k
      BY <1>1, <1>2, <1>3, <1>6, <2>1
    <2>2. CASE ~(i < k)
      <3>1. i - (k - 1) \in 1..(Len(s) - k) /\ k + (i - (k - 1)) = i + 1
        BY <1>1, <1>2, <1>6, <2>2
      <3> QED BY <1>4, <1>6, <2>2, <3>1
    <2> QED BY <2>1, <2>2
  <1>8. Shorter(t, s, k)
    BY <1>1, <1>2, <1>6, <1>7 DEF Shorter
  <1> QED BY <1>2, <1>5, <1>8 DEF t

----------------------------------------------------------------------------
(* Inv is inductive.                                                       *)
LEMMA PostedTypes ==
  ASSUME Inv
  PROVE  /\ posted \in Seq(Events) /\ Len(posted) \in Nat /\ DOMAIN posted = 1..Len(posted)
         /\ \A i \in 1..Len(posted) : posted[i] \in Events /\ posted[i].reply \in Replies
         /\ \A r \in Replies : reply[r] \in Reply
PROOF
  <1>1. posted \in Seq(Events) /\ \A r \in Replies : reply[r] \in Reply
    BY DEF Inv, EventsInv, Types
  <1>2. \A e \in Events : e.reply \in Replies
    BY DEF Events
  <1>3. /\ Len(posted) \in Nat /\ DOMAIN posted = 1..Len(posted)
        /\ \A i \in 1..Len(posted) : posted[i] \in Events
    BY <1>1
  <1> QED BY <1>1, <1>2, <1>3

LEMMA InitInv == Init => Inv
PROOF
  <1> SUFFICES ASSUME Init PROVE Inv
    OBVIOUS
  <1>1. /\ reply = [r \in Replies |-> Unused] /\ current = NoReply /\ busy = FALSE
        /\ posted = <<>>
    BY DEF Init
  <1>2. Unused \in Reply /\ Unused.life = "unused" /\ Unused.unread = FALSE
    BY DEF Unused, Reply
  <1>3. <<>> \in Seq(Events) /\ Len(<<>>) = 0
    OBVIOUS
  <1>4. EventsInv(posted)
    BY <1>1, <1>3 DEF EventsInv, DeletedLast, TwoAtMost, OneEnds
  <1>5. Types
    BY <1>1, <1>2 DEF Types
  <1>6. ParserInv /\ UnreadInv /\ AllFinished
    BY <1>1, <1>2, <1>3 DEF ParserInv, UnreadInv, AllFinished, IsListing
  <1> QED BY <1>4, <1>5, <1>6 DEF Inv

(* A reply begins at an address nobody uses, for which nothing is posted.  *)
LEMMA NothingPosted ==
  ASSUME Inv, NEW r \in Replies, reply[r].life # "finished"
  PROVE  \A i \in 1..Len(posted) : posted[i].reply # r
BY DEF Inv, AllFinished

LEMMA GetNetworkDirectoryKeepsInv ==
  ASSUME Inv, NEW p \in Paths, GetNetworkDirectory(p) PROVE Inv'
PROOF
  <1>1. posted' = posted
    BY DEF GetNetworkDirectory
  <1>2. CASE ~Accepts
    <2>1. reply' = reply /\ current' = current /\ busy' = busy /\ items' = items
      BY <1>2 DEF GetNetworkDirectory
    <2> QED BY <1>1, <2>1 DEF Inv, Types, ParserInv, UnreadInv, AllFinished
  <1>3. CASE Accepts
    <2>1. PICK r \in Replies :
            /\ reply[r].life = "unused"
            /\ reply' = [reply EXCEPT ![r] = Running("list", p)]
            /\ current' = r /\ busy' = TRUE /\ items' = NoListing
      BY <1>3 DEF GetNetworkDirectory, ListDirectory
    <2>2. ~busy /\ current = NoReply
      BY <1>3 DEF Accepts
    <2>3. /\ Running("list", p) \in Reply /\ Running("list", p).life = "running"
          /\ Running("list", p).kind = "list" /\ Running("list", p).unread = FALSE
      BY DEF Running, Reply
    <2>4. reply \in [Replies -> Reply] /\ \A i \in 1..Len(posted) : posted[i].reply # r
      BY <2>1, NothingPosted DEF Inv, Types
    <2>5. /\ reply' \in [Replies -> Reply] /\ reply'[r] = Running("list", p)
          /\ \A o \in Replies \ {r} : reply'[o] = reply[o]
      BY <2>1, <2>3, <2>4
    <2>6. Types'
      BY <2>1, <2>5 DEF Types
    <2>7. ParserInv'
      <3>1. \A i \in 1..Len(posted) : ~Ends(posted[i])
        BY <2>2 DEF Inv, ParserInv
      <3>2. \A o \in Replies : ~IsListing(reply[o])
        BY <2>2 DEF Inv, ParserInv, NoReply, Replies
      <3>3. IsListing(reply'[r]) /\ \A o \in Replies \ {r} : ~IsListing(reply'[o])
        BY <2>3, <2>5, <3>2 DEF IsListing
      <3> QED BY <1>1, <2>1, <3>1, <3>3 DEF ParserInv
    <2>8. UnreadInv'
      BY <1>1, <2>3, <2>5 DEF Inv, UnreadInv
    <2>9. AllFinished'
      BY <1>1, <2>4, <2>5, PostedTypes DEF Inv, AllFinished
    <2> QED BY <1>1, <2>6, <2>7, <2>8, <2>9 DEF Inv
  <1> QED BY <1>2, <1>3

LEMMA GetKeepsInv == ASSUME Inv, Get PROVE Inv'
PROOF
  <1>1. PICK r \in Replies :
          /\ reply[r].life = "unused"
          /\ reply' = [reply EXCEPT ![r] = Running("get", NoPath)]
    BY DEF Get
  <1>2. posted' = posted /\ current' = current /\ busy' = busy /\ items' = items
    BY DEF Get
  <1>3. /\ Running("get", NoPath) \in Reply /\ Running("get", NoPath).kind = "get"
        /\ Running("get", NoPath).unread = FALSE
    BY DEF Running, Reply
  <1>4. reply \in [Replies -> Reply] /\ \A i \in 1..Len(posted) : posted[i].reply # r
    BY <1>1, NothingPosted DEF Inv, Types
  <1>5. /\ reply' \in [Replies -> Reply] /\ reply'[r] = Running("get", NoPath)
        /\ \A o \in Replies \ {r} : reply'[o] = reply[o]
    BY <1>1, <1>3, <1>4
  <1>6. Types'
    BY <1>2, <1>5 DEF Inv, Types
  <1>7. ParserInv'
    <2>1. ~IsListing(reply[r]) /\ ~IsListing(reply'[r])
      BY <1>1, <1>3, <1>5 DEF IsListing
    <2>2. current \in Replies \cup {NoReply} /\ ParserInv
      BY DEF Inv, Types
    <2>3. current # NoReply => current # r
      BY <2>1, <2>2 DEF ParserInv
    <2>4. current # NoReply => IsListing(reply'[current])
      BY <1>5, <2>2, <2>3 DEF ParserInv
    <2>5. \A o \in Replies : IsListing(reply'[o]) => current = o
      BY <1>5, <2>1, <2>2 DEF ParserInv
    <2> QED BY <1>2, <2>2, <2>4, <2>5 DEF ParserInv
  <1>8. UnreadInv'
    BY <1>2, <1>3, <1>5 DEF Inv, UnreadInv
  <1>9. AllFinished'
    BY <1>2, <1>4, <1>5, PostedTypes DEF Inv, AllFinished
  <1> QED BY <1>2, <1>6, <1>7, <1>8, <1>9 DEF Inv

(* The events posted when a reply has ended: they are the first for it.    *)
AddedFor(t, r) ==
  /\ EventsInv(t)
  /\ \A i \in 1..Len(t) :
       \/ i \in 1..Len(posted) /\ t[i] = posted[i]
       \/ t[i].reply = r /\ (Ends(t[i]) => reply[r].kind = "list")

LEMMA EventsOfEnd ==
  ASSUME Inv, NEW r \in Replies, reply[r].life = "running"
  PROVE  /\ AddedFor(posted \o PostFinished(r), r)
         /\ LET t == posted \o PostFinished(r) IN \A i \in 1..Len(t) : t[i] # Event("delete", r)
         /\ AddedFor(posted \o Append(PostFinished(r), Event("delete", r)), r)
PROOF
  <1> DEFINE a == Event("deleteDevice", r)
             b == Event("replyDeleteLater", r)
             c == Event("delete", r)
             s1 == Append(posted, a)
             s2 == Append(s1, b)
  <1>1. /\ a \in Events /\ a.kind = "deleteDevice" /\ a.reply = r
        /\ b \in Events /\ b.kind = "replyDeleteLater" /\ b.reply = r
        /\ c \in Events /\ c.kind = "delete" /\ c.reply = r
    BY EventType DEF EventKinds
  <1>2. EventsInv(posted) /\ \A i \in 1..Len(posted) : posted[i].reply # r
    BY NothingPosted DEF Inv
  <1> HIDE DEF a, b, c
  <1>3. /\ EventsInv(s1) /\ Len(s1) = Len(posted) + 1 /\ Len(posted) \in Nat
        /\ \A i \in 1..Len(posted) : s1[i] = posted[i]
        /\ s1[Len(posted) + 1] = a
    BY <1>1, <1>2, Appending DEF Deletes, Ends
  <1> HIDE DEF s1
  <1>4. AddedFor(s1, r) /\ \A i \in 1..Len(s1) : s1[i] # c
    BY <1>1, <1>2, <1>3 DEF AddedFor, Ends
  <1>5. /\ EventsInv(Append(s1, c))
        /\ Len(Append(s1, c)) = Len(s1) + 1
        /\ \A i \in 1..Len(s1) : Append(s1, c)[i] = s1[i]
        /\ Append(s1, c)[Len(s1) + 1] = c
    <2>1. \A i, j \in 1..Len(s1) : i < j => s1[i].reply # r
      BY <1>1, <1>2, <1>3
    <2> QED BY <1>1, <1>3, <2>1, Appending DEF Deletes, Ends
  <1>6. AddedFor(Append(s1, c), r)
    BY <1>1, <1>3, <1>4, <1>5 DEF AddedFor, Ends
  <1>7. ASSUME reply[r].kind = "list"
        PROVE  /\ AddedFor(s2, r) /\ \A i \in 1..Len(s2) : s2[i] # c
               /\ AddedFor(Append(s2, c), r)
    <2>1. \A i \in 1..Len(posted) : ~Ends(posted[i])
      <3>1. current = r /\ r # NoReply
        BY <1>7 DEF Inv, ParserInv, IsListing, NoReply, Replies
      <3> QED BY <3>1 DEF Inv, ParserInv
    <2>2. /\ \A i \in 1..Len(s1) : s1[i].reply = r => s1[i] = a
          /\ \A i \in 1..Len(s1) : ~Ends(s1[i])
          /\ \A i, j \in 1..Len(s1) : i < j => s1[i].reply # r
      BY <1>1, <1>2, <1>3, <2>1 DEF Ends
    <2>3. /\ EventsInv(s2) /\ Len(s2) = Len(s1) + 1
          /\ \A i \in 1..Len(s1) : s2[i] = s1[i]
          /\ s2[Len(s1) + 1] = b
      BY <1>1, <1>3, <2>2, Appending DEF Deletes, Ends
    <2> HIDE DEF s2
    <2>4. AddedFor(s2, r) /\ \A i \in 1..Len(s2) : s2[i] # c
      BY <1>1, <1>3, <1>4, <1>7, <2>3 DEF AddedFor, Ends
    <2>5. \A i, j \in 1..Len(s2) : i < j /\ s2[i].reply = r => s2[i].kind = "deleteDevice"
      BY <1>1, <1>3, <2>2, <2>3
    <2>6. /\ EventsInv(Append(s2, c))
          /\ Len(Append(s2, c)) = Len(s2) + 1
          /\ \A i \in 1..Len(s2) : Append(s2, c)[i] = s2[i]
          /\ Append(s2, c)[Len(s2) + 1] = c
      BY <1>1, <2>3, <2>5, Appending DEF Deletes, Ends
    <2>7. AddedFor(Append(s2, c), r)
      BY <1>1, <1>3, <2>3, <2>4, <2>6 DEF AddedFor, Ends
    <2> QED BY <2>4, <2>7
  <1>8. posted \in Seq(Events)
    BY <1>2 DEF EventsInv
  <1>9. CASE reply[r].kind = "list"
    <2>1. PostFinished(r) = <<a, b>>
      BY <1>9 DEF PostFinished, a, b
    <2>2. posted \o <<a, b>> = s2 /\ posted \o Append(<<a, b>>, c) = Append(s2, c)
      BY <1>1, <1>8, AppendsOneByOne DEF s1
    <2> QED BY <1>7, <1>9, <2>1, <2>2 DEF c
  <1>10. CASE reply[r].kind # "list"
    <2>1. PostFinished(r) = <<a>>
      BY <1>10 DEF PostFinished, a
    <2>2. posted \o <<a>> = s1 /\ posted \o Append(<<a>>, c) = Append(s1, c)
      BY <1>1, <1>8, AppendsOneByOne DEF s1
    <2> QED BY <1>4, <1>6, <2>1, <2>2 DEF c
  <1> QED BY <1>9, <1>10

LEMMA FinishKeepsInv ==
  ASSUME Inv, NEW r \in Replies, reply[r].life = "running",
         NEW document, NEW whole, NEW unread \in BOOLEAN, Finish(r, document, whole, unread),
         busy' = busy, AddedFor(posted', r),
         unread => \A i \in 1..Len(posted') : posted'[i] # Event("delete", r)
  PROVE  Inv'
PROOF
  <1> DEFINE new == [reply[r] EXCEPT !.life = "finished", !.unread = unread]
  <1>1. reply \in [Replies -> Reply] /\ reply[r] \in Reply
    BY PostedTypes DEF Inv, Types
  <1>2. reply' = [reply EXCEPT ![r] = new]
    BY <1>1 DEF Finish
  <1>3. /\ current' = IF current # r THEN current ELSE NoReply
        /\ current # r => items' = items
    BY DEF Finish
  <1>4. new \in Reply /\ new.life = "finished" /\ new.unread = unread
    BY <1>1 DEF Reply
  <1> HIDE DEF new
  <1>5. /\ reply' \in [Replies -> Reply] /\ reply'[r] = new
        /\ \A o \in Replies \ {r} : reply'[o] = reply[o]
    BY <1>1, <1>2, <1>4
  <1>6. Types'
    BY <1>3, <1>5 DEF Inv, Types
  <1>7. EventsInv(posted') /\ Len(posted) \in Nat /\ Len(posted') \in Nat
    BY PostedTypes DEF AddedFor, EventsInv
  <1>8. /\ current # NoReply => IsListing(reply[current]) /\ busy /\ items = NoListing
        /\ \A o \in Replies : IsListing(reply[o]) => current = o
        /\ \A i \in 1..Len(posted) : Ends(posted[i]) => busy /\ current = NoReply
        /\ current \in Replies \cup {NoReply} /\ NoReply \notin Replies
    BY DEF Inv, ParserInv, Types, NoReply, Replies
  <1>9. \A o \in Replies : IsListing(reply'[o]) => o # r /\ IsListing(reply[o])
    BY <1>4, <1>5 DEF IsListing
  <1>10. ParserInv'
    <2>1. current' # NoReply => IsListing(reply'[current']) /\ busy /\ items' = NoListing
      BY <1>3, <1>5, <1>8
    <2>2. \A o \in Replies : IsListing(reply'[o]) => current' = o
      BY <1>3, <1>8, <1>9
    <2>3. ASSUME NEW i \in 1..Len(posted'), Ends(posted'[i]) PROVE busy /\ current' = NoReply
      <3>1. CASE i \in 1..Len(posted) /\ posted'[i] = posted[i]
        BY <1>3, <1>8, <2>3, <3>1
      <3>2. CASE reply[r].kind = "list"
        <4>1. IsListing(reply[r])
          BY <3>2 DEF IsListing
        <4> QED BY <1>3, <1>8, <4>1
      <3> QED BY <2>3, <3>1, <3>2 DEF AddedFor
    <2> QED BY <2>1, <2>2, <2>3 DEF ParserInv
  <1>11. UnreadInv'
    <2> SUFFICES ASSUME NEW o \in Replies, reply'[o].unread
                 PROVE  /\ reply'[o].life = "finished"
                        /\ \A i \in 1..Len(posted') : posted'[i] # Event("delete", o)
      BY DEF UnreadInv
    <2>1. CASE o = r
      BY <1>4, <1>5, <2>1
    <2>2. CASE o # r
      <3>1. /\ reply'[o] = reply[o] /\ reply[o].life = "finished"
            /\ \A i \in 1..Len(posted) : posted[i] # Event("delete", o)
        BY <1>5, <2>2 DEF Inv, UnreadInv
      <3>2. Event("delete", o).reply = o
        BY DEF Event
      <3> QED BY <2>2, <3>1, <3>2 DEF AddedFor
    <2> QED BY <2>1, <2>2
  <1>12. AllFinished'
    <2> SUFFICES ASSUME NEW i \in 1..Len(posted')
                 PROVE  reply'[posted'[i].reply].life = "finished"
      BY DEF AllFinished
    <2>1. CASE posted'[i].reply = r
      BY <1>4, <1>5, <2>1
    <2>2. CASE posted'[i].reply # r
      <3>1. i \in 1..Len(posted) /\ posted'[i] = posted[i]
        BY <2>2 DEF AddedFor
      <3>2. posted[i].reply \in Replies /\ reply[posted[i].reply].life = "finished"
        BY <3>1, PostedTypes DEF Inv, AllFinished
      <3> QED BY <1>5, <2>2, <3>1, <3>2
    <2> QED BY <2>1, <2>2
  <1> QED BY <1>6, <1>7, <1>10, <1>11, <1>12 DEF Inv

LEMMA ReplyFinishedKeepsInv ==
  ASSUME Inv, NEW r \in Replies, reply[r].life = "running",
         NEW document, NEW whole, NEW unread \in BOOLEAN, ReplyFinished(r, document, whole, unread)
  PROVE  Inv'
PROOF
  <1>1. /\ Finish(r, document, whole, unread) /\ busy' = busy
        /\ posted' = posted \o PostFinished(r)
    BY DEF ReplyFinished
  <1>2. AddedFor(posted', r) /\ \A i \in 1..Len(posted') : posted'[i] # Event("delete", r)
    BY <1>1, EventsOfEnd
  <1> QED BY <1>1, <1>2, FinishKeepsInv

LEMMA ReplyEndsKeepsInv == ASSUME Inv, NEW r \in Replies, ReplyEnds(r) PROVE Inv'
PROOF
  <1>1. reply[r].life = "running"
    BY DEF ReplyEnds
  <1>2. CASE \E style \in Styles : ReplyFinished(r, Document(style), TRUE, FALSE)
    <2>1. PICK style \in Styles : ReplyFinished(r, Document(style), TRUE, FALSE)
      BY <1>2
    <2>2. FALSE \in BOOLEAN
      OBVIOUS
    <2> QED BY <1>1, <2>1, <2>2, ReplyFinishedKeepsInv
  <1>3. CASE \E document \in FaultyDocuments : ReplyFinished(r, document, FALSE, FALSE)
    <2>1. PICK document \in FaultyDocuments : ReplyFinished(r, document, FALSE, FALSE)
      BY <1>3
    <2>2. FALSE \in BOOLEAN
      OBVIOUS
    <2> QED BY <1>1, <2>1, <2>2, ReplyFinishedKeepsInv
  <1>4. CASE \E unread \in BOOLEAN : ReplyFinished(r, NotXml, FALSE, unread)
    BY <1>1, <1>4, ReplyFinishedKeepsInv
  <1> QED BY <1>2, <1>3, <1>4 DEF ReplyEnds

LEMMA ProvideAuthenticationKeepsInv ==
  ASSUME Inv, NEW r \in Replies, ProvideAuthentication(r) PROVE Inv'
PROOF
  <1>1. reply[r].life = "running" /\ busy' = busy
    BY DEF ProvideAuthentication
  <1>2. CASE r = lastReply
    <2>1. /\ Finish(r, NotXml, FALSE, FALSE)
          /\ posted' = posted \o Append(PostFinished(r), Event("delete", r))
      BY <1>2 DEF ProvideAuthentication
    <2>2. AddedFor(posted', r)
      BY <1>1, <2>1, EventsOfEnd
    <2>3. FALSE \in BOOLEAN
      OBVIOUS
    <2> QED BY <1>1, <2>1, <2>2, <2>3, FinishKeepsInv
  <1>3. CASE r # lastReply
    <2>1. /\ reply' = reply /\ current' = current /\ items' = items /\ posted' = posted
      BY <1>3 DEF ProvideAuthentication
    <2> QED BY <1>1, <2>1 DEF Inv, Types, ParserInv, UnreadInv, AllFinished
  <1> QED BY <1>2, <1>3

LEMMA RunDeleteDeviceKeepsInv == ASSUME Inv, NEW r \in Replies, RunDeleteDevice(r) PROVE Inv'
PROOF
  <1>1. /\ posted # <<>> /\ posted' = Tail(posted)
        /\ reply' = reply /\ current' = current /\ busy' = busy /\ items' = items
    BY DEF RunDeleteDevice
  <1>2. Shorter(posted', posted, 1)
    BY <1>1, TailIsShorter DEF Inv, EventsInv
  <1>3. EventsInv(posted') /\ \A i \in 1..Len(posted') : \E j \in 1..Len(posted) : posted'[i] = posted[j]
    BY <1>2, ShorterKeeps DEF Inv
  <1> QED BY <1>1, <1>3 DEF Inv, Types, ParserInv, UnreadInv, AllFinished

(* The parser's event: it comes back for unread bytes, or posts the        *)
(* deletion and frees the parser.                                          *)
LEMMA RunReplyDeleteLaterKeepsInv ==
  ASSUME Inv, NEW r \in Replies, RunReplyDeleteLater(r) PROVE Inv'
PROOF
  <1> DEFINE rest == Tail(posted)
             b == Event("replyDeleteLater", r)
             c == Event("delete", r)
  <1>1. posted # <<>> /\ Head(posted) = b /\ current' = current /\ items' = items
    BY DEF RunReplyDeleteLater
  <1>2. /\ b \in Events /\ b.kind = "replyDeleteLater" /\ b.reply = r
        /\ c \in Events /\ c.kind = "delete" /\ c.reply = r
    BY EventType DEF EventKinds
  <1>3. /\ posted \in Seq(Events) /\ Len(posted) \in Nat
        /\ reply \in [Replies -> Reply] /\ reply[r] \in Reply
    BY PostedTypes DEF Inv, Types
  <1>4. Shorter(rest, posted, 1) /\ posted[1] = b
    BY <1>1, <1>3, TailIsShorter
  <1>5. /\ EventsInv(rest)
        /\ \A i \in 1..Len(rest) : \E j \in 1..Len(posted) : rest[i] = posted[j]
    BY <1>4, ShorterKeeps DEF Inv
  <1>6. /\ Len(posted) = Len(rest) + 1 /\ Len(rest) \in Nat
        /\ \A i \in 1..Len(rest) : rest[i] = posted[i + 1] /\ i + 1 \in 1..Len(posted)
        /\ 1 \in 1..Len(posted)
    BY <1>4, <1>5 DEF Shorter, EventsInv
  <1>7. reply[r].life = "finished"
    BY <1>2, <1>4, <1>6 DEF Inv, AllFinished
  <1>8. busy /\ current = NoReply
    BY <1>2, <1>4, <1>6 DEF Inv, ParserInv, Ends
  <1> HIDE DEF rest, b, c
  <1>9. \A i \in 1..Len(rest) : ~Ends(rest[i])
    <2> SUFFICES ASSUME NEW i \in 1..Len(rest), Ends(posted[i + 1]) PROVE FALSE
      BY <1>6
    <2>1. i + 1 = 1
      BY <1>2, <1>4, <1>6 DEF Inv, EventsInv, OneEnds, Ends
    <2> QED BY <1>6, <2>1
  <1>10. \A i, j \in 1..Len(rest) :
           i < j /\ rest[i].reply = r /\ rest[j].reply = r
             => "deleteDevice" \in {rest[i].kind, rest[j].kind}
    <2> SUFFICES ASSUME NEW i \in 1..Len(rest), NEW j \in 1..Len(rest), i < j,
                        posted[i + 1].reply = r, posted[j + 1].reply = r
                 PROVE  "deleteDevice" \in {posted[i + 1].kind, posted[j + 1].kind}
      BY <1>6
    <2>1. 1 < i + 1 /\ i + 1 < j + 1 /\ i + 1 \in 1..Len(posted) /\ j + 1 \in 1..Len(posted)
      BY <1>6
    <2>2. \E l \in {1, i + 1, j + 1} : posted[l].kind = "deleteDevice"
      BY <1>2, <1>4, <1>6, <2>1 DEF Inv, EventsInv, TwoAtMost
    <2> QED BY <1>2, <1>4, <2>2
  <1>11. CASE reply[r].unread
    <2> DEFINE new == [reply[r] EXCEPT !.unread = FALSE]
    <2>1. /\ reply' = [reply EXCEPT ![r] = new]
          /\ posted' = Append(rest, b) /\ busy' = busy
      BY <1>1, <1>3, <1>11 DEF RunReplyDeleteLater, rest
    <2>2. new \in Reply /\ new.life = "finished" /\ new.unread = FALSE /\ new.kind = reply[r].kind
      BY <1>3, <1>7 DEF Reply
    <2> HIDE DEF new
    <2>3. /\ reply' \in [Replies -> Reply] /\ reply'[r] = new
          /\ \A o \in Replies \ {r} : reply'[o] = reply[o]
      BY <1>3, <2>1, <2>2
    <2>4. \A i \in 1..Len(rest) : rest[i].reply = r => ~Deletes(rest[i])
      <3> SUFFICES ASSUME NEW i \in 1..Len(rest), posted[i + 1].reply = r,
                          posted[i + 1].kind = "delete"
                   PROVE  FALSE
        BY <1>6 DEF Deletes
      <3>1. i + 1 \in 1..Len(posted) /\ posted[i + 1] \in Events
        BY <1>6, PostedTypes
      <3>2. posted[i + 1] = Event("delete", r)
        BY <3>1, EventIs
      <3> QED BY <1>11, <3>1, <3>2 DEF Inv, UnreadInv
    <2>5. /\ EventsInv(Append(rest, b)) /\ Len(Append(rest, b)) = Len(rest) + 1
          /\ \A i \in 1..Len(rest) : Append(rest, b)[i] = rest[i]
          /\ Append(rest, b)[Len(rest) + 1] = b
      <3>1. \A i, j \in 1..Len(rest) :
              i < j /\ rest[i].reply = b.reply /\ rest[j].reply = b.reply
                => "deleteDevice" \in {rest[i].kind, rest[j].kind, b.kind}
        BY <1>2, <1>10
      <3>2. \A i \in 1..Len(rest) : rest[i].reply = b.reply => ~Deletes(rest[i])
        BY <1>2, <2>4
      <3> QED BY <1>2, <1>5, <1>9, <3>1, <3>2, Appending
    <2>6. EventsInv(posted') /\ \A i \in 1..Len(posted') : \E j \in 1..Len(posted) : posted'[i] = posted[j]
      BY <1>4, <1>5, <1>6, <2>1, <2>5
    <2>7. Types'
      BY <1>1, <2>1, <2>3 DEF Inv, Types
    <2>8. ParserInv'
      <3>1. \A o \in Replies : ~IsListing(reply'[o])
        BY <1>8, <2>2, <2>3 DEF Inv, ParserInv, IsListing, NoReply, Replies
      <3> QED BY <1>1, <1>8, <2>1, <3>1 DEF ParserInv
    <2>9. UnreadInv'
      BY <2>2, <2>3, <2>6 DEF Inv, UnreadInv
    <2>10. AllFinished'
      BY <2>2, <2>3, <2>6, PostedTypes DEF Inv, AllFinished
    <2> QED BY <2>6, <2>7, <2>8, <2>9, <2>10 DEF Inv
  <1>12. CASE ~reply[r].unread
    <2>1. reply' = reply /\ posted' = Append(rest, c) /\ busy' = FALSE
      BY <1>7, <1>12 DEF RunReplyDeleteLater, rest, c
    <2>2. /\ EventsInv(Append(rest, c)) /\ Len(Append(rest, c)) = Len(rest) + 1
          /\ \A i \in 1..Len(rest) : Append(rest, c)[i] = rest[i]
          /\ Append(rest, c)[Len(rest) + 1] = c
      BY <1>2, <1>5, <1>10, Appending DEF Deletes, Ends
    <2>3. \A i \in 1..Len(posted') :
            posted'[i] = c \/ \E j \in 1..Len(posted) : posted'[i] = posted[j] /\ ~Ends(posted[j])
      <3> TAKE i \in 1..Len(posted')
      <3>1. CASE i \in 1..Len(rest)
        <4>1. posted'[i] = rest[i] /\ ~Ends(rest[i])
          BY <1>9, <2>1, <2>2, <3>1
        <4>2. PICK j \in 1..Len(posted) : rest[i] = posted[j]
          BY <1>5, <3>1
        <4> QED BY <4>1, <4>2
      <3>2. CASE i = Len(rest) + 1
        BY <2>1, <2>2, <3>2
      <3> QED BY <1>6, <2>1, <2>2, <3>1, <3>2
    <2>4. Types'
      BY <1>1, <2>1 DEF Inv, Types
    <2>5. ParserInv'
      <3>1. \A i \in 1..Len(posted') : ~Ends(posted'[i])
        BY <1>2, <2>3 DEF Ends
      <3> QED BY <1>1, <1>8, <2>1, <3>1 DEF Inv, ParserInv
    <2>6. UnreadInv'
      <3>1. ASSUME NEW o \in Replies, reply[o].unread
            PROVE  /\ reply[o].life = "finished"
                   /\ \A i \in 1..Len(posted') : posted'[i] # Event("delete", o)
        <4>1. o # r /\ c # Event("delete", o)
          BY <1>2, <1>12, <3>1 DEF Event
        <4> QED BY <2>3, <3>1, <4>1 DEF Inv, UnreadInv
      <3> QED BY <2>1, <3>1 DEF UnreadInv
    <2>7. AllFinished'
      BY <1>2, <1>7, <2>1, <2>3 DEF Inv, AllFinished
    <2> QED BY <2>1, <2>2, <2>4, <2>5, <2>6, <2>7 DEF Inv
  <1> QED BY <1>11, <1>12

(* The deletion: it is the last event of its reply, or the last but one of *)
(* two deletions, the other of which goes with it.                         *)
LEMMA NoneLeft ==
  ASSUME Inv, NEW r \in Replies, RunDelete(r)
  PROVE  /\ EventsInv(posted')
         /\ \A i \in 1..Len(posted') :
              posted'[i].reply # r /\ \E j \in 1..Len(posted) : posted'[i] = posted[j]
PROOF
  <1> DEFINE rest == Tail(posted)
             c == Event("delete", r)
             t == Without(rest, c)
  <1>1. posted # <<>> /\ Head(posted) = c /\ posted' = t
    BY DEF RunDelete
  <1>2. c \in Events /\ c.kind = "delete" /\ c.reply = r
    BY EventType DEF EventKinds
  <1>3. posted \in Seq(Events) /\ EventsInv(posted)
    BY PostedTypes DEF Inv
  <1>4. Shorter(rest, posted, 1) /\ posted[1] = c
    BY <1>1, <1>3, TailIsShorter
  <1>5. /\ EventsInv(rest)
        /\ \A i \in 1..Len(rest) : \E j \in 1..Len(posted) : rest[i] = posted[j]
    BY <1>3, <1>4, ShorterKeeps
  <1>6. /\ rest \in Seq(Events) /\ Len(posted) = Len(rest) + 1 /\ Len(rest) \in Nat
        /\ \A i \in 1..Len(rest) : rest[i] = posted[i + 1] /\ i + 1 \in 1..Len(posted)
        /\ 1 \in 1..Len(posted) /\ DOMAIN rest = 1..Len(rest)
    BY <1>4, <1>5 DEF Shorter, EventsInv
  <1> HIDE DEF rest, c
  <1>7. \A i \in 1..Len(rest) : rest[i].reply = r => rest[i] = c
    <2> SUFFICES ASSUME NEW i \in 1..Len(rest), posted[i + 1].reply = r PROVE posted[i + 1] = c
      BY <1>6
    <2>1. posted[i + 1].kind = "delete" /\ posted[i + 1] \in Events
      BY <1>2, <1>3, <1>4, <1>6 DEF EventsInv, DeletedLast, Deletes
    <2> QED BY <2>1, EventIs DEF c
  <1>8. \A i, j \in 1..Len(rest) : i < j => ~(rest[i] = c /\ rest[j] = c)
    <2> SUFFICES ASSUME NEW i \in 1..Len(rest), NEW j \in 1..Len(rest), i < j,
                        posted[i + 1] = c, posted[j + 1] = c
                 PROVE  FALSE
      BY <1>6
    <2>1. 1 < i + 1 /\ i + 1 < j + 1 /\ i + 1 \in 1..Len(posted) /\ j + 1 \in 1..Len(posted)
      BY <1>6
    <2>2. \E l \in {1, i + 1, j + 1} : posted[l].kind = "deleteDevice"
      BY <1>2, <1>3, <1>4, <1>6, <2>1 DEF EventsInv, TwoAtMost
    <2> QED BY <1>2, <1>4, <2>2
  <1>9. CASE \A i \in 1..Len(rest) : rest[i] # c
    <2>1. t = rest
      BY <1>6, <1>9 DEF Without
    <2> QED BY <1>1, <1>5, <1>7, <1>9, <2>1
  <1>10. ASSUME NEW n \in 1..Len(rest), rest[n] = c
         PROVE  /\ EventsInv(t)
                /\ \A i \in 1..Len(t) :
                     t[i].reply # r /\ \E j \in 1..Len(posted) : t[i] = posted[j]
    <2>1. PICK k \in 1..Len(rest) : rest[k] = c /\ Shorter(t, rest, k)
      BY <1>6, <1>10, WithoutIsShorter
    <2> HIDE DEF t
    <2>2. EventsInv(t) /\ \A i \in 1..Len(t) : \E j \in 1..Len(rest) : t[i] = rest[j]
      <3>1. EventsInv(rest)
        BY <1>5
      <3>2. Shorter(t, rest, k)
        BY <2>1
      <3> QED BY <3>1, <3>2, ShorterKeeps
    <2>3. ASSUME NEW i \in 1..Len(t) PROVE t[i].reply # r
      <3>1. PICK j \in 1..Len(rest) : j # k /\ t[i] = rest[j]
        <4>1. t[i] = rest[IF i < k THEN i ELSE i + 1] /\ Len(rest) = Len(t) + 1 /\ Len(t) \in Nat
          BY <2>1, <2>2 DEF Shorter, EventsInv
        <4>2. (IF i < k THEN i ELSE i + 1) \in 1..Len(rest) /\ (IF i < k THEN i ELSE i + 1) # k
          BY <4>1
        <4> QED BY <4>1, <4>2
      <3>2. rest[j] # c
        BY <1>6, <1>8, <2>1, <3>1
      <3> QED BY <1>7, <3>1, <3>2
    <2> QED BY <1>5, <2>2, <2>3
  <1> QED BY <1>1, <1>9, <1>10

LEMMA RunDeleteKeepsInv == ASSUME Inv, NEW r \in Replies, RunDelete(r) PROVE Inv'
PROOF
  <1>1. /\ posted # <<>> /\ Head(posted) = Event("delete", r)
        /\ reply' = [reply EXCEPT ![r] = Unused]
        /\ current' = current /\ busy' = busy /\ items' = items
    BY DEF RunDelete
  <1>2. /\ EventsInv(posted')
        /\ \A i \in 1..Len(posted') :
             posted'[i].reply # r /\ \E j \in 1..Len(posted) : posted'[i] = posted[j]
    BY NoneLeft
  <1>3. reply \in [Replies -> Reply]
    BY DEF Inv, Types
  <1>4. Unused \in Reply /\ Unused.life = "unused" /\ Unused.unread = FALSE
    BY DEF Unused, Reply
  <1>5. /\ reply' \in [Replies -> Reply] /\ reply'[r] = Unused
        /\ \A o \in Replies \ {r} : reply'[o] = reply[o]
    BY <1>1, <1>3, <1>4
  <1>6. reply[r].life = "finished"
    <2>1. Head(posted) = posted[1] /\ 1 \in 1..Len(posted)
      BY <1>1, PostedTypes
    <2>2. posted[1].reply = r
      BY <1>1, <2>1 DEF Event
    <2> QED BY <2>1, <2>2 DEF Inv, AllFinished
  <1>7. Types'
    BY <1>1, <1>5 DEF Inv, Types
  <1>8. ParserInv'
    <2>1. ~IsListing(reply[r]) /\ ~IsListing(reply'[r])
      BY <1>4, <1>5, <1>6 DEF IsListing
    <2>2. current \in Replies \cup {NoReply} /\ ParserInv
      BY DEF Inv, Types
    <2>3. current # NoReply => current # r /\ IsListing(reply'[current])
      BY <1>5, <2>1, <2>2 DEF ParserInv
    <2>4. \A o \in Replies : IsListing(reply'[o]) => current = o
      BY <1>5, <2>1, <2>2 DEF ParserInv
    <2>5. \A i \in 1..Len(posted') : Ends(posted'[i]) => busy /\ current = NoReply
      BY <1>2, <2>2 DEF ParserInv
    <2> QED BY <1>1, <2>2, <2>3, <2>4, <2>5 DEF ParserInv
  <1>9. UnreadInv'
    BY <1>2, <1>4, <1>5 DEF Inv, UnreadInv
  <1>10. AllFinished'
    BY <1>2, <1>5, PostedTypes DEF Inv, AllFinished
  <1> QED BY <1>2, <1>7, <1>8, <1>9, <1>10 DEF Inv

LEMMA NextKeepsInv == Inv /\ [Next]_vars => Inv'
PROOF
  <1> SUFFICES ASSUME Inv, [Next]_vars PROVE Inv'
    OBVIOUS
  <1>1. CASE UNCHANGED vars
    BY <1>1 DEF vars, Inv, Types, ParserInv, UnreadInv, AllFinished
  <1>2. ASSUME NEW r \in Replies, RunDeleteDevice(r) \/ RunReplyDeleteLater(r) \/ RunDelete(r)
        PROVE  Inv'
    BY <1>2, RunDeleteDeviceKeepsInv, RunReplyDeleteLaterKeepsInv, RunDeleteKeepsInv
  <1> QED
    BY <1>1, <1>2, GetNetworkDirectoryKeepsInv, GetKeepsInv, ReplyEndsKeepsInv,
       ProvideAuthenticationKeepsInv DEF Next, RunPosted

LEMMA Invariance == Spec => []Inv
BY InitInv, NextKeepsInv, PTL DEF Spec

----------------------------------------------------------------------------
(* Two listings never mix, whatever the server answers and however         *)
(* listings, deletions and challenges follow each other.                   *)
THEOREM ListingsNeverMix == Spec => []OneListing
PROOF
  <1>1. Inv => OneListing
    BY DEF Inv, ParserInv, IsListing, OneListing, Replies, NoReply
  <1> QED BY <1>1, Invariance, PTL

(* A posted event finds its reply: neither of its owners deletes it under  *)
(* the other's events, and no new reply has taken its place.               *)
THEOREM PostedEventsFindTheirReply == Spec => []PostedReplyExists
PROOF
  <1>1. Inv => PostedReplyExists
    BY PostedTypes DEF Inv, AllFinished, PostedReplyExists
  <1> QED BY <1>1, Invariance, PTL

----------------------------------------------------------------------------
(* The two folds of the parser reach what is reached step by step.         *)
LEMMA PropstatsFold ==
  ASSUME NEW n \in Nat, NEW stats, DOMAIN stats = 1..n,
         NEW S, Nothing \in S, \A acc \in S : \A i \in 1..n : DavParsePropstat(acc, stats[i]) \in S,
         NEW w, w[0] = Nothing,
         \A m \in 0..(n - 1) : w[m + 1] = DavParsePropstat(w[m], stats[m + 1])
  PROVE  FoldLeft(DavParsePropstat, Nothing, stats) = w[n]
PROOF
  <1> DEFINE Is(h) == h = [s \in SUBSET (1..n) |->
                             IF s = {} THEN Nothing
                             ELSE DavParsePropstat(h[s \ {Max(s)}], stats[Max(s)])]
             step == [x \in S \X (1..n) |-> DavParsePropstat(x[1], stats[x[2]])]
             h == CHOOSE k : Is(k)
  <1>1. FoldLeft(DavParsePropstat, Nothing, stats) = h[1..n]
    BY DEF FoldLeft, MapThenFoldSet
  <1>2. \E k : Is(k)
    <2>1. step \in [S \X (1..n) -> S]
      OBVIOUS
    <2>2. \A acc \in S : \A i \in 1..n : step[<<acc, i>>] = DavParsePropstat(acc, stats[i])
      OBVIOUS
    <2> HIDE DEF step
    <2>3. PICK k \in [SUBSET (1..n) -> S] : Folded(k, n, Nothing, step)
      BY <2>1, FoldsExist
    <2>4. ASSUME NEW s \in SUBSET (1..n), s # {}
          PROVE  step[<<k[s \ {Max(s)}], Max(s)>>] = DavParsePropstat(k[s \ {Max(s)}], stats[Max(s)])
      <3>1. Max(s) \in 1..n
        BY <2>4, GreatestIsIn
      <3>2. k[s \ {Max(s)}] \in S
        BY <2>3
      <3> QED BY <2>2, <3>1, <3>2
    <2>5. Is(k)
      BY <2>3, <2>4 DEF Folded
    <2> QED BY <2>5
  <1>3. Is(h)
    <2> HIDE DEF Is
    <2> QED BY <1>2
  <1> HIDE DEF h
  <1>4. \A s \in SUBSET (1..n) :
          h[s] = IF s = {} THEN Nothing ELSE DavParsePropstat(h[s \ {Max(s)}], stats[Max(s)])
    BY <1>3, Zenon
  <1> HIDE DEF Is
  <1>5. h[{}] = w[0]
    BY <1>4
  <1>6. \A s \in SUBSET (1..n) : \A m \in 0..(n - 1) :
          s # {} /\ Max(s) = m + 1 /\ h[s \ {m + 1}] = w[m] => h[s] = w[m + 1]
    BY <1>4
  <1> QED BY <1>1, <1>5, <1>6, FoldReaches

LEMMA ResponsesFold ==
  ASSUME NEW n \in Nat, NEW document, DOMAIN document = 1..n, NEW in, NEW list,
         NEW S, list \in S, \A l \in S : \A i \in 1..n : ParseOne(in, l, document[i]) \in S,
         NEW w, w[0] = list,
         \A m \in 0..(n - 1) : w[m + 1] = ParseOne(in, w[m], document[m + 1])
  PROVE  ParseMultiResponse(in, list, document) = w[n]
PROOF
  <1> DEFINE Is(h) == h = [s \in SUBSET (1..n) |->
                             IF s = {} THEN list
                             ELSE ParseOne(in, h[s \ {Max(s)}], document[Max(s)])]
             step == [x \in S \X (1..n) |-> ParseOne(in, x[1], document[x[2]])]
             h == CHOOSE k : Is(k)
  <1>1. ParseMultiResponse(in, list, document) = h[1..n]
    BY DEF ParseMultiResponse, FoldLeft, MapThenFoldSet
  <1>2. \E k : Is(k)
    <2>1. step \in [S \X (1..n) -> S]
      OBVIOUS
    <2>2. \A l \in S : \A i \in 1..n : step[<<l, i>>] = ParseOne(in, l, document[i])
      OBVIOUS
    <2> HIDE DEF step
    <2>3. PICK k \in [SUBSET (1..n) -> S] : Folded(k, n, list, step)
      BY <2>1, FoldsExist
    <2>4. ASSUME NEW s \in SUBSET (1..n), s # {}
          PROVE  step[<<k[s \ {Max(s)}], Max(s)>>] = ParseOne(in, k[s \ {Max(s)}], document[Max(s)])
      <3>1. Max(s) \in 1..n
        BY <2>4, GreatestIsIn
      <3>2. k[s \ {Max(s)}] \in S
        BY <2>3
      <3> QED BY <2>2, <3>1, <3>2
    <2>5. Is(k)
      BY <2>3, <2>4 DEF Folded
    <2> QED BY <2>5
  <1>3. Is(h)
    <2> HIDE DEF Is
    <2> QED BY <1>2
  <1> HIDE DEF h
  <1>4. \A s \in SUBSET (1..n) :
          h[s] = IF s = {} THEN list ELSE ParseOne(in, h[s \ {Max(s)}], document[Max(s)])
    BY <1>3, Zenon
  <1> HIDE DEF Is
  <1>5. h[{}] = w[0]
    BY <1>4
  <1>6. \A s \in SUBSET (1..n) : \A m \in 0..(n - 1) :
          s # {} /\ Max(s) = m + 1 /\ h[s \ {m + 1}] = w[m] => h[s] = w[m + 1]
    BY <1>4
  <1> QED BY <1>1, <1>5, <1>6, FoldReaches

(* What is read of a response to a listing is what it is of: a directory   *)
(* without a size, or a file with one.                                     *)
IsRead(name) == [whole |-> TRUE, dir |-> IsDirectory(name), size |-> ~IsDirectory(name)]
Entry(in, name) == Item(in, name, name \in Collections, name \in Collections, name \notin Collections)

LEMMA PropstatsAreRead ==
  ASSUME NEW style \in Styles, NEW name \in Names \cup {Self}
  PROVE  FoldLeft(DavParsePropstat, Nothing, Propstats(style, name)) = IsRead(name)
PROOF
  <1> DEFINE found == Propstat("200", TRUE, Available(name), IsDirectory(name))
             missing == Propstat("404", TRUE, Asked \ Available(name), FALSE)
             S == {Nothing, IsRead(name)}
  <1>1. IsDirectory(name) \in BOOLEAN
    BY DEF IsDirectory
  <1>2. "getcontentlength" \in Available(name) <=> ~IsDirectory(name)
    BY DEF Available, Asked
  <1>3. DavParsePropstat(Nothing, missing) = Nothing
    BY DEF DavParsePropstat, Propstat, Nothing
  <1>4. DavParsePropstat(IsRead(name), missing) = IsRead(name)
    BY DEF DavParsePropstat, Propstat
  <1>5. DavParsePropstat(Nothing, found) = IsRead(name)
    <2>1. /\ found.status = "200" /\ found.prop /\ Nothing.whole
          /\ found.collection = IsDirectory(name) /\ found.properties = Available(name)
      BY DEF Propstat, Nothing
    <2>2. DavParsePropstat(Nothing, found)
            = [Nothing EXCEPT !.dir = @ \/ found.collection,
                              !.size = @ \/ "getcontentlength" \in found.properties]
      BY <2>1 DEF DavParsePropstat
    <2> DEFINE dir == FALSE \/ IsDirectory(name)
               size == FALSE \/ "getcontentlength" \in Available(name)
    <2>3. DavParsePropstat(Nothing, found) = [whole |-> TRUE, dir |-> dir, size |-> size]
      BY <2>1, <2>2 DEF Nothing
    <2>4. dir = IsDirectory(name)
      BY <1>1
    <2>5. size = ~IsDirectory(name)
      BY <1>1, <1>2
    <2> HIDE DEF dir, size
    <2> QED BY <2>3, <2>4, <2>5, Zenon DEF IsRead
  <1>6. DavParsePropstat(IsRead(name), found) = IsRead(name)
    <2>1. /\ found.status = "200" /\ found.prop /\ IsRead(name).whole
          /\ found.collection = IsDirectory(name) /\ found.properties = Available(name)
      BY DEF Propstat, IsRead
    <2>2. DavParsePropstat(IsRead(name), found)
            = [IsRead(name) EXCEPT !.dir = @ \/ found.collection,
                                   !.size = @ \/ "getcontentlength" \in found.properties]
      BY <2>1 DEF DavParsePropstat
    <2> DEFINE dir == IsDirectory(name) \/ IsDirectory(name)
               size == ~IsDirectory(name) \/ "getcontentlength" \in Available(name)
    <2>3. DavParsePropstat(IsRead(name), found) = [whole |-> TRUE, dir |-> dir, size |-> size]
      BY <2>1, <2>2 DEF IsRead
    <2>4. dir = IsDirectory(name)
      BY <1>1
    <2>5. size = ~IsDirectory(name)
      BY <1>1, <1>2
    <2> HIDE DEF dir, size
    <2> QED BY <2>3, <2>4, <2>5, Zenon DEF IsRead
  <1>7. Propstats(style, name) \in {<<found>>, <<missing, found>>, <<found, missing>>}
    BY DEF Propstats
  <1> DEFINE last == IsRead(name)
  <1> HIDE DEF found, missing, last
  <1>8. CASE Propstats(style, name) = <<found>>
    <2> DEFINE w == [i \in 0..1 |-> IF i = 0 THEN Nothing ELSE last]
    <2>1. w[0] = Nothing /\ w[1] = last
      OBVIOUS
    <2>2. DOMAIN <<found>> = 1..1 /\ <<found>>[1] = found
      OBVIOUS
    <2> HIDE DEF w
    <2>3. \A m \in 0..(1 - 1) : w[m + 1] = DavParsePropstat(w[m], <<found>>[m + 1])
      BY <1>5, <2>1, <2>2 DEF last
    <2>4. \A acc \in S : \A i \in 1..1 : DavParsePropstat(acc, <<found>>[i]) \in S
      BY <1>5, <1>6, <2>2
    <2>5. Nothing \in S
      OBVIOUS
    <2> HIDE DEF S
    <2>6. FoldLeft(DavParsePropstat, Nothing, <<found>>) = w[1]
      BY <2>1, <2>2, <2>3, <2>4, <2>5, PropstatsFold
    <2> QED BY <1>8, <2>1, <2>6 DEF last
  <1>9. CASE Propstats(style, name) \in {<<missing, found>>, <<found, missing>>}
    <2>0. PICK a, b : /\ Propstats(style, name) = <<a, b>>
                      /\ (a = missing /\ b = found) \/ (a = found /\ b = missing)
      BY <1>9
    <2> DEFINE w == [i \in 0..2 |-> IF i = 0 THEN Nothing
                                    ELSE IF i = 1 THEN DavParsePropstat(Nothing, a) ELSE last]
               stats == <<a, b>>
    <2>1. w[0] = Nothing /\ w[1] = DavParsePropstat(Nothing, a) /\ w[2] = last
      OBVIOUS
    <2>2. DOMAIN stats = 1..2 /\ stats[1] = a /\ stats[2] = b
      OBVIOUS
    <2> HIDE DEF w, stats
    <2>3. DavParsePropstat(w[1], b) = last
      BY <1>3, <1>4, <1>5, <2>0, <2>1 DEF last
    <2>4. \A m \in 0..(2 - 1) : w[m + 1] = DavParsePropstat(w[m], stats[m + 1])
      <3>1. \A m \in 0..(2 - 1) : m = 0 \/ m = 1
        OBVIOUS
      <3> QED BY <2>1, <2>2, <2>3, <3>1
    <2>5. \A acc \in S : \A i \in 1..2 : DavParsePropstat(acc, stats[i]) \in S
      <3>1. \A i \in 1..2 : stats[i] \in {found, missing}
        BY <2>0, <2>2
      <3> QED BY <1>3, <1>4, <1>5, <1>6, <3>1
    <2>6. Nothing \in S
      OBVIOUS
    <2> HIDE DEF S
    <2>7. 2 \in Nat /\ w[0] = Nothing
      BY <2>1
    <2>8. FoldLeft(DavParsePropstat, Nothing, stats) = w[2]
      BY <2>2, <2>4, <2>5, <2>6, <2>7, PropstatsFold
    <2> QED BY <2>0, <2>1, <2>8 DEF stats, last
  <1> QED BY <1>7, <1>8, <1>9

LEMMA ResponseIsRead ==
  ASSUME NEW style \in Styles, NEW name \in Names \cup {Self}, NEW in,
         NEW list \in Seq(Contents(in))
  PROVE  ParseOne(in, list, Response(style, name))
           = IF name = Self THEN list ELSE Append(list, Entry(in, name))
PROOF
  <1> DEFINE response == Response(style, name)
             dir == IsDirectory(name)
             item == Item(in, name, dir, response.slash \/ dir, ~dir)
  <1>1. /\ response.name = name /\ response.slash = (dir /\ style.slash)
        /\ response.url = style.url /\ response.propstats = Propstats(style, name)
        /\ style.slash \in BOOLEAN /\ style.url \in BOOLEAN /\ dir \in BOOLEAN
    BY DEF Response, Styles, IsDirectory
  <1>2. name # NoName
    BY NamesAssumption DEF Self, NoName
  <1>3. ParseResponse(in, response) = <<item>>
    <2>1. FoldLeft(DavParsePropstat, Nothing, response.propstats) = IsRead(name)
      BY <1>1, PropstatsAreRead
    <2>2. /\ IsRead(name).whole /\ IsRead(name).dir = dir /\ IsRead(name).size = ~dir
      BY DEF IsRead
    <2> HIDE DEF response, dir
    <2> QED BY <1>1, <2>1, <2>2 DEF ParseResponse
  <1>4. item.dir = dir
    BY DEF Item
  <1>5. /\ list \o <<item>> = Append(list, item)
        /\ Last(list \o <<item>>) = item /\ Front(list \o <<item>>) = list
    <2> HIDE DEF item
    <2> DEFINE T == Contents(in) \cup {item}
    <2>1. list \in Seq(T) /\ item \in T /\ Len(list) \in Nat
      OBVIOUS
    <2>2. list \o <<item>> = Append(list, item)
      BY <2>1
    <2>3. Last(list \o <<item>>) = item
      BY <2>1 DEF Last
    <2>4. Front(list \o <<item>>) = list
      BY <2>1 DEF Front
    <2> QED BY <2>2, <2>3, <2>4
  <1> HIDE DEF item, response
  <1>6. CASE name = Self
    <2>1. dir
      BY <1>6 DEF IsDirectory
    <2>2. CASE style.slash
      <3>1. IsRequested(response)
        BY <1>1, <1>6, <2>1, <2>2 DEF IsRequested
      <3>2. ParseOne(in, list, response) = list
        BY <3>1 DEF ParseOne
      <3> QED BY <1>6, <3>2 DEF response
    <2>3. CASE ~style.slash
      <3>1. ~IsRequested(response) /\ IsRequestedContainer(list \o <<item>>, response)
        BY <1>1, <1>4, <1>5, <1>6, <2>1, <2>3 DEF IsRequested, IsRequestedContainer
      <3>2. ParseOne(in, list, response) = Front(list \o <<item>>)
        BY <1>1, <1>2, <1>3, <3>1 DEF ParseOne
      <3> QED BY <1>5, <1>6, <3>2 DEF response
    <2> QED BY <1>1, <2>2, <2>3 DEF response
  <1>7. CASE name # Self
    <2>1. ~IsRequested(response) /\ ~IsRequestedContainer(list \o <<item>>, response)
      BY <1>1, <1>7 DEF IsRequested, IsRequestedContainer
    <2>2. item = Entry(in, name)
      <3> DEFINE slash == response.slash \/ dir
                 size == ~dir
                 collection == name \in Collections
                 sized == name \notin Collections
      <3>1. dir = collection
        BY <1>7 DEF IsDirectory
      <3>2. slash = collection
        <4>1. response.slash => dir
          BY <1>1
        <4>2. dir = collection /\ collection \in BOOLEAN /\ slash \in BOOLEAN
          BY <3>1
        <4> HIDE DEF dir, collection
        <4>3. slash <=> dir
          BY <4>1
        <4> HIDE DEF slash
        <4> QED BY <4>2, <4>3
      <3>3. size = sized
        BY <1>7 DEF IsDirectory
      <3>4. item = Item(in, name, dir, slash, size)
        BY DEF item
      <3>5. Entry(in, name) = Item(in, name, collection, collection, sized)
        BY DEF Entry
      <3> HIDE DEF dir, slash, size, collection, sized
      <3> QED BY <3>1, <3>2, <3>3, <3>4, <3>5, Zenon DEF Item
    <2>3. ParseOne(in, list, response) = list \o <<item>>
      BY <1>1, <1>2, <1>3, <2>1 DEF ParseOne
    <2> QED BY <1>5, <1>7, <2>2, <2>3 DEF response
  <1> QED BY <1>6, <1>7

(* The server names each of finitely many resources once.                  *)
LEMMA NamesInOrder ==
  ASSUME IsFiniteSet(Names)
  PROVE  /\ Cardinality(Names) \in Nat
         /\ SetToSeq(Names) \in [1..Cardinality(Names) -> Names]
         /\ \A x \in Names : \E i \in 1..Cardinality(Names) : SetToSeq(Names)[i] = x
PROOF
  <1> DEFINE n == Cardinality(Names)
             names == SetToSeq(Names)
  <1>1. n \in Nat /\ ExistsBijection(1..n, Names)
    BY FS_CardinalityType
  <1>2. \E f \in [1..n -> Names] : IsInjective(f)
    BY <1>1 DEF ExistsBijection, Bijection, Injection
  <1>3. names \in [1..n -> Names] /\ IsInjective(names)
    BY <1>2 DEF SetToSeq
  <1>4. names \in Injection(1..n, Names)
    BY <1>3 DEF Injection
  <1> HIDE DEF names
  <1>5. Cardinality(1..n) = n
    BY <1>1, FS_CountingElements, FS_Interval
  <1>6. names \in Surjection(1..n, Names)
    <2> HIDE DEF n
    <2>1. Cardinality(1..n) = Cardinality(Names)
      BY <1>5 DEF n
    <2> QED BY <1>4, <2>1, FS_Injection
  <1> QED BY <1>1, <1>3, <1>6 DEF Surjection, names

(* A whole answer is read as the contents of the directory, whatever the   *)
(* style: after i responses, the list has an entry for each member so far. *)
LEMMA WholeAnswerIsRead ==
  ASSUME IsFiniteSet(Names), NEW style \in Styles, NEW in
  PROVE  LET list == ParseMultiResponse(in, NoListing, Document(style))
         IN  ToSet(list) = Contents(in) /\ Len(list) = Cardinality(Names)
PROOF
  <1> DEFINE n == Cardinality(Names)
             names == SetToSeq(Names)
             document == Document(style)
             selfAt == IF style.selfFirst THEN 1 ELSE n + 1
             before(i) == IF i < selfAt THEN i ELSE i - 1
             w == [i \in 0..(n + 1) |-> [j \in 1..before(i) |-> Entry(in, names[j])]]
             S == Seq(Contents(in))
  <1>1. /\ n \in Nat /\ names \in [1..n -> Names]
        /\ \A x \in Names : \E i \in 1..n : names[i] = x
    BY NamesInOrder
  <1>2. \A x \in Names : Entry(in, x) \in Contents(in)
    BY DEF Contents, Entry
  <1>3. Contents(in) = {Entry(in, x) : x \in Names}
    BY DEF Contents, Entry
  <1>4. selfAt \in 1..(n + 1)
    BY <1>1
  <1>5. /\ DOMAIN document = 1..(n + 1)
        /\ document[selfAt] = Response(style, Self)
        /\ \A i \in 1..(n + 1) : i # selfAt => document[i] = Response(style, names[before(i)])
    <2> DEFINE members == [i \in 1..n |-> Response(style, names[i])]
               self == <<Response(style, Self)>>
               T == {Response(style, x) : x \in Names \cup {Self}}
    <2>1. members \in Seq(T) /\ Len(members) = n /\ \A i \in 1..n : members[i] = Response(style, names[i])
      BY <1>1
    <2>2. self \in Seq(T) /\ Len(self) = 1 /\ self[1] = Response(style, Self)
      OBVIOUS
    <2>3. document = IF style.selfFirst THEN self \o members ELSE members \o self
      BY DEF Document
    <2> HIDE DEF members, self, T, names, n, document
    <2>4. CASE style.selfFirst
      <3>1. self \in Seq(T) /\ members \in Seq(T)
        BY <2>1, <2>2
      <3>2. /\ self \o members \in Seq(T) /\ Len(self \o members) = Len(self) + Len(members)
            /\ \A i \in 1..(Len(self) + Len(members)) :
                 (self \o members)[i] = IF i <= Len(self) THEN self[i] ELSE members[i - Len(self)]
        BY <3>1, ConcatProperties
      <3>3. document \in Seq(T) /\ Len(document) = n + 1
        BY <1>1, <2>1, <2>2, <2>3, <2>4, <3>2
      <3>4. \A i \in 1..(n + 1) : document[i] = IF i = 1 THEN self[1] ELSE members[i - 1]
        BY <1>1, <2>1, <2>2, <2>3, <2>4, <3>2
      <3> QED BY <1>1, <2>1, <2>2, <2>4, <3>3, <3>4 DEF selfAt
    <2>5. CASE ~style.selfFirst
      <3>1. self \in Seq(T) /\ members \in Seq(T)
        BY <2>1, <2>2
      <3>2. /\ members \o self \in Seq(T) /\ Len(members \o self) = Len(members) + Len(self)
            /\ \A i \in 1..(Len(members) + Len(self)) :
                 (members \o self)[i] = IF i <= Len(members) THEN members[i] ELSE self[i - Len(members)]
        BY <3>1, ConcatProperties
      <3>3. document \in Seq(T) /\ Len(document) = n + 1
        BY <1>1, <2>1, <2>2, <2>3, <2>5, <3>2
      <3>4. \A i \in 1..(n + 1) : document[i] = IF i <= n THEN members[i] ELSE self[1]
        BY <1>1, <2>1, <2>2, <2>3, <2>5, <3>2
      <3> QED BY <1>1, <2>1, <2>2, <2>5, <3>3, <3>4 DEF selfAt
    <2> QED BY <2>4, <2>5
  <1> HIDE DEF n, names, document, selfAt
  <1>6. \A i \in 0..(n + 1) : before(i) \in 0..n
    BY <1>1, <1>4
  <1>7. \A i \in 0..(n + 1) : /\ w[i] \in S /\ Len(w[i]) = before(i)
                              /\ \A j \in 1..before(i) : w[i][j] = Entry(in, names[j])
    <2> SUFFICES ASSUME NEW i \in 0..(n + 1), NEW b \in 0..n, b = before(i)
                 PROVE  LET v == [j \in 1..b |-> Entry(in, names[j])]
                        IN  v \in S /\ Len(v) = b /\ \A j \in 1..b : v[j] = Entry(in, names[j])
      BY <1>6
    <2>1. \A j \in 1..b : Entry(in, names[j]) \in Contents(in)
      BY <1>1, <1>2
    <2> HIDE DEF before
    <2> QED BY <1>1, <2>1
  <1> HIDE DEF w
  <1>8. \A l \in S : \A i \in 1..(n + 1) : ParseOne(in, l, document[i]) \in S
    <2> SUFFICES ASSUME NEW l \in S, NEW i \in 1..(n + 1) PROVE ParseOne(in, l, document[i]) \in S
      OBVIOUS
    <2>1. PICK x \in Names \cup {Self} : document[i] = Response(style, x)
      <3>1. CASE i = selfAt
        BY <1>5, <3>1
      <3>2. CASE i # selfAt
        <4>1. before(i) \in 1..n
          BY <1>1, <1>4, <3>2
        <4> HIDE DEF before
        <4> QED BY <1>1, <1>5, <3>2, <4>1
      <3> QED BY <3>1, <3>2
    <2>2. ParseOne(in, l, document[i]) = IF x = Self THEN l ELSE Append(l, Entry(in, x))
      BY <2>1, ResponseIsRead
    <2>3. x # Self => Append(l, Entry(in, x)) \in S
      BY <1>2
    <2> QED BY <2>2, <2>3
  <1>9. \A m \in 0..((n + 1) - 1) : w[m + 1] = ParseOne(in, w[m], document[m + 1])
    <2> SUFFICES ASSUME NEW m \in 0..n PROVE w[m + 1] = ParseOne(in, w[m], document[m + 1])
      BY <1>1
    <2>1. m \in 0..(n + 1) /\ m + 1 \in 1..(n + 1) /\ m + 1 \in 0..(n + 1)
      BY <1>1
    <2>2. CASE m + 1 = selfAt
      <3>1. before(m + 1) = before(m)
        BY <1>4, <2>2
      <3>2. ParseOne(in, w[m], document[m + 1]) = w[m]
        BY <1>5, <1>7, <2>1, <2>2, ResponseIsRead
      <3>3. w[m + 1] = w[m]
        BY <2>1, <3>1 DEF w
      <3> QED BY <3>2, <3>3
    <2>3. CASE m + 1 # selfAt
      <3>1. before(m + 1) = before(m) + 1 /\ before(m + 1) \in 1..n
        BY <1>1, <1>4, <2>1, <2>3
      <3> HIDE DEF before
      <3>2. names[before(m + 1)] \in Names /\ names[before(m + 1)] # Self
        BY <1>1, <3>1, NamesAssumption
      <3>3. ParseOne(in, w[m], document[m + 1]) = Append(w[m], Entry(in, names[before(m + 1)]))
        BY <1>5, <1>7, <2>1, <2>3, <3>2, ResponseIsRead
      <3>4. w[m + 1] = Append(w[m], Entry(in, names[before(m + 1)]))
        <4> DEFINE e == Entry(in, names[before(m + 1)])
        <4>1. /\ w[m] \in S /\ w[m + 1] \in S /\ Len(w[m]) = before(m) /\ Len(w[m + 1]) = before(m) + 1
              /\ before(m) \in Nat
              /\ \A j \in 1..before(m) : w[m + 1][j] = w[m][j]
              /\ w[m + 1][before(m) + 1] = e /\ e \in Contents(in)
          BY <1>2, <1>6, <1>7, <2>1, <3>1, <3>2
        <4> DEFINE b == before(m)
        <4> HIDE DEF e, b
        <4>2. /\ Append(w[m], e) \in S /\ Len(Append(w[m], e)) = b + 1 /\ b \in Nat
              /\ \A j \in 1..b : Append(w[m], e)[j] = w[m][j]
              /\ Append(w[m], e)[b + 1] = e
          BY <4>1 DEF b
        <4>3. \A j \in 1..(b + 1) : w[m + 1][j] = Append(w[m], e)[j]
          <5>1. \A j \in 1..(b + 1) : j \in 1..b \/ j = b + 1
            BY <4>2
          <5> QED BY <4>1, <4>2, <5>1 DEF b
        <4>4. w[m + 1] \in S /\ Len(w[m + 1]) = b + 1
          BY <4>1 DEF b
        <4>5. w[m + 1] = Append(w[m], e)
          BY <4>2, <4>3, <4>4, SeqEqual
        <4> QED BY <4>5 DEF e
      <3> QED BY <3>3, <3>4
    <2> QED BY <2>2, <2>3
  <1>10. w[0] = NoListing
    <2>1. before(0) = 0 /\ 0 \in 0..(n + 1)
      BY <1>1, <1>4
    <2>2. w[0] \in S /\ Len(w[0]) = 0
      BY <1>7, <2>1
    <2> QED BY <2>2 DEF NoListing
  <1>11. n + 1 \in Nat /\ NoListing \in S
    BY <1>1 DEF NoListing
  <1> HIDE DEF S
  <1>12. ParseMultiResponse(in, NoListing, document) = w[n + 1]
    <2> DEFINE k == n + 1
    <2>1. /\ k \in Nat /\ DOMAIN document = 1..k
          /\ \A l \in S : \A i \in 1..k : ParseOne(in, l, document[i]) \in S
          /\ \A m \in 0..(k - 1) : w[m + 1] = ParseOne(in, w[m], document[m + 1])
      BY <1>5, <1>8, <1>9, <1>11
    <2> HIDE DEF k
    <2>2. ParseMultiResponse(in, NoListing, document) = w[k]
      BY <1>10, <1>11, <2>1, ResponsesFold
    <2> QED BY <2>2 DEF k
  <1>13. before(n + 1) = n /\ n + 1 \in 0..(n + 1)
    BY <1>1, <1>4
  <1>14. /\ w[n + 1] \in Seq(Contents(in)) /\ Len(w[n + 1]) = n
         /\ \A j \in 1..n : w[n + 1][j] = Entry(in, names[j])
    BY <1>7, <1>13 DEF S
  <1>15. ToSet(w[n + 1]) = Contents(in)
    <2>1. DOMAIN w[n + 1] = 1..n
      BY <1>14
    <2> QED BY <1>1, <1>3, <1>14, <2>1 DEF ToSet
  <1> QED BY <1>12, <1>14, <1>15 DEF n, document

(* The listing that runs is of the path noted last, unless another was     *)
(* asked for in the meantime.                                              *)
PathIsAsked == current # NoReply /\ ~overtaken => reply[current].path = path
ContentInv == PathIsAsked /\ ListingIsContents

LEMMA FinishKeepsContentInv ==
  ASSUME Inv, ContentInv, IsFiniteSet(Names), NEW r \in Replies, reply[r].life = "running",
         NEW document, NEW whole, NEW unread, Finish(r, document, whole, unread),
         whole => \E style \in Styles : document = Document(style)
  PROVE  ContentInv'
PROOF
  <1>1. /\ reply' = [reply EXCEPT ![r].life = "finished", ![r].unread = unread]
        /\ path' = path /\ overtaken' = overtaken
    BY DEF Finish
  <1>2. reply \in [Replies -> Reply] /\ current \in Replies \cup {NoReply}
    BY DEF Inv, Types
  <1>3. CASE current # r
    <2>1. current' = current /\ shown' = shown
      BY <1>3 DEF Finish
    <2>2. current # NoReply => reply'[current] = reply[current]
      BY <1>1, <1>2, <1>3
    <2> QED BY <1>1, <2>1, <2>2 DEF ContentInv, PathIsAsked, ListingIsContents
  <1>4. CASE current = r
    <2>1. /\ items' = ParseMultiResponse(reply[r].path, items, document)
          /\ shown' = [key |-> path, items |-> items', overtaken |-> overtaken, whole |-> whole]
          /\ current' = NoReply
      BY <1>4 DEF Finish
    <2>2. items = NoListing /\ (~overtaken => reply[r].path = path)
      <3>1. r # NoReply
        BY DEF Replies, NoReply
      <3> QED BY <1>4, <3>1 DEF Inv, ParserInv, ContentInv, PathIsAsked
    <2>3. ASSUME whole, ~overtaken
          PROVE  ToSet(items') = Contents(path) /\ Len(items') = Cardinality(Names)
      <3>1. PICK style \in Styles : document = Document(style)
        BY <2>3
      <3> QED BY <2>1, <2>2, <2>3, <3>1, WholeAnswerIsRead
    <2> QED BY <2>1, <2>3 DEF ContentInv, PathIsAsked, ListingIsContents
  <1> QED BY <1>3, <1>4

LEMMA NextKeepsContentInv ==
  IsFiniteSet(Names) /\ Inv /\ ContentInv /\ [Next]_vars => ContentInv'
PROOF
  <1> SUFFICES ASSUME IsFiniteSet(Names), Inv, ContentInv, [Next]_vars PROVE ContentInv'
    OBVIOUS
  <1>1. reply \in [Replies -> Reply] /\ current \in Replies \cup {NoReply} /\ NoReply \notin Replies
    BY DEF Inv, Types, Replies, NoReply
  <1>2. current # NoReply => current \in Replies /\ reply[current].life = "running"
    BY <1>1 DEF Inv, ParserInv, IsListing
  <1>3. ASSUME UNCHANGED <<current, path, overtaken, shown>>,
               current # NoReply => reply'[current].path = reply[current].path
        PROVE  ContentInv'
    BY <1>3 DEF ContentInv, PathIsAsked, ListingIsContents
  <1>4. CASE UNCHANGED vars
    BY <1>3, <1>4 DEF vars
  <1>5. ASSUME NEW p \in Paths, GetNetworkDirectory(p) PROVE ContentInv'
    <2>1. shown' = shown /\ path' = p /\ overtaken' = (current # NoReply)
      BY <1>5 DEF GetNetworkDirectory
    <2>2. current' # NoReply /\ current = NoReply => reply'[current'].path = p
      <3>1. CASE Accepts
        <4>1. PICK r \in Replies : reply' = [reply EXCEPT ![r] = Running("list", p)] /\ current' = r
          BY <1>5, <3>1 DEF GetNetworkDirectory, ListDirectory
        <4> QED BY <1>1, <4>1 DEF Running
      <3>2. CASE ~Accepts
        BY <1>5, <3>2 DEF GetNetworkDirectory
      <3> QED BY <3>1, <3>2
    <2> QED BY <2>1, <2>2 DEF ContentInv, PathIsAsked, ListingIsContents
  <1>6. CASE Get
    <2>1. PICK r \in Replies :
            reply[r].life = "unused" /\ reply' = [reply EXCEPT ![r] = Running("get", NoPath)]
      BY <1>6 DEF Get
    <2>2. current # NoReply => reply'[current] = reply[current]
      BY <1>1, <1>2, <2>1
    <2> QED BY <1>3, <1>6, <2>2 DEF Get
  <1>7. ASSUME NEW r \in Replies, ReplyEnds(r) PROVE ContentInv'
    <2>1. PICK document, whole, unread :
            /\ reply[r].life = "running" /\ Finish(r, document, whole, unread)
            /\ whole => \E style \in Styles : document = Document(style)
      <3>1. CASE \E style \in Styles : ReplyFinished(r, Document(style), TRUE, FALSE)
        BY <1>7, <3>1 DEF ReplyEnds, ReplyFinished
      <3>2. CASE \E document \in FaultyDocuments : ReplyFinished(r, document, FALSE, FALSE)
        BY <1>7, <3>2 DEF ReplyEnds, ReplyFinished
      <3>3. CASE \E unread \in BOOLEAN : ReplyFinished(r, NotXml, FALSE, unread)
        BY <1>7, <3>3 DEF ReplyEnds, ReplyFinished
      <3> QED BY <1>7, <3>1, <3>2, <3>3 DEF ReplyEnds
    <2> QED BY <2>1, FinishKeepsContentInv
  <1>8. ASSUME NEW r \in Replies, ProvideAuthentication(r) PROVE ContentInv'
    <2>1. CASE r = lastReply
      <3>1. reply[r].life = "running" /\ Finish(r, NotXml, FALSE, FALSE)
        BY <1>8, <2>1 DEF ProvideAuthentication
      <3> QED BY <3>1, FinishKeepsContentInv
    <2>2. CASE r # lastReply
      BY <1>3, <1>8, <2>2 DEF ProvideAuthentication
    <2> QED BY <2>1, <2>2
  <1>9. ASSUME NEW r \in Replies, RunDeleteDevice(r) PROVE ContentInv'
    BY <1>3, <1>9 DEF RunDeleteDevice
  <1>10. ASSUME NEW r \in Replies, RunReplyDeleteLater(r) PROVE ContentInv'
    <2>1. current # NoReply => reply'[current].path = reply[current].path
      BY <1>1, <1>2, <1>10 DEF RunReplyDeleteLater, Reply
    <2> QED BY <1>3, <1>10, <2>1 DEF RunReplyDeleteLater
  <1>11. ASSUME NEW r \in Replies, RunDelete(r) PROVE ContentInv'
    <2>1. reply[r].life = "finished"
      <3>1. Head(posted) = posted[1] /\ 1 \in 1..Len(posted)
        BY <1>11, PostedTypes DEF RunDelete
      <3>2. posted[1].reply = r
        BY <1>11, <3>1 DEF RunDelete, Event
      <3> QED BY <3>1, <3>2 DEF Inv, AllFinished
    <2>2. current # NoReply => reply'[current] = reply[current]
      BY <1>1, <1>2, <1>11, <2>1 DEF RunDelete
    <2> QED BY <1>3, <1>11, <2>2 DEF RunDelete
  <1> QED
    BY <1>4, <1>5, <1>6, <1>7, <1>8, <1>9, <1>10, <1>11 DEF Next, RunPosted

(* Whatever the style of the server, a whole answer shows the contents of  *)
(* the directory that was asked for: each resource once, none of another   *)
(* directory, and not the directory itself.                                *)
THEOREM WholeAnswersShowTheContents ==
  ASSUME IsFiniteSet(Names) PROVE Spec => []ListingIsContents
PROOF
  <1>1. Init => ContentInv
    BY DEF Init, ContentInv, PathIsAsked, ListingIsContents
  <1>2. Inv /\ ContentInv /\ [Next]_vars => ContentInv'
    BY NextKeepsContentInv
  <1>3. ContentInv => ListingIsContents
    BY DEF ContentInv
  <1> QED BY <1>1, <1>2, <1>3, Invariance, PTL DEF Spec

----------------------------------------------------------------------------
(***************************************************************************)
(* Part 2: WebDavDownload.                                                 *)
(***************************************************************************)
----------------------------------------------------------------------------
(* The inductive invariant.                                                *)
DownloadTransport == [phase : {"none", "asked", "answering", "done"}, from : Nat, opened : BOOLEAN,
              body : Seq(Nat), arrived : Nat, written : Nat]
DownloadTypes ==
  /\ info \in [state : {"Absent", "Pause", "Wait", "Finish"}, last : Nat, forDelete : BOOLEAN]
  /\ transport \in [Transports -> DownloadTransport]
  /\ saved \in Seq(Nat)

(* No more is written than has arrived, and all of it in the end.          *)
Counted(t) ==
  /\ transport[t].written <= transport[t].arrived
  /\ transport[t].arrived <= Len(transport[t].body)
  /\ transport[t].phase \in {"none", "asked"} => transport[t].body = <<>>
  /\ transport[t].phase = "done" => transport[t].written = transport[t].arrived
CountsFit == \A t \in Transports : Counted(t)

(* While nothing but the whole file was sent, and to an open save file,    *)
(* what the transport that emptied the file last has written is there: the *)
(* others write nothing that differs.                                      *)
Fine(t) == transport[t].opened /\ transport[t].body \in {<<>>, Source}
IsThere(t) == \A i \in 1..transport[t].written : i \in 1..Len(saved) /\ saved[i] = i
FileFits ==
  (Used # {} /\ \A t \in Used : Fine(t)) => Len(saved) <= FileSize /\ \E t \in Used : IsThere(t)

DownloadInv == DownloadTypes /\ CountsFit /\ FileFits

----------------------------------------------------------------------------
(* Writing.                                                                *)

LEMMA SourceFacts ==
  /\ Source \in Seq(Nat) /\ Len(Source) = FileSize /\ Source # <<>> /\ FileSize \in Nat \ {0}
  /\ \A i \in 1..FileSize : Source[i] = i
PROOF
  <1>1. FileSize \in Nat \ {0}
    BY SizeAssumption
  <1>2. /\ Source \in Seq(Nat) /\ Len(Source) = FileSize
        /\ \A i \in 1..FileSize : Source[i] = i
    BY <1>1 DEF Source
  <1>3. Len(<<>>) = 0
    OBVIOUS
  <1> QED BY <1>1, <1>2, <1>3

LEMMA SliceFacts ==
  ASSUME NEW S, NEW s \in Seq(S), NEW w \in Nat, NEW a \in Nat, w <= a, a <= Len(s)
  PROVE  /\ SubSeq(s, w + 1, a) \in Seq(S) /\ Len(SubSeq(s, w + 1, a)) = a - w
         /\ \A i \in 1..(a - w) : SubSeq(s, w + 1, a)[i] = s[w + i]
PROOF
  <1>1. SubSeq(s, w + 1, a) = [i \in 1..(a - w) |-> s[w + i]]
    OBVIOUS
  <1> QED BY <1>1

LEMMA WriteType ==
  ASSUME NEW file \in Seq(Nat), NEW bytes \in Seq(Nat), NEW at \in Nat
  PROVE  Write(file, at, bytes) \in Seq(Nat)
PROOF
  <1>1. CASE bytes = <<>>
    BY <1>1 DEF Write
  <1>2. CASE bytes # <<>>
    <2> DEFINE end == at + Len(bytes)
               size == IF end > Len(file) THEN end ELSE Len(file)
               byte(i) == IF i \in (at + 1)..end THEN bytes[i - at]
                          ELSE IF i <= Len(file) THEN file[i] ELSE Junk
    <2>1. Write(file, at, bytes) = [i \in 1..size |-> byte(i)]
      BY <1>2 DEF Write
    <2>2. size \in Nat
      OBVIOUS
    <2>3. ASSUME NEW i \in 1..size PROVE byte(i) \in Nat
      <3>1. CASE i \in (at + 1)..end
        BY <3>1
      <3>2. CASE i \notin (at + 1)..end /\ i <= Len(file)
        BY <3>2
      <3>3. CASE i \notin (at + 1)..end /\ ~(i <= Len(file))
        BY <3>3 DEF Junk
      <3> QED BY <3>1, <3>2, <3>3
    <2> HIDE DEF size, byte
    <2> QED BY <2>1, <2>2, <2>3
  <1> QED BY <1>1, <1>2

(* A piece of the source that is written at its place.                     *)
Piece(w, a) == SubSeq(Source, w + 1, a)
Written(new, file, w, a) ==
  /\ Len(new) <= FileSize \/ Len(file) > FileSize
  /\ \A i \in 1..Len(file) : i \in 1..Len(new) /\ (new[i] = file[i] \/ new[i] = i)
  /\ \A i \in (w + 1)..a : i \in 1..Len(new) /\ new[i] = i
LEMMA WriteFacts ==
  ASSUME NEW file \in Seq(Nat), NEW w \in Nat, NEW a \in Nat, w <= a, a <= FileSize
  PROVE  Written(Write(file, w, Piece(w, a)), file, w, a)
PROOF
  <1> DEFINE new == Write(file, w, Piece(w, a))
  <1> SUFFICES Written(new, file, w, a)
    OBVIOUS
  <1> DEFINE bytes == Piece(w, a)
  <1>1. /\ bytes \in Seq(Nat) /\ Len(bytes) = a - w
        /\ \A i \in 1..(a - w) : bytes[i] = Source[w + i]
    <2>1. Source \in Seq(Nat) /\ a <= Len(Source)
      BY SourceFacts
    <2> DEFINE slice == SubSeq(Source, w + 1, a)
    <2>2. /\ slice \in Seq(Nat) /\ Len(slice) = a - w
          /\ \A i \in 1..(a - w) : slice[i] = Source[w + i]
      BY <2>1, SliceFacts
    <2>3. bytes = slice
      BY DEF Piece
    <2> HIDE DEF slice, bytes
    <2> QED BY <2>2, <2>3
  <1>2. \A i \in 1..(a - w) : bytes[i] = w + i
    BY <1>1, SourceFacts
  <1> HIDE DEF bytes
  <1>3. CASE bytes = <<>>
    <2>1. new = file
      BY <1>3 DEF Write, bytes
    <2>2. a = w /\ (w + 1)..a = {}
      BY <1>1, <1>3
    <2>3. Len(file) \in Nat /\ FileSize \in Nat
      BY SourceFacts
    <2> HIDE DEF new
    <2> QED BY <2>1, <2>2, <2>3 DEF Written
  <1>4. CASE bytes # <<>>
    <2> DEFINE size == IF a > Len(file) THEN a ELSE Len(file)
               byte(i) == IF i \in (w + 1)..a THEN bytes[i - w]
                          ELSE IF i <= Len(file) THEN file[i] ELSE Junk
    <2>1. w + Len(bytes) = a
      BY <1>1
    <2>2. new = [i \in 1..size |-> byte(i)]
      BY <1>4, <2>1 DEF Write, bytes
    <2>3. size \in Nat /\ (size <= FileSize \/ Len(file) > FileSize) /\ size >= Len(file) /\ size >= a
      BY SourceFacts
    <2>4. \A i \in (w + 1)..a : byte(i) = i
      BY <1>2
    <2>5. \A i \in 1..Len(file) : byte(i) = file[i] \/ byte(i) = i
      BY <2>4
    <2> HIDE DEF size, byte, new
    <2>6. Len(new) = size /\ \A i \in 1..size : new[i] = byte(i)
      BY <2>2, <2>3
    <2> QED BY <2>3, <2>4, <2>5, <2>6 DEF Written
  <1> QED BY <1>3, <1>4

----------------------------------------------------------------------------
(* The steps.                                                              *)

LEMMA Starts == DownloadInit => DownloadInv
PROOF
  <1> SUFFICES ASSUME DownloadInit PROVE DownloadInv
    OBVIOUS
  <1>1. transport = [t \in Transports |-> NoTransport]
    BY DEF DownloadInit
  <1>2. NoTransport \in DownloadTransport
    BY DEF NoTransport, DownloadTransport
  <1>3. info \in [state : {"Absent", "Pause", "Wait", "Finish"}, last : Nat, forDelete : BOOLEAN]
    <2>1. CASE info = [state |-> "Absent", last |-> 0, forDelete |-> FALSE]
      BY <2>1
    <2>2. ASSUME NEW n \in Resumes, info = [state |-> "Pause", last |-> n, forDelete |-> FALSE]
          PROVE  info \in [state : {"Absent", "Pause", "Wait", "Finish"}, last : Nat, forDelete : BOOLEAN]
      <3>1. n \in Nat
        BY ResumesAssumption
      <3> QED BY <2>2, <3>1
    <2> QED BY <2>1, <2>2 DEF DownloadInit
  <1>4. saved \in Seq(Nat)
    <2>1. CASE saved = <<>>
      BY <2>1
    <2>2. ASSUME NEW n \in Resumes, saved = SubSeq(Source, 1, n) PROVE saved \in Seq(Nat)
      <3>1. n \in Nat /\ n <= Len(Source) /\ 0 \in Nat /\ 0 <= n
        BY SourceFacts, ResumesAssumption
      <3>2. SubSeq(Source, 0 + 1, n) \in Seq(Nat)
        BY <3>1, SourceFacts, SliceFacts
      <3> QED BY <2>2, <3>2
    <2> QED BY <2>1, <2>2 DEF DownloadInit
  <1>5. CountsFit
    <2> SUFFICES ASSUME NEW t \in Transports PROVE Counted(t)
      BY DEF CountsFit
    <2>1. transport[t] = NoTransport
      BY <1>1
    <2> QED BY <2>1 DEF Counted, NoTransport
  <1>6. Used = {}
    BY <1>1 DEF Used, NoTransport
  <1> QED BY <1>1, <1>2, <1>3, <1>4, <1>5, <1>6 DEF DownloadInv, DownloadTypes, FileFits

(* What a step of t has to do to the transports and the file.              *)
LEMMA OneTransport ==
  ASSUME DownloadInv, NEW t \in Transports, NEW new \in DownloadTransport,
         transport' = [transport EXCEPT ![t] = new],
         info' \in [state : {"Absent", "Pause", "Wait", "Finish"}, last : Nat, forDelete : BOOLEAN],
         saved' \in Seq(Nat), Counted(t)', FileFits'
  PROVE  DownloadInv'
PROOF
  <1>1. DownloadTypes'
    BY DEF DownloadInv, DownloadTypes
  <1>2. CountsFit'
    <2> SUFFICES ASSUME NEW u \in Transports PROVE Counted(u)'
      BY DEF CountsFit
    <2>1. CASE u = t
      BY <2>1
    <2>2. CASE u # t
      <3>1. transport'[u] = transport[u]
        BY <2>2 DEF DownloadInv, DownloadTypes
      <3> QED BY <3>1 DEF DownloadInv, CountsFit, Counted
    <2> QED BY <2>1, <2>2
  <1> QED BY <1>1, <1>2 DEF DownloadInv

LEMMA OpeningKeepsInv == ASSUME DownloadInv, NEW t \in Transports, GetFile(t) PROVE DownloadInv'
PROOF
  <1>1. PICK opened \in BOOLEAN :
          /\ transport' = [transport EXCEPT ![t] = [@ EXCEPT !.phase = "asked",
                                                             !.from = info.last,
                                                             !.opened = opened]]
          /\ saved' = IF opened THEN <<>> ELSE saved
    BY DEF GetFile
  <1>2. transport[t] \in DownloadTransport /\ transport[t].phase = "none" /\ Counted(t) /\ info.last \in Nat
    BY DEF DownloadInv, DownloadTypes, CountsFit, GetFile
  <1>3. transport[t].body = <<>> /\ transport[t].written = 0 /\ transport[t].arrived = 0
    BY <1>2 DEF Counted, DownloadTransport
  <1> DEFINE new == [transport[t] EXCEPT !.phase = "asked", !.from = info.last, !.opened = opened]
  <1>4. new \in DownloadTransport /\ new.opened = opened /\ new.phase = "asked"
        /\ new.body = <<>> /\ new.written = 0 /\ new.arrived = 0
    BY <1>2, <1>3 DEF DownloadTransport
  <1>5. transport' = [transport EXCEPT ![t] = new]
    BY <1>1
  <1> HIDE DEF new
  <1>6. transport'[t] = new
    BY <1>5 DEF DownloadInv, DownloadTypes
  <1>7. info' \in [state : {"Absent", "Pause", "Wait", "Finish"}, last : Nat, forDelete : BOOLEAN]
    BY DEF GetFile, Known, DownloadInv, DownloadTypes
  <1>8. saved' \in Seq(Nat)
    BY <1>1 DEF DownloadInv, DownloadTypes
  <1>9. Counted(t)'
    BY <1>4, <1>6 DEF Counted
  <1>10. t \in Used'
    BY <1>4, <1>6 DEF Used
  <1>11. FileFits'
    <2>1. CASE ~opened
      BY <1>4, <1>6, <1>10, <2>1 DEF FileFits, Fine
    <2>2. CASE opened
      <3>1. saved' = <<>>
        BY <1>1, <2>2
      <3>2. Len(saved') <= FileSize
        BY <3>1, SourceFacts
      <3>3. IsThere(t)'
        BY <1>4, <1>6 DEF IsThere
      <3> QED BY <1>10, <3>2, <3>3 DEF FileFits
    <2> QED BY <1>1, <2>1, <2>2
  <1> QED BY <1>4, <1>5, <1>7, <1>8, <1>9, <1>11, OneTransport

LEMMA AnsweringKeepsInv == ASSUME DownloadInv, NEW t \in Transports, ServerAnswers(t) PROVE DownloadInv'
PROOF
  <1>1. PICK body \in Answers(transport[t].from) :
          transport' = [transport EXCEPT ![t].phase = "answering", ![t].body = body]
    BY DEF ServerAnswers
  <1>2. transport[t] \in DownloadTransport /\ transport[t].phase = "asked" /\ Counted(t)
        /\ info' = info /\ saved' = saved
    BY DEF DownloadInv, DownloadTypes, CountsFit, ServerAnswers
  <1>3. transport[t].body = <<>> /\ transport[t].written = 0 /\ transport[t].arrived = 0
    BY <1>2 DEF Counted, DownloadTransport
  <1>4. body \in Seq(Nat) /\ Len(body) \in Nat
    <2>1. CASE body = Source
      BY <2>1, SourceFacts
    <2>2. CASE body = ErrorPage
      BY <2>2 DEF ErrorPage, Junk
    <2>3. ASSUME NEW n \in {transport[t].from} \ {FileSize}, body = SubSeq(Source, n + 1, FileSize)
          PROVE  body \in Seq(Nat)
      <3>1. n \in Nat
        BY <1>2 DEF DownloadTransport
      <3>2. CASE n <= FileSize
        <4>1. n \in Nat /\ FileSize \in Nat /\ FileSize <= Len(Source)
          BY <3>1, SourceFacts
        <4>2. SubSeq(Source, n + 1, FileSize) \in Seq(Nat)
          BY <3>2, <4>1, SourceFacts, SliceFacts
        <4> QED BY <2>3, <4>2
      <3>3. CASE n > FileSize
        <4>1. SubSeq(Source, n + 1, FileSize) = <<>>
          <5>1. n + 1 \in Int /\ FileSize \in Int /\ FileSize < n + 1
            BY <3>1, <3>3, SourceFacts
          <5> QED BY <5>1, SubSeqEmpty
        <4>2. <<>> \in Seq(Nat)
          OBVIOUS
        <4> QED BY <2>3, <4>1, <4>2, Zenon
      <3> QED BY <3>1, <3>2, <3>3, SourceFacts
    <2>4. body \in Seq(Nat)
      BY <2>1, <2>2, <2>3 DEF Answers
    <2> QED BY <2>4
  <1> DEFINE new == [transport[t] EXCEPT !.phase = "answering", !.body = body]
  <1>5. new \in DownloadTransport /\ new.opened = transport[t].opened /\ new.phase = "answering"
        /\ new.body = body /\ new.written = 0 /\ new.arrived = 0
    BY <1>2, <1>3, <1>4 DEF DownloadTransport
  <1>6. transport' = [transport EXCEPT ![t] = new]
    BY <1>1 DEF DownloadInv, DownloadTypes
  <1> HIDE DEF new
  <1>7. /\ transport'[t] = new
        /\ \A u \in Transports \ {t} : transport'[u] = transport[u]
    BY <1>6 DEF DownloadInv, DownloadTypes
  <1>8. Counted(t)'
    BY <1>4, <1>5, <1>7 DEF Counted
  <1>9. Used' = Used
    BY <1>2, <1>5, <1>7 DEF Used
  <1>10. FileFits'
    <2> SUFFICES ASSUME Used # {}, \A u \in Used : Fine(u)'
                 PROVE  Len(saved) <= FileSize /\ \E u \in Used : IsThere(u)'
      BY <1>2, <1>9 DEF FileFits
    <2>1. ASSUME NEW u \in Used PROVE Fine(u)
      <3>1. Fine(u)' /\ u \in Transports
        BY DEF Used
      <3>2. CASE u = t
        BY <1>3, <1>5, <1>7, <3>1, <3>2 DEF Fine
      <3>3. CASE u # t
        BY <1>7, <3>1, <3>3 DEF Fine
      <3> QED BY <3>2, <3>3
    <2>2. Len(saved) <= FileSize /\ \E u \in Used : IsThere(u)
      BY <2>1 DEF DownloadInv, FileFits
    <2>3. ASSUME NEW u \in Used, IsThere(u) PROVE IsThere(u)'
      <3>1. transport'[u].written = transport[u].written
        BY <1>3, <1>5, <1>7 DEF Used
      <3> QED BY <1>2, <2>3, <3>1 DEF IsThere
    <2> QED BY <2>2, <2>3
  <1> QED BY <1>2, <1>5, <1>6, <1>8, <1>10, OneTransport DEF DownloadInv, DownloadTypes

(* Bytes have arrived, up to `arrived`, and if they are written, the file  *)
(* is as WithArrived says.                                                 *)
LEMMA WritingKeepsInv ==
  ASSUME DownloadInv, NEW t \in Transports, NEW new \in DownloadTransport,
         transport[t].phase \in {"asked", "answering"}, new.phase # "none",
         transport' = [transport EXCEPT ![t] = new],
         info' \in [state : {"Absent", "Pause", "Wait", "Finish"}, last : Nat, forDelete : BOOLEAN],
         new.opened = transport[t].opened, new.body = transport[t].body,
         transport[t].arrived <= new.arrived, new.arrived <= Len(new.body),
         new.phase \in {"none", "asked"} => new.body = <<>>,
         \/ /\ new.written = transport[t].written /\ saved' = saved
            /\ new.phase # "done"
         \/ new.written = new.arrived /\ saved' = WithArrived(t, new.arrived)
  PROVE  DownloadInv'
PROOF
  <1> DEFINE w == transport[t].written
             a == new.arrived
             body == transport[t].body
             piece == SubSeq(body, w + 1, a)
  <1>1. transport[t] \in DownloadTransport /\ Counted(t) /\ saved \in Seq(Nat)
    BY DEF DownloadInv, DownloadTypes, CountsFit
  <1>2. /\ w \in Nat /\ a \in Nat /\ w <= a /\ a <= Len(body) /\ body \in Seq(Nat)
        /\ transport[t].arrived \in Nat /\ new.written \in Nat
    BY <1>1 DEF Counted, DownloadTransport
  <1>3. piece \in Seq(Nat)
    BY <1>2, SliceFacts
  <1>4. /\ transport'[t] = new
        /\ \A u \in Transports \ {t} : transport'[u] = transport[u]
    BY DEF DownloadInv, DownloadTypes
  <1>5. Used' = Used /\ t \in Used
    BY <1>4 DEF Used
  <1>6. new.written = w \/ new.written = a
    OBVIOUS
  <1>7. Counted(t)'
    <2>1. new.written <= new.arrived
      BY <1>2, <1>6
    <2>2. new.phase = "done" => new.written = new.arrived
      OBVIOUS
    <2> QED BY <1>4, <2>1, <2>2 DEF Counted
  <1>8. saved' \in Seq(Nat)
    <2>1. CASE saved' = saved
      BY <1>1, <2>1
    <2>2. CASE saved' = WithArrived(t, a)
      BY <1>1, <1>2, <1>3, <2>2, WriteType DEF WithArrived
    <2> QED BY <2>1, <2>2
  <1>9. FileFits'
    <2> SUFFICES ASSUME Used # {}, \A u \in Used : Fine(u)'
                 PROVE  Len(saved') <= FileSize /\ \E u \in Used : IsThere(u)'
      BY <1>5 DEF FileFits
    <2>1. ASSUME NEW u \in Used PROVE Fine(u)
      <3>1. Fine(u)' /\ u \in Transports
        BY DEF Used
      <3>2. CASE u = t
        BY <1>4, <3>1, <3>2 DEF Fine
      <3>3. CASE u # t
        BY <1>4, <3>1, <3>3 DEF Fine
      <3> QED BY <3>2, <3>3
    <2>2. Len(saved) <= FileSize
      BY <2>1 DEF DownloadInv, FileFits
    <2>3. PICK u \in Used : IsThere(u)
      BY <2>1 DEF DownloadInv, FileFits
    <2>4. transport[t].opened /\ body \in {<<>>, Source}
      BY <1>5, <2>1 DEF Fine
    <2>5. u \in Transports
      BY DEF Used
    <2>6. CASE body = <<>>
      <3>1. w = 0 /\ a = 0
        BY <1>2, <2>6
      <3>2. new.written = w
        BY <1>6, <3>1
      <3>3. saved' = saved
        <4>1. piece = <<>>
          BY <3>1, SubSeqEmpty
        <4>2. CASE saved' = WithArrived(t, a)
          BY <2>4, <4>1, <4>2 DEF WithArrived, Write
        <4> QED BY <4>2
      <3>4. transport'[u].written = transport[u].written
        BY <1>4, <2>5, <3>2
      <3>5. IsThere(u)'
        BY <2>3, <3>3, <3>4 DEF IsThere
      <3> QED BY <2>2, <3>3, <3>5
    <2>7. CASE body = Source
      <3>1. a <= FileSize
        BY <1>2, <2>7, SourceFacts
      <3>2. CASE new.written = w /\ saved' = saved
        <4>1. transport'[u].written = transport[u].written
          BY <1>4, <2>5, <3>2
        <4>2. IsThere(u)'
          BY <2>3, <3>2, <4>1 DEF IsThere
        <4> QED BY <2>2, <3>2, <4>2
      <3>3. CASE new.written = a /\ saved' = WithArrived(t, a)
        <4>1. saved' = Write(saved, w, Piece(w, a))
          BY <2>4, <2>7, <3>3 DEF WithArrived, Piece
        <4>2. /\ Len(saved') <= FileSize \/ Len(saved) > FileSize
              /\ \A i \in 1..Len(saved) : i \in 1..Len(saved') /\ (saved'[i] = saved[i] \/ saved'[i] = i)
              /\ \A i \in (w + 1)..a : i \in 1..Len(saved') /\ saved'[i] = i
          <5>1. saved \in Seq(Nat) /\ w \in Nat /\ a \in Nat /\ w <= a
            BY <1>1, <1>2
          <5> HIDE DEF w, a
          <5>2. Written(saved', saved, w, a)
            BY <3>1, <4>1, <5>1, WriteFacts
          <5> QED BY <5>2 DEF Written
        <4>3. Len(saved') <= FileSize
          BY <1>1, <2>2, <4>2, SourceFacts
        <4>4. IsThere(u)'
          <5> SUFFICES ASSUME NEW i \in 1..transport'[u].written
                       PROVE  i \in 1..Len(saved') /\ saved'[i] = i
            BY DEF IsThere
          <5>1. CASE i \in 1..transport[u].written
            BY <2>3, <4>2, <5>1 DEF IsThere
          <5>2. CASE i \notin 1..transport[u].written
            <6>1. u = t
              BY <1>4, <2>5, <5>2
            <6>2. i \in (w + 1)..a
              BY <1>2, <1>4, <3>3, <5>2, <6>1
            <6> QED BY <4>2, <6>2
          <5> QED BY <5>1, <5>2
        <4> QED BY <4>3, <4>4
      <3> QED BY <3>2, <3>3
    <2> QED BY <2>4, <2>6, <2>7
  <1> QED BY <1>7, <1>8, <1>9, OneTransport

LEMMA ArrivingKeepsInv == ASSUME DownloadInv, NEW t \in Transports, Arrive(t) PROVE DownloadInv'
PROOF
  <1>1. PICK arrived \in (transport[t].arrived + 1)..Len(transport[t].body) :
          ReplyReadyRead(t, arrived) /\ info' \in {info, [info EXCEPT !.last = arrived]}
    BY DEF Arrive
  <1>2. transport[t] \in DownloadTransport /\ transport[t].phase = "answering"
    BY DEF DownloadInv, DownloadTypes, Arrive
  <1>3. transport[t].arrived \in Nat /\ transport[t].body \in Seq(Nat)
    BY <1>2 DEF DownloadTransport
  <1>4. arrived \in Nat /\ transport[t].arrived <= arrived /\ arrived <= Len(transport[t].body)
    BY <1>3
  <1>5. info' \in [state : {"Absent", "Pause", "Wait", "Finish"}, last : Nat, forDelete : BOOLEAN]
    BY <1>1, <1>4 DEF DownloadInv, DownloadTypes
  <1>6. CASE arrived - transport[t].written < Threshold
    <2> DEFINE new == [transport[t] EXCEPT !.arrived = arrived]
    <2>1. /\ new \in DownloadTransport /\ new.phase = "answering" /\ new.opened = transport[t].opened
          /\ new.body = transport[t].body /\ new.arrived = arrived
          /\ new.written = transport[t].written
      BY <1>2, <1>4 DEF DownloadTransport
    <2>2. transport' = [transport EXCEPT ![t] = new] /\ saved' = saved
      BY <1>1, <1>6 DEF ReplyReadyRead, DownloadInv, DownloadTypes
    <2> HIDE DEF new
    <2> QED BY <1>2, <1>4, <1>5, <2>1, <2>2, WritingKeepsInv
  <1>7. CASE ~(arrived - transport[t].written < Threshold)
    <2> DEFINE new == [transport[t] EXCEPT !.arrived = arrived, !.written = arrived]
    <2>1. /\ new \in DownloadTransport /\ new.phase = "answering" /\ new.opened = transport[t].opened
          /\ new.body = transport[t].body /\ new.arrived = arrived /\ new.written = arrived
      BY <1>2, <1>4 DEF DownloadTransport
    <2>2. transport' = [transport EXCEPT ![t] = new] /\ saved' = WithArrived(t, arrived)
      BY <1>1, <1>7 DEF ReplyReadyRead, DownloadInv, DownloadTypes
    <2> HIDE DEF new
    <2> QED BY <1>2, <1>4, <1>5, <2>1, <2>2, WritingKeepsInv
  <1> QED BY <1>6, <1>7

LEMMA FinishingKeepsInv == ASSUME DownloadInv, NEW t \in Transports, DownloadFinished(t) PROVE DownloadInv'
PROOF
  <1> DEFINE arrived == transport[t].arrived
             new == [transport[t] EXCEPT !.phase = "done", !.written = arrived]
  <1>1. transport[t] \in DownloadTransport /\ transport[t].phase \in {"asked", "answering"} /\ Counted(t)
    BY DEF DownloadInv, DownloadTypes, CountsFit, DownloadFinished
  <1>2. /\ new \in DownloadTransport /\ new.phase = "done" /\ new.opened = transport[t].opened
        /\ new.body = transport[t].body /\ new.arrived = arrived /\ new.written = arrived
        /\ arrived \in Nat /\ arrived <= Len(new.body)
    BY <1>1 DEF DownloadTransport, Counted
  <1>3. transport' = [transport EXCEPT ![t] = new] /\ saved' = WithArrived(t, new.arrived)
    BY <1>2 DEF DownloadFinished, DownloadInv, DownloadTypes
  <1>4. info' \in [state : {"Absent", "Pause", "Wait", "Finish"}, last : Nat, forDelete : BOOLEAN]
    BY DEF DownloadFinished, DownloadInv, DownloadTypes
  <1>5. arrived <= new.arrived
    BY <1>2
  <1> HIDE DEF new
  <1>6. new.phase \notin {"none", "asked"} /\ transport[t].arrived <= new.arrived
    BY <1>2, <1>5
  <1> HIDE DEF arrived
  <1> QED BY <1>1, <1>2, <1>3, <1>4, <1>6, WritingKeepsInv

LEMMA DownloadInvariance == DownloadSpec => []DownloadInv
PROOF
  <1>1. DownloadInit => DownloadInv
    BY Starts
  <1>2. ASSUME DownloadInv, [DownloadNext]_downloadVars PROVE DownloadInv'
    <2>1. CASE UNCHANGED downloadVars
      <3>1. info' = info /\ transport' = transport /\ saved' = saved
        BY <2>1 DEF downloadVars
      <3>2. DownloadTypes' /\ CountsFit'
        BY <1>2, <3>1 DEF DownloadInv, DownloadTypes, CountsFit, Counted
      <3>3. FileFits'
        BY <1>2, <3>1 DEF DownloadInv, FileFits, Used, Fine, IsThere
      <3> QED BY <3>2, <3>3 DEF DownloadInv
    <2>2. ASSUME NEW t \in Transports, GetFile(t) \/ ServerAnswers(t) \/ Arrive(t) \/ DownloadFinished(t)
          PROVE  DownloadInv'
      BY <1>2, <2>2, OpeningKeepsInv, AnsweringKeepsInv, ArrivingKeepsInv, FinishingKeepsInv
    <2> QED BY <1>2, <2>1, <2>2 DEF DownloadNext
  <1> QED BY <1>1, <1>2, PTL DEF DownloadSpec

----------------------------------------------------------------------------
(* The result.                                                             *)

(* When every ClientWebDAV that was made for a download got the whole file,*)
(* the save file is a copy of it once the last of them is done, although   *)
(* each emptied it when it opened it, with the others' bytes in it.        *)
THEOREM WholeAnswersMakeACopy == DownloadSpec => []WholeAnswersAreSaved
PROOF
  <1>1. ASSUME DownloadInv PROVE WholeAnswersAreSaved
    <2> SUFFICES ASSUME Used # {}, \A t \in Used : GotAll(t) PROVE saved = Source
      BY DEF WholeAnswersAreSaved
    <2>1. \A t \in Used : Fine(t)
      BY DEF GotAll, Fine
    <2>2. Len(saved) <= FileSize
      BY <1>1, <2>1 DEF DownloadInv, FileFits
    <2>3. PICK t \in Used : IsThere(t)
      BY <1>1, <2>1 DEF DownloadInv, FileFits
    <2>4. t \in Transports /\ Counted(t) /\ GotAll(t)
      BY <1>1 DEF Used, DownloadInv, CountsFit
    <2>5. transport[t].written = FileSize
      BY <2>4 DEF Counted, GotAll
    <2>6. \A i \in 1..FileSize : i \in 1..Len(saved) /\ saved[i] = i
      BY <2>3, <2>5 DEF IsThere
    <2>7. Len(saved) = FileSize
      <3>1. FileSize \in 1..Len(saved)
        BY <2>6, SourceFacts
      <3> QED BY <1>1, <2>2, <3>1, SourceFacts DEF DownloadInv, DownloadTypes
    <2> QED BY <1>1, <2>6, <2>7, SourceFacts DEF DownloadInv, DownloadTypes
  <1> QED BY <1>1, DownloadInvariance, PTL
=============================================================================
