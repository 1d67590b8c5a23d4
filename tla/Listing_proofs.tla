--------------------------- MODULE Listing_proofs ---------------------------
(***************************************************************************)
(* Proofs about Listing for all hosts, paths and directories and any number*)
(* of requests: the view's entries exist, are of the active host unless    *)
(* they came late, and never go back to an earlier request.                *)
(***************************************************************************)
EXTENDS Listing, TLAPS

----------------------------------------------------------------------------
(* The inductive invariant.                                                *)
Asked == [host : Hosts, path : Paths]
AnswerRecords == [request : Requests, error : BOOLEAN]
Types ==
  /\ active \in Hosts \cup {NoHost}
  /\ asked \in Seq(Asked) /\ Len(asked) <= MaxRequests
  /\ toServer \in [Hosts -> Seq(Requests)]
  /\ toClient \in [Hosts -> Seq(AnswerRecords)]
  /\ cache \in [Paths -> Requests \cup {NoRequest}]
  /\ shown \subseteq 1..Len(asked)

(* Whatever is under way was asked of the host it is under way to or from, *)
(* before the user chose the host or of the host chosen.                   *)
IsOf(n, h) == n \in 1..Len(asked) /\ asked[n].host = h /\ (h = active \/ n \in late)
RequestsFit == \A h \in Hosts : \A i \in DOMAIN toServer[h] : IsOf(toServer[h][i], h)
AnswersFit == \A h \in Hosts : \A i \in DOMAIN toClient[h] : IsOf(toClient[h][i].request, h)

(* To and from a host, requests and answers are in the order of asking, the*)
(* answers before the requests, and what is shown came before them.        *)
RequestsInOrder ==
  \A h \in Hosts : \A i, j \in DOMAIN toServer[h] : i < j => toServer[h][i] < toServer[h][j]
AnswersInOrder ==
  \A h \in Hosts : \A i, j \in DOMAIN toClient[h] :
    i < j => toClient[h][i].request < toClient[h][j].request
AnswersFirst ==
  \A h \in Hosts : \A i \in DOMAIN toClient[h], j \in DOMAIN toServer[h] :
    toClient[h][i].request < toServer[h][j]
ShownIsPast ==
  \A m \in shown, h \in Hosts : asked[m].host = h =>
    /\ \A i \in DOMAIN toClient[h] : m < toClient[h][i].request
    /\ \A j \in DOMAIN toServer[h] : m < toServer[h][j]
OneIsShown == \A m, n \in shown : m = n

Inv ==
  /\ Types /\ RequestsFit /\ AnswersFit
  /\ RequestsInOrder /\ AnswersInOrder /\ AnswersFirst
  /\ ShownIsPast /\ OneIsShown /\ EntriesAreLive /\ ListedIsOfActive

QueuesInOrder == RequestsInOrder /\ AnswersInOrder /\ AnswersFirst

----------------------------------------------------------------------------
(* Facts about queues.                                                     *)

LEMMA AppendFacts ==
  ASSUME NEW S, NEW s \in Seq(S), NEW x \in S
  PROVE  /\ Append(s, x) \in Seq(S) /\ Len(s) \in Nat
         /\ DOMAIN s = 1..Len(s) /\ DOMAIN Append(s, x) = 1..(Len(s) + 1)
         /\ Append(s, x)[Len(s) + 1] = x
         /\ \A i \in 1..Len(s) : Append(s, x)[i] = s[i]
OBVIOUS

LEMMA TailFacts ==
  ASSUME NEW S, NEW s \in Seq(S), s # <<>>
  PROVE  /\ Tail(s) \in Seq(S) /\ Len(s) \in Nat \ {0} /\ Head(s) = s[1] /\ Head(s) \in S
         /\ DOMAIN s = 1..Len(s) /\ DOMAIN Tail(s) = 1..(Len(s) - 1)
         /\ \A i \in 1..(Len(s) - 1) : Tail(s)[i] = s[i + 1]
OBVIOUS

LEMMA AnswerTypes == \A n \in Requests : Answer(n) \in AnswerRecords /\ Answer(n).request = n
PROOF
  <1> SUFFICES ASSUME NEW n \in Requests
               PROVE  Answer(n) \in AnswerRecords /\ Answer(n).request = n
    OBVIOUS
  <1> DEFINE error == asked[n].path \notin Directories[asked[n].host]
  <1>1. error \in BOOLEAN
    OBVIOUS
  <1>2. Answer(n) = [request |-> n, error |-> error]
    BY DEF Answer
  <1> HIDE DEF error
  <1> QED BY <1>1, <1>2 DEF AnswerRecords

LEMMA Starts == Init => Inv
PROOF
  <1> SUFFICES ASSUME Init PROVE Inv
    OBVIOUS
  <1>1. /\ active = NoHost /\ asked = <<>> /\ shown = {}
        /\ toServer = [h \in Hosts |-> <<>>] /\ toClient = [h \in Hosts |-> <<>>]
        /\ cache = [p \in Paths |-> NoRequest]
    BY DEF Init
  <1>2. Types
    BY <1>1, RequestsAssumption DEF Types
  <1>3. \A h \in Hosts : DOMAIN toServer[h] = {} /\ DOMAIN toClient[h] = {}
    <2>1. \A h \in Hosts : toServer[h] = <<>> /\ toClient[h] = <<>>
      BY <1>1
    <2>2. DOMAIN <<>> = {}
      OBVIOUS
    <2> QED BY <2>1, <2>2, Zenon
  <1>4. RequestsFit /\ AnswersFit /\ QueuesInOrder
    <2>1. RequestsFit /\ AnswersFit
      BY <1>3, Zenon DEF RequestsFit, AnswersFit
    <2>2. QueuesInOrder
      BY <1>3 DEF QueuesInOrder, RequestsInOrder, AnswersInOrder, AnswersFirst
    <2> QED BY <2>1, <2>2
  <1>5. ShownIsPast /\ OneIsShown /\ EntriesAreLive /\ ListedIsOfActive
    BY <1>1 DEF ShownIsPast, OneIsShown, EntriesAreLive, ListedIsOfActive
  <1> QED BY <1>2, <1>4, <1>5 DEF Inv, QueuesInOrder

----------------------------------------------------------------------------
(* The steps.                                                              *)

LEMMA ChoosingKeepsInv == ASSUME Inv, NEW h \in Hosts, SetActiveConnection(h) PROVE Inv'
PROOF
  <1>1. /\ active' = h /\ shown' = {} /\ late' = UNION {UnderWay(g) : g \in Hosts}
        /\ asked' = asked /\ toServer' = toServer /\ toClient' = toClient /\ cache' = cache
    BY DEF SetActiveConnection
  <1>2. Types'
    BY <1>1 DEF Inv, Types
  <1>3. RequestsFit'
    <2> SUFFICES ASSUME NEW g \in Hosts, NEW i \in DOMAIN toServer[g]
                 PROVE  IsOf(toServer[g][i], g)'
      BY <1>1 DEF RequestsFit, IsOf
    <2>1. toServer[g][i] \in Requests
      BY DEF Inv, Types
    <2>2. toServer[g][i] \in UnderWay(g)
      BY <2>1 DEF UnderWay
    <2> QED BY <1>1, <2>2 DEF Inv, RequestsFit, IsOf
  <1>4. AnswersFit'
    <2> SUFFICES ASSUME NEW g \in Hosts, NEW i \in DOMAIN toClient[g]
                 PROVE  IsOf(toClient[g][i].request, g)'
      BY <1>1 DEF AnswersFit, IsOf
    <2>1. toClient[g][i] \in AnswerRecords
      BY DEF Inv, Types
    <2>2. toClient[g][i].request \in UnderWay(g)
      BY <2>1 DEF UnderWay, AnswerRecords
    <2> QED BY <1>1, <2>2 DEF Inv, AnswersFit, IsOf
  <1>5. QueuesInOrder'
    BY <1>1 DEF Inv, QueuesInOrder, RequestsInOrder, AnswersInOrder, AnswersFirst
  <1>6. ShownIsPast' /\ OneIsShown' /\ EntriesAreLive' /\ ListedIsOfActive'
    BY <1>1 DEF ShownIsPast, OneIsShown, EntriesAreLive, ListedIsOfActive
  <1> QED BY <1>2, <1>3, <1>4, <1>5, <1>6 DEF Inv, QueuesInOrder

(* The request gets the next number, which is above all others.            *)
LEMMA AskingKeepsInv == ASSUME Inv, NEW p \in Paths, GetNetworkDirectory(p) PROVE Inv'
PROOF
  <1> DEFINE new == Len(asked) + 1
             question == [host |-> active, path |-> p]
  <1>1. /\ active' = active /\ shown' = shown /\ late' = late /\ cache' = cache
        /\ toClient' = toClient /\ active # NoHost /\ Len(asked) < MaxRequests
        /\ asked' = Append(asked, question)
        /\ toServer' = [toServer EXCEPT ![active] = Append(@, new)]
    BY DEF GetNetworkDirectory, client
  <1>2. active \in Hosts /\ question \in Asked /\ new \in Requests /\ Len(asked) \in Nat
    BY <1>1, RequestsAssumption DEF Inv, Types, Asked, Requests
  <1>3. /\ asked' \in Seq(Asked) /\ Len(asked') = new /\ asked'[new] = question
        /\ \A n \in 1..Len(asked) : asked'[n] = asked[n]
    BY <1>1, <1>2, AppendFacts DEF Inv, Types
  <1>4. /\ toServer'[active] = Append(toServer[active], new)
        /\ \A h \in Hosts \ {active} : toServer'[h] = toServer[h]
    BY <1>1, <1>2 DEF Inv, Types
  <1>5. toServer[active] \in Seq(Requests)
    BY <1>2 DEF Inv, Types
  <1>6. /\ toServer'[active] \in Seq(Requests) /\ Len(toServer[active]) \in Nat
        /\ DOMAIN toServer[active] = 1..Len(toServer[active])
        /\ DOMAIN toServer'[active] = 1..(Len(toServer[active]) + 1)
        /\ toServer'[active][Len(toServer[active]) + 1] = new
        /\ \A i \in 1..Len(toServer[active]) : toServer'[active][i] = toServer[active][i]
    BY <1>2, <1>4, <1>5, AppendFacts
  <1> HIDE DEF new, question
  <1>7. Len(asked) < new /\ \A n \in 1..Len(asked) : n \in 1..new /\ n < new
    BY <1>2 DEF new
  <1>8. Types'
    <2>1. toServer' \in [Hosts -> Seq(Requests)]
      BY <1>1, <1>6 DEF Inv, Types
    <2>2. Len(asked') <= MaxRequests
      BY <1>2, <1>3 DEF Requests
    <2>3. shown' \subseteq 1..Len(asked')
      BY <1>1, <1>3, <1>7 DEF Inv, Types
    <2> QED BY <1>1, <1>3, <2>1, <2>2, <2>3 DEF Inv, Types
  <1>9. \A n, h : IsOf(n, h) => IsOf(n, h)'
    BY <1>1, <1>3, <1>7 DEF IsOf
  <1>10. /\ new \in 1..Len(asked') /\ asked'[new].host = active
    <2>1. new \in 1..new
      BY <1>2 DEF Requests
    <2> QED BY <1>3, <2>1 DEF question
  <1>11. RequestsFit'
    <2> SUFFICES ASSUME NEW h \in Hosts, NEW i \in DOMAIN toServer'[h]
                 PROVE  IsOf(toServer[h][i], h)'
      BY DEF RequestsFit
    <2>1. CASE h = active /\ i = Len(toServer[active]) + 1
      BY <1>1, <1>6, <1>10, <2>1 DEF IsOf
    <2>2. CASE h # active \/ i # Len(toServer[active]) + 1
      <3>1. i \in DOMAIN toServer[h] /\ toServer'[h][i] = toServer[h][i]
        BY <1>4, <1>6, <2>2
      <3>2. IsOf(toServer[h][i], h)
        BY <3>1 DEF Inv, RequestsFit
      <3> QED BY <1>1, <1>3, <1>7, <3>1, <3>2 DEF IsOf
    <2> QED BY <2>1, <2>2
  <1>12. AnswersFit'
    BY <1>1, <1>9 DEF Inv, AnswersFit
  <1>13. \A h \in Hosts :
           /\ \A i \in DOMAIN toServer[h] : toServer[h][i] < new
           /\ \A i \in DOMAIN toClient[h] : toClient[h][i].request < new
    BY <1>7 DEF Inv, RequestsFit, AnswersFit, IsOf
  <1>14. QueuesInOrder'
    <2>1. RequestsInOrder'
      <3> SUFFICES ASSUME NEW h \in Hosts, NEW i \in DOMAIN toServer'[h], NEW j \in DOMAIN toServer'[h],
                          i < j
                   PROVE  toServer'[h][i] < toServer'[h][j]
        BY DEF RequestsInOrder
      <3>1. CASE h # active
        BY <1>4, <3>1 DEF Inv, RequestsInOrder
      <3>2. CASE h = active
        <4>1. i \in DOMAIN toServer[h] /\ toServer'[h][i] = toServer[h][i]
          <5>1. i \in 1..(Len(toServer[h]) + 1) /\ j \in 1..(Len(toServer[h]) + 1)
            BY <1>6, <3>2
          <5>2. Len(toServer[h]) \in Nat
            BY <1>6, <3>2
          <5>3. i \in 1..Len(toServer[h])
            BY <5>1, <5>2
          <5> QED BY <1>6, <3>2, <5>3
        <4>2. CASE j = Len(toServer[active]) + 1
          <5>1. toServer'[h][j] = new
            BY <1>6, <3>2, <4>2
          <5>2. toServer[h][i] < new
            BY <1>2, <1>13, <4>1
          <5> QED BY <4>1, <5>1, <5>2
        <4>3. CASE j \in DOMAIN toServer[h]
          BY <1>6, <3>2, <4>1, <4>3 DEF Inv, RequestsInOrder
        <4> QED BY <1>6, <3>2, <4>2, <4>3
      <3> QED BY <3>1, <3>2
    <2>2. AnswersInOrder'
      BY <1>1 DEF Inv, AnswersInOrder
    <2>3. AnswersFirst'
      <3> SUFFICES ASSUME NEW h \in Hosts, NEW i \in DOMAIN toClient[h], NEW j \in DOMAIN toServer'[h]
                   PROVE  toClient[h][i].request < toServer'[h][j]
        BY <1>1 DEF AnswersFirst
      <3>1. CASE h = active /\ j = Len(toServer[active]) + 1
        BY <1>6, <1>13, <3>1
      <3>2. CASE h # active \/ j # Len(toServer[active]) + 1
        <4>1. j \in DOMAIN toServer[h] /\ toServer'[h][j] = toServer[h][j]
          BY <1>4, <1>6, <3>2
        <4> QED BY <4>1 DEF Inv, AnswersFirst
      <3> QED BY <3>1, <3>2
    <2> QED BY <2>1, <2>2, <2>3 DEF QueuesInOrder
  <1>15. ShownIsPast'
    <2> SUFFICES ASSUME NEW m \in shown, NEW h \in Hosts, asked'[m].host = h
                 PROVE  /\ \A i \in DOMAIN toClient[h] : m < toClient[h][i].request
                        /\ \A j \in DOMAIN toServer'[h] : m < toServer'[h][j]
      BY <1>1 DEF ShownIsPast
    <2>1. m \in 1..Len(asked) /\ asked[m].host = h /\ m < new
      BY <1>3, <1>7 DEF Inv, Types
    <2>2. /\ \A i \in DOMAIN toClient[h] : m < toClient[h][i].request
          /\ \A j \in DOMAIN toServer[h] : m < toServer[h][j]
      BY <2>1 DEF Inv, ShownIsPast
    <2>3. ASSUME NEW j \in DOMAIN toServer'[h] PROVE m < toServer'[h][j]
      <3>1. CASE h = active /\ j = Len(toServer[active]) + 1
        BY <1>6, <2>1, <3>1
      <3>2. CASE h # active \/ j # Len(toServer[active]) + 1
        <4>1. j \in DOMAIN toServer[h] /\ toServer'[h][j] = toServer[h][j]
          BY <1>4, <1>6, <3>2
        <4> QED BY <2>2, <4>1
      <3> QED BY <3>1, <3>2
    <2> QED BY <2>2, <2>3
  <1>16. OneIsShown' /\ EntriesAreLive'
    BY <1>1 DEF Inv, OneIsShown, EntriesAreLive
  <1>17. ListedIsOfActive'
    BY <1>1, <1>3 DEF Inv, ListedIsOfActive, Types
  <1> QED BY <1>8, <1>11, <1>12, <1>14, <1>15, <1>16, <1>17 DEF Inv, QueuesInOrder

(* Steps of a socket or of a server that lose nothing, and stuttering.     *)
LEMMA SameQueuesKeepInv ==
  ASSUME Inv, UNCHANGED <<asked, toServer, toClient, client>> PROVE Inv'
PROOF
  <1>1. /\ active' = active /\ shown' = shown /\ late' = late /\ cache' = cache
        /\ asked' = asked /\ toServer' = toServer /\ toClient' = toClient
    BY DEF client
  <1>2. Types'
    BY <1>1 DEF Inv, Types
  <1>3. RequestsFit' /\ AnswersFit'
    BY <1>1 DEF Inv, RequestsFit, AnswersFit, IsOf
  <1>4. QueuesInOrder'
    BY <1>1 DEF Inv, QueuesInOrder, RequestsInOrder, AnswersInOrder, AnswersFirst
  <1>5. ShownIsPast' /\ OneIsShown' /\ EntriesAreLive' /\ ListedIsOfActive'
    BY <1>1 DEF Inv, ShownIsPast, OneIsShown, EntriesAreLive, ListedIsOfActive
  <1> QED BY <1>2, <1>3, <1>4, <1>5 DEF Inv, QueuesInOrder

LEMMA LosingKeepsInv == ASSUME Inv, NEW h \in Hosts, OnDisconnected(h) PROVE Inv'
PROOF
  <1>1. /\ active' = active /\ shown' = shown /\ late' = late /\ cache' = cache
        /\ asked' = asked
        /\ toServer' = [toServer EXCEPT ![h] = <<>>] /\ toClient' = [toClient EXCEPT ![h] = <<>>]
    BY DEF OnDisconnected, client
  <1>2. Types'
    BY <1>1 DEF Inv, Types
  <1>3. /\ toServer'[h] = <<>> /\ toClient'[h] = <<>>
        /\ \A g \in Hosts \ {h} : toServer'[g] = toServer[g] /\ toClient'[g] = toClient[g]
    BY <1>1 DEF Inv, Types
  <1>4. /\ DOMAIN toServer'[h] = {} /\ DOMAIN toClient'[h] = {}
    BY <1>3
  <1>5. RequestsFit' /\ AnswersFit'
    BY <1>1, <1>3, <1>4 DEF Inv, RequestsFit, AnswersFit, IsOf
  <1>6. QueuesInOrder'
    BY <1>3, <1>4 DEF Inv, QueuesInOrder, RequestsInOrder, AnswersInOrder, AnswersFirst
  <1>7. ShownIsPast'
    BY <1>1, <1>3, <1>4 DEF Inv, ShownIsPast
  <1>8. OneIsShown' /\ EntriesAreLive' /\ ListedIsOfActive'
    BY <1>1 DEF Inv, OneIsShown, EntriesAreLive, ListedIsOfActive
  <1> QED BY <1>2, <1>5, <1>6, <1>7, <1>8 DEF Inv, QueuesInOrder

(* The first request, if it is answered, becomes the last answer.          *)
LEMMA AnsweringKeepsInv == ASSUME Inv, NEW h \in Hosts, ProcessRequest(h) PROVE Inv'
PROOF
  <1> DEFINE first == Head(toServer[h])
             size == Len(toClient[h])
  <1>1. /\ active' = active /\ shown' = shown /\ late' = late /\ cache' = cache
        /\ asked' = asked /\ toServer[h] # <<>>
        /\ toServer' = [toServer EXCEPT ![h] = Tail(@)]
        /\ SendResponse(h, first)
    BY DEF ProcessRequest, client
  <1>2. toServer[h] \in Seq(Requests) /\ toClient[h] \in Seq(AnswerRecords)
    BY DEF Inv, Types
  <1>3. /\ toServer'[h] = Tail(toServer[h])
        /\ \A g \in Hosts \ {h} : toServer'[g] = toServer[g]
    BY <1>1 DEF Inv, Types
  <1>4. /\ toServer'[h] \in Seq(Requests) /\ Len(toServer[h]) \in Nat \ {0}
        /\ first = toServer[h][1] /\ first \in Requests /\ 1 \in DOMAIN toServer[h]
        /\ DOMAIN toServer[h] = 1..Len(toServer[h])
        /\ DOMAIN toServer'[h] = 1..(Len(toServer[h]) - 1)
        /\ \A i \in 1..(Len(toServer[h]) - 1) : toServer'[h][i] = toServer[h][i + 1]
    <2> DEFINE s == toServer[h]
    <2>1. s \in Seq(Requests) /\ s # <<>> /\ toServer'[h] = Tail(s)
      BY <1>1, <1>2, <1>3
    <2>2. first = Head(s)
      OBVIOUS
    <2> HIDE DEF s, first
    <2>3. /\ Tail(s) \in Seq(Requests) /\ Len(s) \in Nat \ {0} /\ Head(s) = s[1] /\ Head(s) \in Requests
          /\ DOMAIN s = 1..Len(s) /\ DOMAIN Tail(s) = 1..(Len(s) - 1)
          /\ \A i \in 1..(Len(s) - 1) : Tail(s)[i] = s[i + 1]
      BY <2>1, TailFacts
    <2>4. 1 \in DOMAIN s
      BY <2>3
    <2> QED BY <2>1, <2>2, <2>3, <2>4 DEF s
  <1>5. Answer(first) \in AnswerRecords /\ Answer(first).request = first
    BY <1>4, AnswerTypes
  <1>6. /\ size \in Nat /\ DOMAIN toClient[h] = 1..size
    BY <1>2
  <1> DEFINE was(g, i) == IF g = h THEN i + 1 ELSE i
  <1>7. \A g \in Hosts : \A i \in DOMAIN toServer'[g] :
          was(g, i) \in DOMAIN toServer[g] /\ toServer'[g][i] = toServer[g][was(g, i)]
    <2> SUFFICES ASSUME NEW g \in Hosts, NEW i \in DOMAIN toServer'[g]
                 PROVE  was(g, i) \in DOMAIN toServer[g] /\ toServer'[g][i] = toServer[g][was(g, i)]
      OBVIOUS
    <2>1. CASE g = h
      <3>1. i \in 1..(Len(toServer[h]) - 1)
        BY <1>4, <2>1
      <3>2. i + 1 \in 1..Len(toServer[h])
        BY <1>4, <3>1
      <3> QED BY <1>4, <2>1, <3>1, <3>2
    <2>2. CASE g # h
      BY <1>3, <2>2
    <2> QED BY <2>1, <2>2
  <1>8. /\ toClient' \in [Hosts -> Seq(AnswerRecords)]
        /\ \A g \in Hosts : \A i \in DOMAIN toClient'[g] :
             \/ i \in DOMAIN toClient[g] /\ toClient'[g][i] = toClient[g][i]
             \/ g = h /\ i = size + 1 /\ toClient'[g][i].request = first
    <2>1. CASE asked[first].path \in LongPaths
      <3>1. toClient' = toClient
        BY <1>1, <2>1 DEF SendResponse
      <3> QED BY <3>1 DEF Inv, Types
    <2>2. CASE asked[first].path \notin LongPaths
      <3>1. toClient' = [toClient EXCEPT ![h] = Append(@, Answer(first))]
        BY <1>1, <2>2 DEF SendResponse
      <3>2. /\ toClient'[h] = Append(toClient[h], Answer(first))
            /\ \A g \in Hosts \ {h} : toClient'[g] = toClient[g]
        BY <3>1 DEF Inv, Types
      <3>3. /\ toClient'[h] \in Seq(AnswerRecords) /\ DOMAIN toClient'[h] = 1..(size + 1)
            /\ toClient'[h][size + 1] = Answer(first)
            /\ \A i \in 1..size : toClient'[h][i] = toClient[h][i]
        BY <1>2, <1>5, <3>2, AppendFacts
      <3>4. toClient' \in [Hosts -> Seq(AnswerRecords)]
        BY <3>1, <3>2, <3>3 DEF Inv, Types
      <3>5. ASSUME NEW g \in Hosts, NEW i \in DOMAIN toClient'[g]
            PROVE  \/ i \in DOMAIN toClient[g] /\ toClient'[g][i] = toClient[g][i]
                   \/ g = h /\ i = size + 1 /\ toClient'[g][i].request = first
        <4>1. CASE g # h
          BY <3>2, <4>1
        <4>2. CASE g = h /\ i # size + 1
          BY <1>6, <3>3, <4>2
        <4>3. CASE g = h /\ i = size + 1
          BY <1>5, <3>3, <4>3
        <4> QED BY <4>1, <4>2, <4>3
      <3> QED BY <3>4, <3>5
    <2> QED BY <2>1, <2>2
  <1>9. /\ IsOf(first, h)
        /\ \A i \in DOMAIN toClient[h] : toClient[h][i].request < first
        /\ \A j \in DOMAIN toServer'[h] : first < toServer'[h][j]
    <2>1. IsOf(first, h)
      BY <1>4 DEF Inv, RequestsFit
    <2>2. \A i \in DOMAIN toClient[h] : toClient[h][i].request < first
      BY <1>4 DEF Inv, AnswersFirst
    <2>3. ASSUME NEW j \in DOMAIN toServer'[h] PROVE first < toServer'[h][j]
      <3>1. 1 < was(h, j) /\ was(h, j) \in DOMAIN toServer[h]
            /\ toServer'[h][j] = toServer[h][was(h, j)]
        BY <1>4, <1>7
      <3> QED BY <1>4, <3>1 DEF Inv, RequestsInOrder
    <2> QED BY <2>1, <2>2, <2>3
  <1>10. \A g \in Hosts : \A i, j \in DOMAIN toServer'[g] : i < j => was(g, i) < was(g, j)
    <2> SUFFICES ASSUME NEW g \in Hosts, NEW i \in DOMAIN toServer'[g], NEW j \in DOMAIN toServer'[g],
                        i < j
                 PROVE  was(g, i) < was(g, j)
      OBVIOUS
    <2>1. CASE g = h
      BY <1>4, <2>1
    <2>2. CASE g # h
      BY <2>2
    <2> QED BY <2>1, <2>2
  <1> HIDE DEF first, size, was
  <1>11. Types'
    <2>1. toServer' \in [Hosts -> Seq(Requests)]
      BY <1>1, <1>3, <1>4 DEF Inv, Types
    <2> QED BY <1>1, <1>8, <2>1 DEF Inv, Types
  <1>12. RequestsFit'
    BY <1>1, <1>7 DEF Inv, RequestsFit, IsOf
  <1>13. AnswersFit'
    BY <1>1, <1>8, <1>9 DEF Inv, AnswersFit, IsOf
  <1>14. RequestsInOrder'
    BY <1>7, <1>10 DEF Inv, RequestsInOrder
  <1>15. AnswersInOrder'
    <2> SUFFICES ASSUME NEW g \in Hosts, NEW i \in DOMAIN toClient'[g], NEW j \in DOMAIN toClient'[g],
                        i < j
                 PROVE  toClient'[g][i].request < toClient'[g][j].request
      BY DEF AnswersInOrder
    <2>1. CASE i \in DOMAIN toClient[g] /\ j \in DOMAIN toClient[g]
               /\ toClient'[g][i] = toClient[g][i] /\ toClient'[g][j] = toClient[g][j]
      BY <2>1 DEF Inv, AnswersInOrder
    <2>2. CASE i \in DOMAIN toClient[g] /\ toClient'[g][i] = toClient[g][i]
               /\ g = h /\ toClient'[g][j].request = first
      BY <1>9, <2>2
    <2>3. CASE g = h /\ i = size + 1
      <3>1. j \in DOMAIN toClient[h] \/ j = size + 1
        BY <1>8, <2>3
      <3> QED BY <1>6, <2>3, <3>1
    <2> QED BY <1>8, <2>1, <2>2, <2>3
  <1>16. AnswersFirst'
    <2> SUFFICES ASSUME NEW g \in Hosts, NEW i \in DOMAIN toClient'[g], NEW j \in DOMAIN toServer'[g]
                 PROVE  toClient'[g][i].request < toServer'[g][j]
      BY DEF AnswersFirst
    <2>1. CASE i \in DOMAIN toClient[g] /\ toClient'[g][i] = toClient[g][i]
      BY <1>7, <2>1 DEF Inv, AnswersFirst
    <2>2. CASE g = h /\ toClient'[g][i].request = first
      BY <1>9, <2>2
    <2> QED BY <1>8, <2>1, <2>2
  <1>17. ShownIsPast'
    <2> SUFFICES ASSUME NEW m \in shown, NEW g \in Hosts, asked[m].host = g
                 PROVE  /\ \A i \in DOMAIN toClient'[g] : m < toClient'[g][i].request
                        /\ \A j \in DOMAIN toServer'[g] : m < toServer'[g][j]
      BY <1>1 DEF ShownIsPast
    <2>1. /\ \A i \in DOMAIN toClient[g] : m < toClient[g][i].request
          /\ \A j \in DOMAIN toServer[g] : m < toServer[g][j]
      BY DEF Inv, ShownIsPast
    <2>2. g = h => m < first
      BY <1>4, <2>1
    <2>3. \A i \in DOMAIN toClient'[g] : m < toClient'[g][i].request
      BY <1>8, <2>1, <2>2
    <2>4. \A j \in DOMAIN toServer'[g] : m < toServer'[g][j]
      BY <1>7, <2>1
    <2> QED BY <2>3, <2>4
  <1>18. OneIsShown' /\ EntriesAreLive' /\ ListedIsOfActive'
    BY <1>1 DEF Inv, OneIsShown, EntriesAreLive, ListedIsOfActive
  <1> QED BY <1>11, <1>12, <1>13, <1>14, <1>15, <1>16, <1>17, <1>18 DEF Inv

(* The first answer is shown unless it is an error.                        *)
LEMMA ShowingKeepsInv == ASSUME Inv, NEW h \in Hosts, OnTextMessageReceived(h) PROVE Inv' /\ NotBefore
PROOF
  <1> DEFINE answer == Head(toClient[h])
             n == answer.request
  <1>1. /\ active' = active /\ late' = late /\ asked' = asked /\ toServer' = toServer
        /\ toClient[h] # <<>> /\ toClient' = [toClient EXCEPT ![h] = Tail(@)]
    BY DEF OnTextMessageReceived
  <1>2. \/ cache' = cache /\ shown' = shown
        \/ cache' = [cache EXCEPT ![asked[n].path] = n] /\ shown' = {n}
    BY DEF OnTextMessageReceived, UpdateDirectory
  <1>3. /\ toClient'[h] = Tail(toClient[h]) /\ toClient[h] \in Seq(AnswerRecords)
        /\ \A g \in Hosts \ {h} : toClient'[g] = toClient[g]
    BY <1>1 DEF Inv, Types
  <1>4. /\ toClient'[h] \in Seq(AnswerRecords) /\ Len(toClient[h]) \in Nat \ {0}
        /\ answer = toClient[h][1] /\ answer \in AnswerRecords
        /\ DOMAIN toClient[h] = 1..Len(toClient[h])
        /\ DOMAIN toClient'[h] = 1..(Len(toClient[h]) - 1)
        /\ \A i \in 1..(Len(toClient[h]) - 1) : toClient'[h][i] = toClient[h][i + 1]
    <2> DEFINE s == toClient[h]
    <2>1. s \in Seq(AnswerRecords) /\ s # <<>> /\ toClient'[h] = Tail(s)
      BY <1>1, <1>3
    <2>2. answer = Head(s)
      OBVIOUS
    <2> HIDE DEF s, answer
    <2>3. /\ Tail(s) \in Seq(AnswerRecords) /\ Len(s) \in Nat \ {0} /\ Head(s) = s[1]
          /\ Head(s) \in AnswerRecords
          /\ DOMAIN s = 1..Len(s) /\ DOMAIN Tail(s) = 1..(Len(s) - 1)
          /\ \A i \in 1..(Len(s) - 1) : Tail(s)[i] = s[i + 1]
      BY <2>1, TailFacts
    <2> QED BY <2>1, <2>2, <2>3 DEF s
  <1> HIDE DEF answer
  <1>5. 1 \in DOMAIN toClient[h] /\ n \in Requests
    BY <1>4 DEF AnswerRecords
  <1> DEFINE was(g, i) == IF g = h THEN i + 1 ELSE i
  <1>6. \A g \in Hosts : \A i \in DOMAIN toClient'[g] :
          was(g, i) \in DOMAIN toClient[g] /\ toClient'[g][i] = toClient[g][was(g, i)]
    <2> SUFFICES ASSUME NEW g \in Hosts, NEW i \in DOMAIN toClient'[g]
                 PROVE  was(g, i) \in DOMAIN toClient[g] /\ toClient'[g][i] = toClient[g][was(g, i)]
      OBVIOUS
    <2>1. CASE g = h
      <3>1. i \in 1..(Len(toClient[h]) - 1)
        BY <1>4, <2>1
      <3>2. i + 1 \in 1..Len(toClient[h])
        BY <1>4, <3>1
      <3> QED BY <1>4, <2>1, <3>1, <3>2
    <2>2. CASE g # h
      BY <1>3, <2>2
    <2> QED BY <2>1, <2>2
  <1>7. /\ IsOf(n, h)
        /\ \A j \in DOMAIN toServer[h] : n < toServer[h][j]
        /\ \A i \in DOMAIN toClient'[h] : n < toClient'[h][i].request
        /\ \A m \in shown : asked[m].host = h => m < n
    <2>1. IsOf(n, h)
      BY <1>4, <1>5 DEF Inv, AnswersFit
    <2>2. \A j \in DOMAIN toServer[h] : n < toServer[h][j]
      BY <1>4, <1>5 DEF Inv, AnswersFirst
    <2>3. ASSUME NEW i \in DOMAIN toClient'[h] PROVE n < toClient'[h][i].request
      <3>1. 1 < was(h, i) /\ was(h, i) \in DOMAIN toClient[h]
            /\ toClient'[h][i] = toClient[h][was(h, i)]
        BY <1>4, <1>6
      <3> QED BY <1>4, <1>5, <3>1 DEF Inv, AnswersInOrder
    <2>4. \A m \in shown : asked[m].host = h => m < n
      BY <1>4, <1>5 DEF Inv, ShownIsPast
    <2> QED BY <2>1, <2>2, <2>3, <2>4
  <1>8. \A g \in Hosts : \A i, j \in DOMAIN toClient'[g] : i < j => was(g, i) < was(g, j)
    <2> SUFFICES ASSUME NEW g \in Hosts, NEW i \in DOMAIN toClient'[g], NEW j \in DOMAIN toClient'[g],
                        i < j
                 PROVE  was(g, i) < was(g, j)
      OBVIOUS
    <2>1. CASE g = h
      BY <1>4, <2>1
    <2>2. CASE g # h
      BY <2>2
    <2> QED BY <2>1, <2>2
  <1>9. n \in 1..Len(asked) /\ asked[n].host = h /\ asked[n].path \in Paths
    <2>1. n \in 1..Len(asked) /\ asked[n].host = h
      BY <1>7 DEF IsOf
    <2>2. asked[n] \in Asked
      BY <2>1 DEF Inv, Types
    <2> QED BY <2>1, <2>2 DEF Asked
  <1> HIDE DEF n, was
  <1>10. Types'
    <2>1. toClient' \in [Hosts -> Seq(AnswerRecords)]
      BY <1>1, <1>3, <1>4 DEF Inv, Types
    <2>2. cache' \in [Paths -> Requests \cup {NoRequest}]
      BY <1>2, <1>5, <1>9 DEF Inv, Types
    <2>3. shown' \subseteq 1..Len(asked)
      BY <1>2, <1>9 DEF Inv, Types
    <2> QED BY <1>1, <2>1, <2>2, <2>3 DEF Inv, Types
  <1>11. RequestsFit' /\ RequestsInOrder'
    BY <1>1 DEF Inv, RequestsFit, IsOf, RequestsInOrder
  <1>12. AnswersFit'
    BY <1>1, <1>6 DEF Inv, AnswersFit, IsOf
  <1>13. AnswersInOrder'
    BY <1>6, <1>8 DEF Inv, AnswersInOrder
  <1>14. AnswersFirst'
    BY <1>1, <1>6 DEF Inv, AnswersFirst
  <1>15. ShownIsPast'
    <2> SUFFICES ASSUME NEW m \in shown', NEW g \in Hosts, asked[m].host = g
                 PROVE  /\ \A i \in DOMAIN toClient'[g] : m < toClient'[g][i].request
                        /\ \A j \in DOMAIN toServer[g] : m < toServer[g][j]
      BY <1>1 DEF ShownIsPast
    <2>1. CASE m \in shown
      <3>1. /\ \A i \in DOMAIN toClient[g] : m < toClient[g][i].request
            /\ \A j \in DOMAIN toServer[g] : m < toServer[g][j]
        BY <2>1 DEF Inv, ShownIsPast
      <3> QED BY <1>6, <3>1
    <2>2. CASE m = n
      BY <1>7, <1>9, <2>2
    <2> QED BY <1>2, <2>1, <2>2
  <1>16. OneIsShown'
    BY <1>2 DEF Inv, OneIsShown
  <1>17. EntriesAreLive'
    <2>1. CASE cache' = [cache EXCEPT ![asked[n].path] = n] /\ shown' = {n}
      <3>1. cache'[asked[n].path] = n
        BY <1>9, <2>1 DEF Inv, Types
      <3> QED BY <1>9, <2>1, <3>1 DEF EntriesAreLive
    <2>2. CASE cache' = cache /\ shown' = shown
      BY <2>2 DEF Inv, EntriesAreLive
    <2> QED BY <1>2, <2>1, <2>2
  <1>18. ListedIsOfActive'
    BY <1>1, <1>2, <1>7 DEF Inv, ListedIsOfActive, IsOf
  <1>19. NotBefore
    <2> SUFFICES ASSUME NEW m \in shown, NEW k \in shown', asked[m].host = asked[k].host
                 PROVE  m <= k
      BY DEF NotBefore
    <2>1. m \in Nat
      BY DEF Inv, Types
    <2>2. CASE shown' = shown
      BY <2>1, <2>2 DEF Inv, OneIsShown
    <2>3. CASE k = n
      BY <1>5, <1>7, <1>9, <2>1, <2>3 DEF Requests
    <2> QED BY <1>2, <2>2, <2>3
  <1> QED BY <1>10, <1>11, <1>12, <1>13, <1>14, <1>15, <1>16, <1>17, <1>18, <1>19 DEF Inv

(* Every other step shows what was shown before, or nothing.               *)
LEMMA SameShownIsNotBefore ==
  ASSUME Inv, shown' \in {shown, {}} PROVE NotBefore
PROOF
  <1> SUFFICES ASSUME NEW m \in shown, NEW k \in shown' PROVE m <= k
    BY DEF NotBefore
  <1>1. m \in Nat /\ m = k
    BY DEF Inv, Types, OneIsShown
  <1> QED BY <1>1

LEMMA StepKeepsInv == ASSUME Inv, [Next]_vars PROVE Inv' /\ NotBefore
PROOF
  <1>1. CASE ConnectToServer
    <2>1. UNCHANGED <<asked, toServer, toClient, client>>
      BY <1>1 DEF ConnectToServer
    <2> QED BY <2>1, SameQueuesKeepInv, SameShownIsNotBefore DEF client
  <1>2. CASE DisconnectFromServer
    <2>1. UNCHANGED <<asked, toServer, toClient, client>>
      BY <1>2 DEF DisconnectFromServer
    <2> QED BY <2>1, SameQueuesKeepInv, SameShownIsNotBefore DEF client
  <1>3. ASSUME NEW p \in Paths, GetNetworkDirectory(p) PROVE Inv' /\ NotBefore
    <2>1. shown' = shown
      BY <1>3 DEF GetNetworkDirectory, client
    <2> QED BY <1>3, <2>1, AskingKeepsInv, SameShownIsNotBefore
  <1>4. ASSUME NEW h \in Hosts, SetActiveConnection(h) PROVE Inv' /\ NotBefore
    <2>1. shown' = {}
      BY <1>4 DEF SetActiveConnection
    <2> QED BY <1>4, <2>1, ChoosingKeepsInv, SameShownIsNotBefore
  <1>5. ASSUME NEW h \in Hosts, OnNewConnection(h) \/ ServerStarts(h) \/ ServerStops(h)
        PROVE  Inv' /\ NotBefore
    <2>1. UNCHANGED <<asked, toServer, toClient, client>>
      BY <1>5 DEF OnNewConnection, ServerStarts, ServerStops
    <2> QED BY <2>1, SameQueuesKeepInv, SameShownIsNotBefore DEF client
  <1>6. ASSUME NEW h \in Hosts, OnDisconnected(h) PROVE Inv' /\ NotBefore
    <2>1. shown' = shown
      BY <1>6 DEF OnDisconnected, client
    <2> QED BY <1>6, <2>1, LosingKeepsInv, SameShownIsNotBefore
  <1>7. ASSUME NEW h \in Hosts, ProcessRequest(h) PROVE Inv' /\ NotBefore
    <2>1. shown' = shown
      BY <1>7 DEF ProcessRequest, client
    <2> QED BY <1>7, <2>1, AnsweringKeepsInv, SameShownIsNotBefore
  <1>8. ASSUME NEW h \in Hosts, OnTextMessageReceived(h) PROVE Inv' /\ NotBefore
    BY <1>8, ShowingKeepsInv
  <1>9. CASE UNCHANGED vars
    <2>1. UNCHANGED <<asked, toServer, toClient, client>>
      BY <1>9 DEF vars, client
    <2> QED BY <2>1, SameQueuesKeepInv, SameShownIsNotBefore DEF client
  <1> QED BY <1>1, <1>2, <1>3, <1>4, <1>5, <1>6, <1>7, <1>8, <1>9 DEF Next

LEMMA Invariance == Spec => []Inv
PROOF
  <1>1. Init => Inv
    BY Starts
  <1>2. Inv /\ [Next]_vars => Inv'
    BY StepKeepsInv
  <1> QED BY <1>1, <1>2, PTL DEF Spec

----------------------------------------------------------------------------
(* The results.                                                            *)

(* Whichever answers of whichever hosts arrive in between, the rows of the *)
(* view are FileInfos that updateDirectory has not deleted.                *)
THEOREM EntriesExist == Spec => []EntriesAreLive
PROOF
  <1>1. Inv => EntriesAreLive
    BY DEF Inv
  <1> QED BY <1>1, Invariance, PTL

(* What is listed is of the active host, or came late: the messengers of   *)
(* all hosts write to one DirectoryManager, but a request that is made     *)
(* after setActiveConnection goes to the host chosen.                      *)
THEOREM ListedIsOfTheActiveHost == Spec => []ListedIsOfActive
PROOF
  <1>1. Inv => ListedIsOfActive
    BY DEF Inv
  <1> QED BY <1>1, Invariance, PTL

(* One host's answers are shown in the order of the requests, over any     *)
(* number of reconnects.                                                   *)
THEOREM ListingsStayInOrder == Spec => ListingsInOrder
PROOF
  <1>1. Inv /\ [Next]_vars => [NotBefore]_vars
    BY StepKeepsInv
  <1> QED BY <1>1, Invariance, PTL DEF Spec, ListingsInOrder
=============================================================================
