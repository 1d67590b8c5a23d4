-------------------------- MODULE Messaging_proofs --------------------------
(***************************************************************************)
(* Proofs about the two that carry messages: MessageSocket, for every base,*)
(* header size and set of messages whose size an int can tell, and for any *)
(* number of messages (part 1); and Messenger, for every interval, every   *)
(* timeout below it, every delay of a pong below that, and any number of   *)
(* connections: a silent peer is given up in time, and on the first        *)
(* connection only a silent one (part 2).                                  *)
(***************************************************************************)
EXTENDS MessageSocket, Messenger, Induction_proofs, SequenceTheorems

----------------------------------------------------------------------------
(***************************************************************************)
(* Part 1: MessageSocket.                                                  *)
(***************************************************************************)
----------------------------------------------------------------------------
(* The size field.                                                         *)
LEMMA WeightFacts ==
  /\ Weight \in [0..HeaderSize -> Nat \ {0}] /\ Weight[0] = 1
  /\ \A i \in 1..HeaderSize : Weight[i] = Base * Weight[i - 1]
PROOF
  <1> DEFINE S == Nat \ {0}
             step == [p \in S \X Nat |-> Base * p[1]]
             Fits(f) == f = [i \in 0..HeaderSize |-> IF i = 0 THEN 1 ELSE Base * f[i - 1]]
  <1>1. step \in [S \X Nat -> S] /\ 1 \in S /\ HeaderSize \in Nat
    BY BytesAssumption
  <1>2. PICK f \in [0..HeaderSize -> S] : Recursion(f, HeaderSize, 1, step)
    <2> HIDE DEF S, step
    <2> QED BY <1>1, RecursionDefines
  <1>3. Fits(f)
    <2>1. \A i \in 0..HeaderSize : f[i] = IF i = 0 THEN 1 ELSE Base * f[i - 1]
      <3> SUFFICES ASSUME NEW i \in 0..HeaderSize
                   PROVE  f[i] = IF i = 0 THEN 1 ELSE Base * f[i - 1]
        OBVIOUS
      <3>1. f[i] = IF i = 0 THEN 1 ELSE step[<<f[i - 1], i>>]
        BY <1>2 DEF Recursion
      <3>2. i # 0 => f[i - 1] \in S /\ i \in Nat
        BY <1>1, <1>2
      <3> QED BY <3>1, <3>2
    <2> QED BY <2>1
  <1>4. Weight = CHOOSE g : Fits(g)
    BY DEF Weight
  <1>5. Fits(Weight)
    <2> HIDE DEF Fits
    <2> QED BY <1>3, <1>4
  <1> HIDE DEF S, step
  <1>6. Weight[0] = 1 /\ \A i \in 1..HeaderSize : Weight[i] = Base * Weight[i - 1]
    <2>1. \A i \in 0..HeaderSize : Weight[i] = IF i = 0 THEN 1 ELSE Base * Weight[i - 1]
      BY Zenon, <1>5
    <2> HIDE DEF Fits
    <2> QED BY <1>1, <2>1
  <1>7. \A n \in Nat : n <= HeaderSize => Weight[n] \in S
    <2> USE DEF S
    <2> DEFINE T == {n \in Nat : n <= HeaderSize => Weight[n] \in S}
    <2>1. 0 \in T
      BY <1>6
    <2>2. ASSUME NEW n \in Nat, n \in T PROVE n + 1 \in T
      <3> SUFFICES ASSUME n + 1 <= HeaderSize PROVE Weight[n + 1] \in S
        OBVIOUS
      <3>1. n + 1 \in 1..HeaderSize /\ (n + 1) - 1 = n /\ Weight[n] \in S
        BY <1>1, <2>2
      <3>2. Weight[n + 1] = Base * Weight[n]
        BY <1>6, <3>1
      <3> QED BY <3>1, <3>2, BytesAssumption
    <2> HIDE DEF T
    <2>3. \A n \in Nat : n \in T
      BY <2>1, <2>2, Induction
    <2> QED BY <2>3 DEF T
  <1>8. \A i \in 0..HeaderSize : Weight[i] \in S
    BY <1>1, <1>7
  <1>9. Weight = [i \in 0..HeaderSize |-> Weight[i]]
    <2>1. DOMAIN Weight = 0..HeaderSize
      BY Zenon, <1>5
    <2>2. Weight = [i \in DOMAIN Weight |-> Weight[i]]
      BY Zenon, <1>5
    <2> QED BY <2>1, <2>2
  <1>10. Weight \in [0..HeaderSize -> S]
    <2> HIDE DEF Fits
    <2> QED BY <1>8, <1>9
  <1> QED BY <1>6, <1>10 DEF S

LEMMA Remainder ==
  \A q \in Nat, b \in Nat \ {0} :
    (q \div b) * b + (q % b) = q /\ q % b \in 0..(b - 1) /\ q \div b \in Nat
OBVIOUS

LEMMA Division ==
  ASSUME NEW n \in Nat, NEW w \in Nat \ {0}, NEW b \in Nat \ {0}
  PROVE  /\ n \div w \in Nat /\ (n \div w) % b \in 0..(b - 1)
         /\ (n \div (b * w)) * b + ((n \div w) % b) = n \div w
PROOF
  <1> DEFINE q == n \div w
             r == q \div b
  <1>1. q \in Nat
    OBVIOUS
  <1>3. n \div (b * w) = r
    OBVIOUS
  <1> HIDE DEF q
  <1>2. r \in Nat /\ r * b + (q % b) = q /\ q % b \in 0..(b - 1)
    BY <1>1, Remainder
  <1> HIDE DEF r
  <1> QED BY <1>1, <1>2, <1>3 DEF q

LEMMA HeaderIsBytes ==
  ASSUME NEW n \in Nat
  PROVE  /\ Header(n) \in Seq(Bytes) /\ Len(Header(n)) = HeaderSize
         /\ \A i \in 1..HeaderSize : Header(n)[i] = (n \div Weight[HeaderSize - i]) % Base
PROOF
  <1>1. \A i \in 1..HeaderSize : (n \div Weight[HeaderSize - i]) % Base \in Bytes
    <2> SUFFICES ASSUME NEW i \in 1..HeaderSize
                 PROVE  (n \div Weight[HeaderSize - i]) % Base \in Bytes
      OBVIOUS
    <2>1. Weight[HeaderSize - i] \in Nat \ {0}
      BY WeightFacts, BytesAssumption
    <2>2. n \div Weight[HeaderSize - i] \in Nat /\ Base \in Nat \ {0}
      BY <2>1, BytesAssumption
    <2> QED BY <2>2, Remainder DEF Bytes
  <1>2. HeaderSize \in Nat /\ Header(n) \in [1..HeaderSize -> Bytes]
    BY <1>1, BytesAssumption DEF Header
  <1> QED BY <1>2, IsASeq DEF Header

(* How a size is computed.                                                 *)
SizeBy(value, bytes) ==
  /\ MessageSize(bytes) = value[HeaderSize]
  /\ value[0] = 0
  /\ \A i \in 1..HeaderSize : value[i] = value[i - 1] * Base + bytes[i]

LEMMA SizeIsComputed ==
  ASSUME NEW bytes, \A i \in 1..HeaderSize : bytes[i] \in Nat
  PROVE  \E value : SizeBy(value, bytes)
PROOF
  <1> DEFINE step == [p \in Nat \X Nat |->
                        IF p[2] \in 1..HeaderSize THEN p[1] * Base + bytes[p[2]] ELSE 0]
             Fits(f) == f = [i \in 0..HeaderSize |->
                               IF i = 0 THEN 0 ELSE f[i - 1] * Base + bytes[i]]
             value == CHOOSE f : Fits(f)
  <1>2. step \in [Nat \X Nat -> Nat] /\ HeaderSize \in Nat
    BY BytesAssumption
  <1>3. PICK f \in [0..HeaderSize -> Nat] : Recursion(f, HeaderSize, 0, step)
    <2> HIDE DEF step
    <2> QED BY <1>2, RecursionDefines
  <1>4. Fits(f)
    <2>1. \A i \in 0..HeaderSize : f[i] = IF i = 0 THEN 0 ELSE f[i - 1] * Base + bytes[i]
      <3> SUFFICES ASSUME NEW i \in 0..HeaderSize
                   PROVE  f[i] = IF i = 0 THEN 0 ELSE f[i - 1] * Base + bytes[i]
        OBVIOUS
      <3>1. f[i] = IF i = 0 THEN 0 ELSE step[<<f[i - 1], i>>]
        BY <1>3 DEF Recursion
      <3>2. i # 0 => f[i - 1] \in Nat /\ i \in Nat /\ i \in 1..HeaderSize
        BY <1>2, <1>3
      <3> QED BY <3>1, <3>2
    <2> QED BY <2>1
  <1>5. MessageSize(bytes) = value[HeaderSize]
    BY DEF MessageSize
  <1>6. Fits(value)
    <2> HIDE DEF Fits
    <2> QED BY <1>4
  <1> HIDE DEF value
  <1>7. /\ value[0] = 0
        /\ \A i \in 1..HeaderSize : value[i] = value[i - 1] * Base + bytes[i]
    <2>1. \A i \in 0..HeaderSize : value[i] = IF i = 0 THEN 0 ELSE value[i - 1] * Base + bytes[i]
      BY Zenon, <1>6
    <2> HIDE DEF Fits, step
    <2> QED BY <1>2, <2>1
  <1> QED BY <1>5, <1>7 DEF SizeBy

LEMMA SizeType ==
  ASSUME NEW bytes \in Seq(Bytes), Len(bytes) >= HeaderSize
  PROVE  MessageSize(bytes) \in Nat
PROOF
  <1>1. \A i \in 1..HeaderSize : bytes[i] \in Nat
    <2> SUFFICES ASSUME NEW i \in 1..HeaderSize PROVE bytes[i] \in Nat
      OBVIOUS
    <2>1. i \in 1..Len(bytes)
      BY BytesAssumption
    <2>2. bytes[i] \in Bytes
      BY <2>1, ElementOfSeq
    <2> QED BY <2>2, BytesAssumption DEF Bytes
  <1>2. PICK value : SizeBy(value, bytes)
    BY <1>1, SizeIsComputed
  <1> DEFINE T == {k \in Nat : k <= HeaderSize => value[k] \in Nat}
  <1>3. 0 \in T
    BY <1>2 DEF SizeBy
  <1>4. ASSUME NEW k \in Nat, k \in T PROVE k + 1 \in T
    <2> SUFFICES ASSUME k + 1 <= HeaderSize PROVE value[k + 1] \in Nat
      OBVIOUS
    <2>1. k + 1 \in 1..HeaderSize /\ (k + 1) - 1 = k /\ value[k] \in Nat
      BY <1>4, BytesAssumption
    <2>2. value[k + 1] = value[k] * Base + bytes[k + 1]
      BY <1>2, <2>1 DEF SizeBy
    <2>3. bytes[k + 1] \in Nat /\ Base \in Nat
      BY <1>1, <2>1, BytesAssumption
    <2>4. value[k] * Base \in Nat
      BY <2>1, <2>3
    <2> QED BY <2>2, <2>3, <2>4
  <1> HIDE DEF T
  <1>5. \A k \in Nat : k \in T
    BY <1>3, <1>4, Induction
  <1> QED BY <1>2, <1>5, BytesAssumption DEF SizeBy, T

(* A size is read as it was written.                                       *)
LEMMA SizeIsRead ==
  ASSUME NEW n \in Nat, n < Weight[HeaderSize],
         NEW bytes, \A i \in 1..HeaderSize : bytes[i] = Header(n)[i]
  PROVE  MessageSize(bytes) = n
PROOF
  <1>1. \A i \in 1..HeaderSize : bytes[i] \in Nat
    <2> SUFFICES ASSUME NEW i \in 1..HeaderSize PROVE bytes[i] \in Nat
      OBVIOUS
    <2>1. Header(n) \in Seq(Bytes) /\ i \in 1..Len(Header(n))
      BY HeaderIsBytes
    <2>2. Header(n)[i] \in Bytes
      BY <2>1, ElementOfSeq
    <2> QED BY <2>2, BytesAssumption DEF Bytes
  <1>2. HeaderSize \in Nat
    BY BytesAssumption
  <1>3. PICK value : SizeBy(value, bytes)
    BY <1>1, SizeIsComputed
  <1>5. MessageSize(bytes) = value[HeaderSize]
    BY <1>3 DEF SizeBy
  <1>7. /\ value[0] = 0
        /\ \A i \in 1..HeaderSize : value[i] = value[i - 1] * Base + bytes[i]
    BY <1>3 DEF SizeBy
  <1> DEFINE T == {k \in Nat : k <= HeaderSize => value[k] = n \div Weight[HeaderSize - k]}
  <1>8. 0 \in T
    <2>1. Weight[HeaderSize] \in Nat \ {0} /\ HeaderSize - 0 = HeaderSize
      BY WeightFacts, <1>2
    <2>2. n \div Weight[HeaderSize] = 0
      BY <2>1
    <2> QED BY <1>7, <2>1, <2>2
  <1>9. ASSUME NEW k \in Nat, k \in T PROVE k + 1 \in T
    <2> SUFFICES ASSUME k + 1 <= HeaderSize
                 PROVE  value[k + 1] = n \div Weight[HeaderSize - (k + 1)]
      OBVIOUS
    <2> DEFINE w == Weight[HeaderSize - (k + 1)]
    <2>1. /\ k + 1 \in 1..HeaderSize /\ (k + 1) - 1 = k /\ HeaderSize - k \in 1..HeaderSize
          /\ (HeaderSize - k) - 1 = HeaderSize - (k + 1) /\ HeaderSize - (k + 1) \in 0..HeaderSize
      BY <1>2
    <2>2. w \in Nat \ {0} /\ Weight[HeaderSize - k] = Base * w
      BY <2>1, WeightFacts
    <2>3. value[k + 1] = value[k] * Base + bytes[k + 1]
      BY <1>7, <2>1
    <2>4. value[k] = n \div (Base * w)
      <3>1. value[k] = n \div Weight[HeaderSize - k]
        BY <1>2, <1>9, <2>1
      <3> QED BY <2>2, <3>1
    <2>5. bytes[k + 1] = (n \div w) % Base
      BY <2>1, HeaderIsBytes
    <2>6. (n \div (Base * w)) * Base + ((n \div w) % Base) = n \div w
      <3>1. Base \in Nat \ {0} /\ w \in Nat \ {0}
        BY <2>2, BytesAssumption
      <3> QED BY <3>1, Division
    <2> QED BY <2>3, <2>4, <2>5, <2>6
  <1> HIDE DEF T
  <1>10. \A k \in Nat : k \in T
    BY <1>8, <1>9, Induction
  <1>11. value[HeaderSize] = n \div Weight[HeaderSize - HeaderSize]
    BY <1>2, <1>10 DEF T
  <1>12. HeaderSize - HeaderSize = 0 /\ n \div 1 = n
    BY <1>2
  <1> QED BY <1>5, <1>11, <1>12, WeightFacts

----------------------------------------------------------------------------
(* The bytes written for a sequence of messages: all of them, and at[k]    *)
(* after the first k messages.                                             *)
Encodes(all, at, msgs) ==
  /\ all \in Seq(Bytes) /\ msgs \in Seq(Messages)
  /\ at \in [0..Len(msgs) -> Nat] /\ at[0] = 0 /\ at[Len(msgs)] = Len(all)
  /\ \A i \in 1..Len(msgs) :
       /\ at[i] = at[i - 1] + HeaderSize + Len(msgs[i]) /\ at[i] <= Len(all)
       /\ \A j \in 1..HeaderSize : all[at[i - 1] + j] = Header(Len(msgs[i]))[j]
       /\ \A j \in 1..Len(msgs[i]) : all[at[i - 1] + HeaderSize + j] = msgs[i][j]

(* Part of them, behind the first p.                                       *)
IsPart(part, all, p) ==
  /\ part \in Seq(Bytes) /\ all \in Seq(Bytes) /\ p \in Nat /\ p + Len(part) <= Len(all)
  /\ \A j \in 1..Len(part) : part[j] = all[p + j]

LEMMA Slice ==
  ASSUME NEW S, NEW s \in Seq(S), NEW a \in Nat, NEW b \in Nat, a <= b, b <= Len(s)
  PROVE  /\ SubSeq(s, a + 1, b) \in Seq(S) /\ Len(SubSeq(s, a + 1, b)) = b - a
         /\ \A j \in 1..(b - a) : SubSeq(s, a + 1, b)[j] = s[a + j]
PROOF
  <1>1. Len(s) \in Nat /\ \A i \in (a + 1)..b : s[i] \in S
    BY ElementOfSeq
  <1>2. /\ SubSeq(s, a + 1, b) \in Seq(S)
        /\ Len(SubSeq(s, a + 1, b)) = IF a + 1 <= b THEN b - (a + 1) + 1 ELSE 0
        /\ \A j \in 1..(b - (a + 1) + 1) : SubSeq(s, a + 1, b)[j] = s[(a + 1) + j - 1]
    BY <1>1, SubSeqProperties
  <1>3. b - (a + 1) + 1 = b - a /\ \A j \in 1..(b - a) : (a + 1) + j - 1 = a + j
    OBVIOUS
  <1> QED BY <1>2, <1>3

LEMMA PartOfPart ==
  ASSUME NEW all, NEW p, NEW part, IsPart(part, all, p), NEW n \in 0..Len(part)
  PROVE  /\ IsPart(SubSeq(part, 1, n), all, p) /\ Len(SubSeq(part, 1, n)) = n
         /\ IsPart(SubSeq(part, n + 1, Len(part)), all, p + n)
         /\ Len(SubSeq(part, n + 1, Len(part))) = Len(part) - n
PROOF
  <1> DEFINE a == SubSeq(part, 1, n)
             z == SubSeq(part, n + 1, Len(part))
  <1>1. /\ part \in Seq(Bytes) /\ Len(part) \in Nat /\ n \in Nat /\ p \in Nat
        /\ all \in Seq(Bytes) /\ Len(all) \in Nat
    BY DEF IsPart
  <1>2. a \in Seq(Bytes) /\ Len(a) = n /\ \A j \in 1..n : a[j] = part[j]
    <2>1. 0 + 1 = 1 /\ n - 0 = n /\ \A j \in 1..n : 0 + j = j
      BY <1>1
    <2> QED BY <1>1, <2>1, Slice
  <1>3. /\ z \in Seq(Bytes) /\ Len(z) = Len(part) - n
        /\ \A j \in 1..(Len(part) - n) : z[j] = part[n + j]
    BY <1>1, Slice
  <1> HIDE DEF a, z
  <1>4. IsPart(a, all, p)
    <2>1. p + n <= Len(all) /\ \A j \in 1..n : part[j] = all[p + j]
      <3>1. /\ Len(all) \in Nat /\ p + Len(part) <= Len(all)
            /\ \A j \in 1..Len(part) : part[j] = all[p + j]
        BY DEF IsPart
      <3> QED BY <1>1, <3>1
    <2> QED BY <1>1, <1>2, <2>1 DEF IsPart
  <1>5. IsPart(z, all, p + n)
    <2>1. \A j \in 1..Len(z) : z[j] = all[(p + n) + j]
      <3> SUFFICES ASSUME NEW j \in 1..Len(z) PROVE z[j] = all[(p + n) + j]
        OBVIOUS
      <3>1. z[j] = part[n + j] /\ n + j \in 1..Len(part) /\ p + (n + j) = (p + n) + j
        BY <1>1, <1>3
      <3> QED BY <3>1 DEF IsPart
    <2> QED BY <1>1, <1>3, <2>1 DEF IsPart
  <1> QED BY <1>2, <1>3, <1>4, <1>5 DEF a, z

LEMMA PartsJoin ==
  ASSUME NEW all, NEW p, NEW a, IsPart(a, all, p), NEW z, IsPart(z, all, p + Len(a))
  PROVE  IsPart(a \o z, all, p) /\ Len(a \o z) = Len(a) + Len(z)
PROOF
  <1>1. a \in Seq(Bytes) /\ z \in Seq(Bytes) /\ Len(a) \in Nat /\ Len(z) \in Nat /\ p \in Nat
    BY DEF IsPart
  <1> DEFINE t == a \o z
  <1>2. /\ t \in Seq(Bytes) /\ Len(t) = Len(a) + Len(z)
        /\ \A j \in 1..(Len(a) + Len(z)) : t[j] = IF j <= Len(a) THEN a[j] ELSE z[j - Len(a)]
    BY <1>1
  <1> HIDE DEF t
  <1>3. \A j \in 1..Len(t) : t[j] = all[p + j]
    <2> SUFFICES ASSUME NEW j \in 1..Len(t) PROVE t[j] = all[p + j]
      OBVIOUS
    <2>1. CASE j <= Len(a)
      <3>1. j \in 1..Len(a) /\ j \in 1..(Len(a) + Len(z))
        BY <1>1, <1>2, <2>1
      <3>2. t[j] = a[j]
        BY <1>2, <2>1, <3>1
      <3> QED BY <3>1, <3>2 DEF IsPart
    <2>2. CASE ~(j <= Len(a))
      <3>1. j - Len(a) \in 1..Len(z) /\ t[j] = z[j - Len(a)] /\ (p + Len(a)) + (j - Len(a)) = p + j
        BY <1>1, <1>2, <2>2
      <3> QED BY <3>1 DEF IsPart
    <2> QED BY <2>1, <2>2
  <1>4. (p + Len(a)) + Len(z) <= Len(all)
    BY DEF IsPart
  <1> QED BY <1>1, <1>2, <1>3, <1>4 DEF IsPart, t

LEMMA MessageFacts ==
  ASSUME NEW m \in Messages
  PROVE  m \in Seq(Bytes) /\ Len(m) \in Nat /\ HeaderSize + Len(m) < IntRange
PROOF
  <1>1. m \in Seq(Bytes) /\ HeaderSize + Len(m) < IntRange
    BY MessagesAssumption
  <1> QED BY <1>1

(* The conversions of a size change nothing in that of a message.          *)
LEMMA SizeIsKept ==
  ASSUME NEW n \in Nat, HeaderSize + n < IntRange, NEW bytes, MessageSize(bytes) = n
  PROVE  /\ n < Weight[HeaderSize] /\ SizeAsInt(bytes) = n
         /\ (HeaderSize + n) % Weight[HeaderSize] = HeaderSize + n
PROOF
  <1> DEFINE w == Weight[HeaderSize]
             r == w \div 2
  <1>1. w \in Nat \ {0} /\ HeaderSize \in Nat
    BY WeightFacts, BytesAssumption
  <1>2. IntRange = r /\ SizeAsInt(bytes) = ((n + r) % w) - r
    BY DEF IntRange, SizeAsInt
  <1> HIDE DEF w
  <1>3. r \in Nat /\ r + r <= w
    BY <1>1
  <1>4. \A a \in Nat : a < w => a % w = a
    BY <1>1
  <1> HIDE DEF r
  <1>5. HeaderSize + n < r
    BY <1>2
  <1>6. n + r \in Nat /\ n + r < w /\ HeaderSize + n \in Nat /\ HeaderSize + n < w /\ n < w
    BY <1>1, <1>3, <1>5
  <1>7. (n + r) % w = n + r /\ (HeaderSize + n) % w = HeaderSize + n
    BY <1>4, <1>6
  <1> QED BY <1>2, <1>3, <1>6, <1>7 DEF w

(* What is found at the front of the buffer is the next message sent, if a *)
(* whole one is there, and the rest begins with the one after it.          *)
LEMMA NextIsFound ==
  ASSUME NEW all, NEW at, NEW msgs, Encodes(all, at, msgs),
         NEW k \in 0..Len(msgs), NEW part, IsPart(part, all, at[k]), HasMessage(part)
  PROVE  /\ k + 1 \in 1..Len(msgs) /\ Message(part) = msgs[k + 1]
         /\ IsPart(Rest(part), all, at[k + 1]) /\ Len(Rest(part)) + HeaderSize <= Len(part)
         /\ at[k + 1] + Len(Rest(part)) = at[k] + Len(part)
PROOF
  <1> DEFINE end == HeaderSize + MessageSize(part)
  <1>1. /\ part \in Seq(Bytes) /\ Len(part) \in Nat /\ HeaderSize \in Nat \ {0}
        /\ msgs \in Seq(Messages) /\ Len(msgs) \in Nat /\ k \in Nat
    BY BytesAssumption DEF IsPart, Encodes
  <1>2. Len(part) >= HeaderSize
    BY DEF HasMessage
  <1>3. k + 1 \in 1..Len(msgs)
    <2> SUFFICES ASSUME k = Len(msgs) PROVE FALSE
      BY <1>1
    <2>1. at[k] = Len(all) /\ at[k] \in Nat /\ at[k] + Len(part) <= Len(all)
      BY DEF Encodes, IsPart
    <2> QED BY <1>1, <1>2, <2>1
  <1> DEFINE m == msgs[k + 1]
  <1>4. m \in Seq(Bytes) /\ Len(m) \in Nat /\ HeaderSize + Len(m) < IntRange
    BY <1>1, <1>3, ElementOfSeq, MessageFacts
  <1>5. /\ at[k + 1] = at[k] + HeaderSize + Len(m) /\ at[k] \in Nat
        /\ \A j \in 1..HeaderSize : all[at[k] + j] = Header(Len(m))[j]
        /\ \A j \in 1..Len(m) : all[at[k] + HeaderSize + j] = m[j]
    <2>1. (k + 1) - 1 = k /\ k \in 0..Len(msgs)
      BY <1>1
    <2> QED BY <1>3, <2>1 DEF Encodes
  <1> HIDE DEF m
  <1>6. MessageSize(part) = Len(m)
    <2>1. \A j \in 1..HeaderSize : part[j] = Header(Len(m))[j]
      BY <1>1, <1>2, <1>5 DEF IsPart
    <2>2. Len(m) < Weight[HeaderSize]
      <3>1. /\ Weight[HeaderSize] \in Nat \ {0} /\ HeaderSize \in Nat
            /\ IntRange = Weight[HeaderSize] \div 2
        BY WeightFacts, BytesAssumption DEF IntRange
      <3> QED BY <1>4, <3>1
    <2> QED BY <1>4, <2>1, <2>2, SizeIsRead
  <1>7. end = HeaderSize + Len(m) /\ end \in HeaderSize..Len(part) /\ end \in Nat
    <2>1. SizeAsInt(part) = Len(m)
      BY <1>4, <1>6, SizeIsKept
    <2> QED BY <1>1, <1>4, <1>6, <2>1 DEF HasMessage
  <1>11. /\ Message(part) = SubSeq(part, HeaderSize + 1, end)
         /\ Rest(part) = SubSeq(part, end + 1, Len(part))
    <2>1. end % Weight[HeaderSize] = end
      BY <1>4, <1>6, SizeIsKept
    <2>2. (IF end < Len(part) THEN end ELSE Len(part)) = end
      BY <1>1, <1>7
    <2> QED BY <2>1, <2>2 DEF Message, Rest
  <1> HIDE DEF end
  <1>8. SubSeq(part, HeaderSize + 1, end) = m
    <2> DEFINE s == SubSeq(part, HeaderSize + 1, end)
    <2>1. /\ s \in Seq(Bytes) /\ Len(s) = Len(m)
          /\ \A j \in 1..Len(m) : s[j] = part[HeaderSize + j]
      <3>1. /\ HeaderSize <= end /\ end <= Len(part) /\ end - HeaderSize = Len(m)
        BY <1>1, <1>4, <1>7
      <3>2. end \in Nat /\ HeaderSize \in Nat
        BY <1>1, <1>7
      <3> HIDE DEF s
      <3>3. /\ SubSeq(part, HeaderSize + 1, end) \in Seq(Bytes)
            /\ Len(SubSeq(part, HeaderSize + 1, end)) = end - HeaderSize
            /\ \A j \in 1..(end - HeaderSize) :
                 SubSeq(part, HeaderSize + 1, end)[j] = part[HeaderSize + j]
        BY <1>1, <3>1, <3>2, Slice
      <3> QED BY <3>1, <3>3 DEF s
    <2> HIDE DEF s
    <2>2. \A j \in 1..Len(m) : s[j] = m[j]
      <3> SUFFICES ASSUME NEW j \in 1..Len(m) PROVE s[j] = m[j]
        OBVIOUS
      <3>1. /\ HeaderSize + j \in 1..Len(part) /\ s[j] = part[HeaderSize + j]
            /\ at[k] + (HeaderSize + j) = at[k] + HeaderSize + j
        <4>1. s[j] = part[HeaderSize + j]
          BY <1>4, <2>1
        <4>2. j \in 1..Len(m) /\ HeaderSize + Len(m) <= Len(part)
          BY <1>7
        <4>3. HeaderSize + j \in 1..Len(part)
          BY <1>1, <1>4, <4>2
        <4>4. at[k] \in Nat /\ HeaderSize \in Nat /\ j \in Nat
          BY <1>1, <1>4, <1>5
        <4> QED BY <4>1, <4>3, <4>4
      <3>2. part[HeaderSize + j] = all[at[k] + (HeaderSize + j)]
        BY <3>1 DEF IsPart
      <3> QED BY <1>5, <3>1, <3>2
    <2>3. s = m
      BY <1>4, <2>1, <2>2, SeqEqual
    <2> QED BY <2>3 DEF s
  <1>9. /\ IsPart(SubSeq(part, end + 1, Len(part)), all, at[k] + end)
        /\ Len(SubSeq(part, end + 1, Len(part))) = Len(part) - end
    BY <1>1, <1>7, PartOfPart
  <1>10. /\ at[k] + end = at[k + 1] /\ (Len(part) - end) + HeaderSize <= Len(part)
         /\ at[k + 1] + (Len(part) - end) = at[k] + Len(part)
    BY <1>1, <1>4, <1>5, <1>7
  <1> QED BY <1>3, <1>8, <1>9, <1>10, <1>11 DEF m

(* The loop finds, one after the other, the messages that have arrived     *)
(* whole, and ends when none is left.                                      *)
Found == [messages : Seq(Seq(Bytes)), rest : Seq(Bytes)]

(* The state of the loop after it has found the messages behind the first  *)
(* k0 and up to the first k, in bytes that end at position end.            *)
Follows(found, all, at, msgs, k0, k, end) ==
  /\ k \in k0..Len(msgs)
  /\ found.messages = SubSeq(msgs, k0 + 1, k)
  /\ IsPart(found.rest, all, at[k]) /\ at[k] + Len(found.rest) = end

LEMMA OneTurn ==
  ASSUME NEW all, NEW at, NEW msgs, Encodes(all, at, msgs), NEW k0 \in 0..Len(msgs),
         NEW k, NEW last, NEW found \in Found, Follows(found, all, at, msgs, k0, k, last),
         HasMessage(found.rest)
  PROVE  /\ ExtractOne(found) \in Found
         /\ Follows(ExtractOne(found), all, at, msgs, k0, k + 1, last)
         /\ Len(ExtractOne(found).rest) + HeaderSize <= Len(found.rest)
PROOF
  <1> DEFINE bytes == found.rest
             m == Message(bytes)
             rest == Rest(bytes)
             new == [messages |-> Append(found.messages, m), rest |-> rest]
  <1>1. ExtractOne(found) = new
    BY DEF ExtractOne
  <1>2. /\ msgs \in Seq(Messages) /\ Len(msgs) \in Nat /\ k0 \in Nat /\ k \in 0..Len(msgs)
        /\ k0 <= k /\ found.messages \in Seq(Seq(Bytes))
    <2>1. msgs \in Seq(Messages) /\ k \in k0..Len(msgs)
      BY DEF Encodes, Follows
    <2>2. Len(msgs) \in Nat /\ k0 \in Nat
      BY <2>1
    <2>3. found.messages \in Seq(Seq(Bytes))
      BY DEF Found
    <2> QED BY <2>1, <2>2, <2>3
  <1>3. /\ k + 1 \in 1..Len(msgs) /\ m = msgs[k + 1]
        /\ IsPart(rest, all, at[k + 1]) /\ Len(rest) + HeaderSize <= Len(bytes)
        /\ at[k + 1] + Len(rest) = last
    <2>1. IsPart(bytes, all, at[k]) /\ HasMessage(bytes) /\ at[k] + Len(bytes) = last
      BY DEF Follows
    <2> HIDE DEF bytes
    <2> QED BY <1>2, <2>1, NextIsFound
  <1> HIDE DEF m, rest, bytes
  <1>4. m \in Seq(Bytes) /\ rest \in Seq(Bytes)
    BY <1>2, <1>3, ElementOfSeq, MessageFacts DEF IsPart
  <1>5. new.messages = SubSeq(msgs, k0 + 1, k + 1)
    <2> DEFINE s == SubSeq(msgs, k0 + 1, k)
               t == SubSeq(msgs, k0 + 1, k + 1)
               u == Append(s, m)
    <2>1. s \in Seq(Messages) /\ Len(s) = k - k0 /\ \A j \in 1..(k - k0) : s[j] = msgs[k0 + j]
      BY <1>2, Slice
    <2>2. /\ t \in Seq(Messages) /\ Len(t) = (k + 1) - k0
          /\ \A j \in 1..((k + 1) - k0) : t[j] = msgs[k0 + j]
      BY <1>2, <1>3, Slice
    <2> HIDE DEF s, t
    <2>3. m \in Messages
      BY <1>2, <1>3, ElementOfSeq
    <2>4. /\ u \in Seq(Messages) /\ Len(u) = Len(s) + 1
          /\ \A j \in 1..Len(s) : u[j] = s[j]
          /\ u[Len(s) + 1] = m
      BY <2>1, <2>3, AppendProperties
    <2> HIDE DEF u
    <2>5. k - k0 \in Nat /\ (k + 1) - k0 = (k - k0) + 1 /\ k0 + ((k - k0) + 1) = k + 1
      BY <1>2
    <2>6. \A j \in 1..Len(u) : u[j] = t[j]
      <3> SUFFICES ASSUME NEW j \in 1..Len(u) PROVE u[j] = t[j]
        OBVIOUS
      <3>1. CASE j \in 1..(k - k0)
        BY <2>1, <2>2, <2>4, <2>5, <3>1
      <3>2. CASE j = (k - k0) + 1
        BY <1>3, <2>1, <2>2, <2>4, <2>5, <3>2
      <3> QED BY <2>1, <2>4, <2>5, <3>1, <3>2
    <2>7. Len(u) = Len(t)
      BY <2>1, <2>2, <2>4, <2>5
    <2>8. u = t
      BY <2>2, <2>4, <2>6, <2>7, SeqEqual
    <2>9. new.messages = u
      BY DEF u, s, Follows
    <2> QED BY <2>8, <2>9 DEF t
  <1>6. k + 1 \in k0..Len(msgs)
    BY <1>2, <1>3
  <1>7. new \in Found /\ new.rest = rest
    BY <1>2, <1>4, AppendProperties DEF Found
  <1> HIDE DEF new
  <1> QED BY <1>1, <1>3, <1>5, <1>6, <1>7 DEF Follows, bytes

LEMMA TurnType ==
  ASSUME NEW found \in Found PROVE ExtractOne(found) \in Found
PROOF
  <1> DEFINE bytes == found.rest
             end == HeaderSize + MessageSize(bytes)
             stop == IF end < Len(bytes) THEN end ELSE Len(bytes)
             start == end % Weight[HeaderSize]
             m == Message(bytes)
             rest == Rest(bytes)
  <1> SUFFICES ASSUME HasMessage(bytes)
               PROVE  [messages |-> Append(found.messages, m), rest |-> rest] \in Found
    BY DEF ExtractOne
  <1>1. /\ bytes \in Seq(Bytes) /\ Len(bytes) \in Nat /\ HeaderSize \in Nat
        /\ found.messages \in Seq(Seq(Bytes))
    BY BytesAssumption DEF Found
  <1>2. MessageSize(bytes) \in Nat
    BY <1>1, SizeType DEF HasMessage
  <1>3. end \in Nat /\ stop \in Nat /\ HeaderSize <= stop /\ stop <= Len(bytes)
    BY <1>1, <1>2 DEF HasMessage
  <1>6. start \in Nat
    <2> DEFINE w == Weight[HeaderSize]
    <2>1. w \in Nat \ {0}
      BY <1>1, WeightFacts
    <2> HIDE DEF end, w
    <2>2. end % w \in 0..(w - 1)
      BY <1>3, <2>1, Remainder
    <2>3. end % w \in Nat
      BY <2>1, <2>2
    <2> QED BY <2>3 DEF w
  <1>7. m = SubSeq(bytes, HeaderSize + 1, stop) /\ rest = SubSeq(bytes, start + 1, Len(bytes))
    BY DEF Message, Rest
  <1> HIDE DEF stop, start, end, bytes, m, rest
  <1>8. m \in Seq(Bytes)
    BY <1>1, <1>3, <1>7, Slice
  <1>9. rest \in Seq(Bytes)
    <2>1. CASE start <= Len(bytes)
      BY <1>1, <1>6, <1>7, <2>1, Slice
    <2>2. CASE ~(start <= Len(bytes))
      <3>1. rest = <<>>
        BY <1>1, <1>6, <1>7, <2>2, SubSeqEmpty
      <3> QED BY <3>1
    <2> QED BY <2>1, <2>2
  <1>4. m \in Seq(Bytes) /\ rest \in Seq(Bytes)
    BY <1>8, <1>9
  <1>5. Append(found.messages, m) \in Seq(Seq(Bytes))
    BY <1>1, <1>4, AppendProperties
  <1> QED BY <1>4, <1>5 DEF Found

LEMMA OneMoreTime ==
  \A t \in Nat, h \in Nat : t * h \in Nat /\ (t + 1) * h = t * h + h
OBVIOUS

LEMMA LoopFindsMessages ==
  ASSUME NEW all, NEW at, NEW msgs, Encodes(all, at, msgs), NEW k0 \in 0..Len(msgs),
         NEW bytes, IsPart(bytes, all, at[k0])
  PROVE  /\ TryExtractMessages(bytes) \in Found
         /\ ~HasMessage(TryExtractMessages(bytes).rest)
         /\ \E k : Follows(TryExtractMessages(bytes), all, at, msgs, k0, k, at[k0] + Len(bytes))
PROOF
  <1> DEFINE first == [messages |-> <<>>, rest |-> bytes]
             turns == Len(bytes) \div HeaderSize
             step == [p \in Found \X Nat |-> ExtractOne(p[1])]
             last == at[k0] + Len(bytes)
             Fits(f) == f = [turn \in 0..turns |->
                               IF turn = 0 THEN first ELSE ExtractOne(f[turn - 1])]
             after == CHOOSE f : Fits(f)
  <1>13. /\ bytes \in Seq(Bytes) /\ Len(bytes) \in Nat /\ first \in Found
         /\ HeaderSize \in Nat \ {0}
    BY BytesAssumption DEF IsPart, Found
  <1>14. turns \in Nat /\ Len(bytes) < turns * HeaderSize + HeaderSize
    <2>1. /\ (Len(bytes) \div HeaderSize) * HeaderSize + (Len(bytes) % HeaderSize) = Len(bytes)
          /\ Len(bytes) % HeaderSize \in 0..(HeaderSize - 1) /\ turns \in Nat
      BY <1>13, Remainder
    <2>2. ASSUME NEW a \in Int, NEW r \in 0..(HeaderSize - 1), a + r = Len(bytes)
          PROVE  Len(bytes) < a + HeaderSize
      BY <1>13, <2>2
    <2>3. turns * HeaderSize \in Int
      BY <1>13, <2>1
    <2> QED BY <2>1, <2>2, <2>3
  <1>2. step \in [Found \X Nat -> Found]
    BY TurnType
  <1>3. TryExtractMessages(bytes) = after[turns]
    BY DEF TryExtractMessages
  <1> HIDE DEF turns
  <1>1. /\ bytes \in Seq(Bytes) /\ Len(bytes) \in Nat /\ first \in Found
        /\ turns \in Nat /\ HeaderSize \in Nat \ {0}
    BY <1>13, <1>14
  <1>4. PICK f \in [0..turns -> Found] : Recursion(f, turns, first, step)
    <2> HIDE DEF first, step
    <2> QED BY <1>1, <1>2, RecursionDefines
  <1>5. Fits(f)
    <2>1. \A turn \in 0..turns : f[turn] = IF turn = 0 THEN first ELSE ExtractOne(f[turn - 1])
      <3> SUFFICES ASSUME NEW turn \in 0..turns
                   PROVE  f[turn] = IF turn = 0 THEN first ELSE ExtractOne(f[turn - 1])
        OBVIOUS
      <3>1. f[turn] = IF turn = 0 THEN first ELSE step[<<f[turn - 1], turn>>]
        BY <1>4 DEF Recursion
      <3>2. turn # 0 => f[turn - 1] \in Found /\ turn \in Nat
        <4>1. turn # 0 => turn - 1 \in 0..turns /\ turn \in Nat
          BY <1>1
        <4> HIDE DEF first, step
        <4> QED BY <1>4, <4>1
      <3>3. turn # 0 => step[<<f[turn - 1], turn>>] = ExtractOne(f[turn - 1])
        BY <3>2
      <3> HIDE DEF first, step
      <3> QED BY <3>1, <3>3
    <2> HIDE DEF first
    <2> QED BY <1>4, <2>1
  <1>6. Fits(after)
    <2> HIDE DEF Fits
    <2> QED BY <1>5
  <1> HIDE DEF after
  <1>7. /\ after[0] = first
        /\ \A turn \in 1..turns : after[turn] = ExtractOne(after[turn - 1])
    <2> HIDE DEF first
    <2>1. \A turn \in 0..turns :
            after[turn] = IF turn = 0 THEN first ELSE ExtractOne(after[turn - 1])
      BY Zenon, <1>6
    <2> HIDE DEF Fits
    <2> QED BY <1>1, <2>1
  <1> HIDE DEF Fits, step
  <1> DEFINE Reached(turn) ==
               /\ after[turn] \in Found
               /\ \E k : Follows(after[turn], all, at, msgs, k0, k, last)
               /\ Len(after[turn].rest) + turn * HeaderSize <= Len(bytes) \/ ~HasMessage(after[turn].rest)
             T == {turn \in Nat : turn <= turns => Reached(turn)}
  <1>8. 0 \in T
    <2>1. Follows(first, all, at, msgs, k0, k0, last)
      <3>1. SubSeq(msgs, k0 + 1, k0) = <<>>
        BY SubSeqEmpty
      <3>2. k0 \in k0..Len(msgs)
        BY DEF Encodes
      <3> QED BY <3>1, <3>2 DEF Follows
    <2>2. Len(first.rest) + 0 * HeaderSize <= Len(bytes)
      BY <1>1
    <2> HIDE DEF first
    <2>3. Reached(0)
      BY <1>1, <1>7, <2>1, <2>2
    <2> QED BY <2>3
  <1>9. ASSUME NEW turn \in Nat, turn \in T PROVE turn + 1 \in T
    <2> HIDE DEF Reached
    <2> SUFFICES ASSUME turn + 1 <= turns PROVE Reached(turn + 1)
      OBVIOUS
    <2> USE DEF Reached
    <2> DEFINE found == after[turn]
    <2>1. Reached(turn) /\ turn + 1 \in 1..turns /\ (turn + 1) - 1 = turn
      <3> HIDE DEF Reached
      <3>1. turn <= turns /\ turn + 1 \in 1..turns /\ (turn + 1) - 1 = turn
        BY <1>1
      <3> QED BY <1>9, <3>1
    <2>2. after[turn + 1] = ExtractOne(found)
      BY <1>7, <2>1
    <2>3. PICK k : Follows(found, all, at, msgs, k0, k, last)
      BY <2>1
    <2>4. found \in Found
      BY <2>1
    <2>5. CASE HasMessage(found.rest)
      <3>1. /\ ExtractOne(found) \in Found
            /\ Follows(ExtractOne(found), all, at, msgs, k0, k + 1, last)
            /\ Len(ExtractOne(found).rest) + HeaderSize <= Len(found.rest)
        <4> HIDE DEF found
        <4> QED BY <2>3, <2>4, <2>5, OneTurn
      <3>2. Len(found.rest) + turn * HeaderSize <= Len(bytes)
        BY <2>1, <2>5
      <3>3. Len(found.rest) \in Nat /\ Len(ExtractOne(found).rest) \in Nat
        BY <2>4, <3>1 DEF Found
      <3>4. Len(ExtractOne(found).rest) + (turn + 1) * HeaderSize <= Len(bytes)
        <4> DEFINE a == Len(found.rest)
                   b == Len(ExtractOne(found).rest)
                   c == turn * HeaderSize
        <4>1. a \in Nat /\ b \in Nat /\ b + HeaderSize <= a /\ a + c <= Len(bytes)
          BY <3>1, <3>2, <3>3
        <4> HIDE DEF a, b
        <4>2. c \in Nat /\ (turn + 1) * HeaderSize = c + HeaderSize
          BY <1>1, OneMoreTime
        <4> HIDE DEF c
        <4>3. b + (c + HeaderSize) <= Len(bytes)
          BY <1>1, <4>1, <4>2
        <4> QED BY <4>2, <4>3 DEF b
      <3> QED BY <2>2, <3>1, <3>4
    <2>6. CASE ~HasMessage(found.rest)
      <3>1. after[turn + 1] = after[turn]
        BY <2>2, <2>6 DEF ExtractOne
      <3> QED BY <2>1, <2>6, <3>1
    <2> QED BY <2>5, <2>6
  <1> HIDE DEF T
  <1>10. \A turn \in Nat : turn \in T
    BY <1>8, <1>9, Induction
  <1>11. Reached(turns)
    <2> HIDE DEF Reached
    <2>1. turns \in T /\ turns <= turns
      BY <1>1, <1>10
    <2> QED BY <2>1 DEF T
  <1>12. ~HasMessage(after[turns].rest)
    <2> DEFINE left == Len(after[turns].rest)
               c == turns * HeaderSize
    <2> SUFFICES ASSUME left + c <= Len(bytes) PROVE ~HasMessage(after[turns].rest)
      BY <1>11
    <2>1. left \in Nat /\ c \in Nat
      BY <1>1, <1>11 DEF Found
    <2>2. ~(left >= HeaderSize)
      <3> HIDE DEF left, c
      <3>1. Len(bytes) < c + HeaderSize
        BY <1>14 DEF c
      <3> QED BY <1>1, <2>1, <3>1
    <2> QED BY <2>2 DEF HasMessage
  <1> QED BY <1>3, <1>11, <1>12

----------------------------------------------------------------------------
(* The inductive invariant: what is in the buffer and on the wire is, in   *)
(* order, what was written behind the messages delivered; all of it, while *)
(* the link is up.  A message that has arrived whole is not in the buffer. *)
InOrder(all, at) ==
  /\ Encodes(all, at, sent)
  /\ Len(delivered) \in 0..Len(sent) /\ delivered = SubSeq(sent, 1, Len(delivered))
  /\ IsPart(buffer, all, at[Len(delivered)])
  /\ IsPart(wire, all, at[Len(delivered)] + Len(buffer))
  /\ open => at[Len(delivered)] + Len(buffer) + Len(wire) = Len(all)
InOrderSomehow == \E all, at : InOrder(all, at)
SocketInv == open \in BOOLEAN /\ InOrderSomehow /\ NoMessageWaits

LEMMA Prefix ==
  ASSUME NEW S, NEW s \in Seq(S), NEW k \in 0..Len(s)
  PROVE  /\ SubSeq(s, 1, k) \in Seq(S) /\ Len(SubSeq(s, 1, k)) = k
         /\ \A j \in 1..k : SubSeq(s, 1, k)[j] = s[j]
PROOF
  <1>1. k \in Nat /\ k <= Len(s) /\ 0 + 1 = 1 /\ k - 0 = k /\ \A j \in 1..k : 0 + j = j
    OBVIOUS
  <1> QED BY <1>1, Slice

LEMMA InvImpliesTypeOK == SocketInv => TypeOK
PROOF
  <1> SUFFICES ASSUME SocketInv PROVE TypeOK
    OBVIOUS
  <1>1. PICK all, at : InOrder(all, at)
    BY DEF SocketInv, InOrderSomehow
  <1>2. sent \in Seq(Messages) /\ buffer \in Seq(Bytes) /\ wire \in Seq(Bytes)
    BY <1>1 DEF InOrder, Encodes, IsPart
  <1>3. delivered \in Seq(Messages)
    <2>1. SubSeq(sent, 1, Len(delivered)) \in Seq(Messages)
      BY <1>1, <1>2, Prefix DEF InOrder
    <2> QED BY <1>1, <2>1 DEF InOrder
  <1> QED BY <1>2, <1>3 DEF SocketInv, TypeOK

(* A message is written behind the others.                                 *)
WithMessage(all, m) == all \o (Header(Len(m)) \o m)
WithEnd(at, n, end) == [k \in 0..(n + 1) |-> IF k = n + 1 THEN end ELSE at[k]]

LEMMA OneMoreArrives ==
  ASSUME NEW all, NEW at, NEW msgs, Encodes(all, at, msgs), NEW m \in Messages
  PROVE  /\ Encodes(WithMessage(all, m), WithEnd(at, Len(msgs), Len(WithMessage(all, m))), Append(msgs, m))
         /\ \A k \in 0..Len(msgs) : WithEnd(at, Len(msgs), Len(WithMessage(all, m)))[k] = at[k]
PROOF
  <1> DEFINE h == Header(Len(m))
             new == h \o m
             all2 == WithMessage(all, m)
             n == Len(msgs)
             at2 == WithEnd(at, n, Len(all2))
             msgs2 == Append(msgs, m)
  <1>1. /\ msgs \in Seq(Messages) /\ n \in Nat /\ all \in Seq(Bytes) /\ Len(all) \in Nat
        /\ at \in [0..n -> Nat] /\ at[0] = 0 /\ at[n] = Len(all) /\ HeaderSize \in Nat
    BY BytesAssumption DEF Encodes
  <1>2. /\ h \in Seq(Bytes) /\ Len(h) = HeaderSize
        /\ m \in Seq(Bytes) /\ Len(m) \in Nat
    BY HeaderIsBytes, MessageFacts
  <1>3. /\ msgs2 \in Seq(Messages) /\ Len(msgs2) = n + 1 /\ msgs2[n + 1] = m
        /\ \A i \in 1..n : msgs2[i] = msgs[i]
    BY <1>1, AppendProperties
  <1> HIDE DEF h, msgs2
  <1>4. /\ new \in Seq(Bytes) /\ Len(new) = HeaderSize + Len(m)
        /\ \A j \in 1..(HeaderSize + Len(m)) : new[j] = IF j <= HeaderSize THEN h[j] ELSE m[j - HeaderSize]
    BY <1>2, ConcatProperties
  <1> HIDE DEF new
  <1>5. /\ all2 \in Seq(Bytes) /\ Len(all2) = Len(all) + HeaderSize + Len(m)
        /\ \A j \in 1..(Len(all) + Len(new)) : all2[j] = IF j <= Len(all) THEN all[j] ELSE new[j - Len(all)]
    <2>1. /\ all2 \in Seq(Bytes) /\ Len(all2) = Len(all) + Len(new)
          /\ \A j \in 1..(Len(all) + Len(new)) : all2[j] = IF j <= Len(all) THEN all[j] ELSE new[j - Len(all)]
      <3>1. all2 = all \o new
        BY DEF new, h, WithMessage
      <3> HIDE DEF all2
      <3> QED BY <1>1, <1>4, <3>1, ConcatProperties
    <2> HIDE DEF all2
    <2> QED BY <1>1, <1>2, <1>4, <2>1
  <1> HIDE DEF all2
  <1>6. /\ at2 \in [0..(n + 1) -> Nat] /\ at2[n + 1] = Len(all2)
        /\ \A k \in 0..n : at2[k] = at[k]
    BY <1>1, <1>5 DEF WithEnd
  <1> HIDE DEF n, at2
  <1>7. ASSUME NEW i \in 1..(n + 1)
        PROVE  /\ at2[i] = at2[i - 1] + HeaderSize + Len(msgs2[i]) /\ at2[i] <= Len(all2)
               /\ \A j \in 1..HeaderSize : all2[at2[i - 1] + j] = Header(Len(msgs2[i]))[j]
               /\ \A j \in 1..Len(msgs2[i]) : all2[at2[i - 1] + HeaderSize + j] = msgs2[i][j]
    <2>1. CASE i \in 1..n
      <3>1. /\ at2[i] = at[i] /\ at2[i - 1] = at[i - 1] /\ msgs2[i] = msgs[i]
            /\ at[i - 1] \in Nat /\ at[i] \in Nat
        BY <1>1, <1>3, <1>6, <2>1
      <3>2. msgs[i] \in Seq(Bytes) /\ Len(msgs[i]) \in Nat
        BY <1>1, <2>1, ElementOfSeq, MessageFacts DEF n
      <3>3. /\ at[i] = at[i - 1] + HeaderSize + Len(msgs[i]) /\ at[i] <= Len(all)
            /\ \A j \in 1..HeaderSize : all[at[i - 1] + j] = Header(Len(msgs[i]))[j]
            /\ \A j \in 1..Len(msgs[i]) : all[at[i - 1] + HeaderSize + j] = msgs[i][j]
        BY <2>1 DEF Encodes, n
      <3>4. \A j \in 1..Len(all) : all2[j] = all[j]
        <4>1. Len(new) \in Nat
          BY <1>4
        <4>2. \A j \in 1..Len(all) : j \in 1..(Len(all) + Len(new)) /\ j <= Len(all)
          BY <1>1, <4>1
        <4> QED BY <1>5, <4>2
      <3>5. /\ \A j \in 1..HeaderSize : at[i - 1] + j \in 1..Len(all)
            /\ \A j \in 1..Len(msgs[i]) : at[i - 1] + HeaderSize + j \in 1..Len(all)
            /\ at[i] <= Len(all2)
        <4> DEFINE a == at[i - 1]
                   b == Len(msgs[i])
                   c == Len(all)
        <4>1. /\ a \in Nat /\ b \in Nat /\ c \in Nat /\ HeaderSize \in Nat
              /\ at[i] = a + HeaderSize + b /\ at[i] <= c
          BY <1>1, <3>1, <3>2, <3>3
        <4>2. at[i] <= Len(all2)
          BY <1>1, <1>2, <1>5, <3>1, <3>3
        <4> HIDE DEF a, b, c
        <4>3. /\ \A j \in 1..HeaderSize : a + j \in 1..c
              /\ \A j \in 1..b : a + HeaderSize + j \in 1..c
          BY <4>1
        <4> QED BY <4>2, <4>3 DEF a, b, c
      <3> QED BY <3>1, <3>3, <3>4, <3>5
    <2>2. CASE i = n + 1
      <3>1. at2[i - 1] = Len(all) /\ msgs2[i] = m /\ at2[i] = Len(all2)
        BY <1>1, <1>3, <1>6, <2>2
      <3>2. ASSUME NEW j \in 1..HeaderSize PROVE all2[Len(all) + j] = h[j]
        <4>1. /\ Len(all) + j \in 1..(Len(all) + Len(new)) /\ ~(Len(all) + j <= Len(all))
              /\ (Len(all) + j) - Len(all) = j /\ j \in 1..(HeaderSize + Len(m)) /\ j <= HeaderSize
          BY <1>1, <1>2, <1>4
        <4> QED BY <1>4, <1>5, <4>1
      <3>3. ASSUME NEW j \in 1..Len(m) PROVE all2[Len(all) + HeaderSize + j] = m[j]
        <4> DEFINE l == Len(all) + HeaderSize + j
        <4>1. /\ l \in 1..(Len(all) + Len(new)) /\ ~(l <= Len(all))
              /\ l - Len(all) = HeaderSize + j /\ HeaderSize + j \in 1..(HeaderSize + Len(m))
              /\ ~(HeaderSize + j <= HeaderSize) /\ (HeaderSize + j) - HeaderSize = j
          BY <1>1, <1>2, <1>4
        <4> HIDE DEF l
        <4>2. all2[l] = new[HeaderSize + j]
          BY <1>5, <4>1
        <4>3. new[HeaderSize + j] = m[j]
          BY <1>4, <4>1
        <4> QED BY <4>2, <4>3 DEF l
      <3> QED BY <1>5, <3>1, <3>2, <3>3 DEF h
    <2> QED BY <1>1, <2>1, <2>2
  <1>8. Encodes(all2, at2, msgs2)
    BY <1>1, <1>3, <1>5, <1>6, <1>7 DEF Encodes
  <1> QED BY <1>6, <1>8 DEF msgs2, n, all2, at2

LEMMA PartOfLonger ==
  ASSUME NEW all, NEW p, NEW part, IsPart(part, all, p), NEW more \in Seq(Bytes)
  PROVE  IsPart(part, all \o more, p)
PROOF
  <1> DEFINE longer == all \o more
  <1>1. /\ part \in Seq(Bytes) /\ all \in Seq(Bytes) /\ p \in Nat /\ Len(part) \in Nat
        /\ Len(all) \in Nat /\ Len(more) \in Nat /\ p + Len(part) <= Len(all)
        /\ \A j \in 1..Len(part) : part[j] = all[p + j]
    BY DEF IsPart
  <1>2. /\ longer \in Seq(Bytes) /\ Len(longer) = Len(all) + Len(more)
        /\ \A j \in 1..Len(all) : longer[j] = all[j]
    <2>1. /\ longer \in Seq(Bytes) /\ Len(longer) = Len(all) + Len(more)
          /\ \A j \in 1..(Len(all) + Len(more)) :
               longer[j] = IF j <= Len(all) THEN all[j] ELSE more[j - Len(all)]
      BY <1>1, ConcatProperties
    <2>2. \A j \in 1..Len(all) : j \in 1..(Len(all) + Len(more)) /\ j <= Len(all)
      BY <1>1
    <2> QED BY <2>1, <2>2
  <1> HIDE DEF longer
  <1>3. /\ p + Len(part) <= Len(longer)
        /\ \A j \in 1..Len(part) : p + j \in 1..Len(all)
    BY <1>1, <1>2
  <1> QED BY <1>1, <1>2, <1>3 DEF IsPart, longer

LEMMA IsTheEnd ==
  ASSUME NEW all \in Seq(Bytes), NEW more \in Seq(Bytes)
  PROVE  IsPart(more, all \o more, Len(all)) /\ Len(all \o more) = Len(all) + Len(more)
PROOF
  <1> DEFINE longer == all \o more
  <1>1. Len(all) \in Nat /\ Len(more) \in Nat
    OBVIOUS
  <1>2. /\ longer \in Seq(Bytes) /\ Len(longer) = Len(all) + Len(more)
        /\ \A j \in 1..(Len(all) + Len(more)) :
             longer[j] = IF j <= Len(all) THEN all[j] ELSE more[j - Len(all)]
    BY ConcatProperties
  <1> HIDE DEF longer
  <1>3. \A j \in 1..Len(more) : /\ Len(all) + j \in 1..(Len(all) + Len(more))
                                /\ ~(Len(all) + j <= Len(all)) /\ (Len(all) + j) - Len(all) = j
    BY <1>1
  <1>4. \A j \in 1..Len(more) : longer[Len(all) + j] = more[j]
    BY <1>2, <1>3
  <1> QED BY <1>1, <1>2, <1>4 DEF IsPart, longer

LEMMA SocketStarts == SocketInit => SocketInv
PROOF
  <1> SUFFICES ASSUME SocketInit PROVE SocketInv
    OBVIOUS
  <1> DEFINE at == [k \in 0..0 |-> 0]
  <1>1. Encodes(<<>>, at, <<>>)
    BY DEF Encodes
  <1>2. IsPart(<<>>, <<>>, 0)
    BY DEF IsPart
  <1>3. <<>> = SubSeq(<<>>, 1, 0) /\ at[0] = 0 /\ Len(<<>>) = 0
    OBVIOUS
  <1> HIDE DEF at
  <1>4. InOrder(<<>>, at)
    BY <1>1, <1>2, <1>3 DEF SocketInit, InOrder
  <1>5. NoMessageWaits
    BY BytesAssumption DEF SocketInit, NoMessageWaits, HasMessage
  <1> QED BY <1>4, <1>5 DEF SocketInit, SocketInv, InOrderSomehow

LEMMA SendKeepsInv == ASSUME SocketInv, NEW m \in Messages, SendMessage(m) PROVE SocketInv'
PROOF
  <1> DEFINE h == Header(Len(m))
             new == h \o m
             n == Len(delivered)
  <1>1. PICK all, at : InOrder(all, at)
    BY DEF SocketInv, InOrderSomehow
  <1>2. /\ open /\ open' = open /\ sent' = Append(sent, m) /\ wire' = wire \o h \o m
        /\ buffer' = buffer /\ delivered' = delivered
    BY DEF SendMessage
  <1>3. /\ Encodes(all, at, sent) /\ n \in 0..Len(sent) /\ delivered = SubSeq(sent, 1, n)
        /\ IsPart(buffer, all, at[n]) /\ IsPart(wire, all, at[n] + Len(buffer))
        /\ at[n] + Len(buffer) + Len(wire) = Len(all)
    BY <1>1, <1>2 DEF InOrder
  <1>4. PICK all2, at2 : /\ Encodes(all2, at2, Append(sent, m)) /\ all2 = all \o new
                         /\ \A k \in 0..Len(sent) : at2[k] = at[k]
    <2> DEFINE longer == WithMessage(all, m)
               ends == WithEnd(at, Len(sent), Len(longer))
    <2>1. Encodes(all, at, sent) /\ m \in Messages
      BY <1>3
    <2>2. longer = all \o new
      BY DEF WithMessage
    <2>3. /\ Encodes(longer, ends, Append(sent, m))
          /\ \A k \in 0..Len(sent) : ends[k] = at[k]
      <3> HIDE DEF h, new, n
      <3> QED BY <2>1, OneMoreArrives
    <2> HIDE DEF longer, ends
    <2> QED BY <2>2, <2>3
  <1>5. /\ h \in Seq(Bytes) /\ m \in Seq(Bytes) /\ wire \in Seq(Bytes) /\ all \in Seq(Bytes)
        /\ buffer \in Seq(Bytes) /\ Len(wire) \in Nat /\ Len(buffer) \in Nat /\ at[n] \in Nat
        /\ sent \in Seq(Messages) /\ Len(all) \in Nat /\ Len(sent) \in Nat
    BY <1>3, HeaderIsBytes, MessageFacts DEF IsPart, Encodes
  <1> HIDE DEF h
  <1>6. new \in Seq(Bytes) /\ wire' = wire \o new /\ Len(new) \in Nat
    <2>1. new \in Seq(Bytes) /\ Len(new) \in Nat
      BY <1>5
    <2>2. (wire \o h) \o m = wire \o (h \o m)
      <3>1. wire \in Seq(Bytes) /\ h \in Seq(Bytes) /\ m \in Seq(Bytes)
        BY <1>5
      <3> HIDE DEF h
      <3> QED BY <3>1, ConcatAssociative
    <2> QED BY <1>2, <2>1, <2>2
  <1> HIDE DEF new
  <1>7. /\ IsPart(buffer, all2, at[n]) /\ IsPart(wire, all2, at[n] + Len(buffer))
        /\ IsPart(new, all2, Len(all)) /\ Len(all2) = Len(all) + Len(new)
    BY <1>3, <1>4, <1>5, <1>6, PartOfLonger, IsTheEnd
  <1>8. /\ IsPart(wire', all2, at[n] + Len(buffer))
        /\ at[n] + Len(buffer) + Len(wire') = Len(all2)
    <2>1. IsPart(new, all2, (at[n] + Len(buffer)) + Len(wire))
      BY <1>3, <1>7
    <2>2. /\ IsPart(wire \o new, all2, at[n] + Len(buffer))
          /\ Len(wire \o new) = Len(wire) + Len(new)
      BY <1>7, <2>1, PartsJoin
    <2>3. Len(wire') = Len(wire) + Len(new)
      BY <1>6, <2>2
    <2>4. at[n] + Len(buffer) + (Len(wire) + Len(new)) = Len(all) + Len(new)
      <3> DEFINE a == at[n]
                 b == Len(buffer)
                 c == Len(wire)
                 d == Len(new)
      <3>1. a \in Nat /\ b \in Nat /\ c \in Nat /\ d \in Nat /\ a + b + c = Len(all)
        BY <1>3, <1>5, <1>6
      <3> HIDE DEF a, b, c, d
      <3>2. a + b + (c + d) = (a + b + c) + d
        BY <3>1
      <3> QED BY <3>1, <3>2 DEF a, b, c, d
    <2> QED BY <1>6, <1>7, <2>2, <2>3, <2>4
  <1>9. n \in 0..Len(sent') /\ delivered = SubSeq(sent', 1, n) /\ at2[n] = at[n]
    <2>1. /\ sent' \in Seq(Messages) /\ Len(sent') = Len(sent) + 1
          /\ \A i \in 1..Len(sent) : sent'[i] = sent[i]
      BY <1>2, <1>5, AppendProperties
    <2>2. n \in 0..Len(sent') /\ n \in Nat
      BY <1>3, <1>5, <2>1
    <2> DEFINE a == SubSeq(sent, 1, n)
               b == SubSeq(sent', 1, n)
    <2>3. /\ a \in Seq(Messages) /\ Len(a) = n /\ \A j \in 1..n : a[j] = sent[j]
          /\ b \in Seq(Messages) /\ Len(b) = n /\ \A j \in 1..n : b[j] = sent'[j]
      BY <1>3, <1>5, <2>1, <2>2, Prefix
    <2>4. \A j \in 1..n : j \in 1..Len(sent)
      BY <1>3, <1>5
    <2> HIDE DEF a, b
    <2>5. a = b
      BY <2>1, <2>3, <2>4, SeqEqual
    <2> QED BY <1>3, <1>4, <2>2, <2>5 DEF a, b
  <1>10. InOrder(all2, at2)'
    BY <1>2, <1>3, <1>4, <1>7, <1>8, <1>9 DEF InOrder
  <1> QED BY <1>2, <1>10 DEF SocketInv, InOrderSomehow, NoMessageWaits

LEMMA ReadKeepsInv ==
  ASSUME SocketInv, OnReadyRead
  PROVE  /\ SocketInv'
         /\ delivered' # delivered => Channel!Deliver
PROOF
  <1> DEFINE n == Len(delivered)
  <1>1. PICK all, at : InOrder(all, at)
    BY DEF SocketInv, InOrderSomehow
  <1>2. PICK i \in 1..Len(wire) :
          LET found == TryExtractMessages(buffer \o SubSeq(wire, 1, i))
          IN /\ wire' = SubSeq(wire, i + 1, Len(wire))
             /\ buffer' = found.rest
             /\ delivered' = delivered \o found.messages
    BY DEF OnReadyRead
  <1> DEFINE came == SubSeq(wire, 1, i)
             bytes == buffer \o came
             found == TryExtractMessages(bytes)
  <1>3. /\ wire' = SubSeq(wire, i + 1, Len(wire)) /\ buffer' = found.rest
        /\ delivered' = delivered \o found.messages /\ open' = open /\ sent' = sent
    BY <1>2 DEF OnReadyRead
  <1>4. /\ Encodes(all, at, sent) /\ n \in 0..Len(sent) /\ delivered = SubSeq(sent, 1, n)
        /\ IsPart(buffer, all, at[n]) /\ IsPart(wire, all, at[n] + Len(buffer))
        /\ open => at[n] + Len(buffer) + Len(wire) = Len(all)
    BY <1>1 DEF InOrder
  <1>5. /\ wire \in Seq(Bytes) /\ Len(wire) \in Nat /\ Len(buffer) \in Nat /\ at[n] \in Nat
        /\ sent \in Seq(Messages) /\ Len(sent) \in Nat /\ i \in Nat /\ Len(all) \in Nat
        /\ i \in 0..Len(wire) /\ n \in Nat
    BY <1>4 DEF IsPart, Encodes
  <1>6. /\ IsPart(came, all, at[n] + Len(buffer)) /\ Len(came) = i
        /\ IsPart(wire', all, (at[n] + Len(buffer)) + i) /\ Len(wire') = Len(wire) - i
    BY <1>3, <1>4, <1>5, PartOfPart
  <1> HIDE DEF came
  <1>7. IsPart(bytes, all, at[n]) /\ Len(bytes) = Len(buffer) + i
    BY <1>4, <1>6, PartsJoin
  <1> HIDE DEF bytes
  <1>8. ~HasMessage(found.rest) /\ \E k : Follows(found, all, at, sent, n, k, at[n] + Len(bytes))
    BY <1>4, <1>7, LoopFindsMessages
  <1>9. PICK k : Follows(found, all, at, sent, n, k, at[n] + Len(bytes))
    BY <1>8
  <1> HIDE DEF found
  <1>10. /\ k \in n..Len(sent) /\ found.messages = SubSeq(sent, n + 1, k)
         /\ IsPart(found.rest, all, at[k]) /\ at[k] + Len(found.rest) = at[n] + Len(bytes)
    BY <1>9 DEF Follows
  <1>11. /\ k \in 0..Len(sent) /\ k \in Nat /\ n <= k /\ k <= Len(sent)
         /\ at[k] \in Nat /\ Len(found.rest) \in Nat
    BY <1>4, <1>5, <1>10 DEF IsPart
  <1>12. delivered' = SubSeq(sent, 1, k) /\ Len(delivered') = k
    <2> DEFINE a == SubSeq(sent, 1, n)
               b == SubSeq(sent, n + 1, k)
               c == SubSeq(sent, 1, k)
               d == a \o b
    <2>1. /\ a \in Seq(Messages) /\ Len(a) = n /\ \A j \in 1..n : a[j] = sent[j]
          /\ c \in Seq(Messages) /\ Len(c) = k /\ \A j \in 1..k : c[j] = sent[j]
      BY <1>4, <1>5, <1>11, Prefix
    <2>2. b \in Seq(Messages) /\ Len(b) = k - n /\ \A j \in 1..(k - n) : b[j] = sent[n + j]
      BY <1>5, <1>11, Slice
    <2>3. delivered' = d
      BY <1>3, <1>4, <1>10
    <2> HIDE DEF a, b, c
    <2>4. /\ d \in Seq(Messages) /\ Len(d) = n + (k - n)
          /\ \A j \in 1..(n + (k - n)) : d[j] = IF j <= n THEN a[j] ELSE b[j - n]
      <3>1. /\ d \in Seq(Messages) /\ Len(d) = Len(a) + Len(b)
            /\ \A j \in 1..(Len(a) + Len(b)) : d[j] = IF j <= Len(a) THEN a[j] ELSE b[j - Len(a)]
        <4> HIDE DEF n
        <4> QED BY <2>1, <2>2, ConcatProperties DEF d
      <3> QED BY <2>1, <2>2, <3>1
    <2> HIDE DEF d
    <2>5. n + (k - n) = k
      BY <1>5, <1>11
    <2>6. ASSUME NEW j \in 1..k PROVE d[j] = c[j]
      <3>1. CASE j <= n
        BY <1>5, <2>1, <2>4, <2>5, <3>1
      <3>2. CASE ~(j <= n)
        <4>1. j - n \in 1..(k - n) /\ n + (j - n) = j
          BY <1>5, <1>11, <3>2
        <4> QED BY <2>1, <2>2, <2>4, <2>5, <3>2, <4>1
      <3> QED BY <3>1, <3>2
    <2>7. d = c
      BY <2>1, <2>4, <2>5, <2>6, SeqEqual
    <2> QED BY <2>1, <2>3, <2>7 DEF c
  <1>13. InOrder(all, at)'
    <2>1. at[k] + Len(found.rest) = (at[n] + Len(buffer)) + i
      BY <1>5, <1>7, <1>10, <1>11
    <2>2. IsPart(wire', all, at[k] + Len(found.rest))
      BY <1>6, <2>1
    <2>3. open => at[k] + Len(found.rest) + Len(wire') = Len(all)
      BY <1>4, <1>5, <1>6, <2>1
    <2> HIDE DEF n
    <2> QED BY <1>3, <1>4, <1>10, <1>11, <1>12, <2>2, <2>3 DEF InOrder
  <1>14. delivered' # delivered => Channel!Deliver
    <2> SUFFICES ASSUME delivered' # delivered PROVE Channel!Deliver
      OBVIOUS
    <2>1. k # n
      BY <1>4, <1>12
    <2>2. k \in (Len(delivered) + 1)..Len(sent)
      BY <1>5, <1>11, <2>1
    <2> QED BY <1>3, <1>12, <2>2 DEF Channel!Deliver
  <1> QED BY <1>3, <1>8, <1>13, <1>14 DEF SocketInv, InOrderSomehow, NoMessageWaits

LEMMA LosingKeepsInv == ASSUME SocketInv, LoseLink PROVE SocketInv'
PROOF
  <1>1. PICK all, at : InOrder(all, at)
    BY DEF SocketInv, InOrderSomehow
  <1>2. PICK i \in 0..Len(wire) : wire' = SubSeq(wire, 1, i)
    BY DEF LoseLink
  <1>3. /\ open' = FALSE /\ buffer' = buffer /\ sent' = sent /\ delivered' = delivered
    BY DEF LoseLink
  <1>4. IsPart(wire', all, at[Len(delivered)] + Len(buffer))
    BY <1>1, <1>2, PartOfPart DEF InOrder
  <1>5. InOrder(all, at)'
    BY <1>1, <1>3, <1>4 DEF InOrder
  <1> QED BY <1>3, <1>5 DEF SocketInv, InOrderSomehow, NoMessageWaits

LEMMA StepKeepsSocketInv == SocketInv /\ [SocketNext]_socketVars => SocketInv'
PROOF
  <1> SUFFICES ASSUME SocketInv, [SocketNext]_socketVars PROVE SocketInv'
    OBVIOUS
  <1>1. CASE \E m \in Messages : SendMessage(m)
    BY <1>1, SendKeepsInv
  <1>2. CASE OnReadyRead
    BY <1>2, ReadKeepsInv
  <1>3. CASE LoseLink
    BY <1>3, LosingKeepsInv
  <1>4. CASE UNCHANGED socketVars
    BY <1>4 DEF socketVars, SocketInv, InOrderSomehow, InOrder, NoMessageWaits
  <1> QED BY <1>1, <1>2, <1>3, <1>4 DEF SocketNext

LEMMA SocketInvariance == SocketSpec => []SocketInv
PROOF
  <1> QED BY SocketStarts, StepKeepsSocketInv, PTL DEF SocketSpec

(* The types of the state hold: whatever the pieces in which bytes arrive, *)
(* nothing is delivered that could not have been sent.                     *)
THEOREM SocketTypeCorrect == SocketSpec => []TypeOK
PROOF
  <1> QED BY SocketInvariance, InvImpliesTypeOK, PTL

(* tryExtractMessages leaves no whole message in the buffer.               *)
THEOREM NothingWaits == SocketSpec => []NoMessageWaits
PROOF
  <1>1. SocketInv => NoMessageWaits
    BY DEF SocketInv
  <1> QED BY <1>1, SocketInvariance, PTL

(* The two sockets take the steps of a channel of whole messages: what     *)
(* MessageSocket writes and reads refines MessageChannel.                  *)
THEOREM SocketsAreAChannel == SocketSpec => ImplementsChannel
PROOF
  <1>1. SocketInit => Channel!ChannelInit
    BY DEF SocketInit, Channel!ChannelInit
  <1>2. SocketInv /\ [SocketNext]_socketVars => [Channel!ChannelNext]_(Channel!channelVars)
    <2> SUFFICES ASSUME SocketInv, [SocketNext]_socketVars
                 PROVE  Channel!ChannelNext \/ UNCHANGED Channel!channelVars
      OBVIOUS
    <2>1. ASSUME NEW m \in Messages, SendMessage(m) PROVE Channel!Send(m)
      BY <2>1 DEF SendMessage, Channel!Send
    <2>2. CASE OnReadyRead
      <3>1. delivered' # delivered => Channel!Deliver
        BY <2>2, ReadKeepsInv
      <3>2. open' = open /\ sent' = sent
        BY <2>2 DEF OnReadyRead
      <3> QED BY <3>1, <3>2 DEF Channel!ChannelNext, Channel!channelVars
    <2>3. CASE LoseLink
      BY <2>3 DEF LoseLink, Channel!Close, Channel!ChannelNext
    <2>4. CASE UNCHANGED socketVars
      BY <2>4 DEF socketVars, Channel!channelVars
    <2> QED BY <2>1, <2>2, <2>3, <2>4 DEF SocketNext, Channel!ChannelNext
  <1> QED BY <1>1, <1>2, SocketInvariance, PTL DEF SocketSpec, ImplementsChannel, Channel!ChannelSafety

----------------------------------------------------------------------------
(***************************************************************************)
(* Part 2: Messenger.                                                      *)
(***************************************************************************)
----------------------------------------------------------------------------
(* The inductive invariant.  The time since the last ping is what is over  *)
(* of the interval; pings that are not answered yet are of that age, and   *)
(* the timer of the last ping, while it runs, has the rest of the timeout. *)
Types ==
  /\ socket \in {"unconnected", "connecting", "connected", "closing"}
  /\ slots \in Nat
  /\ pingTimer \in 0..PingInterval \cup {Off}
  /\ checks \in Seq(0..PongTimeout)
  /\ missed \in 0..DeadAfter
  /\ pings \in Seq(Nat)
  /\ peer \in {"answers", "silent"}
  /\ silence \in Nat
ChecksInOrder == \A i, j \in 1..Len(checks) : i < j => checks[i] <= checks[j]

SincePing == PingInterval - pingTimer
LastCheck == PongTimeout - SincePing
IsPending(check) == \E i \in 1..Len(checks) : checks[i] = check

PingsAreYoung ==
  \A i \in 1..Len(pings) : pings[i] = SincePing /\ pings[i] <= MaxDelay
Answering ==
  /\ silence = 0
  /\ PingsAreYoung
  /\ IsPending(LastCheck) \/ (missed >= 1 /\ pings = <<>>)

(* Of a silent peer, before and after the first ping it does not get: the  *)
(* timer of the ping before has counted once when that one is sent.        *)
BeforePing == silence <= SincePing /\ (IsPending(LastCheck) \/ missed >= 1)
AfterPing == missed >= 1 /\ IsPending(LastCheck) /\ silence + LastCheck <= PingInterval + PongTimeout

HeartbeatInv ==
  socket = "connected" => /\ pingTimer # Off
                          /\ peer = "answers" => Answering
                          /\ peer = "silent" => BeforePing \/ AfterPing

(* On the first connection there is one timer at most, that of the last    *)
(* ping, and no pong is counted as missed before it fires.                 *)
NothingYet == checks = <<>> /\ missed = 0
OneCheck ==
  checks # <<>> => Len(checks) = 1 /\ checks[1] = LastCheck /\ (pings # <<>> \/ missed = 0)
FirstInv ==
  /\ slots = 0 => socket = "unconnected" /\ NothingYet
  /\ slots = 1 /\ socket = "connecting" => NothingYet
  /\ slots = 1 /\ socket = "connected" /\ peer = "answers" => OneCheck

Inv == Types /\ ChecksInOrder /\ HeartbeatInv /\ FirstInv

----------------------------------------------------------------------------
(* Numbers and sequences.                                                  *)
LEMMA ConstantTypes ==
  /\ PingInterval \in Nat /\ PongTimeout \in Nat /\ MaxDelay \in Nat
  /\ MaxDelay < PongTimeout /\ PongTimeout < PingInterval
  /\ Off = -1 /\ DeadAfter = 2
BY PingIntervalAssumption, PongTimeoutAssumption, MaxDelayAssumption DEF Off, DeadAfter

(* The count of missed pongs after one more.                               *)
LEMMA OneMore ==
  ASSUME missed \in 0..DeadAfter
  PROVE  /\ MissedAgain \in 0..DeadAfter /\ MissedAgain >= 1
         /\ missed >= 1 => MissedAgain >= DeadAfter
         /\ missed = 0 => MissedAgain < DeadAfter
BY ConstantTypes DEF MissedAgain

LEMMA ElementFacts ==
  ASSUME NEW S, NEW s \in Seq(S)
  PROVE  /\ Len(s) \in Nat /\ DOMAIN s = 1..Len(s)
         /\ s # <<>> => 1 \in 1..Len(s) /\ Head(s) = s[1]
         /\ \A i \in 1..Len(s) : s[i] \in S
OBVIOUS

LEMMA TailFacts ==
  ASSUME NEW S, NEW s \in Seq(S), s # <<>>
  PROVE  /\ Head(s) \in S /\ Head(s) = s[1] /\ Tail(s) \in Seq(S)
         /\ Len(s) \in Nat /\ Len(s) >= 1 /\ Len(Tail(s)) = Len(s) - 1
         /\ \A i \in 1..Len(s) : s[i] \in S
         /\ \A i \in 1..(Len(s) - 1) : Tail(s)[i] = s[i + 1]
OBVIOUS

LEMMA AppendFacts ==
  ASSUME NEW S, NEW s \in Seq(S), NEW x \in S
  PROVE  /\ Append(s, x) \in Seq(S) /\ Append(s, x) # <<>>
         /\ Len(s) \in Nat /\ Len(Append(s, x)) = Len(s) + 1
         /\ \A i \in 1..Len(s) : Append(s, x)[i] = s[i] /\ s[i] \in S
         /\ Append(s, x)[Len(s) + 1] = x
OBVIOUS

LEMMA RepeatFacts ==
  ASSUME NEW S, NEW x \in S, NEW n \in Nat
  PROVE  /\ Repeat(x, n) \in Seq(S) /\ Len(Repeat(x, n)) = n
         /\ \A i \in 1..n : Repeat(x, n)[i] = x
BY DEF Repeat

LEMMA ConcatFacts ==
  ASSUME NEW S, NEW s \in Seq(S), NEW t \in Seq(S)
  PROVE  /\ s \o t \in Seq(S) /\ Len(s) \in Nat /\ Len(t) \in Nat
         /\ Len(s \o t) = Len(s) + Len(t)
         /\ \A i \in 1..Len(s) : (s \o t)[i] = s[i] /\ s[i] \in S
         /\ \A i \in (Len(s) + 1)..(Len(s) + Len(t)) : (s \o t)[i] = t[i - Len(s)]
OBVIOUS

(* New timers fire last.                                                   *)
LEMMA GrownInOrder ==
  ASSUME ChecksInOrder, Len(checks) \in Nat, PongTimeout \in Nat, NEW n \in Nat,
         Len(checks') = Len(checks) + n,
         \A i \in 1..Len(checks) : checks'[i] = checks[i] /\ checks[i] \in 0..PongTimeout,
         \A i \in (Len(checks) + 1)..(Len(checks) + n) : checks'[i] = PongTimeout
  PROVE  ChecksInOrder'
PROOF
  <1> SUFFICES ASSUME NEW i \in 1..Len(checks'), NEW j \in 1..Len(checks'), i < j
               PROVE  checks'[i] <= checks'[j]
    BY DEF ChecksInOrder
  <1>1. CASE j <= Len(checks)
    <2>1. i \in 1..Len(checks) /\ j \in 1..Len(checks)
      BY <1>1
    <2> QED BY <2>1 DEF ChecksInOrder
  <1>2. CASE j > Len(checks)
    <2>1. checks'[j] = PongTimeout
      BY <1>2
    <2>2. i \in 1..Len(checks) \/ i \in (Len(checks) + 1)..(Len(checks) + n)
      OBVIOUS
    <2>3. checks'[i] \in 0..PongTimeout
      BY <2>2
    <2> QED BY <2>1, <2>3
  <1> QED BY <1>1, <1>2

----------------------------------------------------------------------------
(* The actions.                                                            *)
LEMMA InitInv == Init => Inv
PROOF
  <1> SUFFICES ASSUME Init PROVE Inv
    OBVIOUS
  <1>1. Types
    BY ConstantTypes DEF Init, Types
  <1>2. ChecksInOrder
    BY DEF Init, ChecksInOrder
  <1> QED BY <1>1, <1>2 DEF Inv, Init, HeartbeatInv, FirstInv, NothingYet

LEMMA ConnectToServerKeepsInv == ASSUME Inv, ConnectToServer PROVE Inv'
PROOF
  <1>1. Types' /\ ChecksInOrder' /\ HeartbeatInv'
    BY DEF Inv, ConnectToServer, Types, ChecksInOrder, HeartbeatInv
  <1>2. FirstInv'
    BY DEF Inv, ConnectToServer, Types, FirstInv, NothingYet
  <1> QED BY <1>1, <1>2 DEF Inv

LEMMA OnDisconnectedKeepsInv == ASSUME Inv, OnDisconnected PROVE Inv'
PROOF
  <1>1. Types' /\ ChecksInOrder' /\ HeartbeatInv'
    BY DEF Inv, OnDisconnected, Types, ChecksInOrder, HeartbeatInv
  <1>2. FirstInv'
    BY DEF Inv, OnDisconnected, FirstInv
  <1> QED BY <1>1, <1>2 DEF Inv

LEMMA DisconnectKeepsInv == ASSUME Inv, DisconnectFromServer PROVE Inv'
PROOF
  <1>1. Types' /\ ChecksInOrder' /\ HeartbeatInv'
    BY DEF Inv, DisconnectFromServer, Types, ChecksInOrder, HeartbeatInv
  <1>2. FirstInv'
    BY DEF Inv, DisconnectFromServer, FirstInv
  <1> QED BY <1>1, <1>2 DEF Inv

LEMMA OnConnectedKeepsInv == ASSUME Inv, OnConnected PROVE Inv'
PROOF
  <1> DEFINE more == Repeat(PongTimeout, slots)
  <1>1. /\ checks \in Seq(0..PongTimeout) /\ slots \in Nat
        /\ PongTimeout \in 0..PongTimeout /\ PongTimeout \in Nat
    BY ConstantTypes DEF Inv, Types
  <1>2. slots >= 1
    BY <1>1 DEF Inv, FirstInv, OnConnected
  <1>3. /\ more \in Seq(0..PongTimeout) /\ Len(more) = slots
        /\ \A i \in 1..slots : more[i] = PongTimeout
    BY <1>1, RepeatFacts
  <1>4. /\ checks' = checks \o more /\ pings' = Repeat(0, slots) /\ pingTimer' = PingInterval
        /\ socket' = "connected" /\ peer' = "answers" /\ silence' = 0
        /\ slots' = slots /\ missed' = missed
    BY DEF OnConnected
  <1> HIDE DEF more
  <1>5. /\ checks' \in Seq(0..PongTimeout) /\ Len(checks) \in Nat
        /\ Len(checks') = Len(checks) + slots
        /\ \A i \in 1..Len(checks) : checks'[i] = checks[i] /\ checks[i] \in 0..PongTimeout
        /\ \A i \in (Len(checks) + 1)..(Len(checks) + slots) : checks'[i] = PongTimeout
    <2>1. Len(checks) \in Nat
      BY <1>1
    <2>2. \A i \in (Len(checks) + 1)..(Len(checks) + slots) : i - Len(checks) \in 1..slots
      BY <1>1, <2>1
    <2>3. \A i \in (Len(checks) + 1)..(Len(checks) + slots) : checks'[i] = more[i - Len(checks)]
      BY <1>1, <1>3, <1>4, ConcatFacts
    <2>4. \A i \in (Len(checks) + 1)..(Len(checks) + slots) : checks'[i] = PongTimeout
      BY <1>3, <2>2, <2>3
    <2>5. /\ checks' \in Seq(0..PongTimeout) /\ Len(checks') = Len(checks) + slots
          /\ \A i \in 1..Len(checks) : checks'[i] = checks[i] /\ checks[i] \in 0..PongTimeout
      BY <1>1, <1>3, <1>4, ConcatFacts
    <2> QED BY <2>1, <2>4, <2>5
  <1>6. /\ pings' \in Seq(Nat) /\ Len(pings') = slots
        /\ \A i \in 1..slots : pings'[i] = 0
    BY <1>1, <1>4, RepeatFacts
  <1>7. SincePing' = 0 /\ LastCheck' = PongTimeout
    BY <1>1, <1>4, ConstantTypes DEF SincePing, LastCheck
  <1>8. Types'
    BY <1>4, <1>5, <1>6, ConstantTypes DEF Inv, Types
  <1>9. ChecksInOrder'
    BY <1>1, <1>5, GrownInOrder DEF Inv
  <1>10. HeartbeatInv'
    <2>1. Len(checks') \in 1..Len(checks') /\ Len(checks') \in (Len(checks) + 1)..(Len(checks) + slots)
      BY <1>1, <1>2, <1>5
    <2>2. checks'[Len(checks')] = PongTimeout
      BY <1>5, <2>1
    <2>3. IsPending(LastCheck)'
      BY <1>7, <2>1, <2>2 DEF IsPending
    <2>4. PingsAreYoung'
      BY <1>6, <1>7, ConstantTypes DEF PingsAreYoung
    <2> QED BY <1>4, <2>3, <2>4, ConstantTypes DEF HeartbeatInv, Answering
  <1>11. FirstInv'
    <2>1. ASSUME slots = 1 PROVE OneCheck'
      <3>1. checks = <<>> /\ missed = 0
        BY <2>1 DEF Inv, FirstInv, OnConnected, NothingYet
      <3>2. Len(checks') = 1 /\ checks'[1] = PongTimeout
        BY <1>1, <1>5, <2>1, <3>1
      <3> QED BY <1>4, <1>7, <3>1, <3>2 DEF OneCheck
    <2> QED BY <1>2, <1>4, <2>1 DEF FirstInv
  <1> QED BY <1>8, <1>9, <1>10, <1>11 DEF Inv

LEMMA PeerGoesSilentKeepsInv == ASSUME Inv, PeerGoesSilent PROVE Inv'
PROOF
  <1>1. Types' /\ ChecksInOrder'
    BY DEF Inv, PeerGoesSilent, Types, ChecksInOrder
  <1>2. HeartbeatInv'
    <2>1. Answering /\ pingTimer # Off
      BY DEF Inv, HeartbeatInv, PeerGoesSilent
    <2>2. SincePing \in Nat
      BY <2>1, ConstantTypes DEF Inv, Types, SincePing
    <2>3. silence <= SincePing /\ (IsPending(LastCheck) \/ missed >= 1)
      BY <2>1, <2>2 DEF Answering
    <2>4. BeforePing'
      BY <2>3 DEF BeforePing, PeerGoesSilent, SincePing, IsPending, LastCheck
    <2> QED BY <2>1, <2>4 DEF HeartbeatInv, PeerGoesSilent
  <1>3. FirstInv'
    BY DEF Inv, PeerGoesSilent, FirstInv, NothingYet
  <1> QED BY <1>1, <1>2, <1>3 DEF Inv

LEMMA OnPongKeepsInv == ASSUME Inv, OnPong PROVE Inv'
PROOF
  <1>1. /\ pings \in Seq(Nat) /\ pings # <<>> /\ pings' = Tail(pings) /\ missed' = 0
        /\ socket = "connected" /\ peer = "answers"
        /\ socket' = socket /\ peer' = peer /\ checks' = checks /\ pingTimer' = pingTimer
        /\ slots' = slots /\ silence' = silence
    BY DEF Inv, Types, OnPong
  <1>2. /\ pings' \in Seq(Nat) /\ Len(pings) \in Nat /\ Len(pings') = Len(pings) - 1
        /\ \A i \in 1..Len(pings') : pings'[i] = pings[i + 1] /\ i + 1 \in 1..Len(pings)
    <2>1. \A i \in 1..(Len(pings) - 1) : pings'[i] = pings[i + 1]
      BY <1>1, TailFacts
    <2>2. pings' \in Seq(Nat) /\ Len(pings) \in Nat /\ Len(pings') = Len(pings) - 1
      BY <1>1, TailFacts
    <2> QED BY <2>1, <2>2
  <1>3. Types' /\ ChecksInOrder'
    BY <1>1, <1>2, ConstantTypes DEF Inv, Types, ChecksInOrder
  <1>4. Answering /\ pingTimer # Off
    BY <1>1 DEF Inv, HeartbeatInv
  <1>5. HeartbeatInv'
    <2>1. PingsAreYoung'
      BY <1>1, <1>2, <1>4 DEF Answering, PingsAreYoung, SincePing
    <2>2. IsPending(LastCheck)'
      BY <1>1, <1>4 DEF Answering, IsPending, LastCheck, SincePing
    <2> QED BY <1>1, <1>4, <2>1, <2>2 DEF HeartbeatInv, Answering
  <1>6. FirstInv'
    BY <1>1 DEF Inv, FirstInv, OneCheck, LastCheck, SincePing
  <1> QED BY <1>3, <1>5, <1>6 DEF Inv

----------------------------------------------------------------------------
(* The timers.                                                             *)

(* When a ping is due, the timer of the one before has fired.              *)
LEMMA CheckedBeforePing ==
  ASSUME Inv, pingTimer = 0
  PROVE  ~IsPending(LastCheck)
PROOF
  <1>1. LastCheck \notin 0..PongTimeout
    BY ConstantTypes DEF LastCheck, SincePing
  <1>2. \A i \in 1..Len(checks) : checks[i] \in 0..PongTimeout
    BY ElementFacts DEF Inv, Types
  <1> QED BY <1>1, <1>2 DEF IsPending

LEMMA SendPingKeepsInv == ASSUME Inv, SendPing PROVE Inv'
PROOF
  <1>1. /\ pingTimer = 0 /\ pingTimer' = PingInterval /\ socket' = socket /\ slots' = slots
        /\ missed' = missed /\ peer' = peer /\ silence' = silence
    BY DEF SendPing
  <1>2. CASE socket # "connected"
    <2>1. UNCHANGED <<pings, checks>>
      BY <1>2 DEF SendPing
    <2> QED BY <1>1, <1>2, <2>1, ConstantTypes
            DEF Inv, Types, ChecksInOrder, HeartbeatInv, FirstInv, NothingYet
  <1>3. CASE socket = "connected"
    <2>1. pings' = Append(pings, 0) /\ checks' = Append(checks, PongTimeout)
      BY <1>3 DEF SendPing
    <2>2. /\ checks \in Seq(0..PongTimeout) /\ PongTimeout \in 0..PongTimeout
          /\ pings \in Seq(Nat) /\ missed \in 0..DeadAfter
      BY ConstantTypes DEF Inv, Types
    <2>3. /\ checks' \in Seq(0..PongTimeout) /\ Len(checks) \in Nat
          /\ Len(checks') = Len(checks) + 1
          /\ \A i \in 1..Len(checks) : checks'[i] = checks[i] /\ checks[i] \in 0..PongTimeout
          /\ checks'[Len(checks) + 1] = PongTimeout
      BY <2>1, <2>2, AppendFacts
    <2>4. /\ pings' \in Seq(Nat) /\ pings' # <<>> /\ Len(pings) \in Nat
          /\ Len(pings') = Len(pings) + 1
          /\ pings'[Len(pings) + 1] = 0
      <3>1. 0 \in Nat /\ pings \in Seq(Nat) /\ pings' = Append(pings, 0)
        BY <2>1, <2>2
      <3>2. /\ pings' \in Seq(Nat) /\ Len(pings) \in Nat
            /\ Len(pings') = Len(pings) + 1 /\ pings'[Len(pings) + 1] = 0
        BY <3>1, AppendFacts
      <3> QED BY <3>2
    <2>5. SincePing' = 0 /\ LastCheck' = PongTimeout /\ SincePing = PingInterval
      BY <1>1, ConstantTypes DEF SincePing, LastCheck
    <2>6. Types'
      BY <1>1, <2>3, <2>4, ConstantTypes DEF Inv, Types
    <2>7. ChecksInOrder'
      <3>1. \A i \in (Len(checks) + 1)..(Len(checks) + 1) : checks'[i] = PongTimeout
        BY <2>3
      <3> QED BY <2>3, <3>1, ConstantTypes, GrownInOrder DEF Inv
    <2>8. IsPending(LastCheck)'
      <3>1. Len(checks) + 1 \in 1..Len(checks')
        BY <2>3
      <3> QED BY <2>3, <2>5, <3>1 DEF IsPending
    <2>9. ~IsPending(LastCheck)
      BY <1>1, CheckedBeforePing
    <2>10. ASSUME peer = "answers" PROVE Answering' /\ missed >= 1 /\ pings = <<>>
      <3>1. Answering
        BY <1>3, <2>10 DEF Inv, HeartbeatInv
      <3>2. missed >= 1 /\ pings = <<>>
        BY <2>9, <3>1 DEF Answering
      <3>3. PingsAreYoung'
        BY <2>4, <2>5, <3>2, ConstantTypes DEF PingsAreYoung
      <3> QED BY <1>1, <2>8, <3>1, <3>2, <3>3 DEF Answering
    <2>11. ASSUME peer = "silent" PROVE AfterPing'
      <3>1. BeforePing \/ AfterPing
        BY <1>3, <2>11 DEF Inv, HeartbeatInv
      <3>2. missed >= 1 /\ silence <= PingInterval
        BY <2>5, <2>9, <3>1 DEF BeforePing, AfterPing
      <3>3. silence' + LastCheck' <= PingInterval + PongTimeout
        BY <1>1, <2>5, <3>2, ConstantTypes DEF Inv, Types
      <3> QED BY <1>1, <2>8, <3>2, <3>3 DEF AfterPing
    <2>12. HeartbeatInv'
      BY <1>1, <2>10, <2>11, ConstantTypes DEF HeartbeatInv
    <2>13. ASSUME slots = 1, peer = "answers" PROVE OneCheck'
      <3>1. OneCheck
        BY <1>3, <2>13 DEF Inv, FirstInv
      <3>2. checks = <<>>
        <4> SUFFICES ASSUME checks # <<>> PROVE FALSE
          OBVIOUS
        <4>1. Len(checks) = 1 /\ checks[1] = LastCheck
          BY <3>1 DEF OneCheck
        <4> QED BY <2>9, <4>1 DEF IsPending
      <3>3. Len(checks) = 0
        BY <3>2
      <3> QED BY <2>3, <2>4, <2>5, <3>3 DEF OneCheck
    <2>14. FirstInv'
      BY <1>1, <1>3, <2>13 DEF Inv, FirstInv
    <2> QED BY <2>6, <2>7, <2>12, <2>14 DEF Inv
  <1> QED BY <1>2, <1>3

(* A timer that fires is the first, and the others stay.                   *)
LEMMA CountMissedPongKeepsInv == ASSUME Inv, CountMissedPong PROVE Inv'
PROOF
  <1>1. /\ checks \in Seq(0..PongTimeout) /\ checks # <<>> /\ Head(checks) = 0
        /\ checks' = Tail(checks) /\ missed' = MissedAgain
        /\ pingTimer' = pingTimer /\ slots' = slots /\ pings' = pings /\ peer' = peer
        /\ silence' = silence
    BY DEF Inv, Types, CountMissedPong
  <1>2. socket' \in {socket, "closing"} /\ (socket' = "connected" => missed' < DeadAfter)
    <2>1. socket' = IF missed' >= DeadAfter /\ socket \in {"connecting", "connected"}
                    THEN "closing" ELSE socket
      BY DEF CountMissedPong
    <2>2. missed' \in 0..DeadAfter
      BY <1>1, OneMore DEF Inv, Types
    <2> QED BY <2>1, <2>2, ConstantTypes
  <1>3. /\ checks' \in Seq(0..PongTimeout) /\ Len(checks) \in Nat /\ Len(checks) >= 1
        /\ Len(checks') = Len(checks) - 1 /\ checks[1] = 0
        /\ \A i \in 1..Len(checks') : checks'[i] = checks[i + 1]
    BY <1>1, TailFacts
  <1>4. missed \in 0..DeadAfter /\ missed' \in 0..DeadAfter /\ missed' >= 1
    BY <1>1, OneMore DEF Inv, Types
  <1>5. Types'
    BY <1>1, <1>2, <1>3, <1>4 DEF Inv, Types
  <1>6. ChecksInOrder'
    <2> SUFFICES ASSUME NEW i \in 1..Len(checks'), NEW j \in 1..Len(checks'), i < j
                 PROVE  checks'[i] <= checks'[j]
      BY DEF ChecksInOrder
    <2>1. i + 1 \in 1..Len(checks) /\ j + 1 \in 1..Len(checks) /\ i + 1 < j + 1
      BY <1>3
    <2> QED BY <1>3, <2>1 DEF Inv, ChecksInOrder
  <1>7. LastCheck' = LastCheck /\ SincePing' = SincePing
    BY <1>1 DEF LastCheck, SincePing
  <1>8. ASSUME IsPending(LastCheck), LastCheck # 0 PROVE IsPending(LastCheck)'
    <2>1. PICK i \in 1..Len(checks) : checks[i] = LastCheck
      BY <1>8 DEF IsPending
    <2>2. i # 1
      BY <1>3, <1>8, <2>1
    <2>3. i - 1 \in 1..Len(checks') /\ (i - 1) + 1 = i
      BY <1>3, <2>2
    <2>4. checks'[i - 1] = LastCheck
      BY <1>3, <2>1, <2>3
    <2> QED BY <1>7, <2>3, <2>4 DEF IsPending
  <1>9. ASSUME LastCheck = 0, PingsAreYoung, pingTimer # Off PROVE pings = <<>>
    <2>1. SincePing = PongTimeout
      BY <1>9, ConstantTypes DEF Inv, Types, LastCheck, SincePing
    <2>2. pings \in Seq(Nat) /\ (pings # <<>> => 1 \in 1..Len(pings))
      BY DEF Inv, Types
    <2> QED BY <1>9, <2>1, <2>2, ConstantTypes DEF PingsAreYoung
  <1>10. HeartbeatInv'
    <2> SUFFICES ASSUME socket' = "connected"
                 PROVE  /\ pingTimer' # Off
                        /\ peer' = "answers" => Answering'
                        /\ peer' = "silent" => (BeforePing \/ AfterPing)'
      BY DEF HeartbeatInv
    <2>1. socket = "connected" /\ missed' < DeadAfter
      BY <1>2
    <2>2. pingTimer # Off
      BY <2>1 DEF Inv, HeartbeatInv
    <2>3. ASSUME peer = "answers" PROVE Answering'
      <3>1. Answering
        BY <2>1, <2>3 DEF Inv, HeartbeatInv
      <3>2. PingsAreYoung'
        BY <1>1, <1>7, <3>1 DEF Answering, PingsAreYoung
      <3>3. IsPending(LastCheck)' \/ pings = <<>>
        BY <1>8, <1>9, <2>2, <3>1 DEF Answering
      <3> QED BY <1>1, <1>4, <3>1, <3>2, <3>3 DEF Answering
    <2>4. ASSUME peer = "silent" PROVE BeforePing'
      <3>1. ~AfterPing
        BY <1>1, <1>4, <2>1, OneMore, ConstantTypes DEF AfterPing
      <3>2. BeforePing
        BY <2>1, <2>4, <3>1 DEF Inv, HeartbeatInv
      <3> QED BY <1>1, <1>4, <1>7, <3>2 DEF BeforePing
    <2> QED BY <1>1, <2>2, <2>3, <2>4
  <1>11. FirstInv'
    <2>1. slots # 0 /\ ~(slots = 1 /\ socket = "connecting")
      BY <1>1 DEF Inv, FirstInv, NothingYet
    <2>2. ASSUME slots = 1, socket = "connected", peer = "answers" PROVE OneCheck'
      <3>1. Len(checks') = 0
        BY <1>1, <1>3, <2>2 DEF Inv, FirstInv, OneCheck
      <3>2. checks' = <<>>
        BY <1>3, <3>1
      <3> QED BY <3>2 DEF OneCheck
    <2> QED BY <1>1, <1>2, <2>1, <2>2 DEF FirstInv
  <1> QED BY <1>5, <1>6, <1>10, <1>11 DEF Inv

(* A second: every age grows, and every timer is nearer to its end.        *)
LEMMA TickKeepsInv == ASSUME Inv, Tick PROVE Inv'
PROOF
  <1>1. /\ socket' = socket /\ slots' = slots /\ missed' = missed /\ peer' = peer
        /\ pingTimer # 0 /\ pingTimer' = IF pingTimer = Off THEN Off ELSE pingTimer - 1
    BY DEF Tick
  <1>2. /\ checks \in Seq(0..PongTimeout) /\ pings \in Seq(Nat) /\ silence \in Nat
        /\ pingTimer \in 0..PingInterval \cup {Off}
        /\ Len(checks) \in Nat /\ Len(pings) \in Nat
        /\ DOMAIN checks = 1..Len(checks) /\ DOMAIN pings = 1..Len(pings)
    BY DEF Inv, Types
  <1>3. \A i \in 1..Len(checks) : checks[i] \in 0..PongTimeout /\ checks[i] > 0
    <2> SUFFICES ASSUME NEW i \in 1..Len(checks) PROVE checks[i] \in 0..PongTimeout /\ checks[i] > 0
      OBVIOUS
    <2>1. checks[1] > 0 /\ 1 \in 1..Len(checks)
      <3>1. checks # <<>>
        BY <1>2
      <3> QED BY <1>2, <3>1, ElementFacts DEF Tick
    <2>2. checks[i] \in 0..PongTimeout /\ checks[1] \in 0..PongTimeout
      BY <1>2, <2>1, ElementFacts
    <2>3. checks[1] <= checks[i]
      <3>1. CASE i = 1
        BY <2>2, <3>1
      <3>2. CASE i # 1
        BY <1>2, <2>1, <3>2 DEF Inv, ChecksInOrder
      <3> QED BY <3>1, <3>2
    <2> QED BY <2>1, <2>2, <2>3, ConstantTypes
  <1>4. /\ checks' \in Seq(0..PongTimeout) /\ Len(checks') = Len(checks)
        /\ \A i \in 1..Len(checks) : checks'[i] = checks[i] - 1
    <2>1. checks' = [i \in 1..Len(checks) |-> checks[i] - 1]
      BY <1>2 DEF Tick
    <2>2. \A i \in 1..Len(checks) : checks[i] - 1 \in 0..PongTimeout
      BY <1>3, ConstantTypes
    <2> QED BY <1>2, <2>1, <2>2
  <1>5. /\ pings' \in Seq(Nat)
        /\ socket = "connected" /\ peer = "answers" =>
             /\ Len(pings') = Len(pings)
             /\ \A i \in 1..Len(pings) : pings'[i] = pings[i] + 1
    <2>1. CASE socket = "connected" /\ peer = "answers"
      <3>1. pings' = [i \in 1..Len(pings) |-> pings[i] + 1]
        BY <1>2, <2>1 DEF Tick
      <3> QED BY <1>2, <3>1
    <2>2. CASE ~(socket = "connected" /\ peer = "answers")
      BY <2>2 DEF Tick
    <2> QED BY <2>1, <2>2
  <1>6. /\ silence' \in Nat /\ silence' <= silence + 1
        /\ peer = "answers" => silence' = silence
    BY <1>2 DEF Tick
  <1>7. Types'
    BY <1>1, <1>2, <1>4, <1>5, <1>6, ConstantTypes DEF Inv, Types
  <1>8. ChecksInOrder'
    BY <1>2, <1>3, <1>4 DEF Inv, ChecksInOrder
  <1>9. ASSUME socket = "connected"
        PROVE  /\ pingTimer' # Off /\ pingTimer # Off
               /\ SincePing \in Nat /\ SincePing' = SincePing + 1
               /\ LastCheck \in Int /\ LastCheck' = LastCheck - 1
    <2>1. pingTimer # Off
      BY <1>9 DEF Inv, HeartbeatInv
    <2> QED BY <1>1, <1>2, <2>1, ConstantTypes DEF SincePing, LastCheck
  <1>10. ASSUME socket = "connected", IsPending(LastCheck) PROVE IsPending(LastCheck)'
    <2>1. PICK i \in 1..Len(checks) : checks[i] = LastCheck
      BY <1>10 DEF IsPending
    <2>2. i \in 1..Len(checks') /\ checks'[i] = LastCheck'
      BY <1>4, <1>9, <1>10, <2>1
    <2> QED BY <2>2 DEF IsPending
  <1>11. ASSUME socket = "connected", peer = "answers" PROVE Answering'
    <2>1. Answering
      BY <1>11 DEF Inv, HeartbeatInv
    <2>2. PingsAreYoung'
      <3> SUFFICES ASSUME NEW i \in 1..Len(pings) PROVE pings'[i] = SincePing' /\ pings'[i] <= MaxDelay
        BY <1>5, <1>11 DEF PingsAreYoung
      <3>1. pings # <<>> /\ 1 \in 1..Len(pings) /\ Head(pings) = pings[1]
        BY <1>2
      <3>2. Head(pings) < MaxDelay
        BY <1>11, <3>1 DEF Tick
      <3>3. pings[i] = SincePing /\ pings[1] = SincePing
        BY <2>1, <3>1 DEF Answering, PingsAreYoung
      <3>4. pings'[i] = pings[i] + 1
        BY <1>5, <1>11
      <3> QED BY <1>9, <1>11, <3>1, <3>2, <3>3, <3>4, ConstantTypes
    <2>3. pings = <<>> => pings' = <<>>
      BY <1>2, <1>5, <1>11
    <2> QED BY <1>1, <1>6, <1>10, <1>11, <2>1, <2>2, <2>3 DEF Answering
  <1>12. ASSUME socket = "connected", peer = "silent", BeforePing PROVE BeforePing'
    <2>1. silence' <= SincePing'
      BY <1>2, <1>6, <1>9, <1>12 DEF BeforePing
    <2> QED BY <1>1, <1>10, <1>12, <2>1 DEF BeforePing
  <1>13. ASSUME socket = "connected", peer = "silent", AfterPing PROVE AfterPing'
    <2>1. silence' + LastCheck' <= PingInterval + PongTimeout
      BY <1>2, <1>6, <1>9, <1>13, ConstantTypes DEF AfterPing
    <2> QED BY <1>1, <1>10, <1>13, <2>1 DEF AfterPing
  <1>14. HeartbeatInv'
    BY <1>1, <1>9, <1>11, <1>12, <1>13 DEF Inv, HeartbeatInv
  <1>15. checks = <<>> <=> checks' = <<>>
    BY <1>2, <1>4
  <1>16. ASSUME slots = 1, socket = "connected", peer = "answers" PROVE OneCheck'
    <2>1. OneCheck
      BY <1>16 DEF Inv, FirstInv
    <2>2. pings # <<>> => pings' # <<>>
      BY <1>2, <1>5, <1>16
    <2> SUFFICES ASSUME checks # <<>>
                 PROVE  Len(checks') = 1 /\ checks'[1] = LastCheck' /\ (pings' # <<>> \/ missed' = 0)
      BY <1>15 DEF OneCheck
    <2>3. Len(checks) = 1 /\ checks[1] = LastCheck /\ (pings # <<>> \/ missed = 0)
      BY <2>1 DEF OneCheck
    <2> QED BY <1>1, <1>4, <1>9, <1>16, <2>2, <2>3
  <1>17. FirstInv'
    BY <1>1, <1>15, <1>16 DEF Inv, FirstInv, NothingYet
  <1> QED BY <1>7, <1>8, <1>14, <1>17 DEF Inv

LEMMA NextKeepsInv == Inv /\ [Next]_vars => Inv'
PROOF
  <1> SUFFICES ASSUME Inv, [Next]_vars PROVE Inv'
    OBVIOUS
  <1>1. CASE UNCHANGED vars
    <2>1. Types' /\ ChecksInOrder'
      BY <1>1 DEF vars, Inv, Types, ChecksInOrder
    <2>2. HeartbeatInv'
      BY <1>1 DEF vars, Inv, HeartbeatInv, Answering, PingsAreYoung, BeforePing, AfterPing,
                  IsPending, LastCheck, SincePing
    <2>3. FirstInv'
      BY <1>1 DEF vars, Inv, FirstInv, NothingYet, OneCheck, LastCheck, SincePing
    <2> QED BY <2>1, <2>2, <2>3 DEF Inv
  <1>2. CASE Next
    BY <1>2, ConnectToServerKeepsInv, OnConnectedKeepsInv, OnDisconnectedKeepsInv,
       DisconnectKeepsInv, SendPingKeepsInv, CountMissedPongKeepsInv, OnPongKeepsInv,
       PeerGoesSilentKeepsInv, TickKeepsInv DEF Next
  <1> QED BY <1>1, <1>2

LEMMA Invariance == Spec => []Inv
BY InitInv, NextKeepsInv, PTL DEF Spec

----------------------------------------------------------------------------
(* A silent peer is given up within an interval and a timeout, whichever   *)
(* timers of earlier connections are still running.                        *)
THEOREM SilentPeerIsGivenUp == Spec => []SilenceBounded
PROOF
  <1>1. ASSUME Inv, socket = "connected" PROVE silence < TooLong
    <2>1. CASE peer = "answers"
      BY <1>1, <2>1, ConstantTypes DEF Inv, HeartbeatInv, Answering, TooLong
    <2>2. CASE peer = "silent"
      <3>1. pingTimer # Off /\ (BeforePing \/ AfterPing) /\ silence \in Nat
        BY <1>1, <2>2 DEF Inv, HeartbeatInv, Types
      <3>2. SincePing \in 0..PingInterval
        BY <1>1, <3>1, ConstantTypes DEF Inv, Types, SincePing
      <3>3. CASE BeforePing
        BY <3>1, <3>2, <3>3, ConstantTypes DEF BeforePing, TooLong
      <3>4. CASE AfterPing
        <4>1. LastCheck \in 0..PongTimeout
          BY <1>1, <3>4, ElementFacts DEF AfterPing, IsPending, Inv, Types
        <4> QED BY <3>1, <3>4, <4>1, ConstantTypes DEF AfterPing, TooLong
      <3> QED BY <3>1, <3>3, <3>4
    <2> QED BY <1>1, <2>1, <2>2 DEF Inv, Types
  <1>2. Inv => SilenceBounded
    BY <1>1 DEF SilenceBounded
  <1> QED BY <1>2, Invariance, PTL

(* On the first connection the messenger gives up a silent peer only,      *)
(* however late the pongs come within the timeout.                         *)
THEOREM HealthyPeerIsKept == Spec => FirstIsClosedWhenDead
PROOF
  <1>1. ASSUME Inv, GivesUp, slots = 1 PROVE peer = "silent"
    <2> SUFFICES ASSUME peer = "answers" PROVE FALSE
      BY <1>1 DEF Inv, Types
    <2>1. /\ socket = "connected" /\ socket' = "closing" /\ checks # <<>> /\ Head(checks) = 0
          /\ missed' = MissedAgain
          /\ socket' = IF missed' >= DeadAfter /\ socket \in {"connecting", "connected"}
                       THEN "closing" ELSE socket
      BY <1>1 DEF GivesUp, CountMissedPong
    <2>2. OneCheck /\ PingsAreYoung /\ pingTimer # Off
      BY <1>1, <2>1 DEF Inv, FirstInv, HeartbeatInv, Answering
    <2>3. LastCheck = 0
      BY <1>1, <2>1, <2>2, TailFacts DEF OneCheck, Inv, Types
    <2>4. SincePing = PongTimeout
      BY <1>1, <2>2, <2>3, ConstantTypes DEF Inv, Types, LastCheck, SincePing
    <2>5. pings = <<>>
      <3>1. pings \in Seq(Nat) /\ (pings # <<>> => 1 \in 1..Len(pings))
        BY <1>1 DEF Inv, Types
      <3> QED BY <2>2, <2>4, <3>1, ConstantTypes DEF PingsAreYoung
    <2>6. missed = 0
      BY <2>1, <2>2, <2>5 DEF OneCheck
    <2>7. ~(MissedAgain >= DeadAfter)
      BY <1>1, <2>6, OneMore, ConstantTypes DEF Inv, Types
    <2> QED BY <2>1, <2>7
  <1>2. Inv /\ [Next]_vars => [GivesUp /\ slots = 1 => peer = "silent"]_vars
    BY <1>1
  <1> QED BY <1>2, Invariance, PTL DEF Spec, FirstIsClosedWhenDead
=============================================================================
