-------------------------- MODULE Induction_proofs --------------------------
(***************************************************************************)
(* Induction over the naturals, and what is computed by recursion over     *)
(* them, in a form the provers can use: over sets, where the library's     *)
(* theorems have an operator as their parameter.  A set of naturals with 0 *)
(* that is closed under + 1 has them all.                                  *)
(***************************************************************************)
EXTENDS Integers, FiniteSetsExt, WellFoundedInduction, TLAPS

LEMMA Induction ==
  ASSUME NEW T, 0 \in T, \A n \in Nat : n \in T => n + 1 \in T
  PROVE  \A n \in Nat : n \in T
PROOF
  <1> DEFINE Others == {n \in Nat : n \notin T}
             Less == OpToRel(<, Nat)
  <1> SUFFICES ASSUME Others # {} PROVE FALSE
    OBVIOUS
  <1>1. Others \subseteq Nat /\ IsWellFoundedOn(Less, Nat)
    BY NatLessThanWellFounded
  <1> HIDE DEF Less
  <1>2. \E m \in Others : \A n \in Others : ~ (<<n, m>> \in Less)
    <2> HIDE DEF Others
    <2> QED BY <1>1, WFMin
  <1>3. PICK m \in Others : \A n \in Others : <<n, m>> \notin Less
    BY <1>2
  <1>4. m - 1 \in Nat /\ m - 1 \in T
    <2>1. m \in Nat /\ m # 0
      OBVIOUS
    <2>2. m - 1 \in Nat /\ m - 1 < m
      BY <2>1
    <2>3. <<m - 1, m>> \in Less
      BY <2>1, <2>2 DEF Less, OpToRel
    <2> QED BY <1>3, <2>2, <2>3
  <1> QED BY <1>4

(* A function defined by recursion up to a bound exists, and is typed as   *)
(* its steps are.                                                          *)
Recursion(f, n, first, step) == f = [i \in 0..n |-> IF i = 0 THEN first ELSE step[<<f[i - 1], i>>]]

LEMMA RecursionDefines ==
  ASSUME NEW S, NEW first \in S, NEW step \in [S \X Nat -> S]
  PROVE  \A n \in Nat : \E f \in [0..n -> S] : Recursion(f, n, first, step)
PROOF
  <1> DEFINE T == {n \in Nat : \E f \in [0..n -> S] : Recursion(f, n, first, step)}
  <1>1. 0 \in T
    <2> DEFINE f == [i \in 0..0 |-> first]
    <2>1. f \in [0..0 -> S] /\ Recursion(f, 0, first, step)
      BY DEF Recursion
    <2> HIDE DEF f
    <2> QED BY <2>1
  <1>2. ASSUME NEW n \in Nat, n \in T PROVE n + 1 \in T
    <2>1. PICK g \in [0..n -> S] : Recursion(g, n, first, step)
      BY <1>2
    <2> DEFINE f == [i \in 0..(n + 1) |-> IF i = n + 1 THEN step[<<g[n], n + 1>>] ELSE g[i]]
    <2>2. step[<<g[n], n + 1>>] \in S
      BY <2>1
    <2>3. f \in [0..(n + 1) -> S]
      BY <2>1, <2>2
    <2>4. \A i \in 0..(n + 1) : f[i] = IF i = 0 THEN first ELSE step[<<f[i - 1], i>>]
      <3> SUFFICES ASSUME NEW i \in 0..(n + 1)
                   PROVE  f[i] = IF i = 0 THEN first ELSE step[<<f[i - 1], i>>]
        OBVIOUS
      <3>1. CASE i = n + 1
        <4>1. i - 1 = n /\ n \in 0..(n + 1) /\ n # n + 1 /\ i # 0
          BY <3>1
        <4> QED BY <3>1, <4>1
      <3>2. CASE i \in 1..n
        <4>1. i # 0 /\ i # n + 1 /\ i - 1 # n + 1 /\ i - 1 \in 0..n /\ i - 1 \in 0..(n + 1) /\ i \in 0..n
          BY <3>2
        <4>2. f[i] = g[i] /\ f[i - 1] = g[i - 1]
          BY <4>1
        <4>3. g[i] = step[<<g[i - 1], i>>]
          BY <2>1, <3>2, <4>1 DEF Recursion
        <4> HIDE DEF f
        <4> QED BY <4>1, <4>2, <4>3
      <3>3. CASE i = 0
        <4>1. f[0] = g[0] /\ g[0] = first
          BY <2>1 DEF Recursion
        <4> QED BY <3>3, <4>1
      <3> QED BY <3>1, <3>2, <3>3
    <2> HIDE DEF f
    <2>5. Recursion(f, n + 1, first, step)
      BY <2>3, <2>4 DEF Recursion
    <2> QED BY <2>3, <2>5
  <1> HIDE DEF T
  <1>3. \A n \in Nat : n \in T
    BY <1>1, <1>2, Induction
  <1> QED BY <1>3 DEF T

(* A set of naturals has a least element.                                  *)
LEMMA LeastIsIn ==
  ASSUME NEW S \in SUBSET Nat, S # {} PROVE Min(S) \in S /\ \A n \in S : Min(S) <= n
PROOF
  <1> DEFINE Less == OpToRel(<, Nat)
  <1>1. IsWellFoundedOn(Less, Nat)
    BY NatLessThanWellFounded
  <1> HIDE DEF Less
  <1>2. PICK m \in S : \A n \in S : ~ (<<n, m>> \in Less)
    BY <1>1, WFMin
  <1>3. \A n \in S : m <= n
    <2> SUFFICES ASSUME NEW n \in S PROVE m <= n
      OBVIOUS
    <2>1. m \in Nat /\ n \in Nat
      OBVIOUS
    <2>2. n < m => <<n, m>> \in Less
      BY <2>1 DEF Less, OpToRel
    <2> QED BY <1>2, <2>1, <2>2
  <1> QED BY <1>3 DEF Min

(* So has a set of naturals up to a bound a greatest.                      *)
LEMMA GreatestIsIn ==
  ASSUME NEW n \in Nat, NEW s \in SUBSET (1..n), s # {} PROVE Max(s) \in s
PROOF
  <1> DEFINE below == {n - i : i \in s}
  <1>1. below \in SUBSET Nat /\ below # {}
    <2>1. \A i \in 1..n : n - i \in Nat
      OBVIOUS
    <2>2. \A i \in s : n - i \in Nat
      BY <2>1
    <2>3. below \subseteq Nat
      BY <2>2
    <2>4. PICK i : i \in s
      OBVIOUS
    <2>5. n - i \in below
      BY <2>4
    <2> QED BY <2>3, <2>5
  <1>2. \A i \in s : n - i \in below
    OBVIOUS
  <1>3. PICK i \in s : n - i = Min(below)
    <2>1. Min(below) \in below
      BY <1>1, LeastIsIn
    <2> QED BY <2>1
  <1>4. \A j \in s : i >= j
    <2> HIDE DEF below
    <2> SUFFICES ASSUME NEW j \in s PROVE i >= j
      OBVIOUS
    <2>1. n - i <= n - j /\ i \in 1..n /\ j \in 1..n
      BY <1>1, <1>2, <1>3, LeastIsIn
    <2> QED BY <2>1
  <1> QED BY <1>4 DEF Max

LEMMA GreatestOfRange ==
  ASSUME NEW m \in Nat, NEW s \in SUBSET (1..(m + 1)), m + 1 \in s
  PROVE  Max(s) = m + 1 /\ s \ {m + 1} \subseteq 1..m
PROOF
  <1>1. \A i \in 1..(m + 1) : m + 1 >= i /\ (i >= m + 1 => i = m + 1) /\ (i # m + 1 => i \in 1..m)
    OBVIOUS
  <1>2. \A i \in s : i \in 1..(m + 1)
    OBVIOUS
  <1>3. \A x \in s : (\A y \in s : x >= y) => x = m + 1
    BY <1>1, <1>2
  <1>4. Max(s) \in s /\ \A y \in s : Max(s) >= y
    <2>1. \E x \in s : \A y \in s : x >= y
      BY <1>1, <1>2
    <2> QED BY <2>1 DEF Max
  <1> QED BY <1>1, <1>2, <1>3, <1>4

(* A fold over a sequence is a function of the sets of its indices, and    *)
(* takes the greatest first.  It exists, and comes to what is reached from *)
(* the first index to the last.                                            *)
Folded(h, n, base, step) ==
  h = [s \in SUBSET (1..n) |-> IF s = {} THEN base ELSE step[<<h[s \ {Max(s)}], Max(s)>>]]

LEMMA FoldsExist ==
  ASSUME NEW S, NEW base \in S, NEW n \in Nat, NEW step \in [S \X (1..n) -> S]
  PROVE  \E h \in [SUBSET (1..n) -> S] : Folded(h, n, base, step)
PROOF
  <1> DEFINE Exists(m) == \E h \in [SUBSET (1..m) -> S] : Folded(h, m, base, step)
             T == {m \in Nat : m <= n => Exists(m)}
  <1>1. 0 \in T
    <2> DEFINE h == [s \in SUBSET (1..0) |-> base]
    <2>1. h \in [SUBSET (1..0) -> S] /\ \A s \in SUBSET (1..0) : s = {}
      <3>1. 1..0 = {}
        OBVIOUS
      <3>2. \A s \in SUBSET (1..0) : s = {}
        BY <3>1
      <3>3. h \in [SUBSET (1..0) -> S]
        OBVIOUS
      <3> QED BY <3>2, <3>3
    <2>2. Folded(h, 0, base, step)
      BY <2>1 DEF Folded
    <2> QED BY <2>1, <2>2
  <1>2. ASSUME NEW m \in Nat, m \in T PROVE m + 1 \in T
    <2> SUFFICES ASSUME m + 1 <= n PROVE Exists(m + 1)
      <3> HIDE DEF Exists
      <3> QED OBVIOUS
    <2>1. m <= n /\ m + 1 \in 1..n
      OBVIOUS
    <2>2. PICK g \in [SUBSET (1..m) -> S] : Folded(g, m, base, step)
      BY <1>2, <2>1
    <2> DEFINE h == [s \in SUBSET (1..(m + 1)) |->
                       IF m + 1 \in s THEN step[<<g[s \ {m + 1}], m + 1>>] ELSE g[s]]
    <2>3. \A s \in SUBSET (1..(m + 1)) : m + 1 \notin s => s \in SUBSET (1..m)
      OBVIOUS
    <2>4. ASSUME NEW s \in SUBSET (1..(m + 1)), m + 1 \in s
          PROVE  /\ Max(s) = m + 1 /\ s \ {m + 1} \in SUBSET (1..m)
                 /\ s \ {m + 1} \in SUBSET (1..(m + 1)) /\ m + 1 \notin s \ {m + 1}
                 /\ step[<<g[s \ {m + 1}], m + 1>>] \in S
      <3>1. Max(s) = m + 1 /\ s \ {m + 1} \in SUBSET (1..m)
        BY <2>4, GreatestOfRange
      <3>2. g[s \ {m + 1}] \in S
        BY <3>1
      <3>3. <<g[s \ {m + 1}], m + 1>> \in S \X (1..n)
        BY <2>1, <3>2
      <3> QED BY <3>1, <3>3
    <2>5. h \in [SUBSET (1..(m + 1)) -> S]
      <3> SUFFICES ASSUME NEW s \in SUBSET (1..(m + 1))
                   PROVE  (IF m + 1 \in s THEN step[<<g[s \ {m + 1}], m + 1>>] ELSE g[s]) \in S
        OBVIOUS
      <3> QED BY <2>3, <2>4
    <2>6. ASSUME NEW s \in SUBSET (1..(m + 1))
          PROVE  h[s] = IF s = {} THEN base ELSE step[<<h[s \ {Max(s)}], Max(s)>>]
      <3>1. CASE m + 1 \in s
        <4>1. h[s] = step[<<g[s \ {m + 1}], m + 1>>]
          BY <3>1
        <4>2. h[s \ {m + 1}] = g[s \ {m + 1}]
          BY <2>4, <3>1
        <4> HIDE DEF h
        <4> QED BY <2>4, <3>1, <4>1, <4>2
      <3>2. CASE m + 1 \notin s
        <4>1. /\ s \in SUBSET (1..m) /\ s \ {Max(s)} \in SUBSET (1..(m + 1))
              /\ m + 1 \notin s \ {Max(s)}
          BY <2>3, <3>2
        <4>2. h[s] = g[s] /\ h[s \ {Max(s)}] = g[s \ {Max(s)}]
          BY <3>2, <4>1
        <4>3. g[s] = IF s = {} THEN base ELSE step[<<g[s \ {Max(s)}], Max(s)>>]
          <5> DEFINE val(t) == IF t = {} THEN base ELSE step[<<g[t \ {Max(t)}], Max(t)>>]
          <5>1. g = [t \in SUBSET (1..m) |-> val(t)]
            BY <2>2 DEF Folded
          <5> HIDE DEF val
          <5>2. g[s] = val(s)
            BY <4>1, <5>1
          <5> QED BY <5>2 DEF val
        <4> HIDE DEF h
        <4> QED BY <4>2, <4>3
      <3> QED BY <3>1, <3>2
    <2>7. h = [s \in SUBSET (1..(m + 1)) |-> h[s]]
      OBVIOUS
    <2> HIDE DEF h
    <2>8. Folded(h, m + 1, base, step)
      BY <2>6, <2>7 DEF Folded
    <2> QED BY <2>5, <2>8
  <1> HIDE DEF T
  <1>3. \A m \in Nat : m \in T
    BY <1>1, <1>2, Induction
  <1>4. Exists(n)
    <2> HIDE DEF Exists
    <2> QED BY <1>3 DEF T
  <1> QED BY <1>4

LEMMA FoldReaches ==
  ASSUME NEW n \in Nat, NEW h, NEW w, h[{}] = w[0],
         \A s \in SUBSET (1..n) : \A m \in 0..(n - 1) :
           s # {} /\ Max(s) = m + 1 /\ h[s \ {m + 1}] = w[m] => h[s] = w[m + 1]
  PROVE  h[1..n] = w[n]
PROOF
  <1> DEFINE T == {m \in Nat : m <= n => h[1..m] = w[m]}
  <1>1. 0 \in T
    <2>1. 1..0 = {}
      OBVIOUS
    <2> QED BY <2>1
  <1>2. ASSUME NEW m \in Nat, m \in T PROVE m + 1 \in T
    <2> SUFFICES ASSUME m + 1 <= n PROVE h[1..(m + 1)] = w[m + 1]
      OBVIOUS
    <2>1. h[1..m] = w[m] /\ m \in 0..(n - 1)
      BY <1>2
    <2>2. /\ 1..(m + 1) \in SUBSET (1..n) /\ 1..(m + 1) # {}
          /\ m + 1 \in 1..(m + 1) /\ (1..(m + 1)) \ {m + 1} = 1..m
      OBVIOUS
    <2>3. Max(1..(m + 1)) = m + 1
      BY <2>2, GreatestOfRange
    <2> QED BY <2>1, <2>2, <2>3
  <1> HIDE DEF T
  <1>3. \A m \in Nat : m \in T
    BY <1>1, <1>2, Induction
  <1> QED BY <1>3 DEF T
=============================================================================
