------------------------- MODULE PointerQueueProofs -------------------------
(***************************************************************************)
(* What the queue operators of PointerQueue return, for every queue.       *)
(*                                                                         *)
(* Keep is recursive, so its lemmas need induction, and the induction      *)
(* theorems of the library take an operator no installed prover can        *)
(* instantiate.  The induction here is over sets instead: the least        *)
(* element of a set of naturals, from the well-foundedness of the strict   *)
(* subset ordering on the finite sets 0 .. n - 1.                          *)
(***************************************************************************)
EXTENDS PointerQueue, SequenceTheorems, FiniteSetTheorems, WellFoundedInduction, TLAPS

(***************************************************************************)
(* A set of naturals that is not empty has a least element.                *)
(***************************************************************************)
LEMMA LeastNatural ==
  ASSUME NEW S \in SUBSET Nat, S # {}
  PROVE  \E n \in S : \A m \in S : n <= m
<1> DEFINE Below == { 0 .. (n - 1) : n \in S }
<1>1. Below \subseteq FiniteSubsetsOf(Nat)
  <2> SUFFICES ASSUME NEW n \in S
               PROVE  0 .. (n - 1) \in FiniteSubsetsOf(Nat)
    OBVIOUS
  <2>1. IsFiniteSet(0 .. (n - 1))
    BY FS_Interval
  <2> QED
    BY <2>1 DEF FiniteSubsetsOf
<1>2. Below # {}
  OBVIOUS
<1>3. PICK X \in Below : \A Y \in Below : <<Y, X>> \notin StrictSubsetOrdering(Nat)
  <2> HIDE DEF Below
  <2> QED
    BY <1>1, <1>2, FS_StrictSubsetOrderingWellFounded, WFMin
<1>4. PICK n \in S : X = 0 .. (n - 1)
  OBVIOUS
<1>5. ASSUME NEW m \in S, m < n
      PROVE  FALSE
  <2>1. 0 .. (m - 1) \in Below
    BY <1>5
  <2>2. 0 .. (m - 1) \subseteq X /\ m \in X /\ m \notin 0 .. (m - 1)
    BY <1>4, <1>5
  <2>3. <<0 .. (m - 1), X>> \in StrictSubsetOrdering(Nat)
    BY <2>2, <1>4 DEF StrictSubsetOrdering
  <2> QED
    BY <1>3, <2>1, <2>3
<1> QED
  BY <1>5

(***************************************************************************)
(* Induction up to N, for a property given as the set of the numbers that  *)
(* have it.                                                                *)
(***************************************************************************)
LEMMA InductionUpTo ==
  ASSUME NEW N \in Nat, NEW P, 0 \in P,
         \A n \in 0 .. N : n \in P /\ n < N => n + 1 \in P
  PROVE  \A n \in 0 .. N : n \in P
<1> DEFINE Bad == { n \in 0 .. N : n \notin P }
<1> SUFFICES ASSUME Bad # {}
             PROVE  FALSE
  OBVIOUS
<1>1. PICK n \in Bad : \A m \in Bad : n <= m
  <2>1. Bad \in SUBSET Nat
    OBVIOUS
  <2> HIDE DEF Bad
  <2> QED
    BY <2>1, LeastNatural
<1>2. n # 0 /\ n - 1 \in 0 .. N /\ n - 1 \notin Bad
  BY <1>1
<1>3. n \in P
  BY <1>2
<1> QED
  BY <1>1, <1>3

-----------------------------------------------------------------------------
(***************************************************************************)
(* F lists what Keep(q, G) has collected after each of the first n pops.   *)
(***************************************************************************)
Collects(F, q, G, n) ==
  /\ DOMAIN F = 0 .. n
  /\ F[0] = << >>
  /\ \A i \in 1 .. n :
       F[i] = IF q[i] \in G THEN Append(F[i - 1], q[i]) ELSE F[i - 1]

LEMMA CollectsExists ==
  ASSUME NEW S, NEW q \in Seq(S), NEW G
  PROVE  \E F : F = [i \in 0 .. Len(q) |-> F[i]] /\ Collects(F, q, G, Len(q))
<1> DEFINE N == Len(q)
<1> DEFINE P == { n \in 0 .. N : \E F : F = [i \in 0 .. n |-> F[i]] /\ Collects(F, q, G, n) }
<1>1. 0 \in P
  <2> DEFINE F == [i \in 0 .. 0 |-> << >>]
  <2>1. F = [i \in 0 .. 0 |-> F[i]] /\ Collects(F, q, G, 0)
    BY DEF Collects
  <2> QED
    BY <2>1
<1>2. ASSUME NEW n \in 0 .. N, n \in P, n < N
      PROVE  n + 1 \in P
  <2>1. PICK F : F = [i \in 0 .. n |-> F[i]] /\ Collects(F, q, G, n)
    BY <1>2
  <2> DEFINE H == [i \in 0 .. (n + 1) |->
                     IF i <= n THEN F[i]
                     ELSE IF q[i] \in G THEN Append(F[i - 1], q[i]) ELSE F[i - 1]]
  <2>2. H = [i \in 0 .. (n + 1) |-> H[i]]
    OBVIOUS
  <2>3. DOMAIN H = 0 .. (n + 1) /\ H[0] = << >>
    BY <2>1 DEF Collects
  <2>4. \A i \in 0 .. n : H[i] = F[i]
    OBVIOUS
  <2>5. H[n + 1] = IF q[n + 1] \in G THEN Append(F[n], q[n + 1]) ELSE F[n]
    OBVIOUS
  <2>6. ASSUME NEW i \in 1 .. (n + 1)
        PROVE  H[i] = IF q[i] \in G THEN Append(H[i - 1], q[i]) ELSE H[i - 1]
    <3> HIDE DEF H
    <3>1. CASE i = n + 1
      BY <3>1, <2>4, <2>5
    <3>2. CASE i \in 1 .. n
      BY <3>2, <2>1, <2>4 DEF Collects
    <3> QED
      BY <3>1, <3>2
  <2>7. Collects(H, q, G, n + 1)
    BY <2>3, <2>6 DEF Collects
  <2> QED
    BY <1>2, <2>2, <2>7
<1>3. N \in Nat /\ N \in 0 .. N
  OBVIOUS
<1>4. \A n \in 0 .. N : n \in P /\ n < N => n + 1 \in P
  BY <1>2
<1>5. N \in P
  <2> HIDE DEF P, N
  <2> QED
    BY <1>1, <1>3, <1>4, InductionUpTo
<1> QED
  BY <1>5

LEMMA KeepCollects ==
  ASSUME NEW S, NEW q \in Seq(S), NEW G
  PROVE  \E F : Collects(F, q, G, Len(q)) /\ Keep(q, G) = F[Len(q)]
<1> DEFINE Step(F) == [i \in 0 .. Len(q) |->
                         IF i = 0 THEN << >>
                         ELSE IF q[i] \in G THEN Append(F[i - 1], q[i]) ELSE F[i - 1]]
<1> DEFINE C == CHOOSE F : F = Step(F)
<1>1. PICK F : F = [i \in 0 .. Len(q) |-> F[i]] /\ Collects(F, q, G, Len(q))
  BY CollectsExists
<1>2. F = Step(F)
  <2>1. \A i \in 0 .. Len(q) :
          F[i] = IF i = 0 THEN << >>
                 ELSE IF q[i] \in G THEN Append(F[i - 1], q[i]) ELSE F[i - 1]
    BY <1>1 DEF Collects
  <2>2. [i \in 0 .. Len(q) |-> F[i]] = Step(F)
    BY <2>1
  <2> QED
    BY <1>1, <2>2
<1>3. C = Step(C)
  BY <1>2
<1>4. ASSUME NEW H, H = Step(H)
      PROVE  Collects(H, q, G, Len(q))
  <2>1. DOMAIN H = 0 .. Len(q)
    BY <1>4
  <2>2. \A i \in 0 .. Len(q) : H[i] = Step(H)[i]
    BY <1>4
  <2>3. H[0] = << >>
    BY <2>2
  <2>4. \A i \in 1 .. Len(q) :
          H[i] = IF q[i] \in G THEN Append(H[i - 1], q[i]) ELSE H[i - 1]
    BY <2>2
  <2> QED
    BY <2>1, <2>3, <2>4 DEF Collects
<1>5. Collects(C, q, G, Len(q))
  BY <1>3, <1>4
<1>6. Keep(q, G) = C[Len(q)]
  BY DEF Keep
<1> QED
  BY <1>5, <1>6

(***************************************************************************)
(* Keep(q, G) is q without what is not in G: every kept element has its    *)
(* place in q, in the same order, and every element of G is kept.          *)
(***************************************************************************)
Embeds(e, r, q, G, n) ==
  /\ e \in [1 .. Len(r) -> 1 .. n]
  /\ \A i, j \in 1 .. Len(r) : i < j => e[i] < e[j]
  /\ \A i \in 1 .. Len(r) : r[i] = q[e[i]] /\ q[e[i]] \in G
  /\ \A j \in 1 .. n : q[j] \in G => \E i \in 1 .. Len(r) : e[i] = j

LEMMA KeepEmbeds ==
  ASSUME NEW S, NEW q \in Seq(S), NEW G
  PROVE  /\ Keep(q, G) \in Seq(S)
         /\ \E e : Embeds(e, Keep(q, G), q, G, Len(q))
<1>1. PICK F : Collects(F, q, G, Len(q)) /\ Keep(q, G) = F[Len(q)]
  BY KeepCollects
<1> DEFINE N == Len(q)
<1> DEFINE P == { n \in 0 .. N : F[n] \in Seq(S) /\ \E e : Embeds(e, F[n], q, G, n) }
<1>2. 0 \in P
  <2>1. F[0] = << >>
    BY <1>1 DEF Collects
  <2>2. Embeds([i \in 1 .. 0 |-> 0], << >>, q, G, 0)
    BY DEF Embeds
  <2>3. F[0] \in Seq(S) /\ \E e : Embeds(e, F[0], q, G, 0)
    BY <2>1, <2>2
  <2>4. 0 \in 0 .. N
    OBVIOUS
  <2> QED
    BY <2>3, <2>4
<1>3. ASSUME NEW n \in 0 .. N, n \in P, n < N
      PROVE  n + 1 \in P
  <2>1. PICK e : F[n] \in Seq(S) /\ Embeds(e, F[n], q, G, n)
    BY <1>3
  <2>2. F[n + 1] = IF q[n + 1] \in G THEN Append(F[n], q[n + 1]) ELSE F[n]
    BY <1>1, <1>3 DEF Collects
  <2>3. CASE q[n + 1] \in G
    <3> DEFINE r == F[n]
    <3> DEFINE L == Len(r)
    <3> DEFINE h == [i \in 1 .. (L + 1) |-> IF i = L + 1 THEN n + 1 ELSE e[i]]
    <3>1. q[n + 1] \in S
      BY <1>3
    <3>2. /\ F[n + 1] \in Seq(S)
          /\ Len(F[n + 1]) = L + 1
          /\ \A i \in 1 .. L : F[n + 1][i] = r[i]
          /\ F[n + 1][L + 1] = q[n + 1]
      BY <2>1, <2>2, <2>3, <3>1
    <3>3. L \in Nat
      BY <2>1
    <3>4. h \in [1 .. (L + 1) -> 1 .. (n + 1)]
      BY <2>1, <3>3 DEF Embeds
    <3>5. \A i, j \in 1 .. (L + 1) : i < j => h[i] < h[j]
      <4> SUFFICES ASSUME NEW i \in 1 .. (L + 1), NEW j \in 1 .. (L + 1), i < j
                   PROVE  h[i] < h[j]
        OBVIOUS
      <4>1. i \in 1 .. L /\ h[i] = e[i] /\ e[i] \in 1 .. n
        <5>1. i \in 1 .. L /\ i # L + 1
          BY <3>3
        <5>2. h[i] = e[i]
          BY <5>1
        <5>3. e[i] \in 1 .. n
          <6> HIDE DEF L, h
          <6>1. e \in [1 .. L -> 1 .. n]
            BY <2>1 DEF Embeds, L
          <6> QED
            BY <5>1, <6>1
        <5> QED
          BY <5>1, <5>2, <5>3
      <4>2. CASE j = L + 1
        <5>1. h[j] = n + 1
          BY <4>2
        <5> QED
          BY <4>1, <5>1
      <4>3. CASE j # L + 1
        <5>1. j \in 1 .. L /\ h[j] = e[j]
          BY <4>3, <3>3
        <5> QED
          BY <2>1, <4>1, <5>1 DEF Embeds
      <4> QED
        BY <4>2, <4>3
    <3>6. \A i \in 1 .. (L + 1) : F[n + 1][i] = q[h[i]] /\ q[h[i]] \in G
      BY <2>1, <2>3, <3>2, <3>3 DEF Embeds
    <3>7. \A j \in 1 .. (n + 1) : q[j] \in G => \E i \in 1 .. (L + 1) : h[i] = j
      <4> SUFFICES ASSUME NEW j \in 1 .. (n + 1), q[j] \in G
                   PROVE  \E i \in 1 .. (L + 1) : h[i] = j
        OBVIOUS
      <4>1. CASE j = n + 1
        BY <4>1, <3>3
      <4>2. CASE j \in 1 .. n
        <5>1. PICK i \in 1 .. L : e[i] = j
          BY <2>1, <4>2 DEF Embeds
        <5>2. i \in 1 .. (L + 1) /\ h[i] = j
          BY <5>1, <3>3
        <5> QED
          BY <5>2
      <4> QED
        BY <4>1, <4>2
    <3>8. Embeds(h, F[n + 1], q, G, n + 1)
      <4> HIDE DEF h, L
      <4> QED
        BY <3>2, <3>4, <3>5, <3>6, <3>7 DEF Embeds
    <3> QED
      BY <1>3, <3>2, <3>8
  <2>4. CASE q[n + 1] \notin G
    <3>1. Embeds(e, F[n], q, G, n + 1)
      BY <2>1, <2>4 DEF Embeds
    <3> QED
      BY <1>3, <2>1, <2>2, <2>4, <3>1
  <2> QED
    BY <2>3, <2>4
<1>4. N \in Nat /\ N \in 0 .. N
  OBVIOUS
<1>5. \A n \in 0 .. N : n \in P /\ n < N => n + 1 \in P
  BY <1>3
<1>6. N \in P
  <2> HIDE DEF P, N
  <2> QED
    BY <1>2, <1>4, <1>5, InductionUpTo
<1> QED
  BY <1>1, <1>6

LEMMA KeepElements ==
  ASSUME NEW S, NEW q \in Seq(S), NEW G
  PROVE  /\ Keep(q, G) \in Seq(S)
         /\ Elements(Keep(q, G)) = Elements(q) \intersect G
<1> DEFINE r == Keep(q, G)
<1>1. r \in Seq(S)
  BY KeepEmbeds
<1>2. PICK e : Embeds(e, r, q, G, Len(q))
  BY KeepEmbeds
<1> HIDE DEF r
<1>3. DOMAIN r = 1 .. Len(r) /\ DOMAIN q = 1 .. Len(q)
  BY <1>1
<1>4. Elements(r) \subseteq Elements(q) \intersect G
  BY <1>2, <1>3 DEF Elements, Embeds
<1>5. ASSUME NEW x \in Elements(q) \intersect G
      PROVE  x \in Elements(r)
  <2>1. PICK j \in 1 .. Len(q) : q[j] = x
    BY <1>3 DEF Elements
  <2>2. PICK i \in 1 .. Len(r) : e[i] = j
    BY <1>2, <1>5, <2>1 DEF Embeds
  <2>3. r[i] = x
    BY <1>2, <2>1, <2>2 DEF Embeds
  <2> QED
    BY <1>3, <2>3 DEF Elements
<1> QED
  BY <1>1, <1>4, <1>5 DEF r

LEMMA AppendElements ==
  ASSUME NEW S, NEW q \in Seq(S), NEW x \in S
  PROVE  /\ Append(q, x) \in Seq(S)
         /\ Elements(Append(q, x)) = Elements(q) \union {x}
<1>1. /\ Append(q, x) \in Seq(S)
      /\ Len(Append(q, x)) = Len(q) + 1
      /\ \A i \in 1 .. Len(q) : Append(q, x)[i] = q[i]
      /\ Append(q, x)[Len(q) + 1] = x
  OBVIOUS
<1>2. /\ DOMAIN q = 1 .. Len(q)
      /\ DOMAIN Append(q, x) = 1 .. (Len(q) + 1)
      /\ Len(q) \in Nat
  BY <1>1
<1>3. Elements(Append(q, x)) \subseteq Elements(q) \union {x}
  BY <1>1, <1>2 DEF Elements
<1>4. Elements(q) \union {x} \subseteq Elements(Append(q, x))
  BY <1>1, <1>2 DEF Elements
<1> QED
  BY <1>1, <1>3, <1>4

LEMMA FrontProperties ==
  ASSUME NEW F, NEW q \in Seq(F), q # << >>
  PROVE  /\ Front(q) \in Seq(F)
         /\ Len(Front(q)) = Len(q) - 1
         /\ \A i \in 1 .. Len(Front(q)) : Front(q)[i] = q[i]
         /\ Last(q) \in F
         /\ Last(q) \in Elements(q)
<1>1. Len(q) \in Nat /\ Len(q) >= 1 /\ \A i \in 1 .. Len(q) - 1 : q[i] \in F
  OBVIOUS
<1>2. /\ Front(q) \in Seq(F)
      /\ Len(Front(q)) = Len(q) - 1
      /\ \A i \in 1 .. Len(Front(q)) : Front(q)[i] = q[i]
  <2> DEFINE n == Len(q) - 1
  <2>1. n \in Int /\ n >= 0 /\ \A i \in 1 .. n : q[i] \in F
    BY <1>1
  <2> HIDE DEF n
  <2>2. /\ SubSeq(q, 1, n) \in Seq(F)
        /\ Len(SubSeq(q, 1, n)) = IF 1 <= n THEN n - 1 + 1 ELSE 0
        /\ \A i \in 1 .. n - 1 + 1 : SubSeq(q, 1, n)[i] = q[1 + i - 1]
    BY <2>1, SubSeqProperties
  <2>3. /\ Len(SubSeq(q, 1, n)) = n
        /\ \A i \in 1 .. n : SubSeq(q, 1, n)[i] = q[i]
    BY <2>1, <2>2
  <2> QED
    BY <2>2, <2>3 DEF Front, n
<1> QED
  BY <1>1, <1>2 DEF Last, Elements

LEMMA TailNotEmpty ==
  ASSUME NEW S, NEW q \in Seq(S), Len(q) > 1
  PROVE  Tail(q) # << >>
<1> DEFINE r == Tail(q)
<1>1. q # << >> /\ Len(q) \in Nat
  OBVIOUS
<1>2. r \in Seq(S) /\ Len(r) = Len(q) - 1
  BY <1>1, HeadTailProperties
<1> HIDE DEF r
<1>3. Len(q) \in Nat /\ Len(q) > 1 /\ Len(r) = Len(q) - 1
  BY <1>1, <1>2
<1>4. Len(r) > 0
  BY ONLY <1>3
<1>5. r # << >>
  BY <1>4
<1> QED
  BY <1>5 DEF r

(***************************************************************************)
(* Two collections that agree on the first k pops have the same queue      *)
(* after them.                                                             *)
(***************************************************************************)
LEMMA CollectsAgree ==
  ASSUME NEW F, NEW q, NEW G, NEW n \in Nat, Collects(F, q, G, n),
         NEW H, NEW p, NEW K, NEW m \in Nat, Collects(H, p, K, m),
         NEW k \in Nat, k <= n, k <= m,
         \A i \in 1 .. k : q[i] = p[i] /\ (q[i] \in G <=> p[i] \in K)
  PROVE  F[k] = H[k]
<1> DEFINE P == { i \in 0 .. k : F[i] = H[i] }
<1>1. 0 \in P
  BY DEF Collects
<1>2. ASSUME NEW i \in 0 .. k, i \in P, i < k
      PROVE  i + 1 \in P
  <2>1. i + 1 \in 1 .. k /\ i + 1 \in 1 .. n /\ i + 1 \in 1 .. m /\ i + 1 - 1 = i
    BY <1>2
  <2>2. /\ F[i + 1] = IF q[i + 1] \in G THEN Append(F[i], q[i + 1]) ELSE F[i]
        /\ H[i + 1] = IF p[i + 1] \in K THEN Append(H[i], p[i + 1]) ELSE H[i]
    BY <2>1 DEF Collects
  <2>3. F[i + 1] = H[i + 1]
    BY <1>2, <2>1, <2>2
  <2> QED
    BY <2>1, <2>3
<1>3. \A i \in 0 .. k : i \in P /\ i < k => i + 1 \in P
  BY <1>2
<1>4. k \in P
  <2> HIDE DEF P
  <2> QED
    BY <1>1, <1>3, InductionUpTo
<1> QED
  BY <1>4

(***************************************************************************)
(* One element more at the end.                                            *)
(***************************************************************************)
LEMMA KeepAppend ==
  ASSUME NEW S, NEW q \in Seq(S), NEW x \in S, NEW G, NEW K,
         \A y \in Elements(q) : y \in G <=> y \in K
  PROVE  Keep(Append(q, x), K) = IF x \in K THEN Append(Keep(q, G), x) ELSE Keep(q, G)
<1> DEFINE r == Append(q, x)
<1> DEFINE n == Len(q)
<1>1. /\ r \in Seq(S) /\ Len(r) = n + 1 /\ n \in Nat
      /\ \A i \in 1 .. n : r[i] = q[i] /\ q[i] \in Elements(q)
      /\ r[n + 1] = x
  BY DEF Elements
<1>2. PICK F : Collects(F, q, G, n) /\ Keep(q, G) = F[n]
  BY KeepCollects
<1> HIDE DEF r
<1>3. PICK H : Collects(H, r, K, Len(r)) /\ Keep(r, K) = H[Len(r)]
  BY <1>1, KeepCollects
<1> HIDE DEF n
<1>4. Collects(H, r, K, n + 1) /\ Keep(r, K) = H[n + 1]
  BY <1>1, <1>3
<1>5. n + 1 \in Nat /\ n <= n /\ n <= n + 1 /\ n + 1 \in 1 .. n + 1 /\ n + 1 - 1 = n
  BY <1>1
<1>6. \A i \in 1 .. n : q[i] = r[i] /\ (q[i] \in G <=> r[i] \in K)
  BY <1>1
<1>7. F[n] = H[n]
  BY <1>1, <1>2, <1>4, <1>5, <1>6, CollectsAgree
<1>8. H[n + 1] = IF r[n + 1] \in K THEN Append(H[n], r[n + 1]) ELSE H[n]
  <2>1. \A i \in 1 .. (n + 1) : H[i] = IF r[i] \in K THEN Append(H[i - 1], r[i]) ELSE H[i - 1]
    BY <1>4 DEF Collects
  <2>2. n + 1 \in 1 .. (n + 1) /\ (n + 1) - 1 = n
    BY <1>1
  <2> QED
    BY <2>1, <2>2
<1>9. Keep(r, K) = IF x \in K THEN Append(Keep(q, G), x) ELSE Keep(q, G)
  BY <1>1, <1>2, <1>4, <1>7, <1>8
<1> QED
  BY <1>9 DEF r

LEMMA KeepEmpty ==
  ASSUME NEW G
  PROVE  Keep(<< >>, G) = << >>
<1>1. << >> \in Seq({}) /\ Len(<< >>) = 0
  OBVIOUS
<1>2. PICK F : Collects(F, << >>, G, 0) /\ Keep(<< >>, G) = F[0]
  BY <1>1, KeepCollects
<1> QED
  BY <1>2 DEF Collects

(***************************************************************************)
(* A queue that is not empty is its front and its last element.            *)
(***************************************************************************)
LEMMA FrontAndLast ==
  ASSUME NEW S, NEW q \in Seq(S), q # << >>
  PROVE  /\ q = Append(Front(q), Last(q))
         /\ \A x : [q EXCEPT ![Len(q)] = x] = Append(Front(q), x)
<1> DEFINE p == Front(q)
<1>1. /\ p \in Seq(S) /\ Len(p) = Len(q) - 1 /\ Last(q) \in S
      /\ \A i \in 1 .. Len(p) : p[i] = q[i]
  BY FrontProperties
<1>2. Len(q) \in Nat /\ Len(q) >= 1 /\ Last(q) = q[Len(q)] /\ DOMAIN q = 1 .. Len(q)
  BY DEF Last
<1> DEFINE n == Len(q)
<1>3. n \in Nat /\ n >= 1 /\ Len(p) = n - 1 /\ q = [i \in 1 .. n |-> q[i]]
  BY <1>1, <1>2
<1> HIDE DEF p, n
<1>4. ASSUME NEW x
      PROVE  Append(p, x) = [i \in 1 .. n |-> IF i = n THEN x ELSE q[i]]
  <2>1. p \in Seq(S \union {x}) /\ x \in S \union {x}
    BY <1>1
  <2> DEFINE r == Append(p, x)
  <2>2. /\ r \in Seq(S \union {x}) /\ Len(r) = n
        /\ \A i \in 1 .. (n - 1) : r[i] = p[i]
        /\ r[n] = x
    <3>1. /\ Append(p, x) \in Seq(S \union {x})
          /\ Len(Append(p, x)) = Len(p) + 1
          /\ \A i \in 1 .. Len(p) : Append(p, x)[i] = p[i]
          /\ Append(p, x)[Len(p) + 1] = x
      BY <2>1, AppendProperties
    <3> QED
      BY <1>3, <3>1
  <2> HIDE DEF r
  <2>3. r = [i \in 1 .. n |-> r[i]]
    BY <2>2
  <2>4. \A i \in 1 .. n : r[i] = IF i = n THEN x ELSE q[i]
    BY <1>1, <1>3, <2>2, SMTT(30)
  <2> QED
    BY <2>3, <2>4 DEF r
<1>5. q = Append(p, Last(q))
  <2>1. Last(q) = q[n]
    BY DEF Last, n
  <2>2. Append(p, q[n]) = [i \in 1 .. n |-> IF i = n THEN q[n] ELSE q[i]]
    BY <1>4
  <2>3. [i \in 1 .. n |-> IF i = n THEN q[n] ELSE q[i]] = [i \in 1 .. n |-> q[i]]
    OBVIOUS
  <2> QED
    BY <1>3, <2>1, <2>2, <2>3
<1>6. ASSUME NEW x
      PROVE  [q EXCEPT ![n] = x] = Append(p, x)
  <2>1. DOMAIN q = 1 .. n
    BY <1>3
  <2>2. [q EXCEPT ![n] = x] = [i \in 1 .. n |-> IF i = n THEN x ELSE q[i]]
    BY <2>1
  <2> QED
    BY <1>4, <2>2
<1> QED
  BY <1>5, <1>6 DEF p, n

LEMMA TailElements ==
  ASSUME NEW S, NEW q \in Seq(S), q # << >>
  PROVE  /\ Elements(q) = {Head(q)} \union Elements(Tail(q))
         /\ Elements(Tail(q)) \subseteq Elements(q)
<1> DEFINE p == Tail(q)
<1>1. /\ p \in Seq(S) /\ Len(p) = Len(q) - 1 /\ Len(q) \in Nat /\ Len(q) >= 1
      /\ \A i \in 1 .. Len(p) : p[i] = q[i + 1]
      /\ Head(q) = q[1]
  BY HeadTailProperties
<1> HIDE DEF p
<1>2. DOMAIN p = 1 .. Len(p) /\ DOMAIN q = 1 .. Len(q) /\ Len(p) \in Nat
  BY <1>1
<1>3. /\ \A i \in DOMAIN p : i + 1 \in DOMAIN q /\ p[i] = q[i + 1]
      /\ 1 \in DOMAIN q
  BY <1>1, <1>2
<1>4. {Head(q)} \union Elements(p) \subseteq Elements(q)
  BY <1>1, <1>3 DEF Elements
<1>5. ASSUME NEW i \in DOMAIN q
      PROVE  q[i] \in {Head(q)} \union Elements(p)
  <2>1. CASE i = 1
    BY <1>1, <2>1
  <2>2. CASE i # 1
    <3>1. i - 1 \in DOMAIN p /\ q[i] = p[i - 1]
      <4>1. i - 1 \in 1 .. Len(p) /\ (i - 1) + 1 = i
        BY <1>1, <1>2, <1>5, <2>2
      <4> QED
        BY <1>1, <1>2, <4>1
    <3> QED
      BY <3>1 DEF Elements
  <2> QED
    BY <2>1, <2>2
<1>6. Elements(q) \subseteq {Head(q)} \union Elements(p)
  BY <1>5 DEF Elements
<1> QED
  BY <1>4, <1>6 DEF p

LEMMA ElementsType ==
  ASSUME NEW S, NEW q \in Seq(S)
  PROVE  Elements(q) \subseteq S
BY DEF Elements

-----------------------------------------------------------------------------
(***************************************************************************)
(* The maps of queues: IsMap(m, K, S) maps some keys of K to queues of S.  *)
(***************************************************************************)
LEMMA QueueForType ==
  ASSUME NEW K, NEW S, NEW m, IsMap(m, K, S), NEW k
  PROVE  QueueFor(m, k) \in Seq(S)
BY DEF IsMap, QueueFor

LEMMA EnqueueProperties ==
  ASSUME NEW K, NEW S, NEW m, IsMap(m, K, S), NEW key \in K, NEW x \in S
  PROVE  /\ IsMap(Enqueue(m, key, x), K, S)
         /\ DOMAIN Enqueue(m, key, x) = DOMAIN m \union {key}
         /\ Enqueue(m, key, x)[key] = Append(QueueFor(m, key), x)
         /\ \A k \in DOMAIN m \ {key} : Enqueue(m, key, x)[k] = m[k]
<1>1. QueueFor(m, key) \in Seq(S)
  BY QueueForType
<1>2. Append(QueueFor(m, key), x) \in Seq(S)
  BY <1>1
<1>3. \A k \in DOMAIN m : m[k] \in Seq(S)
  BY DEF IsMap
<1> QED
  BY <1>2, <1>3 DEF Enqueue, IsMap

LEMMA KeepForProperties ==
  ASSUME NEW K, NEW S, NEW m, IsMap(m, K, S), NEW keys, NEW G
  PROVE  /\ IsMap(KeepFor(m, keys, G), K, S)
         /\ \A k : k \in DOMAIN KeepFor(m, keys, G)
                     <=> k \in DOMAIN m /\ (k \in keys => Keep(m[k], G) # << >>)
         /\ \A k \in DOMAIN KeepFor(m, keys, G) :
              KeepFor(m, keys, G)[k] = IF k \in keys THEN Keep(m[k], G) ELSE m[k]
<1>1. \A k \in DOMAIN m : m[k] \in Seq(S) /\ Keep(m[k], G) \in Seq(S)
  BY KeepElements DEF IsMap
<1> QED
  BY <1>1 DEF KeepFor, IsMap

=============================================================================
