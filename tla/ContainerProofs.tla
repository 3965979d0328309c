-------------------------- MODULE ContainerProofs --------------------------
(***************************************************************************)
(* What TLC checks of the mutable containers on a small instance, for all  *)
(* objects, answers of the comparator, contents and lengths.  In order:    *)
(*   - how often an object is in a sequence, and what the parts of one are;*)
(*   - the sort: it stays inside of its ranges and loses nothing, and      *)
(*     between ranges what it holds is in order;                           *)
(*   - the methods of the array: each keeps an array proper, and leaves it *)
(*     alone or counts a mutation;                                         *)
(*   - the same for the set, an insertion at a time;                       *)
(*   - the inductive invariant, SortInv, ArrayInv and SetInv, and what     *)
(*     follows from it;                                                    *)
(*   - the for loop, whose invariant LoopInv rests on the others;          *)
(*   - the depth of the sort's recursion, DepthInv;                        *)
(*   - that every answer brings the sort nearer to its end.                *)
(***************************************************************************)
EXTENDS ContainerProgram, PointerQueueProofs, FunctionTheorems

-----------------------------------------------------------------------------
(***************************************************************************)
(* How often an object occurs in a sequence.                               *)
(***************************************************************************)
Places(o, v) == {k \in DOMAIN v: v[k] = o}

LEMMA PlacesAreFinite ==
  ASSUME NEW S, NEW v \in Seq(S), NEW o
  PROVE  /\ Places(o, v) \subseteq 1 .. Len(v)
         /\ IsFiniteSet(Places(o, v))
         /\ Occurrences(o, v) = Cardinality(Places(o, v))
         /\ Occurrences(o, v) \in Nat
<1>1. Places(o, v) \subseteq 1 .. Len(v)
  BY DEF Places
<1>2. IsFiniteSet(1 .. Len(v))
  BY FS_Interval
<1>3. IsFiniteSet(Places(o, v))
  BY <1>1, <1>2, FS_Subset
<1>4. Cardinality(Places(o, v)) \in Nat
  BY <1>3, FS_CardinalityType
<1> QED
  BY <1>1, <1>3, <1>4 DEF Places, Occurrences

(***************************************************************************)
(* The same number of places, if one can tell which goes with which.       *)
(***************************************************************************)
LEMMA SameNumber ==
  ASSUME NEW A, NEW B, IsFiniteSet(A), NEW f \in [A -> B],
         \A a, b \in A : f[a] = f[b] => a = b,
         \A b \in B : \E a \in A : f[a] = b
  PROVE  IsFiniteSet(B) /\ Cardinality(B) = Cardinality(A)
<1>1. f \in Bijection(A, B)
  BY Fun_IsBij
<1>2. ExistsBijection(A, B)
  BY <1>1 DEF ExistsBijection
<1> QED
  BY <1>2, FS_Bijection

(***************************************************************************)
(* A sequence whose places are another's, moved about, has each object as  *)
(* often.                                                                  *)
(***************************************************************************)
LEMMA MovedAbout ==
  ASSUME NEW S, NEW v \in Seq(S), NEW w \in Seq(S),
         NEW f \in [1 .. Len(w) -> 1 .. Len(v)],
         \A a, b \in 1 .. Len(w) : f[a] = f[b] => a = b,
         \A b \in 1 .. Len(v) : \E a \in 1 .. Len(w) : f[a] = b,
         \A k \in 1 .. Len(w) : w[k] = v[f[k]],
         NEW o
  PROVE  Occurrences(o, w) = Occurrences(o, v)
<1> DEFINE A == Places(o, w)
<1> DEFINE B == Places(o, v)
<1> DEFINE g == [k \in A |-> f[k]]
<1>1. A \subseteq 1 .. Len(w) /\ B \subseteq 1 .. Len(v)
  BY PlacesAreFinite
<1>2. IsFiniteSet(A)
  BY PlacesAreFinite
<1>3. \A k \in 1 .. Len(w) : k \in A <=> w[k] = o
  BY DEF Places
<1>4. \A k \in 1 .. Len(v) : k \in B <=> v[k] = o
  BY DEF Places
<1> HIDE DEF A, B
<1>5. g \in [A -> B]
  BY <1>1, <1>3, <1>4
<1>6. \A a, b \in A : g[a] = g[b] => a = b
  BY <1>1
<1>7. \A b \in B : \E a \in A : g[a] = b
  BY <1>1, <1>3, <1>4
<1>8. Cardinality(B) = Cardinality(A)
  <2> HIDE DEF g
  <2> QED
    BY <1>2, <1>5, <1>6, <1>7, SameNumber
<1> QED
  BY <1>8, PlacesAreFinite DEF A, B

LEMMA OccurrencesEmpty ==
  ASSUME NEW o
  PROVE  Occurrences(o, << >>) = 0
<1>1. {k \in DOMAIN << >> : << >>[k] = o} = {}
  OBVIOUS
<1> QED
  BY <1>1, FS_EmptySet DEF Occurrences

LEMMA OccurrencesOne ==
  ASSUME NEW o, NEW p
  PROVE  Occurrences(o, <<p>>) = IF o = p THEN 1 ELSE 0
<1>1. {k \in DOMAIN <<p>> : <<p>>[k] = o} = IF o = p THEN {1} ELSE {}
  OBVIOUS
<1> QED
  BY <1>1, FS_EmptySet, FS_Singleton DEF Occurrences

LEMMA OccurrencesConcat ==
  ASSUME NEW S, NEW v \in Seq(S), NEW w \in Seq(S), NEW o
  PROVE  Occurrences(o, v \o w) = Occurrences(o, v) + Occurrences(o, w)
<1> DEFINE u == v \o w
<1> DEFINE A == Places(o, v)
<1> DEFINE B == Places(o, w)
<1> DEFINE C == {k \in (Len(v) + 1) .. (Len(v) + Len(w)) : w[k - Len(v)] = o}
<1> DEFINE g == [k \in B |-> k + Len(v)]
<1>1. /\ u \in Seq(S)
      /\ Len(u) = Len(v) + Len(w)
      /\ \A i \in 1 .. Len(v) + Len(w) :
           u[i] = IF i <= Len(v) THEN v[i] ELSE w[i - Len(v)]
  BY ConcatProperties
<1>2. Len(v) \in Nat /\ Len(w) \in Nat
  OBVIOUS
<1> HIDE DEF u
<1>3. Places(o, u) = A \cup C
  BY <1>1, <1>2 DEF Places
<1>4. A \cap C = {}
  BY <1>2 DEF Places
<1>5. IsFiniteSet(A) /\ IsFiniteSet(B) /\ A \subseteq 1 .. Len(v) /\ B \subseteq 1 .. Len(w)
  BY PlacesAreFinite
<1>6. \A k \in 1 .. Len(w) : k \in B <=> w[k] = o
  BY DEF Places
<1> HIDE DEF A, B
<1>7. g \in [B -> C]
  <2> SUFFICES ASSUME NEW k \in B
               PROVE  k + Len(v) \in C
    OBVIOUS
  <2>1. k \in 1 .. Len(w) /\ w[k] = o
    BY <1>5, <1>6
  <2>2. (k + Len(v)) - Len(v) = k
    BY <1>2, <2>1
  <2> QED
    BY <1>2, <2>1, <2>2
<1>8. \A a, b \in B : g[a] = g[b] => a = b
  BY <1>2, <1>5
<1>9. ASSUME NEW c \in C
      PROVE  \E b \in B : g[b] = c
  <2>1. c - Len(v) \in 1 .. Len(w) /\ w[c - Len(v)] = o
    BY <1>2
  <2>2. c - Len(v) \in B /\ (c - Len(v)) + Len(v) = c
    BY <1>2, <1>6, <2>1
  <2> QED
    BY <2>2
<1>10. IsFiniteSet(C) /\ Cardinality(C) = Cardinality(B)
  <2> HIDE DEF g, C
  <2> QED
    BY <1>5, <1>7, <1>8, <1>9, SameNumber
<1> HIDE DEF C
<1>11. Cardinality(A \cup C) = Cardinality(A) + Cardinality(C) - Cardinality({})
  BY <1>4, <1>5, <1>10, FS_Union
<1>12. Cardinality(A) \in Nat /\ Cardinality(B) \in Nat /\ Cardinality({}) = 0
  BY <1>5, FS_CardinalityType, FS_EmptySet
<1>13. /\ Occurrences(o, u) = Cardinality(A \cup C)
       /\ Occurrences(o, v) = Cardinality(A)
       /\ Occurrences(o, w) = Cardinality(B)
  BY <1>1, <1>3, PlacesAreFinite DEF A, B
<1> QED
  BY <1>10, <1>11, <1>12, <1>13 DEF u

(***************************************************************************)
(* Two places change their objects.                                        *)
(***************************************************************************)
LEMMA SwappedProperties ==
  ASSUME NEW S, NEW v \in Seq(S),
         NEW a \in 0 .. Len(v) - 1, NEW b \in 0 .. Len(v) - 1
  PROVE  /\ Swapped(v, a, b) \in Seq(S)
         /\ Len(Swapped(v, a, b)) = Len(v)
         /\ \A k \in 1 .. Len(v) :
              Swapped(v, a, b)[k] = IF k = a + 1 THEN v[b + 1]
                                    ELSE IF k = b + 1 THEN v[a + 1] ELSE v[k]
         /\ \A o : Occurrences(o, Swapped(v, a, b)) = Occurrences(o, v)
<1> DEFINE w == Swapped(v, a, b)
<1> DEFINE f == [k \in 1 .. Len(v) |-> IF k = a + 1 THEN b + 1
                                       ELSE IF k = b + 1 THEN a + 1 ELSE k]
<1>1. Len(v) \in Nat /\ DOMAIN v = 1 .. Len(v)
  OBVIOUS
<1>2. a + 1 \in 1 .. Len(v) /\ b + 1 \in 1 .. Len(v)
  BY <1>1
<1>3. v[a + 1] \in S /\ v[b + 1] \in S
  BY <1>2
<1>4. /\ w \in [1 .. Len(v) -> S]
      /\ \A k \in 1 .. Len(v) :
           w[k] = IF k = a + 1 THEN v[b + 1]
                  ELSE IF k = b + 1 THEN v[a + 1] ELSE v[k]
  BY <1>1, <1>2, <1>3 DEF Swapped
<1> HIDE DEF w
<1>5. w \in Seq(S) /\ Len(w) = Len(v)
  BY <1>1, <1>4
<1>6. f \in [1 .. Len(w) -> 1 .. Len(v)]
  BY <1>1, <1>2, <1>5
<1>7. \A k \in 1 .. Len(w) : w[k] = v[f[k]]
  BY <1>4, <1>5
<1>8. \A k, l \in 1 .. Len(w) : f[k] = f[l] => k = l
  BY <1>1, <1>2, <1>5
<1>9. \A l \in 1 .. Len(v) : \E k \in 1 .. Len(w) : f[k] = l
  <2> SUFFICES ASSUME NEW l \in 1 .. Len(v)
               PROVE  f[f[l]] = l /\ f[l] \in 1 .. Len(w)
    OBVIOUS
  <2> QED
    BY <1>1, <1>2, <1>5
<1>10. \A o : Occurrences(o, w) = Occurrences(o, v)
  <2> HIDE DEF f
  <2> QED
    BY <1>5, <1>6, <1>7, <1>8, <1>9, MovedAbout
<1> QED
  BY <1>4, <1>5, <1>10 DEF w

-----------------------------------------------------------------------------
(***************************************************************************)
(* Parts of a sequence.                                                    *)
(***************************************************************************)
LEMMA PartProperties ==
  ASSUME NEW S, NEW v \in Seq(S), NEW l \in Nat, NEW n \in Nat, l + n <= Len(v)
  PROVE  /\ Part(v, l, n) \in Seq(S)
         /\ Len(Part(v, l, n)) = n
         /\ \A k \in 1 .. n : Part(v, l, n)[k] = v[l + k]
<1>1. l + 1 \in Int /\ l + n \in Int /\ \A k \in (l + 1) .. (l + n) : v[k] \in S
  OBVIOUS
<1>2. /\ SubSeq(v, l + 1, l + n) \in Seq(S)
      /\ Len(SubSeq(v, l + 1, l + n)) =
           IF l + 1 <= l + n THEN l + n - (l + 1) + 1 ELSE 0
      /\ \A k \in 1 .. l + n - (l + 1) + 1 :
           SubSeq(v, l + 1, l + n)[k] = v[l + 1 + k - 1]
  BY <1>1, SubSeqProperties
<1>3. l + n - (l + 1) + 1 = n /\ \A k \in 1 .. n : l + 1 + k - 1 = l + k
  OBVIOUS
<1> QED
  BY <1>2, <1>3 DEF Part

LEMMA PartsAreAll ==
  ASSUME NEW S, NEW v \in Seq(S), NEW l \in Nat, NEW n \in Nat, l + n <= Len(v)
  PROVE  /\ Part(v, 0, l) \o Part(v, l, n) = Part(v, 0, l + n)
         /\ Part(v, 0, Len(v)) = v
<1>1. /\ Part(v, 0, l) \in Seq(S) /\ Len(Part(v, 0, l)) = l
      /\ \A k \in 1 .. l : Part(v, 0, l)[k] = v[k]
  BY PartProperties
<1>2. /\ Part(v, l, n) \in Seq(S) /\ Len(Part(v, l, n)) = n
      /\ \A k \in 1 .. n : Part(v, l, n)[k] = v[l + k]
  BY PartProperties
<1>3. /\ Part(v, 0, l + n) \in Seq(S) /\ Len(Part(v, 0, l + n)) = l + n
      /\ \A k \in 1 .. l + n : Part(v, 0, l + n)[k] = v[k]
  BY PartProperties
<1> DEFINE w == Part(v, 0, l) \o Part(v, l, n)
<1>4. /\ w \in Seq(S) /\ Len(w) = l + n
      /\ \A k \in 1 .. l + n : w[k] = IF k <= l THEN Part(v, 0, l)[k]
                                                ELSE Part(v, l, n)[k - l]
  <2> DEFINE a == Part(v, 0, l)
  <2> DEFINE b == Part(v, l, n)
  <2>1. a \in Seq(S) /\ Len(a) = l
    BY <1>1
  <2>2. b \in Seq(S) /\ Len(b) = n
    BY <1>2
  <2> HIDE DEF a, b
  <2>3. /\ a \o b \in Seq(S) /\ Len(a \o b) = Len(a) + Len(b)
        /\ \A k \in 1 .. Len(a) + Len(b) :
             (a \o b)[k] = IF k <= Len(a) THEN a[k] ELSE b[k - Len(a)]
    BY <2>1, <2>2, ConcatProperties
  <2>4. /\ a \o b \in Seq(S) /\ Len(a \o b) = l + n
        /\ \A k \in 1 .. l + n : (a \o b)[k] = IF k <= l THEN a[k] ELSE b[k - l]
    BY <2>1, <2>2, <2>3
  <2> QED
    BY <2>4 DEF a, b
<1> HIDE DEF w
<1>5. ASSUME NEW k \in 1 .. Len(w)
      PROVE  w[k] = Part(v, 0, l + n)[k]
  <2>1. CASE k <= l
    <3>1. k \in 1 .. l /\ k \in 1 .. l + n
      BY <2>1, <1>4
    <3>2. w[k] = Part(v, 0, l)[k]
      BY <2>1, <3>1, <1>4
    <3>3. Part(v, 0, l)[k] = v[k]
      BY <3>1, <1>1
    <3>4. Part(v, 0, l + n)[k] = v[k]
      BY <3>1, <1>3
    <3> QED
      BY <3>2, <3>3, <3>4
  <2>2. CASE k > l
    <3>1. k - l \in 1 .. n /\ l + (k - l) = k
      BY <2>2, <1>4
    <3> QED
      BY <2>2, <3>1, <1>2, <1>3, <1>4, SMTT(30)
  <2> QED
    BY <2>1, <2>2
<1>6. w = Part(v, 0, l + n)
  BY <1>3, <1>4, <1>5, SeqEqual
<1>7. Part(v, 0, Len(v)) = v
  <2>1. /\ Part(v, 0, Len(v)) \in Seq(S) /\ Len(Part(v, 0, Len(v))) = Len(v)
        /\ \A k \in 1 .. Len(v) : Part(v, 0, Len(v))[k] = v[k]
    BY PartProperties
  <2> QED
    BY <2>1, SeqEqual
<1> QED
  BY <1>6, <1>7 DEF w

LEMMA OccurrencesInParts ==
  ASSUME NEW S, NEW v \in Seq(S), NEW l \in Nat, NEW n \in Nat, l + n <= Len(v),
         NEW o
  PROVE  Occurrences(o, v) = Occurrences(o, Part(v, 0, l))
                             + Occurrences(o, Part(v, l, n))
                             + Occurrences(o, Part(v, l + n, Len(v) - l - n))
<1> DEFINE m == Len(v) - l - n
<1>1. m \in Nat /\ l + n \in Nat /\ l + n + m = Len(v) /\ Len(v) \in Nat
  OBVIOUS
<1> HIDE DEF m
<1>2. /\ Part(v, 0, l) \in Seq(S) /\ Part(v, l, n) \in Seq(S)
      /\ Part(v, 0, l + n) \in Seq(S) /\ Part(v, l + n, m) \in Seq(S)
  BY <1>1, PartProperties
<1>3. /\ Part(v, 0, l) \o Part(v, l, n) = Part(v, 0, l + n)
      /\ Part(v, 0, l + n) \o Part(v, l + n, m) = Part(v, 0, l + n + m)
      /\ Part(v, 0, l + n + m) = v
  <2>1. Part(v, 0, l) \o Part(v, l, n) = Part(v, 0, l + n)
    BY PartsAreAll
  <2>2. l + n + m <= Len(v)
    BY <1>1
  <2>3. Part(v, 0, l + n) \o Part(v, l + n, m) = Part(v, 0, l + n + m)
    BY <1>1, <2>2, PartsAreAll
  <2>4. Part(v, 0, Len(v)) = v
    BY PartsAreAll
  <2> QED
    BY <1>1, <2>1, <2>3, <2>4
<1>4. Occurrences(o, v) = Occurrences(o, Part(v, 0, l + n))
                          + Occurrences(o, Part(v, l + n, m))
  <2>1. Occurrences(o, Part(v, 0, l + n) \o Part(v, l + n, m)) =
          Occurrences(o, Part(v, 0, l + n)) + Occurrences(o, Part(v, l + n, m))
    BY <1>2, OccurrencesConcat
  <2> QED
    BY <1>3, <2>1
<1>5. Occurrences(o, Part(v, 0, l + n)) = Occurrences(o, Part(v, 0, l))
                                          + Occurrences(o, Part(v, l, n))
  <2>1. Occurrences(o, Part(v, 0, l) \o Part(v, l, n)) =
          Occurrences(o, Part(v, 0, l)) + Occurrences(o, Part(v, l, n))
    BY <1>2, OccurrencesConcat
  <2> QED
    BY <1>3, <2>1
<1> QED
  BY <1>4, <1>5 DEF m

(***************************************************************************)
(* A set of places that is not empty has a last one.                       *)
(***************************************************************************)
LEMMA LastPlace ==
  ASSUME NEW n \in Nat, NEW A \in SUBSET (1 .. n), A # {}
  PROVE  \E k \in A : \A l \in A : l <= k
<1> DEFINE B == {n - k : k \in A}
<1>1. B \in SUBSET Nat /\ B # {}
  <2>1. \A k \in A : n - k \in Nat
    OBVIOUS
  <2>2. B \in SUBSET Nat
    BY <2>1
  <2> QED
    BY <2>2
<1>2. PICK b \in B : \A c \in B : b <= c
  <2> HIDE DEF B
  <2> QED
    BY <1>1, LeastNatural
<1>3. PICK k \in A : b = n - k
  OBVIOUS
<1>4. \A l \in A : n - k <= n - l
  BY <1>2, <1>3
<1> QED
  BY <1>4

-----------------------------------------------------------------------------
(***************************************************************************)
(* The sort.                                                               *)
(***************************************************************************)
Ranges == [base : Nat, n : Nat]

Apart(r, t) == r.base + r.n <= t.base \/ t.base + t.n <= r.base

AreApart(todo, length) ==
  /\ \A k \in DOMAIN todo : todo[k].base + todo[k].n <= length
  /\ \A k, l \in DOMAIN todo : k # l => Apart(todo[k], todo[l])

SortType == [v : Seq(Objects), todo : Seq(Ranges), i : Nat, j : Nat,
             walks : {"none", "i", "j", "broken", "raised"}]

(***************************************************************************)
(* The ranges that are left are apart, the current one has two places at   *)
(* least, and the walkers are in it; place i is in front of place j while  *)
(* it is compared.                                                         *)
(***************************************************************************)
Inside(s) ==
  /\ s \in SortType
  /\ AreApart(s.todo, Len(s.v))
  /\ s.todo = << >> => s.walks \in {"none", "raised"}
  /\ s.todo # << >> =>
       /\ Current(s).n > 1
       /\ s.i < Current(s).n /\ s.j < Current(s).n
       /\ s.walks \in {"i", "j", "broken"}
       /\ s.walks = "i" => s.i < s.j

SameObjects(v, w) ==
  Len(v) = Len(w) /\ \A o : Occurrences(o, v) = Occurrences(o, w)

LEMMA CurrentProperties ==
  ASSUME NEW s, Inside(s), s.todo # << >>
  PROVE  /\ Len(s.todo) \in 1 .. Len(s.todo) /\ Len(s.todo) \in Nat
         /\ Current(s) = s.todo[Len(s.todo)]
         /\ Current(s).base \in Nat /\ Current(s).n \in Nat
         /\ Current(s) \in Ranges
         /\ Current(s).base + Current(s).n <= Len(s.v)
         /\ s.v \in Seq(Objects) /\ Len(s.v) \in Nat
         /\ s.todo \in Seq(Ranges)
         /\ s.i \in Nat /\ s.j \in Nat
<1>1. s.todo \in Seq(Ranges) /\ s.v \in Seq(Objects) /\ s.i \in Nat /\ s.j \in Nat
  BY DEF Inside, SortType
<1>2. Len(s.todo) \in Nat /\ Len(s.todo) # 0 /\ Len(s.v) \in Nat
  BY <1>1
<1>3. Len(s.todo) \in 1 .. Len(s.todo) /\ DOMAIN s.todo = 1 .. Len(s.todo)
  BY <1>1, <1>2
<1>4. s.todo[Len(s.todo)] \in Ranges
  BY <1>1, <1>3
<1>5. \A k \in DOMAIN s.todo : s.todo[k].base + s.todo[k].n <= Len(s.v)
  BY DEF Inside, AreApart
<1> QED
  BY <1>1, <1>2, <1>3, <1>4, <1>5 DEF Current, Ranges

(***************************************************************************)
(* What is left to be started: the last range that is long enough becomes  *)
(* the current one; those behind it have one place or none.                *)
(***************************************************************************)
LEMMA StartedProperties ==
  ASSUME NEW v \in Seq(Objects), NEW todo \in Seq(Ranges), AreApart(todo, Len(v)),
         NEW s, s = Started(v, todo)
  PROVE  \/ /\ \A k \in 1 .. Len(todo) : todo[k].n <= 1
            /\ s = [v |-> v, todo |-> << >>, i |-> 0, j |-> 0, walks |-> "none"]
         \/ \E last \in 1 .. Len(todo) :
              /\ todo[last].n > 1
              /\ \A k \in 1 .. Len(todo) : k > last => todo[k].n <= 1
              /\ s = [v |-> Swapped(v, todo[last].base,
                                    todo[last].base + (todo[last].n \div 2)),
                      todo |-> SubSeq(todo, 1, last),
                      i |-> 0, j |-> todo[last].n - 1, walks |-> "j"]
<1> DEFINE long == {k \in DOMAIN todo : todo[k].n > 1}
<1> DEFINE last == CHOOSE k \in long : \A l \in long : l <= k
<1>1. DOMAIN todo = 1 .. Len(todo) /\ Len(todo) \in Nat
      /\ \A k \in 1 .. Len(todo) : todo[k].n \in Nat
  <2>1. DOMAIN todo = 1 .. Len(todo) /\ Len(todo) \in Nat
    OBVIOUS
  <2>2. \A k \in 1 .. Len(todo) : todo[k] \in Ranges
    OBVIOUS
  <2> QED
    BY <2>1, <2>2 DEF Ranges
<1>2. CASE long = {}
  <2>1. \A k \in 1 .. Len(todo) : todo[k].n <= 1
    BY <1>1, <1>2
  <2>2. s = [v |-> v, todo |-> << >>, i |-> 0, j |-> 0, walks |-> "none"]
    BY <1>2 DEF Started
  <2> QED
    BY <2>1, <2>2
<1>3. CASE long # {}
  <2>1. long \in SUBSET (1 .. Len(todo))
    BY <1>1
  <2>2. \E k \in long : \A l \in long : l <= k
    <3> HIDE DEF long
    <3> QED
      BY <1>1, <1>3, <2>1, LastPlace
  <2>3. last \in long /\ \A l \in long : l <= last
    BY <2>2
  <2>4. s = [v |-> Swapped(v, todo[last].base, todo[last].base + (todo[last].n \div 2)),
             todo |-> SubSeq(todo, 1, last),
             i |-> 0, j |-> todo[last].n - 1, walks |-> "j"]
    BY <1>3 DEF Started
  <2> HIDE DEF last
  <2>5. last \in 1 .. Len(todo) /\ todo[last].n > 1
    BY <1>1, <2>3
  <2>6. \A k \in 1 .. Len(todo) : k > last => todo[k].n <= 1
    BY <1>1, <2>3, <2>5
  <2> QED
    BY <2>4, <2>5, <2>6
<1> QED
  BY <1>2, <1>3

LEMMA FirstOnes ==
  ASSUME NEW S, NEW t \in Seq(S), NEW last \in 1 .. Len(t)
  PROVE  /\ SubSeq(t, 1, last) \in Seq(S)
         /\ Len(SubSeq(t, 1, last)) = last
         /\ \A k \in 1 .. last : SubSeq(t, 1, last)[k] = t[k]
<1>1. last \in Nat /\ 0 + last <= Len(t)
  OBVIOUS
<1>2. Part(t, 0, last) = SubSeq(t, 1, last)
  BY <1>1 DEF Part
<1>3. /\ Part(t, 0, last) \in Seq(S)
      /\ Len(Part(t, 0, last)) = last
      /\ \A k \in 1 .. last : Part(t, 0, last)[k] = t[0 + k]
  BY <1>1, PartProperties
<1>4. \A k \in 1 .. last : 0 + k = k
  OBVIOUS
<1> QED
  BY <1>2, <1>3, <1>4

LEMMA StartedKeeps ==
  ASSUME NEW v \in Seq(Objects), NEW todo \in Seq(Ranges), AreApart(todo, Len(v))
  PROVE  Inside(Started(v, todo)) /\ SameObjects(Started(v, todo).v, v)
<1> DEFINE s == Started(v, todo)
<1>1. CASE s = [v |-> v, todo |-> << >>, i |-> 0, j |-> 0, walks |-> "none"]
  <2>1. s \in SortType
    BY <1>1 DEF SortType
  <2>2. s.todo = << >> /\ s.walks = "none" /\ s.v = v
    BY <1>1
  <2>3. AreApart(s.todo, Len(s.v))
    BY <2>2 DEF AreApart
  <2> HIDE DEF s
  <2> QED
    BY <2>1, <2>2, <2>3 DEF Inside, SameObjects, s
<1>2. ASSUME NEW last \in 1 .. Len(todo),
             todo[last].n > 1,
             s = [v |-> Swapped(v, todo[last].base,
                                todo[last].base + (todo[last].n \div 2)),
                  todo |-> SubSeq(todo, 1, last),
                  i |-> 0, j |-> todo[last].n - 1, walks |-> "j"]
      PROVE  Inside(s) /\ SameObjects(s.v, v)
  <2> DEFINE r == todo[last]
  <2> DEFINE w == Swapped(v, r.base, r.base + (r.n \div 2))
  <2> DEFINE t == SubSeq(todo, 1, last)
  <2>1. r \in Ranges /\ r.base \in Nat /\ r.n \in Nat /\ r.n > 1
    <3>1. todo[last] \in Ranges
      BY <1>2
    <3> QED
      BY <1>2, <3>1 DEF Ranges
  <2>2. r.base + r.n <= Len(v)
    BY DEF AreApart
  <2>3. s.v = w /\ s.todo = t /\ s.i = 0 /\ s.j = r.n - 1 /\ s.walks = "j"
        /\ s = [v |-> w, todo |-> t, i |-> 0, j |-> r.n - 1, walks |-> "j"]
    BY <1>2
  <2> HIDE DEF s, r
  <2>4. Len(v) \in Nat /\ r.n \div 2 \in 0 .. r.n - 1
    BY <2>1
  <2>5. r.base \in 0 .. Len(v) - 1 /\ r.base + (r.n \div 2) \in 0 .. Len(v) - 1
    BY <2>1, <2>2, <2>4
  <2>6. /\ w \in Seq(Objects) /\ Len(w) = Len(v)
        /\ \A o : Occurrences(o, w) = Occurrences(o, v)
    BY <2>5, SwappedProperties
  <2>7. t \in Seq(Ranges) /\ Len(t) = last /\ \A k \in 1 .. last : t[k] = todo[k]
    BY FirstOnes
  <2> HIDE DEF t, w
  <2>8. s \in SortType
    BY <2>1, <2>3, <2>6, <2>7 DEF SortType
  <2>9. DOMAIN t = 1 .. last /\ last \in Nat /\ \A k \in 1 .. last : k \in DOMAIN todo
    BY <2>7
  <2>10. AreApart(t, Len(w))
    BY <2>6, <2>7, <2>9 DEF AreApart
  <2>11. Current(s) = r /\ t # << >>
    <3>1. t[Len(t)] = todo[last]
      BY <2>7, <2>9
    <3> QED
      BY <2>3, <2>7, <3>1 DEF Current, r
  <2>12. Inside(s)
    BY <2>1, <2>3, <2>8, <2>10, <2>11 DEF Inside
  <2> QED
    BY <2>3, <2>6, <2>12 DEF SameObjects
<1> QED
  BY <1>1, <1>2, StartedProperties

(***************************************************************************)
(* The current range is replaced by two.                                   *)
(***************************************************************************)
OuterAnd(t, a, b) == SubSeq(t, 1, Len(t) - 1) \o <<a, b>>

LEMMA OuterAndTwo ==
  ASSUME NEW S, NEW t \in Seq(S), t # << >>, NEW a \in S, NEW b \in S
  PROVE  /\ OuterAnd(t, a, b) \in Seq(S)
         /\ Len(OuterAnd(t, a, b)) = Len(t) + 1
         /\ \A k \in 1 .. Len(t) - 1 : OuterAnd(t, a, b)[k] = t[k]
         /\ OuterAnd(t, a, b)[Len(t)] = a
         /\ OuterAnd(t, a, b)[Len(t) + 1] = b
<1> DEFINE u == OuterAnd(t, a, b)
<1>1. Len(t) \in Nat /\ Len(t) >= 1
  OBVIOUS
<1> DEFINE m == Len(t) - 1
<1> DEFINE f == SubSeq(t, 1, m)
<1>2. m \in Nat /\ Len(t) = m + 1
  BY <1>1
<1>3. f \in Seq(S) /\ Len(f) = m /\ \A k \in 1 .. m : f[k] = t[k]
  <2>1. f = Part(t, 0, m)
    BY <1>2 DEF Part
  <2>2. \A k \in 1 .. m : 0 + k = k
    OBVIOUS
  <2> HIDE DEF m
  <2> QED
    BY <1>2, <2>1, <2>2, PartProperties
<1> HIDE DEF m, f
<1>4. <<a, b>> \in Seq(S) /\ Len(<<a, b>>) = 2 /\ <<a, b>>[1] = a /\ <<a, b>>[2] = b
  OBVIOUS
<1>5. u = f \o <<a, b>>
  BY DEF f, m, OuterAnd
<1>6. /\ u \in Seq(S) /\ Len(u) = m + 2
      /\ \A k \in 1 .. m + 2 : u[k] = IF k <= m THEN f[k] ELSE <<a, b>>[k - m]
  BY <1>3, <1>4, <1>5, ConcatProperties
<1>7. \A k \in 1 .. m : u[k] = t[k]
  BY <1>2, <1>3, <1>6
<1>8. u[m + 1] = a
  <2>1. m + 1 \in 1 .. m + 2 /\ ~(m + 1 <= m) /\ (m + 1) - m = 1
    BY <1>2
  <2> QED
    BY <1>4, <1>6, <2>1
<1>9. u[m + 2] = b
  <2>1. m + 2 \in 1 .. m + 2 /\ ~(m + 2 <= m) /\ (m + 2) - m = 2
    BY <1>2
  <2> QED
    BY <1>4, <1>6, <2>1
<1>10. m + 2 = Len(t) + 1 /\ m + 1 = Len(t)
  BY <1>1 DEF m
<1> HIDE DEF u
<1>11. /\ u \in Seq(S) /\ Len(u) = Len(t) + 1
       /\ \A k \in 1 .. Len(t) - 1 : u[k] = t[k]
       /\ u[Len(t)] = a /\ u[Len(t) + 1] = b
  BY <1>6, <1>7, <1>8, <1>9, <1>10 DEF m
<1> QED
  BY <1>11 DEF u

(***************************************************************************)
(* The pivot goes to place j; in front of it and behind it are the two     *)
(* ranges that are left of the current one, the shorter of them first.     *)
(***************************************************************************)
Splits(u, todo, r, j) ==
  LET m == Len(todo)
  IN  /\ Len(u) = m + 1
      /\ \A k \in 1 .. m - 1 : u[k] = todo[k]
      /\ u[m + 1].n <= u[m].n
      /\ \/ /\ u[m] = Run(r.base, j)
            /\ u[m + 1] = Run(r.base + j + 1, r.n - j - 1)
         \/ /\ u[m + 1] = Run(r.base, j)
            /\ u[m] = Run(r.base + j + 1, r.n - j - 1)

LEMMA PartitionedProperties ==
  ASSUME NEW s, Inside(s), s.todo # << >>
  PROVE  \E u \in Seq(Ranges) :
           /\ Partitioned(s) = Started(Swapped(s.v, Current(s).base + s.j,
                                               Current(s).base), u)
           /\ Splits(u, s.todo, Current(s), s.j)
           /\ AreApart(u, Len(s.v))
<1> DEFINE r == Current(s)
<1> DEFINE m == Len(s.todo)
<1> DEFINE left == Run(r.base, s.j)
<1> DEFINE right == Run(r.base + s.j + 1, r.n - s.j - 1)
<1> DEFINE a == IF left.n < right.n THEN right ELSE left
<1> DEFINE b == IF left.n < right.n THEN left ELSE right
<1> DEFINE u == SubSeq(s.todo, 1, Len(s.todo) - 1) \o <<a, b>>
<1>1. /\ m \in 1 .. m /\ m \in Nat /\ r = s.todo[m] /\ r.base \in Nat /\ r.n \in Nat
      /\ r.base + r.n <= Len(s.v) /\ Len(s.v) \in Nat
      /\ s.todo \in Seq(Ranges) /\ s.i \in Nat /\ s.j \in Nat
  BY CurrentProperties
<1>2. s.j < r.n /\ r.n > 1
  BY DEF Inside
<1> HIDE DEF r, m
<1>3. Partitioned(s) = Started(Swapped(s.v, r.base + s.j, r.base), u)
  <2>1. u = SubSeq(s.todo, 1, Len(s.todo) - 1)
              \o (IF left.n < right.n THEN <<right, left>> ELSE <<left, right>>)
    OBVIOUS
  <2> HIDE DEF u
  <2> QED
    BY <2>1 DEF Partitioned, r
<1>4. left \in Ranges /\ right \in Ranges
  <2>1. r.base + s.j + 1 \in Nat /\ r.n - s.j - 1 \in Nat
    BY <1>1, <1>2
  <2>2. [base |-> r.base, n |-> s.j] \in Ranges
    BY <1>1 DEF Ranges
  <2>3. [base |-> r.base + s.j + 1, n |-> r.n - s.j - 1] \in Ranges
    BY <2>1 DEF Ranges
  <2> QED
    BY <2>2, <2>3 DEF Run
<1>5. left.base = r.base /\ left.n = s.j /\ right.base = r.base + s.j + 1 /\ right.n = r.n - s.j - 1
  BY DEF Run
<1>6. a \in Ranges /\ b \in Ranges /\ ((a = left /\ b = right) \/ (a = right /\ b = left))
  BY <1>4
<1>16. b.n <= a.n
  BY <1>4 DEF Ranges
<1> HIDE DEF a, b
<1>7. /\ u \in Seq(Ranges) /\ Len(u) = m + 1
      /\ \A k \in 1 .. m - 1 : u[k] = s.todo[k]
      /\ u[m] = a /\ u[m + 1] = b
  <2>1. u = OuterAnd(s.todo, a, b)
    BY DEF OuterAnd
  <2>2. a \in Ranges
    BY <1>6
  <2>3. b \in Ranges
    BY <1>6
  <2>4. s.todo \in Seq(Ranges)
    BY <1>1
  <2> DEFINE t == s.todo
  <2>5. t \in Seq(Ranges) /\ t # << >> /\ u = OuterAnd(t, a, b)
    BY <2>1, <2>4
  <2> HIDE DEF u, t
  <2>7. t \in Seq(Ranges)
    BY <2>5
  <2>8. t # << >>
    BY <2>5
  <2>6. /\ u \in Seq(Ranges) /\ Len(u) = Len(t) + 1
        /\ \A k \in 1 .. Len(t) - 1 : u[k] = t[k]
        /\ u[Len(t)] = a /\ u[Len(t) + 1] = b
    <3>1. /\ OuterAnd(t, a, b) \in Seq(Ranges)
          /\ Len(OuterAnd(t, a, b)) = Len(t) + 1
          /\ \A k \in 1 .. Len(t) - 1 : OuterAnd(t, a, b)[k] = t[k]
          /\ OuterAnd(t, a, b)[Len(t)] = a
          /\ OuterAnd(t, a, b)[Len(t) + 1] = b
      BY <2>2, <2>3, <2>7, <2>8, OuterAndTwo
    <3> QED
      BY <2>5, <3>1
  <2> QED
    BY <2>6 DEF t, m
<1> HIDE DEF u, left, right
<1>8. /\ \A k \in 1 .. m : s.todo[k].base + s.todo[k].n <= Len(s.v) /\ s.todo[k] \in Ranges
      /\ \A k, l \in 1 .. m : k # l => Apart(s.todo[k], s.todo[l])
  BY <1>1 DEF Inside, AreApart, m
<1>9. DOMAIN u = 1 .. m + 1
  BY <1>7
<1> DEFINE B == r.base
<1> DEFINE N == r.n
<1> DEFINE J == s.j
<1>20. B \in Nat /\ N \in Nat /\ J \in Nat /\ J < N /\ B + N <= Len(s.v) /\ Len(s.v) \in Nat
  BY <1>1, <1>2
<1>21. left.base = B /\ left.n = J /\ right.base = B + J + 1 /\ right.n = N - J - 1
  BY <1>5
<1> HIDE DEF B, N, J
<1>10. /\ a.base + a.n <= Len(s.v) /\ b.base + b.n <= Len(s.v)
       /\ Apart(a, b) /\ Apart(b, a)
  <2>1. /\ left.base + left.n <= Len(s.v) /\ right.base + right.n <= Len(s.v)
        /\ Apart(left, right) /\ Apart(right, left)
    BY <1>20, <1>21 DEF Apart
  <2> QED
    BY <2>1, <1>6
<1>11. ASSUME NEW k \in 1 .. m - 1
       PROVE  Apart(s.todo[k], a) /\ Apart(s.todo[k], b) /\ Apart(a, s.todo[k]) /\ Apart(b, s.todo[k])
  <2>1. k \in 1 .. m /\ k # m
    BY <1>1
  <2>2. Apart(s.todo[k], r) /\ s.todo[k].base \in Nat /\ s.todo[k].n \in Nat
    BY <1>1, <1>8, <2>1 DEF Ranges
  <2>3. Apart(s.todo[k], left) /\ Apart(s.todo[k], right)
    <3> DEFINE c == s.todo[k].base
    <3> DEFINE d == s.todo[k].n
    <3>1. c \in Nat /\ d \in Nat /\ (c + d <= B \/ B + N <= c)
      BY <2>2 DEF Apart, B, N
    <3>2. /\ Apart(s.todo[k], left) <=> (c + d <= left.base \/ left.base + left.n <= c)
          /\ Apart(s.todo[k], right) <=> (c + d <= right.base \/ right.base + right.n <= c)
      BY DEF Apart
    <3> HIDE DEF c, d
    <3>3. /\ c + d <= left.base \/ left.base + left.n <= c
          /\ c + d <= right.base \/ right.base + right.n <= c
      BY <1>20, <1>21, <3>1
    <3> QED
      BY <3>2, <3>3
  <2>4. Apart(left, s.todo[k]) /\ Apart(right, s.todo[k])
    BY <2>3 DEF Apart
  <2> QED
    BY <2>3, <2>4, <1>6
<1>12. ASSUME NEW k \in 1 .. m + 1
       PROVE  u[k].base + u[k].n <= Len(s.v)
  <2>1. k \in 1 .. m - 1 \/ k = m \/ k = m + 1
    BY <1>1
  <2> QED
    BY <2>1, <1>1, <1>7, <1>8, <1>10
<1>13. ASSUME NEW k \in 1 .. m + 1, NEW l \in 1 .. m + 1, k # l
       PROVE  Apart(u[k], u[l])
  <2>1. (k \in 1 .. m - 1 \/ k = m \/ k = m + 1) /\ (l \in 1 .. m - 1 \/ l = m \/ l = m + 1)
    BY <1>1
  <2>2. CASE k \in 1 .. m - 1 /\ l \in 1 .. m - 1
    BY <2>2, <1>1, <1>7, <1>8, <1>13
  <2>3. CASE k \in 1 .. m - 1 /\ l \notin 1 .. m - 1
    BY <2>1, <2>3, <1>7, <1>11
  <2>4. CASE k \notin 1 .. m - 1 /\ l \in 1 .. m - 1
    BY <2>1, <2>4, <1>7, <1>11
  <2>5. CASE k \notin 1 .. m - 1 /\ l \notin 1 .. m - 1
    BY <2>1, <2>5, <1>7, <1>10, <1>13
  <2> QED
    BY <2>2, <2>3, <2>4, <2>5
<1>14. AreApart(u, Len(s.v))
  BY <1>9, <1>12, <1>13 DEF AreApart
<1>15. Splits(u, s.todo, r, s.j)
  BY <1>6, <1>7, <1>16 DEF Splits, left, right, m
<1> QED
  BY <1>3, <1>7, <1>14, <1>15 DEF r

LEMMA PartitionedKeeps ==
  ASSUME NEW s, Inside(s), s.todo # << >>
  PROVE  Inside(Partitioned(s)) /\ SameObjects(Partitioned(s).v, s.v)
<1> DEFINE r == Current(s)
<1> DEFINE w == Swapped(s.v, r.base + s.j, r.base)
<1>1. /\ r.base \in Nat /\ r.n \in Nat /\ r.base + r.n <= Len(s.v)
      /\ s.v \in Seq(Objects) /\ Len(s.v) \in Nat /\ s.j \in Nat
  BY CurrentProperties
<1>2. s.j < r.n
  BY DEF Inside
<1>3. PICK u \in Seq(Ranges) : Partitioned(s) = Started(w, u) /\ AreApart(u, Len(s.v))
  BY PartitionedProperties
<1>4. r.base + s.j \in 0 .. Len(s.v) - 1 /\ r.base \in 0 .. Len(s.v) - 1
  BY <1>1, <1>2
<1> HIDE DEF r
<1>5. /\ w \in Seq(Objects) /\ Len(w) = Len(s.v)
      /\ \A o : Occurrences(o, w) = Occurrences(o, s.v)
  <2>1. s.v \in Seq(Objects)
    BY <1>1
  <2>2. r.base + s.j \in 0 .. Len(s.v) - 1
    BY <1>4
  <2>3. r.base \in 0 .. Len(s.v) - 1
    BY <1>4
  <2> QED
    BY <2>1, <2>2, <2>3, SwappedProperties
<1> HIDE DEF w
<1>6. Inside(Started(w, u)) /\ SameObjects(Started(w, u).v, w)
  BY <1>3, <1>5, StartedKeeps
<1> QED
  BY <1>3, <1>5, <1>6 DEF SameObjects

LEMMA IncrementKeeps ==
  ASSUME NEW s, Inside(s), s.todo # << >>, s.walks # "broken"
  PROVE  Inside(IncrementI(s)) /\ SameObjects(IncrementI(s).v, s.v)
<1>1. CASE s.i + 1 >= s.j
  BY <1>1, PartitionedKeeps DEF IncrementI
<1>2. CASE ~(s.i + 1 >= s.j)
  <2> DEFINE t == [s EXCEPT !.i = @ + 1, !.walks = "i"]
  <2>1. IncrementI(s) = t
    BY <1>2 DEF IncrementI
  <2>2. s \in SortType
    BY DEF Inside
  <2>3. /\ t \in SortType /\ t.v = s.v /\ t.todo = s.todo /\ t.i = s.i + 1
        /\ t.j = s.j /\ t.walks = "i"
    <3>1. s.i + 1 \in Nat
      BY CurrentProperties
    <3> QED
      BY <2>2, <3>1 DEF SortType
  <2> HIDE DEF t
  <2>4. s.i \in Nat /\ s.j \in Nat /\ Current(t) = Current(s) /\ Current(s).n \in Nat
    BY <2>3, CurrentProperties DEF Current
  <2>5. /\ Current(t).n > 1 /\ t.j < Current(t).n
        /\ t.i < t.j /\ t.i < Current(t).n
    BY <1>2, <2>3, <2>4 DEF Inside
  <2>6. AreApart(t.todo, Len(t.v))
    BY <2>3 DEF Inside
  <2>7. Inside(t)
    BY <2>3, <2>5, <2>6 DEF Inside
  <2> QED
    BY <2>1, <2>3, <2>7 DEF SameObjects
<1> QED
  BY <1>1, <1>2

(***************************************************************************)
(* Whatever the comparator answers.                                        *)
(***************************************************************************)
LEMMA ComparedKeeps ==
  ASSUME NEW s, Inside(s), s.todo # << >>, s.walks # "broken", NEW answer \in Int
  PROVE  Inside(Compared(s, answer)) /\ SameObjects(Compared(s, answer).v, s.v)
<1>1. /\ s \in SortType /\ s.i \in Nat /\ s.j \in Nat /\ Current(s).n \in Nat
      /\ Current(s).base \in Nat /\ Current(s).base + Current(s).n <= Len(s.v)
      /\ s.v \in Seq(Objects) /\ Len(s.v) \in Nat
  BY CurrentProperties DEF Inside
<1>2. /\ AreApart(s.todo, Len(s.v))
      /\ Current(s).n > 1 /\ s.i < Current(s).n /\ s.j < Current(s).n
      /\ s.walks \in {"i", "j"} /\ (s.walks = "i" => s.i < s.j)
  BY DEF Inside
<1>3. CASE s.walks = "j" /\ answer > 0 /\ s.j = 0
  <2> DEFINE t == [s EXCEPT !.walks = "broken"]
  <2>1. Compared(s, answer) = t
    BY <1>3 DEF Compared
  <2>2. /\ t \in SortType /\ t.v = s.v /\ t.todo = s.todo /\ t.i = s.i
        /\ t.j = s.j /\ t.walks = "broken"
    BY <1>1 DEF SortType
  <2> HIDE DEF t
  <2>3. Current(t) = Current(s)
    BY <2>2 DEF Current
  <2>4. Inside(t)
    BY <1>2, <2>2, <2>3 DEF Inside
  <2> QED
    BY <2>1, <2>2, <2>4 DEF SameObjects
<1>4. CASE s.walks = "j" /\ answer > 0 /\ s.j > 0
  <2> DEFINE t == [s EXCEPT !.j = @ - 1]
  <2>1. Compared(s, answer) = t
    BY <1>4 DEF Compared
  <2>2. s.j - 1 \in Nat
    BY <1>1, <1>4
  <2>3. /\ t \in SortType /\ t.v = s.v /\ t.todo = s.todo /\ t.i = s.i
        /\ t.j = s.j - 1 /\ t.walks = "j"
    BY <1>1, <1>4, <2>2 DEF SortType
  <2> HIDE DEF t
  <2>4. Current(t) = Current(s)
    BY <2>3 DEF Current
  <2>5. t.j < Current(t).n
    BY <1>1, <1>2, <2>3, <2>4
  <2>6. Inside(t)
    BY <1>2, <2>3, <2>4, <2>5 DEF Inside
  <2> QED
    BY <2>1, <2>3, <2>6 DEF SameObjects
<1>5. CASE (s.walks = "j" /\ answer <= 0) \/ (s.walks = "i" /\ answer < 0)
  <2>1. Compared(s, answer) = IncrementI(s)
    BY <1>5 DEF Compared
  <2> QED
    BY <2>1, IncrementKeeps
<1>6. CASE s.walks = "i" /\ answer >= 0
  <2> DEFINE a == Current(s).base + s.i
  <2> DEFINE b == Current(s).base + s.j
  <2> DEFINE w == Swapped(s.v, a, b)
  <2> DEFINE t == [s EXCEPT !.v = w, !.j = s.j - 1, !.walks = "j"]
  <2>1. Compared(s, answer) = t
    BY <1>6 DEF Compared
  <2>2. s.j - 1 \in Nat
    BY <1>1, <1>2, <1>6
  <2>3. a \in 0 .. Len(s.v) - 1 /\ b \in 0 .. Len(s.v) - 1
    BY <1>1, <1>2
  <2> HIDE DEF a, b
  <2>4. /\ w \in Seq(Objects) /\ Len(w) = Len(s.v)
        /\ \A o : Occurrences(o, w) = Occurrences(o, s.v)
    <3>1. s.v \in Seq(Objects)
      BY <1>1
    <3>2. a \in 0 .. Len(s.v) - 1
      BY <2>3
    <3>3. b \in 0 .. Len(s.v) - 1
      BY <2>3
    <3> QED
      BY ONLY <3>1, <3>2, <3>3, SwappedProperties DEF w
  <2> HIDE DEF w
  <2>5. /\ t \in SortType /\ t.v = w /\ t.todo = s.todo /\ t.i = s.i
        /\ t.j = s.j - 1 /\ t.walks = "j"
    BY <1>1, <2>2, <2>4 DEF SortType
  <2> HIDE DEF t
  <2>6. Current(t) = Current(s)
    BY <2>5 DEF Current
  <2>7. t.j < Current(t).n
    BY <1>1, <1>2, <2>5, <2>6
  <2>8. Inside(t)
    BY <1>2, <2>4, <2>5, <2>6, <2>7 DEF Inside
  <2> QED
    BY <2>1, <2>4, <2>5, <2>8 DEF SameObjects
<1>7. s.j = 0 \/ s.j > 0
  BY <1>1
<1>8. answer > 0 \/ answer <= 0
  OBVIOUS
<1>9. answer < 0 \/ answer >= 0
  OBVIOUS
<1> QED
  BY <1>2, <1>3, <1>4, <1>5, <1>6, <1>7, <1>8, <1>9

(***************************************************************************)
(* Two places are in order, or they are in one of the ranges that are left *)
(* to be sorted.                                                           *)
(***************************************************************************)
Ordered(v, todo) ==
  \A p, q \in 1 .. Len(v) :
    p < q => Worth[v[p]] <= Worth[v[q]] \/ Together(todo, p, q)

LEMMA WorthIsInteger ==
  ASSUME NEW v \in Seq(Objects), NEW k \in 1 .. Len(v)
  PROVE  v[k] \in Objects /\ Worth[v[k]] \in Int
<1>1. v[k] \in Objects
  OBVIOUS
<1> QED
  BY <1>1, WorthAssumption

(***************************************************************************)
(* The order survives an exchange in one of these ranges.                  *)
(***************************************************************************)
LEMMA SwappedInRange ==
  ASSUME NEW v \in Seq(Objects), NEW todo \in Seq(Ranges), AreApart(todo, Len(v)),
         Ordered(v, todo), NEW k \in 1 .. Len(todo),
         NEW a \in Nat, todo[k].base <= a, a < todo[k].base + todo[k].n,
         NEW b \in Nat, todo[k].base <= b, b < todo[k].base + todo[k].n
  PROVE  Ordered(Swapped(v, a, b), todo)
<1> DEFINE w == Swapped(v, a, b)
<1> DEFINE from(p) == IF p = a + 1 THEN b + 1 ELSE IF p = b + 1 THEN a + 1 ELSE p
<1> DEFINE B == todo[k].base
<1> DEFINE E == todo[k].base + todo[k].n
<1>1. DOMAIN todo = 1 .. Len(todo) /\ \A l \in 1 .. Len(todo) : todo[l] \in Ranges
  OBVIOUS
<1>2. B \in Nat /\ E \in Nat /\ E <= Len(v) /\ Len(v) \in Nat
  BY <1>1 DEF AreApart, Ranges
<1>3. \A p : Within(todo[k], p) <=> B < p /\ p <= E
  BY DEF Within
<1>4. B <= a /\ a < E /\ B <= b /\ b < E
  OBVIOUS
<1> HIDE DEF B, E
<1>5. a \in 0 .. Len(v) - 1 /\ b \in 0 .. Len(v) - 1
  BY <1>2, <1>4
<1>6. /\ w \in Seq(Objects) /\ Len(w) = Len(v)
      /\ \A p \in 1 .. Len(v) : w[p] = IF p = a + 1 THEN v[b + 1]
                                      ELSE IF p = b + 1 THEN v[a + 1] ELSE v[p]
  BY <1>5, SwappedProperties
<1> HIDE DEF w
<1>7. \A p \in 1 .. Len(v) : w[p] = v[from(p)] /\ from(p) \in 1 .. Len(v)
  BY <1>2, <1>4, <1>6
<1> SUFFICES ASSUME NEW p \in 1 .. Len(w), NEW q \in 1 .. Len(w), p < q,
                    ~Together(todo, p, q)
             PROVE  Worth[w[p]] <= Worth[w[q]]
  BY DEF Ordered, w
<1>8. p \in 1 .. Len(v) /\ q \in 1 .. Len(v)
  BY <1>6
<1>9. ~(B < p /\ p <= E) \/ ~(B < q /\ q <= E)
  BY <1>1, <1>3 DEF Together
<1>10. from(p) < from(q)
  BY <1>2, <1>4, <1>8, <1>9
<1>11. /\ B < p /\ p <= E <=> B < from(p) /\ from(p) <= E
       /\ B < q /\ q <= E <=> B < from(q) /\ from(q) <= E
       /\ ~(B < p /\ p <= E) => from(p) = p
       /\ ~(B < q /\ q <= E) => from(q) = q
  BY <1>2, <1>4, <1>8
<1>12. from(p) \in 1 .. Len(v) /\ from(q) \in 1 .. Len(v) /\ w[p] = v[from(p)] /\ w[q] = v[from(q)]
  BY <1>7, <1>8
<1> DEFINE x == from(p)
<1> DEFINE y == from(q)
<1>13. /\ x \in 1 .. Len(v) /\ y \in 1 .. Len(v) /\ x < y /\ w[p] = v[x] /\ w[q] = v[y]
       /\ B < p /\ p <= E <=> B < x /\ x <= E
       /\ B < q /\ q <= E <=> B < y /\ y <= E
       /\ ~(B < p /\ p <= E) => x = p
       /\ ~(B < q /\ q <= E) => y = q
  BY <1>10, <1>11, <1>12
<1> HIDE DEF x, y, from
<1>14. ASSUME Together(todo, x, y)
       PROVE  FALSE
  <2>1. PICK l \in 1 .. Len(todo) : Within(todo[l], x) /\ Within(todo[l], y)
    BY <1>1, <1>14 DEF Together
  <2> DEFINE C == todo[l].base
  <2> DEFINE D == todo[l].base + todo[l].n
  <2>2. C \in Nat /\ D \in Nat
    BY <1>1, SMTT(30) DEF Ranges
  <2>3. C < x /\ x <= D /\ C < y /\ y <= D
    BY <2>1 DEF Within
  <2>4. l # k
    BY <1>3, <1>9, <1>13, <2>1
  <2>5. D <= B \/ E <= C
    <3>1. Apart(todo[l], todo[k])
      BY <1>1, <2>4 DEF AreApart
    <3> QED
      BY <3>1 DEF Apart, B, E
  <2>6. \A z : Within(todo[l], z) <=> C < z /\ z <= D
    BY DEF Within
  <2> HIDE DEF C, D
  <2>7. x \in Nat /\ y \in Nat /\ p \in Nat /\ q \in Nat
    BY <1>8, <1>13
  <2>8. ~(B < x /\ x <= E) /\ ~(B < y /\ y <= E)
    BY <1>2, <2>2, <2>3, <2>5, <2>7
  <2>9. x = p /\ y = q
    BY <1>13, <2>8
  <2>10. Together(todo, p, q)
    BY <1>1, <2>1, <2>9 DEF Together
  <2> QED
    BY <2>10
<1>15. Worth[v[x]] <= Worth[v[y]]
  BY <1>13, <1>14 DEF Ordered
<1> QED
  BY <1>13, <1>15

(***************************************************************************)
(* The places in front of the walkers hold objects that are not above the  *)
(* pivot, those behind them objects that are not below it.                 *)
(***************************************************************************)
Rank(s, m) == Worth[s.v[Current(s).base + m + 1]]

Parted(s) ==
  /\ s.walks \in {"i", "j"}
  /\ s.walks = "j" => /\ s.i <= s.j
                      /\ \A m \in 1 .. s.i : Rank(s, m) <= Rank(s, 0)
  /\ s.walks = "i" => /\ 1 <= s.i
                      /\ \A m \in 1 .. s.i - 1 : Rank(s, m) <= Rank(s, 0)
                      /\ Rank(s, s.j) <= Rank(s, 0)
  /\ \A m \in s.j + 1 .. Current(s).n - 1 : Rank(s, 0) <= Rank(s, m)

InOrder(s) == Ordered(s.v, s.todo) /\ (s.todo # << >> => Parted(s))

LEMMA RankIsInteger ==
  ASSUME NEW s, Inside(s), s.todo # << >>, NEW m \in 0 .. Current(s).n - 1
  PROVE  /\ Current(s).base + m + 1 \in 1 .. Len(s.v)
         /\ Rank(s, m) \in Int
<1> DEFINE B == Current(s).base
<1> DEFINE N == Current(s).n
<1>1. B \in Nat /\ N \in Nat /\ B + N <= Len(s.v) /\ Len(s.v) \in Nat
  BY CurrentProperties
<1>2. m \in 0 .. N - 1
  OBVIOUS
<1> HIDE DEF B, N
<1>3. B + m + 1 \in 1 .. Len(s.v)
  BY <1>1, <1>2
<1>4. s.v \in Seq(Objects)
  BY CurrentProperties
<1>5. Worth[s.v[B + m + 1]] \in Int
  BY <1>3, <1>4, WorthIsInteger
<1> QED
  BY <1>3, <1>5 DEF Rank, B

LEMMA StartedOrdered ==
  ASSUME NEW v \in Seq(Objects), NEW todo \in Seq(Ranges), AreApart(todo, Len(v)),
         Ordered(v, todo)
  PROVE  InOrder(Started(v, todo))
<1> DEFINE s == Started(v, todo)
<1>1. DOMAIN todo = 1 .. Len(todo) /\ \A l \in 1 .. Len(todo) : todo[l] \in Ranges
  OBVIOUS
<1>2. ASSUME NEW r \in Ranges, r.n <= 1, NEW p \in Nat, NEW q \in Nat, p < q,
             Within(r, p), Within(r, q)
      PROVE  FALSE
  BY <1>2 DEF Within, Ranges
<1>3. CASE /\ \A k \in 1 .. Len(todo) : todo[k].n <= 1
           /\ s = [v |-> v, todo |-> << >>, i |-> 0, j |-> 0, walks |-> "none"]
  <2>1. s.v = v /\ s.todo = << >>
    BY <1>3
  <2> HIDE DEF s
  <2>2. ASSUME NEW p \in 1 .. Len(v), NEW q \in 1 .. Len(v), p < q
        PROVE  Worth[v[p]] <= Worth[v[q]]
    <3>1. ~Together(todo, p, q)
      BY <1>1, <1>2, <1>3, <2>2 DEF Together
    <3> QED
      BY <2>2, <3>1 DEF Ordered
  <2>3. Ordered(s.v, s.todo)
    BY <2>1, <2>2 DEF Ordered
  <2> QED
    BY <2>1, <2>3 DEF InOrder, s
<1>4. ASSUME NEW last \in 1 .. Len(todo),
             todo[last].n > 1,
             \A k \in 1 .. Len(todo) : k > last => todo[k].n <= 1,
             s = [v |-> Swapped(v, todo[last].base,
                                todo[last].base + (todo[last].n \div 2)),
                  todo |-> SubSeq(todo, 1, last),
                  i |-> 0, j |-> todo[last].n - 1, walks |-> "j"]
      PROVE  InOrder(s)
  <2> DEFINE B == todo[last].base
  <2> DEFINE N == todo[last].n
  <2> DEFINE w == Swapped(v, B, B + (N \div 2))
  <2> DEFINE t == SubSeq(todo, 1, last)
  <2>1. B \in Nat /\ N \in Nat /\ N > 1 /\ B + N <= Len(v)
    BY <1>1, <1>4 DEF Ranges, AreApart
  <2>2. s.v = w /\ s.todo = t /\ s.i = 0 /\ s.j = N - 1 /\ s.walks = "j"
    BY <1>4
  <2> HIDE DEF s
  <2>3. t \in Seq(Ranges) /\ Len(t) = last /\ \A k \in 1 .. last : t[k] = todo[k]
    BY FirstOnes
  <2> DEFINE a == B
  <2> DEFINE b == B + (N \div 2)
  <2>4. a \in Nat /\ b \in Nat /\ B <= a /\ a < B + N /\ B <= b /\ b < B + N
    <3> HIDE DEF B, N
    <3>1. N \div 2 \in Nat /\ N \div 2 < N
      BY <2>1
    <3> QED
      BY <2>1, <3>1
  <2>5. w = Swapped(v, a, b)
    OBVIOUS
  <2> HIDE DEF a, b
  <2>6. Ordered(w, todo)
    <3>1. todo[last].base <= a /\ a < todo[last].base + todo[last].n
      BY <2>4
    <3>2. todo[last].base <= b /\ b < todo[last].base + todo[last].n
      BY <2>4
    <3>3. a \in Nat
      BY <2>4
    <3>4. b \in Nat
      BY <2>4
    <3> HIDE DEF w
    <3> QED
      BY <2>5, <3>1, <3>2, <3>3, <3>4, SwappedInRange
  <2>7. Len(w) = Len(v)
    <3>1. Len(v) \in Nat
      OBVIOUS
    <3> HIDE DEF B, N
    <3>2. a \in 0 .. Len(v) - 1
      BY <2>1, <2>4, <3>1
    <3>3. b \in 0 .. Len(v) - 1
      BY <2>1, <2>4, <3>1
    <3> HIDE DEF w
    <3> QED
      BY <2>5, <3>2, <3>3, SwappedProperties
  <2> HIDE DEF w, t
  <2>8. ASSUME NEW p \in 1 .. Len(w), NEW q \in 1 .. Len(w), p < q, Together(todo, p, q)
        PROVE  Together(t, p, q)
    <3>1. PICK k \in 1 .. Len(todo) : Within(todo[k], p) /\ Within(todo[k], q)
      BY <1>1, <2>8 DEF Together
    <3>2. ~(todo[k].n <= 1)
      <4>1. p \in Nat /\ q \in Nat
        BY <2>7, <2>8
      <4> QED
        BY <1>1, <1>2, <2>8, <3>1, <4>1
    <3>3. ~(k > last)
      BY <1>4, <3>2
    <3>4. k \in 1 .. last
      BY <3>3
    <3>5. k \in DOMAIN t
      BY <2>3, <3>4
    <3> QED
      BY <2>3, <3>1, <3>4, <3>5 DEF Together
  <2>9. Ordered(s.v, s.todo)
    BY <2>2, <2>6, <2>8 DEF Ordered
  <2>10. Current(s) = todo[last]
    BY <2>2, <2>3 DEF Current
  <2>11. Parted(s)
    <3>1. s.i <= s.j /\ 1 .. s.i = {} /\ s.j + 1 .. Current(s).n - 1 = {}
      <4> HIDE DEF N
      <4>1. Current(s).n = N
        BY <2>10 DEF N
      <4>2. s.j = N - 1 /\ s.i = 0 /\ N \in Nat /\ N > 1
        BY <2>1, <2>2
      <4>3. (N - 1) + 1 .. N - 1 = {}
        BY <4>2
      <4> QED
        BY <4>1, <4>2, <4>3
    <3> QED
      BY <2>2, <3>1 DEF Parted
  <2> QED
    BY <2>9, <2>11 DEF InOrder
<1> QED
  BY <1>3, <1>4, StartedProperties

LEMMA PartitionedOrdered ==
  ASSUME NEW s, Inside(s), s.todo # << >>, Ordered(s.v, s.todo),
         \A m \in 1 .. s.j : Rank(s, m) <= Rank(s, 0),
         \A m \in s.j + 1 .. Current(s).n - 1 : Rank(s, 0) <= Rank(s, m)
  PROVE  InOrder(Partitioned(s))
<1> DEFINE r == Current(s)
<1> DEFINE B == r.base
<1> DEFINE N == r.n
<1> DEFINE J == s.j
<1> DEFINE V == s.v
<1> DEFINE todo == s.todo
<1> DEFINE k == Len(s.todo)
<1> DEFINE w == Swapped(V, B + J, B)
<1>1. /\ k \in 1 .. k /\ k \in Nat /\ r = todo[k] /\ B \in Nat /\ N \in Nat /\ r \in Ranges
      /\ B + N <= Len(V) /\ Len(V) \in Nat /\ J \in Nat
  BY CurrentProperties
<1>2. V \in Seq(Objects)
  BY CurrentProperties
<1>3. todo \in Seq(Ranges)
  BY CurrentProperties
<1>4. J < N /\ AreApart(todo, Len(V)) /\ Ordered(V, todo)
  BY DEF Inside
<1>5. PICK u \in Seq(Ranges) :
           /\ Partitioned(s) = Started(w, u)
           /\ Len(u) = k + 1
           /\ \A l \in 1 .. k - 1 : u[l] = todo[l]
           /\ \/ u[k] = Run(B, J) /\ u[k + 1] = Run(B + J + 1, N - J - 1)
              \/ u[k + 1] = Run(B, J) /\ u[k] = Run(B + J + 1, N - J - 1)
           /\ AreApart(u, Len(V))
  <2>1. PICK u \in Seq(Ranges) :
           /\ Partitioned(s) = Started(Swapped(s.v, Current(s).base + s.j,
                                               Current(s).base), u)
           /\ Splits(u, s.todo, Current(s), s.j)
           /\ AreApart(u, Len(s.v))
    BY PartitionedProperties
  <2>2. /\ Len(u) = k + 1
        /\ \A l \in 1 .. k - 1 : u[l] = todo[l]
        /\ \/ u[k] = Run(B, J) /\ u[k + 1] = Run(B + J + 1, N - J - 1)
           \/ u[k + 1] = Run(B, J) /\ u[k] = Run(B + J + 1, N - J - 1)
    BY <2>1 DEF Splits
  <2>3. Partitioned(s) = Started(w, u) /\ AreApart(u, Len(V))
    BY <2>1
  <2> HIDE DEF w, V, k, todo, B, J, N
  <2> QED
    BY <2>2, <2>3
<1>6. /\ \A m \in 0 .. N - 1 : B + m + 1 \in 1 .. Len(V) /\ Worth[V[B + m + 1]] \in Int
      /\ \A m \in 1 .. J : Worth[V[B + m + 1]] <= Worth[V[B + 1]]
      /\ \A m \in J + 1 .. N - 1 : Worth[V[B + 1]] <= Worth[V[B + m + 1]]
  <2>1. Rank(s, 0) = Worth[V[B + 1]]
    <3>1. B + 0 + 1 = B + 1
      BY <1>1
    <3> QED
      BY <3>1 DEF Rank
  <2>2. \A m : Rank(s, m) = Worth[V[B + m + 1]]
    BY DEF Rank
  <2>3. \A m \in 0 .. N - 1 : B + m + 1 \in 1 .. Len(V) /\ Rank(s, m) \in Int
    BY RankIsInteger
  <2> QED
    BY <2>1, <2>2, <2>3
<1>7. B + J \in Nat /\ B + J \in 0 .. Len(V) - 1 /\ B \in 0 .. Len(V) - 1
      /\ B <= B + J /\ B + J < B + N /\ B < B + N
  <2> HIDE DEF r, B, N, J, V
  <2> QED
    BY <1>1, <1>4
<1>8. Ordered(w, todo)
  <2>1. todo[k].base = B /\ todo[k].base + todo[k].n = B + N
    BY <1>1
  <2> DEFINE a == B + J
  <2>2. a \in Nat /\ B \in Nat /\ w = Swapped(V, a, B)
    BY <1>1, <1>7
  <2>3. todo[k].base <= a /\ a < todo[k].base + todo[k].n
    BY <1>7, <2>1
  <2>4. todo[k].base <= B /\ B < todo[k].base + todo[k].n
    BY <1>1, <1>7, <2>1
  <2>5. AreApart(todo, Len(V))
    BY <1>4
  <2>6. Ordered(V, todo)
    BY <1>4
  <2>7. k \in 1 .. Len(todo)
    BY <1>1
  <2>8. a \in Nat
    BY <2>2
  <2>9. B \in Nat
    BY <2>2
  <2>10. w = Swapped(V, a, B)
    BY <2>2
  <2> HIDE DEF a, B, w, V, todo, k
  <2> QED
    BY <1>2, <1>3, <2>3, <2>4, <2>5, <2>6, <2>7, <2>8, <2>9, <2>10, SwappedInRange
<1>9. /\ w \in Seq(Objects) /\ Len(w) = Len(V)
      /\ \A p \in 1 .. Len(V) : w[p] = IF p = B + J + 1 THEN V[B + 1]
                                      ELSE IF p = B + 1 THEN V[B + J + 1] ELSE V[p]
  <2> DEFINE a == B + J
  <2>1. a \in 0 .. Len(V) - 1
    BY <1>7
  <2>2. B \in 0 .. Len(V) - 1
    BY <1>7
  <2>3. w = Swapped(V, a, B)
    OBVIOUS
  <2> HIDE DEF a, B, w, V
  <2>4. /\ w \in Seq(Objects) /\ Len(w) = Len(V)
        /\ \A p \in 1 .. Len(V) : w[p] = IF p = a + 1 THEN V[B + 1]
                                        ELSE IF p = B + 1 THEN V[a + 1] ELSE V[p]
    <3>1. V \in Seq(Objects)
      BY <1>2
    <3> QED
      BY ONLY <3>1, <2>1, <2>2, <2>3, SwappedProperties
  <2> QED
    BY <2>4 DEF a
<1>10. /\ \A p : Within(r, p) <=> B < p /\ p <= B + N
       /\ \A p : Within(Run(B, J), p) <=> B < p /\ p <= B + J
       /\ \A p : Within(Run(B + J + 1, N - J - 1), p)
                   <=> B + J + 1 < p /\ p <= B + J + 1 + (N - J - 1)
  BY DEF Within, Run
<1>11. r = todo[k] /\ DOMAIN todo = 1 .. k /\ DOMAIN u = 1 .. k + 1
  BY <1>1, <1>3, <1>5
<1> HIDE DEF r, B, N, J, V, todo, k, w
<1> DEFINE P == B + J + 1
<1>12. ASSUME NEW p \in 1 .. Len(V), B < p, p <= B + N
       PROVE  /\ Worth[w[p]] \in Int
              /\ p = P => Worth[w[p]] = Worth[V[B + 1]]
              /\ p < P => Worth[w[p]] <= Worth[V[B + 1]]
              /\ p > P => Worth[V[B + 1]] <= Worth[w[p]]
  <2>1. P = B + J + 1 /\ P \in 1 .. Len(V) /\ B + 1 \in 1 .. Len(V)
    BY <1>1, <1>7
  <2> HIDE DEF P
  <2>2. Worth[w[p]] \in Int
    BY <1>9, WorthIsInteger
  <2>3. CASE p = P
    <3>1. w[p] = V[B + 1]
      BY <1>9, <2>1, <2>3
    <3> QED
      BY <1>1, <2>1, <2>2, <2>3, <3>1
  <2>4. CASE p < P /\ p = B + 1
    <3>1. w[p] = V[B + J + 1]
      BY <1>1, <1>9, <2>1, <2>4
    <3>2. J \in 1 .. J
      BY <1>1, <2>1, <2>4
    <3>3. Worth[V[B + J + 1]] <= Worth[V[B + 1]]
      BY <1>6, <3>2
    <3>4. p # P /\ ~(p > P)
      BY <1>1, <2>1, <2>4
    <3> QED
      BY <2>2, <3>1, <3>3, <3>4
  <2>5. CASE p < P /\ p # B + 1
    <3>4. p # B + J + 1 /\ p # B + 1
      BY <1>1, <2>1, <2>5
    <3>1. w[p] = V[p]
      BY <1>9, <3>4
    <3>2. p - B - 1 \in 1 .. J /\ B + (p - B - 1) + 1 = p
      BY <1>1, <1>12, <2>1, <2>5
    <3>3. Worth[V[p]] <= Worth[V[B + 1]]
      BY <1>6, <3>2
    <3> QED
      BY <1>1, <2>1, <2>2, <2>5, <3>1, <3>3
  <2>6. CASE p > P
    <3>4. p # B + J + 1 /\ p # B + 1
      BY <1>1, <2>1, <2>6
    <3>1. w[p] = V[p]
      BY <1>9, <3>4
    <3>2. p - B - 1 \in J + 1 .. N - 1 /\ B + (p - B - 1) + 1 = p
      BY <1>1, <1>4, <1>12, <2>1, <2>6
    <3>3. Worth[V[B + 1]] <= Worth[V[p]]
      BY <1>6, <3>2
    <3> QED
      BY <1>1, <2>1, <2>2, <2>6, <3>1, <3>3
  <2> QED
    BY <1>1, <2>1, <2>3, <2>4, <2>5, <2>6
<1>13. Ordered(w, u)
  <2> SUFFICES ASSUME NEW p \in 1 .. Len(V), NEW q \in 1 .. Len(V), p < q,
                      ~(Worth[w[p]] <= Worth[w[q]])
               PROVE  Together(u, p, q)
    BY <1>9 DEF Ordered
  <2>1. PICK l \in 1 .. k : Within(todo[l], p) /\ Within(todo[l], q)
    BY <1>8, <1>9, <1>11 DEF Ordered, Together
  <2>2. CASE l # k
    <3>1. l \in 1 .. k - 1 /\ l \in 1 .. k + 1
      BY <1>1, <2>2
    <3> QED
      BY <1>5, <1>11, <2>1, <3>1 DEF Together
  <2>3. CASE l = k
    <3>1. B < p /\ p <= B + N /\ B < q /\ q <= B + N
      BY <1>10, <1>11, <2>1, <2>3
    <3>2. /\ Worth[w[p]] \in Int /\ Worth[w[q]] \in Int /\ Worth[V[B + 1]] \in Int
          /\ p = P => Worth[w[p]] = Worth[V[B + 1]]
          /\ p < P => Worth[w[p]] <= Worth[V[B + 1]]
          /\ q = P => Worth[w[q]] = Worth[V[B + 1]]
          /\ q > P => Worth[V[B + 1]] <= Worth[w[q]]
      <4>1. B + 1 \in 1 .. Len(V)
        BY <1>1, <1>7
      <4>2. Worth[V[B + 1]] \in Int
        BY <1>2, <4>1, WorthIsInteger
      <4> QED
        BY <1>12, <3>1, <4>2
    <3>3. P \in Nat /\ P = B + J + 1
      BY <1>1, <1>7
    <3> HIDE DEF P
    <3>4. (p < P /\ q < P) \/ (p > P /\ q > P)
      BY <3>2, <3>3
    <3>5. k \in 1 .. k + 1 /\ k + 1 \in 1 .. k + 1
      BY <1>1
    <3>6. CASE p < P /\ q < P
      <4>1. Within(Run(B, J), p) /\ Within(Run(B, J), q)
        BY <1>1, <1>10, <3>1, <3>3, <3>6
      <4> QED
        BY <1>5, <1>11, <3>5, <4>1 DEF Together
    <3>7. CASE p > P /\ q > P
      <4>1. B + J + 1 + (N - J - 1) = B + N
        BY <1>1
      <4>2. Within(Run(B + J + 1, N - J - 1), p) /\ Within(Run(B + J + 1, N - J - 1), q)
        BY <1>10, <3>1, <3>3, <3>7, <4>1
      <4> QED
        BY <1>5, <1>11, <3>5, <4>2 DEF Together
    <3> QED
      BY <3>4, <3>6, <3>7
  <2> QED
    BY <2>2, <2>3
<1>14. AreApart(u, Len(w))
  BY <1>5, <1>9
<1>15. w \in Seq(Objects)
  BY <1>9
<1>16. InOrder(Started(w, u))
  BY <1>13, <1>14, <1>15, StartedOrdered
<1> QED
  BY <1>5, <1>16

LEMMA IncrementOrdered ==
  ASSUME NEW s, Inside(s), s.todo # << >>, s.walks # "broken", Ordered(s.v, s.todo),
         \A m \in 1 .. s.i : Rank(s, m) <= Rank(s, 0),
         s.i <= s.j, Rank(s, s.j) <= Rank(s, 0),
         \A m \in s.j + 1 .. Current(s).n - 1 : Rank(s, 0) <= Rank(s, m)
  PROVE  InOrder(IncrementI(s))
<1>1. s.i \in Nat /\ s.j \in Nat
  BY CurrentProperties
<1>2. CASE s.i + 1 >= s.j
  <2>1. ASSUME NEW m \in 1 .. s.j
        PROVE  Rank(s, m) <= Rank(s, 0)
    <3>1. m \in 1 .. s.i \/ m = s.j
      BY <1>1, <1>2
    <3> QED
      BY <3>1
  <2>2. InOrder(Partitioned(s))
    BY <2>1, PartitionedOrdered
  <2> QED
    BY <1>2, <2>2 DEF IncrementI
<1>3. CASE ~(s.i + 1 >= s.j)
  <2> DEFINE t == [s EXCEPT !.i = @ + 1, !.walks = "i"]
  <2>1. IncrementI(s) = t
    BY <1>3 DEF IncrementI
  <2>2. s \in SortType
    BY DEF Inside
  <2>3. t.v = s.v /\ t.todo = s.todo /\ t.i = s.i + 1 /\ t.j = s.j /\ t.walks = "i"
    BY <2>2 DEF SortType
  <2> HIDE DEF t
  <2>4. Current(t) = Current(s)
    BY <2>3 DEF Current
  <2>5. \A m : Rank(t, m) = Rank(s, m)
    BY <2>3, <2>4 DEF Rank
  <2>6. 1 <= t.i /\ t.i - 1 = s.i
    BY <1>1, <2>3
  <2>7. Parted(t)
    BY <2>3, <2>4, <2>5, <2>6 DEF Parted
  <2> QED
    BY <2>1, <2>3, <2>7 DEF InOrder
<1> QED
  BY <1>2, <1>3

(***************************************************************************)
(* A comparator that answers from an order keeps what is ordered, and      *)
(* never drives a walker past the pivot.                                   *)
(***************************************************************************)
LEMMA ComparedOrdered ==
  ASSUME NEW s, Inside(s), s.todo # << >>, InOrder(s), NEW answer \in Int,
         IsSound(answer, Walker(s), Pivot(s))
  PROVE  InOrder(Compared(s, answer))
<1> DEFINE B == Current(s).base
<1> DEFINE N == Current(s).n
<1> DEFINE I == s.i
<1> DEFINE J == s.j
<1> DEFINE V == s.v
<1>1. /\ B \in Nat /\ N \in Nat /\ B + N <= Len(V) /\ Len(V) \in Nat
      /\ I \in Nat /\ J \in Nat
  BY CurrentProperties
<1>2. V \in Seq(Objects) /\ s \in SortType
  BY CurrentProperties DEF Inside
<1>3. I < N /\ J < N /\ N > 1 /\ (s.walks = "i" => I < J) /\ AreApart(s.todo, Len(V))
  BY DEF Inside
<1>4. Parted(s) /\ Ordered(V, s.todo)
  BY DEF InOrder
<1>5. \A m : Rank(s, m) = Worth[V[B + m + 1]]
  BY DEF Rank
<1>6. \A m \in 0 .. N - 1 : Rank(s, m) \in Int
  BY RankIsInteger
<1>7. /\ answer < 0 <=> Worth[Walker(s)] < Worth[Pivot(s)]
      /\ answer > 0 <=> Worth[Walker(s)] > Worth[Pivot(s)]
  BY DEF IsSound
<1>8. Worth[Pivot(s)] = Rank(s, 0)
  <2>1. B + 0 + 1 = B + 1
    BY <1>1
  <2> QED
    BY <1>5, <2>1 DEF Pivot
<1>9. Worth[Walker(s)] = Rank(s, IF s.walks = "j" THEN J ELSE I)
  BY <1>5 DEF Walker
<1>10. /\ s.walks \in {"i", "j"}
       /\ s.walks = "j" => I <= J /\ \A m \in 1 .. I : Rank(s, m) <= Rank(s, 0)
       /\ s.walks = "i" => /\ 1 <= I
                           /\ \A m \in 1 .. I - 1 : Rank(s, m) <= Rank(s, 0)
                           /\ Rank(s, J) <= Rank(s, 0)
       /\ \A m \in J + 1 .. N - 1 : Rank(s, 0) <= Rank(s, m)
  BY <1>4 DEF Parted
<1>11. Rank(s, 0) \in Int /\ Rank(s, I) \in Int /\ Rank(s, J) \in Int
  <2>1. 0 \in 0 .. N - 1 /\ I \in 0 .. N - 1 /\ J \in 0 .. N - 1
    <3> HIDE DEF N, I, J
    <3> QED
      BY <1>1, <1>3
  <2> QED
    BY <1>6, <2>1
<1>12. /\ s.walks = "j" /\ answer > 0 => Rank(s, J) > Rank(s, 0)
       /\ s.walks = "j" /\ answer <= 0 => Rank(s, J) <= Rank(s, 0)
       /\ s.walks = "i" /\ answer < 0 => Rank(s, I) < Rank(s, 0)
       /\ s.walks = "i" /\ answer >= 0 => Rank(s, I) >= Rank(s, 0)
  <2> DEFINE x == Worth[Walker(s)]
  <2> DEFINE y == Worth[Pivot(s)]
  <2>1. y = Rank(s, 0) /\ x = IF s.walks = "j" THEN Rank(s, J) ELSE Rank(s, I)
    BY <1>8, <1>9
  <2>2. (answer < 0 <=> x < y) /\ (answer > 0 <=> x > y)
    BY <1>7
  <2> HIDE DEF x, y, I, J
  <2> QED
    BY <1>11, <2>1, <2>2
<1>13. CASE s.walks = "j" /\ answer > 0 /\ J = 0
  BY <1>11, <1>12, <1>13
<1>14. CASE s.walks = "j" /\ answer > 0 /\ J > 0
  <2> DEFINE t == [s EXCEPT !.j = @ - 1]
  <2>1. Compared(s, answer) = t
    BY <1>14 DEF Compared
  <2>2. t.v = V /\ t.todo = s.todo /\ t.i = I /\ t.j = J - 1 /\ t.walks = "j"
    BY <1>2, <1>14 DEF SortType
  <2> HIDE DEF t
  <2>3. Current(t) = Current(s)
    BY <2>2 DEF Current
  <2>4. \A m : Rank(t, m) = Rank(s, m)
    BY <2>2, <2>3 DEF Rank
  <2> HIDE DEF B, N, I, J, V
  <2>5. I # J
    <3> SUFFICES ASSUME I = J PROVE FALSE
      OBVIOUS
    <3>1. I \in 1 .. I
      BY <1>1, <1>14
    <3>2. Rank(s, J) <= Rank(s, 0)
      BY <1>10, <1>14, <3>1
    <3> QED
      BY <1>11, <1>12, <1>14, <3>2
  <2>6. t.i <= t.j
    BY <1>1, <1>10, <1>14, <2>2, <2>5
  <2>7. ASSUME NEW m \in t.j + 1 .. Current(t).n - 1
        PROVE  Rank(t, 0) <= Rank(t, m)
    <3>1. m \in J .. N - 1
      BY <1>1, <2>2, <2>3 DEF N
    <3>2. m = J \/ m \in J + 1 .. N - 1
      BY <1>1, <3>1
    <3>3. Rank(s, 0) <= Rank(s, m)
      BY <1>10, <1>11, <1>12, <1>14, <3>2
    <3> QED
      BY <2>4, <3>3
  <2>8. Parted(t)
    BY <1>10, <1>14, <2>2, <2>4, <2>6, <2>7 DEF Parted
  <2> QED
    BY <1>4, <2>1, <2>2, <2>8 DEF InOrder
<1>15. CASE s.walks = "j" /\ answer <= 0
  <2>1. Compared(s, answer) = IncrementI(s)
    BY <1>15 DEF Compared
  <2>2. Rank(s, J) <= Rank(s, 0)
    BY <1>12, <1>15
  <2>3. InOrder(IncrementI(s))
    BY <1>4, <1>10, <1>15, <2>2, IncrementOrdered
  <2> QED
    BY <2>1, <2>3
<1>16. CASE s.walks = "i" /\ answer < 0
  <2>1. Compared(s, answer) = IncrementI(s)
    BY <1>16 DEF Compared
  <2>2. ASSUME NEW m \in 1 .. I
        PROVE  Rank(s, m) <= Rank(s, 0)
    <3> HIDE DEF I
    <3>1. m \in 1 .. I - 1 \/ m = I
      BY <1>1
    <3> QED
      BY <1>10, <1>11, <1>12, <1>16, <3>1
  <2>3. Rank(s, J) <= Rank(s, 0) /\ I <= J
    BY <1>1, <1>3, <1>10, <1>16
  <2>4. InOrder(IncrementI(s))
    BY <1>4, <1>10, <1>16, <2>2, <2>3, IncrementOrdered
  <2> QED
    BY <2>1, <2>4
<1>17. CASE s.walks = "i" /\ answer >= 0
  <2> DEFINE a == B + I
  <2> DEFINE b == B + J
  <2> DEFINE w == Swapped(V, a, b)
  <2> DEFINE t == [s EXCEPT !.v = w, !.j = s.j - 1, !.walks = "j"]
  <2>1. Compared(s, answer) = t
    BY <1>17 DEF Compared
  <2>2. t.v = w /\ t.todo = s.todo /\ t.i = I /\ t.j = J - 1 /\ t.walks = "j"
    BY <1>2 DEF SortType
  <2> HIDE DEF t
  <2>3. Current(t) = Current(s)
    BY <2>2 DEF Current
  <2> DEFINE k == Len(s.todo)
  <2>4. k \in 1 .. k /\ s.todo[k] = Current(s)
    BY CurrentProperties
  <2>5. s.todo \in Seq(Ranges)
    BY CurrentProperties
  <2>6. 1 <= I /\ I < J /\ J < N
    BY <1>3, <1>10, <1>17
  <2>7. s.todo[k].base = B /\ s.todo[k].base + s.todo[k].n = B + N
    BY <2>4
  <2> HIDE DEF B, N, I, J, V
  <2>8. a \in Nat /\ B <= a /\ a < B + N /\ b \in Nat /\ B <= b /\ b < B + N
        /\ a \in 0 .. Len(V) - 1 /\ b \in 0 .. Len(V) - 1
    BY <1>1, <2>6
  <2>9. /\ w \in Seq(Objects) /\ Len(w) = Len(V)
        /\ \A p \in 1 .. Len(V) : w[p] = IF p = a + 1 THEN V[b + 1]
                                        ELSE IF p = b + 1 THEN V[a + 1] ELSE V[p]
    <3>1. a \in 0 .. Len(V) - 1
      BY <2>8
    <3>2. b \in 0 .. Len(V) - 1
      BY <2>8
    <3>3. V \in Seq(Objects)
      BY <1>2
    <3> HIDE DEF a, b
    <3> QED
      BY <3>1, <3>2, <3>3, SwappedProperties
  <2>10. Ordered(w, s.todo)
    <3> DEFINE T == s.todo
    <3>1. a \in Nat
      BY <2>8
    <3>2. b \in Nat
      BY <2>8
    <3>3. T[k].base <= a /\ a < T[k].base + T[k].n
      BY <2>7, <2>8
    <3>4. T[k].base <= b /\ b < T[k].base + T[k].n
      BY <2>7, <2>8
    <3>5. T \in Seq(Ranges)
      BY <2>5
    <3>6. k \in 1 .. Len(T)
      BY <2>4
    <3>7. AreApart(T, Len(V))
      BY <1>3
    <3>8. Ordered(V, T)
      BY <1>4
    <3>9. V \in Seq(Objects)
      BY <1>2
    <3> HIDE DEF a, b, T, k
    <3>10. Ordered(Swapped(V, a, b), T)
      BY <3>1, <3>2, <3>3, <3>4, <3>5, <3>6, <3>7, <3>8, <3>9, SwappedInRange
    <3> QED
      BY <3>10 DEF T
  <2> HIDE DEF w
  <2>11. \A m : Rank(t, m) = Worth[w[B + m + 1]]
    BY <2>2, <2>3 DEF Rank, B
  <2>12. ASSUME NEW m \in 0 .. N - 1
         PROVE  Rank(t, m) = IF m = I THEN Rank(s, J)
                             ELSE IF m = J THEN Rank(s, I) ELSE Rank(s, m)
    <3>1. B + m + 1 \in 1 .. Len(V)
      BY <1>1
    <3>2. (B + m + 1 = a + 1 <=> m = I) /\ (B + m + 1 = b + 1 <=> m = J)
      BY <1>1
    <3>3. w[B + m + 1] = IF m = I THEN V[B + J + 1]
                         ELSE IF m = J THEN V[B + I + 1] ELSE V[B + m + 1]
      BY <2>9, <3>1, <3>2
    <3> QED
      BY <1>5, <2>11, <3>3
  <2>13. Rank(t, 0) = Rank(s, 0)
    <3>1. 0 \in 0 .. N - 1 /\ 0 # I /\ 0 # J
      BY <1>1, <2>6
    <3> QED
      BY <2>12, <3>1
  <2>14. t.i <= t.j
    BY <1>1, <2>2, <2>6
  <2>15. ASSUME NEW m \in 1 .. t.i
         PROVE  Rank(t, m) <= Rank(t, 0)
    <3>1. m \in 1 .. I /\ m \in 0 .. N - 1 /\ m # J
      BY <1>1, <2>2, <2>6
    <3>2. CASE m = I
      BY <1>10, <1>17, <2>12, <2>13, <3>1, <3>2
    <3>3. CASE m # I
      <4>1. m \in 1 .. I - 1
        BY <1>1, <3>1, <3>3
      <4>2. Rank(s, m) <= Rank(s, 0)
        BY <1>10, <1>17, <4>1
      <4> QED
        BY <2>12, <2>13, <3>1, <3>3, <4>2
    <3> QED
      BY <3>2, <3>3
  <2>16. ASSUME NEW m \in t.j + 1 .. Current(t).n - 1
         PROVE  Rank(t, 0) <= Rank(t, m)
    <3>1. m \in J .. N - 1
      BY <1>1, <2>2, <2>3 DEF N
    <3>2. m \in 0 .. N - 1 /\ m # I
      BY <1>1, <2>6, <3>1
    <3>3. CASE m = J
      BY <1>11, <1>12, <1>17, <2>12, <2>13, <3>2, <3>3
    <3>4. CASE m # J
      <4>1. m \in J + 1 .. N - 1
        BY <1>1, <3>1, <3>4
      <4>2. Rank(s, 0) <= Rank(s, m)
        BY <1>10, <4>1
      <4> QED
        BY <2>12, <2>13, <3>2, <3>4, <4>2
    <3> QED
      BY <3>3, <3>4
  <2>17. Parted(t)
    BY <2>2, <2>14, <2>15, <2>16 DEF Parted
  <2> QED
    BY <2>1, <2>2, <2>10, <2>17 DEF InOrder
<1>18. answer > 0 \/ answer <= 0
  OBVIOUS
<1>19. answer < 0 \/ answer >= 0
  OBVIOUS
<1>20. J = 0 \/ J > 0
  BY <1>1
<1> QED
  BY <1>10, <1>13, <1>14, <1>15, <1>16, <1>17, <1>18, <1>19, <1>20

(***************************************************************************)
(* A sort that begins.                                                     *)
(***************************************************************************)
LEMMA SortProperties ==
  ASSUME NEW v \in Seq(Objects)
  PROVE  Inside(Sort(v)) /\ SameObjects(Sort(v).v, v) /\ InOrder(Sort(v))
<1> DEFINE r == Run(0, Len(v))
<1>1. Len(v) \in Nat
  OBVIOUS
<1>2. r \in Ranges /\ r.base = 0 /\ r.n = Len(v)
  BY <1>1 DEF Run, Ranges
<1> HIDE DEF r
<1>3. <<r>> \in Seq(Ranges) /\ DOMAIN <<r>> = {1} /\ <<r>>[1] = r
  BY <1>2
<1>4. AreApart(<<r>>, Len(v))
  BY <1>1, <1>2, <1>3 DEF AreApart
<1>5. Ordered(v, <<r>>)
  <2> SUFFICES ASSUME NEW p \in 1 .. Len(v), NEW q \in 1 .. Len(v)
               PROVE  Together(<<r>>, p, q)
    BY DEF Ordered
  <2>1. Within(r, p) /\ Within(r, q)
    BY <1>1, <1>2 DEF Within
  <2> QED
    BY <1>3, <2>1 DEF Together
<1>6. Sort(v) = Started(v, <<r>>)
  BY DEF Sort, r
<1> QED
  BY <1>3, <1>4, <1>5, <1>6, StartedKeeps, StartedOrdered

-----------------------------------------------------------------------------
(***************************************************************************)
(* The array.  It has room for its objects, and has retained each as often *)
(* as it holds it.                                                         *)
(***************************************************************************)
ArrayType == [objects : Seq(Objects), size : Nat, mutations : Nat,
              held : [Objects -> Int]]

Proper(a) ==
  /\ a \in ArrayType
  /\ Count(a) <= a.size
  /\ \A o \in Objects : a.held[o] = Occurrences(o, a.objects)

WithObjects(a, v) == [a EXCEPT !.objects = v]

LEMMA RetainedProperties ==
  ASSUME NEW a \in ArrayType, NEW v \in Seq(Objects)
  PROVE  /\ Retained(a, v) \in ArrayType
         /\ Retained(a, v).objects = a.objects
         /\ Retained(a, v).size = a.size
         /\ Retained(a, v).mutations = a.mutations
         /\ \A o \in Objects : Retained(a, v).held[o] = a.held[o] + Occurrences(o, v)
<1> DEFINE h == [o \in Objects |-> a.held[o] + Occurrences(o, v)]
<1>1. \A o \in Objects : a.held[o] \in Int /\ Occurrences(o, v) \in Nat
  BY PlacesAreFinite DEF ArrayType
<1>2. h \in [Objects -> Int]
  BY <1>1
<1>3. \A o \in Objects : h[o] = a.held[o] + Occurrences(o, v)
  OBVIOUS
<1>4. Retained(a, v) = [a EXCEPT !.held = h]
  BY DEF Retained
<1> HIDE DEF h
<1> QED
  BY <1>2, <1>3, <1>4 DEF ArrayType

LEMMA ReleasedProperties ==
  ASSUME NEW a \in ArrayType, NEW v \in Seq(Objects)
  PROVE  /\ Released(a, v) \in ArrayType
         /\ Released(a, v).objects = a.objects
         /\ Released(a, v).size = a.size
         /\ Released(a, v).mutations = a.mutations
         /\ \A o \in Objects : Released(a, v).held[o] = a.held[o] - Occurrences(o, v)
<1> DEFINE h == [o \in Objects |-> a.held[o] - Occurrences(o, v)]
<1>1. \A o \in Objects : a.held[o] \in Int /\ Occurrences(o, v) \in Nat
  BY PlacesAreFinite DEF ArrayType
<1>2. h \in [Objects -> Int]
  BY <1>1
<1>3. \A o \in Objects : h[o] = a.held[o] - Occurrences(o, v)
  OBVIOUS
<1>4. Released(a, v) = [a EXCEPT !.held = h]
  BY DEF Released
<1> HIDE DEF h
<1> QED
  BY <1>2, <1>3, <1>4 DEF ArrayType

(***************************************************************************)
(* Room is made before it is needed, and is given back only if half of it  *)
(* is left.                                                                *)
(***************************************************************************)
LEMMA GrownProperties ==
  ASSUME NEW a \in ArrayType, Count(a) <= a.size
  PROVE  /\ Grown(a) \in ArrayType
         /\ Grown(a).objects = a.objects
         /\ Count(a) + 1 <= Grown(a).size
         /\ Grown(a).mutations = a.mutations
         /\ Grown(a).held = a.held
<1>1. MinimumSize \in Nat /\ MinimumSize > 0
  BY MinimumSizeAssumption
<1>2. Count(a) \in Nat /\ a.size \in Nat
  BY DEF ArrayType, Count
<1>3. CASE Count(a) < a.size
  BY <1>2, <1>3 DEF Grown
<1>4. CASE ~(Count(a) < a.size)
  <2> DEFINE n == Larger(2 * a.size, MinimumSize)
  <2>1. n \in Nat /\ Count(a) + 1 <= n
    BY <1>1, <1>2, <1>4 DEF Larger
  <2>2. Grown(a) = [a EXCEPT !.size = n]
    BY <1>4 DEF Grown
  <2> HIDE DEF n
  <2> QED
    BY <2>1, <2>2 DEF ArrayType
<1> QED
  BY <1>3, <1>4

LEMMA ReservedProperties ==
  ASSUME NEW a \in ArrayType, Count(a) <= a.size, NEW n \in Nat
  PROVE  /\ Reserved(a, n) \in ArrayType
         /\ Reserved(a, n).objects = a.objects
         /\ Count(a) + n <= Reserved(a, n).size
         /\ Reserved(a, n).mutations = a.mutations
         /\ Reserved(a, n).held = a.held
<1>1. MinimumSize \in Nat /\ MinimumSize > 0
  BY MinimumSizeAssumption
<1>2. Count(a) \in Nat /\ a.size \in Nat
  BY DEF ArrayType, Count
<1>3. CASE Count(a) + n < a.size
  BY <1>2, <1>3 DEF Reserved
<1>4. CASE ~(Count(a) + n < a.size)
  <2> DEFINE more == Larger(a.size, n)
  <2> DEFINE m == a.size + IF more < MinimumSize THEN more + MinimumSize ELSE more
  <2>1. m \in Nat /\ Count(a) + n <= m
    BY <1>1, <1>2 DEF Larger
  <2>2. Reserved(a, n) = [a EXCEPT !.size = m]
    BY <1>4 DEF Reserved
  <2> HIDE DEF m
  <2> QED
    BY <2>1, <2>2 DEF ArrayType
<1> QED
  BY <1>3, <1>4

LEMMA WithObjectsProper ==
  ASSUME NEW a \in ArrayType, NEW v \in Seq(Objects), Len(v) <= a.size,
         \A o \in Objects : a.held[o] = Occurrences(o, v)
  PROVE  /\ Proper(WithObjects(a, v))
         /\ WithObjects(a, v).objects = v
         /\ WithObjects(a, v).mutations = a.mutations
<1> DEFINE b == [a EXCEPT !.objects = v]
<1>1. /\ b \in ArrayType /\ b.objects = v /\ b.size = a.size
      /\ b.mutations = a.mutations /\ b.held = a.held
  BY DEF ArrayType
<1>2. WithObjects(a, v) = b
  BY DEF WithObjects
<1> HIDE DEF b
<1> QED
  BY <1>1, <1>2 DEF Proper, Count

LEMMA BumpedProper ==
  ASSUME NEW a, Proper(a)
  PROVE  /\ Proper(Bumped(a))
         /\ Bumped(a).objects = a.objects
         /\ Bumped(a).mutations = a.mutations + 1
<1> DEFINE b == [a EXCEPT !.mutations = a.mutations + 1]
<1>1. a.mutations \in Nat /\ a \in ArrayType
  BY DEF Proper, ArrayType
<1>2. /\ b \in ArrayType /\ b.objects = a.objects /\ b.size = a.size
      /\ b.mutations = a.mutations + 1 /\ b.held = a.held
  BY <1>1 DEF ArrayType
<1>3. Bumped(a) = b
  BY DEF Bumped
<1> HIDE DEF b
<1> QED
  BY <1>2, <1>3 DEF Proper, Count

LEMMA ShrunkProper ==
  ASSUME NEW a, Proper(a)
  PROVE  /\ Proper(Shrunk(a))
         /\ Shrunk(a).objects = a.objects
         /\ Shrunk(a).mutations = a.mutations
<1>1. a \in ArrayType /\ a.size \in Nat /\ Count(a) \in Nat
  BY DEF Proper, ArrayType, Count
<1>2. CASE Count(a) < a.size \div 2 /\ a.size > MinimumSize
  <2> DEFINE n == a.size \div 2
  <2> DEFINE b == [a EXCEPT !.size = n]
  <2>1. n \in Nat /\ Count(a) <= n
    BY <1>1, <1>2
  <2>2. Shrunk(a) = b
    BY <1>2 DEF Shrunk
  <2> HIDE DEF n
  <2>3. /\ b \in ArrayType /\ b.objects = a.objects /\ b.size = n
        /\ b.mutations = a.mutations /\ b.held = a.held
    BY <1>1, <2>1 DEF ArrayType
  <2> HIDE DEF b
  <2> QED
    BY <2>1, <2>2, <2>3 DEF Proper, Count
<1>3. CASE ~(Count(a) < a.size \div 2 /\ a.size > MinimumSize)
  BY <1>3 DEF Shrunk
<1> QED
  BY <1>2, <1>3
(***************************************************************************)
(* What is kept of a sequence and what is not are all of it.               *)
(***************************************************************************)
LEMMA OccurrencesKept ==
  ASSUME NEW S, NEW v \in Seq(S), NEW G, NEW o
  PROVE  /\ Keep(v, G) \in Seq(S)
         /\ Occurrences(o, Keep(v, G)) = IF o \in G THEN Occurrences(o, v) ELSE 0
         /\ Len(Keep(v, G)) <= Len(v)
<1> DEFINE w == Keep(v, G)
<1>1. w \in Seq(S) /\ \E e : Embeds(e, w, v, G, Len(v))
  BY KeepEmbeds
<1> HIDE DEF w
<1>2. PICK e : Embeds(e, w, v, G, Len(v))
  BY <1>1
<1>3. /\ e \in [1 .. Len(w) -> 1 .. Len(v)]
      /\ \A i, j \in 1 .. Len(w) : i < j => e[i] < e[j]
      /\ \A i \in 1 .. Len(w) : w[i] = v[e[i]] /\ v[e[i]] \in G
      /\ \A j \in 1 .. Len(v) : v[j] \in G => \E i \in 1 .. Len(w) : e[i] = j
  BY <1>2 DEF Embeds
<1>4. Len(w) \in Nat /\ Len(v) \in Nat
  BY <1>1
<1>5. \A i, j \in 1 .. Len(w) : e[i] = e[j] => i = j
  <2> SUFFICES ASSUME NEW i \in 1 .. Len(w), NEW j \in 1 .. Len(w), e[i] = e[j]
               PROVE  i = j
    OBVIOUS
  <2>1. e[i] \in Int /\ e[j] \in Int
    BY <1>3, <1>4
  <2>2. ~(i < j) /\ ~(j < i)
    BY <1>3, <2>1
  <2> QED
    BY <2>2
<1> DEFINE A == Places(o, w)
<1> DEFINE B == Places(o, v)
<1>6. /\ A \subseteq 1 .. Len(w) /\ IsFiniteSet(A) /\ Occurrences(o, w) = Cardinality(A)
      /\ B \subseteq 1 .. Len(v) /\ IsFiniteSet(B) /\ Occurrences(o, v) = Cardinality(B)
  BY <1>1, PlacesAreFinite
<1>7. \A k \in 1 .. Len(w) : k \in A <=> w[k] = o
  BY <1>1 DEF Places
<1>8. \A k \in 1 .. Len(v) : k \in B <=> v[k] = o
  BY DEF Places
<1> HIDE DEF A, B
<1>9. Occurrences(o, w) = IF o \in G THEN Occurrences(o, v) ELSE 0
  <2>1. CASE o \in G
    <3> DEFINE g == [k \in A |-> e[k]]
    <3>1. g \in [A -> B]
      BY <1>3, <1>6, <1>7, <1>8
    <3>2. \A a, b \in A : g[a] = g[b] => a = b
      BY <1>5, <1>6
    <3>3. \A b \in B : \E a \in A : g[a] = b
      BY <1>3, <1>6, <1>7, <1>8, <2>1
    <3> HIDE DEF g
    <3>4. Cardinality(B) = Cardinality(A)
      BY <1>6, <3>1, <3>2, <3>3, SameNumber
    <3> QED
      BY <1>6, <2>1, <3>4
  <2>2. CASE o \notin G
    <3>1. A = {}
      BY <1>3, <1>6, <1>7, <2>2
    <3> QED
      BY <1>6, <2>2, <3>1, FS_EmptySet
  <2> QED
    BY <2>1, <2>2
<1>10. Len(w) <= Len(v)
  <2>1. IsFiniteSet(1 .. Len(v)) /\ Cardinality(1 .. Len(v)) = Len(v)
    <3>1. 1 \in Int /\ Len(v) \in Int
      BY <1>4
    <3>2. /\ IsFiniteSet(1 .. Len(v))
          /\ Cardinality(1 .. Len(v)) = IF 1 > Len(v) THEN 0 ELSE Len(v) - 1 + 1
      BY <3>1, FS_Interval
    <3> QED
      BY <1>4, <3>2
  <2>2. IsFiniteSet(1 .. Len(w)) /\ Cardinality(1 .. Len(w)) = Len(w)
    <3>1. 1 \in Int /\ Len(w) \in Int
      BY <1>4
    <3>2. /\ IsFiniteSet(1 .. Len(w))
          /\ Cardinality(1 .. Len(w)) = IF 1 > Len(w) THEN 0 ELSE Len(w) - 1 + 1
      BY <3>1, FS_Interval
    <3> QED
      BY <1>4, <3>2
  <2>3. e \in Injection(1 .. Len(w), 1 .. Len(v))
    BY <1>3, <1>5, Fun_IsInj
  <2>4. Cardinality(1 .. Len(w)) <= Cardinality(1 .. Len(v))
    BY <2>1, <2>3, FS_Injection
  <2> QED
    BY <2>1, <2>2, <2>4
<1> QED
  BY <1>1, <1>9, <1>10 DEF w

LEMMA PartOfOne ==
  ASSUME NEW S, NEW v \in Seq(S), NEW i \in 0 .. Len(v) - 1
  PROVE  Part(v, i, 1) = <<v[i + 1]>>
<1>1. Len(v) \in Nat /\ i \in Nat /\ i + 1 <= Len(v)
  OBVIOUS
<1>2. /\ Part(v, i, 1) \in Seq(S) /\ Len(Part(v, i, 1)) = 1
      /\ \A k \in 1 .. 1 : Part(v, i, 1)[k] = v[i + k]
  <2>1. i \in Nat
    BY <1>1
  <2>2. 1 \in Nat
    OBVIOUS
  <2>3. i + 1 <= Len(v)
    BY <1>1
  <2> QED
    BY <2>1, <2>2, <2>3, PartProperties
<1>3. v[i + 1] \in S
  BY <1>1
<1> DEFINE w == Part(v, i, 1)
<1>4. w[1] = v[i + 1]
  BY <1>2
<1> HIDE DEF w
<1>5. w \in Seq(S) /\ Len(w) = 1
  BY <1>2 DEF w
<1> QED
  BY <1>3, <1>4, <1>5 DEF w

(***************************************************************************)
(* A sequence with a part of it replaced.                                  *)
(***************************************************************************)
Spliced(v, l, n, w) == (Part(v, 0, l) \o w) \o Part(v, l + n, Len(v) - l - n)

LEMMA SplicedProperties ==
  ASSUME NEW S, NEW v \in Seq(S), NEW l \in Nat, NEW n \in Nat, l + n <= Len(v),
         NEW w \in Seq(S)
  PROVE  /\ Spliced(v, l, n, w) \in Seq(S)
         /\ Len(Spliced(v, l, n, w)) = Len(v) - n + Len(w)
         /\ \A k \in 1 .. Len(v) - n + Len(w) :
              Spliced(v, l, n, w)[k] = IF k <= l THEN v[k]
                                       ELSE IF k <= l + Len(w) THEN w[k - l]
                                       ELSE v[k - Len(w) + n]
         /\ \A o : /\ Occurrences(o, Spliced(v, l, n, w)) =
                        Occurrences(o, v) - Occurrences(o, Part(v, l, n))
                          + Occurrences(o, w)
<1> DEFINE m == Len(v) - l - n
<1>1. m \in Nat /\ l + n \in Nat /\ l + n + m = Len(v) /\ Len(v) \in Nat /\ Len(w) \in Nat
  OBVIOUS
<1> DEFINE a == Part(v, 0, l)
<1> DEFINE c == Part(v, l + n, m)
<1>2. a \in Seq(S) /\ Len(a) = l /\ \A k \in 1 .. l : a[k] = v[0 + k]
  <2>1. 0 + l <= Len(v)
    BY <1>1
  <2>2. 0 \in Nat
    OBVIOUS
  <2> QED
    BY ONLY <2>1, <2>2, v \in Seq(S), l \in Nat, PartProperties
<1>3. c \in Seq(S) /\ Len(c) = m /\ \A k \in 1 .. m : c[k] = v[l + n + k]
  <2> HIDE DEF m
  <2>1. l + n + m <= Len(v)
    BY <1>1
  <2>2. m \in Nat
    BY <1>1
  <2>3. l + n \in Nat
    BY <1>1
  <2> QED
    BY <2>1, <2>2, <2>3, PartProperties
<1>4. \A o : Occurrences(o, v) = Occurrences(o, a) + Occurrences(o, Part(v, l, n))
                                 + Occurrences(o, c)
  BY OccurrencesInParts
<1>5. Spliced(v, l, n, w) = (a \o w) \o c
  BY DEF Spliced
<1>6. Part(v, l, n) \in Seq(S)
  BY PartProperties
<1> HIDE DEF a, c, m
<1>7. /\ a \o w \in Seq(S) /\ Len(a \o w) = l + Len(w)
      /\ \A k \in 1 .. l + Len(w) : (a \o w)[k] = IF k <= l THEN a[k] ELSE w[k - l]
  BY <1>2, ConcatProperties
<1> DEFINE b == a \o w
<1>8. \A o : Occurrences(o, b) = Occurrences(o, a) + Occurrences(o, w)
  BY <1>2, OccurrencesConcat
<1> HIDE DEF b
<1>9. b \in Seq(S) /\ Len(b) = l + Len(w)
      /\ \A k \in 1 .. l + Len(w) : b[k] = IF k <= l THEN a[k] ELSE w[k - l]
  BY <1>7 DEF b
<1>10. /\ b \o c \in Seq(S) /\ Len(b \o c) = Len(b) + m
       /\ \A k \in 1 .. Len(b) + m : (b \o c)[k] = IF k <= Len(b) THEN b[k]
                                                  ELSE c[k - Len(b)]
  BY <1>3, <1>9, ConcatProperties
<1>11. \A o : Occurrences(o, b \o c) = Occurrences(o, b) + Occurrences(o, c)
  BY <1>3, <1>9, OccurrencesConcat
<1> DEFINE r == b \o c
<1>12. Spliced(v, l, n, w) = r
  BY <1>5 DEF b
<1>13. /\ r \in Seq(S) /\ Len(r) = l + Len(w) + m
       /\ \A k \in 1 .. l + Len(w) + m : r[k] = IF k <= l + Len(w) THEN b[k]
                                                ELSE c[k - (l + Len(w))]
  BY <1>9, <1>10
<1>14. \A o : Occurrences(o, r) = Occurrences(o, b) + Occurrences(o, c)
  BY <1>11
<1> HIDE DEF r
<1>15. ASSUME NEW k \in 1 .. Len(v) - n + Len(w)
       PROVE  r[k] = IF k <= l THEN v[k]
                     ELSE IF k <= l + Len(w) THEN w[k - l]
                     ELSE v[k - Len(w) + n]
  <2>1. k \in 1 .. l + Len(w) + m
    BY <1>1
  <2>2. CASE k <= l
    <3>1. k \in 1 .. l /\ k \in 1 .. l + Len(w) /\ k <= l + Len(w) /\ 0 + k = k
      BY <1>1, <2>2
    <3> QED
      BY <1>2, <1>9, <1>13, <2>1, <2>2, <3>1
  <2>3. CASE ~(k <= l) /\ k <= l + Len(w)
    <3>1. k \in 1 .. l + Len(w)
      BY <1>1, <2>3
    <3> QED
      BY <1>9, <1>13, <2>1, <2>3, <3>1
  <2>4. CASE ~(k <= l) /\ ~(k <= l + Len(w))
    <3> DEFINE j == k - (l + Len(w))
    <3>1. j \in 1 .. m /\ l + n + j = k - Len(w) + n
      BY <1>1, <2>1, <2>4
    <3>2. r[k] = c[j]
      BY <1>13, <2>1, <2>4
    <3>3. c[j] = v[l + n + j]
      <4> HIDE DEF j
      <4> QED
        BY <1>3, <3>1
    <3> QED
      BY <2>4, <3>1, <3>2, <3>3
  <2> QED
    BY <2>2, <2>3, <2>4
<1>16. ASSUME NEW o
       PROVE  Occurrences(o, r) = Occurrences(o, v) - Occurrences(o, Part(v, l, n))
                                    + Occurrences(o, w)
  <2>1. Occurrences(o, a) \in Nat /\ Occurrences(o, c) \in Nat
        /\ Occurrences(o, w) \in Nat /\ Occurrences(o, Part(v, l, n)) \in Nat
    BY <1>2, <1>3, <1>6, PlacesAreFinite
  <2> QED
    BY <1>4, <1>8, <1>14, <2>1
<1>17. Len(r) = Len(v) - n + Len(w)
  <2>1. Len(r) = l + Len(w) + m
    BY <1>13
  <2> QED
    BY <1>1, <2>1
<1> QED
  BY <1>12, <1>13, <1>15, <1>16, <1>17

LEMMA ReplacedAt ==
  ASSUME NEW S, NEW v \in Seq(S), NEW i \in 0 .. Len(v) - 1, NEW o \in S
  PROVE  Spliced(v, i, 1, <<o>>) = [v EXCEPT ![i + 1] = o]
<1> DEFINE w == [v EXCEPT ![i + 1] = o]
<1>1. Len(v) \in Nat /\ i \in Nat /\ i + 1 <= Len(v) /\ i + 1 \in 1 .. Len(v)
  OBVIOUS
<1>2. w \in Seq(S) /\ Len(w) = Len(v)
      /\ \A k \in 1 .. Len(v) : w[k] = IF k = i + 1 THEN o ELSE v[k]
  BY <1>1
<1> DEFINE q == <<o>>
<1>3. q \in Seq(S) /\ Len(q) = 1 /\ q[1] = o
  OBVIOUS
<1> HIDE DEF q, w
<1> DEFINE r == Spliced(v, i, 1, q)
<1>4. /\ r \in Seq(S) /\ Len(r) = Len(v) - 1 + Len(q)
      /\ \A k \in 1 .. Len(v) - 1 + Len(q) :
           r[k] = IF k <= i THEN v[k]
                  ELSE IF k <= i + Len(q) THEN q[k - i]
                  ELSE v[k - Len(q) + 1]
  <2>1. i \in Nat
    BY <1>1
  <2>2. 1 \in Nat
    OBVIOUS
  <2>3. i + 1 <= Len(v)
    BY <1>1
  <2>4. q \in Seq(S)
    BY <1>3
  <2> QED
    BY <2>1, <2>2, <2>3, <2>4, SplicedProperties
<1> HIDE DEF r
<1>5. ASSUME NEW k \in 1 .. Len(r)
      PROVE  r[k] = w[k]
  <2>1. k \in 1 .. Len(v) - 1 + Len(q) /\ k \in 1 .. Len(v)
    BY <1>1, <1>3, <1>4
  <2>2. CASE k <= i
    <3>1. k # i + 1
      BY <1>1, <2>2
    <3>2. r[k] = v[k]
      BY <1>4, <2>1, <2>2
    <3> QED
      BY <1>2, <2>1, <3>1, <3>2
  <2>3. CASE k = i + 1
    <3>1. ~(k <= i) /\ k <= i + Len(q) /\ k - i = 1
      BY <1>1, <1>3, <2>3
    <3>2. r[k] = q[k - i]
      BY <1>4, <2>1, <3>1
    <3>3. w[k] = o
      BY <1>2, <2>1, <2>3
    <3> QED
      BY <1>3, <3>1, <3>2, <3>3
  <2>4. CASE k > i + 1
    <3>1. ~(k <= i) /\ ~(k <= i + Len(q)) /\ k - Len(q) + 1 = k /\ k # i + 1
      BY <1>1, <1>3, <2>4
    <3>2. r[k] = v[k - Len(q) + 1]
      BY <1>4, <2>1, <3>1
    <3>3. w[k] = v[k]
      BY <1>2, <2>1, <3>1
    <3> QED
      BY <3>1, <3>2, <3>3
  <2> QED
    BY <1>1, <2>1, <2>2, <2>3, <2>4
<1>6. Len(r) = Len(w)
  BY <1>1, <1>2, <1>3, <1>4
<1>7. r = w
  BY <1>2, <1>4, <1>5, <1>6, SeqEqual
<1> QED
  BY <1>7 DEF r, q, w
-----------------------------------------------------------------------------
(***************************************************************************)
(* Every method leaves the array proper, and counts a mutation when it has *)
(* changed the array.                                                      *)
(***************************************************************************)
Follows(b, a) == Proper(b) /\ (b = a \/ b.mutations > a.mutations)

LEMMA NextProper ==
  ASSUME NEW a, Proper(a), NEW b, Proper(b), b.mutations = a.mutations
  PROVE  Follows(Bumped(b), a)
<1>1. a.mutations \in Nat
  BY DEF Proper, ArrayType
<1>2. Proper(Bumped(b)) /\ Bumped(b).mutations = b.mutations + 1
  BY BumpedProper
<1>3. Bumped(b).mutations > a.mutations
  BY <1>1, <1>2
<1> QED
  BY <1>2, <1>3 DEF Follows

(***************************************************************************)
(* The part n after l is let go of, and w is retained in its place, in a   *)
(* storage with room for it.                                               *)
(***************************************************************************)
LEMMA SplicedProper ==
  ASSUME NEW a, Proper(a), NEW l \in Nat, NEW n \in Nat, l + n <= Count(a),
         NEW w \in Seq(Objects),
         NEW b \in ArrayType, Count(a) - n + Len(w) <= b.size,
         b.mutations = a.mutations,
         \A o \in Objects : b.held[o] = a.held[o] - Occurrences(o, Part(a.objects, l, n))
                                          + Occurrences(o, w),
         NEW v, v = Spliced(a.objects, l, n, w)
  PROVE  /\ Proper(WithObjects(b, v))
         /\ Follows(Bumped(WithObjects(b, v)), a)
<1>1. /\ a.objects \in Seq(Objects) /\ Count(a) = Len(a.objects)
      /\ \A o \in Objects : a.held[o] = Occurrences(o, a.objects)
  BY DEF Proper, ArrayType, Count
<1> DEFINE u == a.objects
<1>2. u \in Seq(Objects) /\ l + n <= Len(u)
  BY <1>1
<1>3. /\ v \in Seq(Objects)
      /\ Len(v) = Len(u) - n + Len(w)
      /\ \A o : Occurrences(o, v) = Occurrences(o, u) - Occurrences(o, Part(u, l, n))
                                      + Occurrences(o, w)
  <2>1. l + n <= Len(u)
    BY <1>2
  <2>2. u \in Seq(Objects)
    BY <1>2
  <2>3. v = Spliced(u, l, n, w)
    OBVIOUS
  <2> HIDE DEF u
  <2> QED
    BY <2>1, <2>2, <2>3, SplicedProperties
<1>4. Len(v) <= b.size
  BY <1>1, <1>3
<1>5. \A o \in Objects : b.held[o] = Occurrences(o, v)
  BY <1>1, <1>3
<1>6. /\ Proper(WithObjects(b, v))
      /\ WithObjects(b, v).mutations = a.mutations
  BY <1>3, <1>4, <1>5, WithObjectsProper
<1> DEFINE c == WithObjects(b, v)
<1>7. Proper(c)
  BY <1>6
<1>8. c.mutations = a.mutations
  BY <1>6
<1> HIDE DEF c
<1>9. Follows(Bumped(c), a)
  BY <1>7, <1>8, NextProper
<1> QED
  BY <1>6, <1>9 DEF c

LEMMA ProperFacts ==
  ASSUME NEW a, Proper(a)
  PROVE  /\ a \in ArrayType
         /\ a.objects \in Seq(Objects)
         /\ Count(a) = Len(a.objects)
         /\ Count(a) \in Nat
         /\ a.size \in Nat
         /\ Count(a) <= a.size
         /\ a.mutations \in Nat
         /\ \A o \in Objects : a.held[o] \in Int
         /\ \A o \in Objects : a.held[o] = Occurrences(o, a.objects)
BY DEF Proper, ArrayType, Count

LEMMA InsertedFollows ==
  ASSUME NEW a, Proper(a), NEW o \in Objects, NEW i \in 0 .. Count(a)
  PROVE  Follows(Inserted(a, o, i), a)
<1> DEFINE w == <<o>>
<1> DEFINE r == Retained(a, w)
<1> DEFINE g == Grown(r)
<1> DEFINE v == Spliced(a.objects, i, 0, w)
<1>1. /\ a \in ArrayType /\ a.objects \in Seq(Objects) /\ Count(a) = Len(a.objects)
      /\ Count(a) \in Nat /\ Count(a) <= a.size
      /\ \A p \in Objects : a.held[p] \in Int
  BY ProperFacts
<1>2. w \in Seq(Objects) /\ Len(w) = 1
  OBVIOUS
<1> HIDE DEF w
<1>3. /\ r \in ArrayType /\ r.objects = a.objects /\ r.size = a.size
      /\ r.mutations = a.mutations
      /\ \A p \in Objects : r.held[p] = a.held[p] + Occurrences(p, w)
  BY <1>1, <1>2, RetainedProperties
<1> HIDE DEF r
<1>4. Count(r) = Count(a) /\ Count(r) <= r.size
  BY <1>1, <1>3 DEF Count
<1>5. /\ g \in ArrayType /\ g.objects = r.objects /\ Count(r) + 1 <= g.size
      /\ g.mutations = r.mutations /\ g.held = r.held
  <2>1. r \in ArrayType
    BY <1>3
  <2>2. Count(r) <= r.size
    BY <1>4
  <2> QED
    BY <2>1, <2>2, GrownProperties
<1> HIDE DEF g
<1>6. i \in Nat /\ i + 0 <= Count(a) /\ Count(a) - 0 + Len(w) <= g.size
  BY <1>1, <1>2, <1>4, <1>5
<1>7. Part(a.objects, i, 0) = << >>
  <2>1. Part(a.objects, i, 0) \in Seq(Objects) /\ Len(Part(a.objects, i, 0)) = 0
    <3>1. i + 0 <= Len(a.objects)
      BY <1>1, <1>6
    <3>2. a.objects \in Seq(Objects) /\ i \in Nat
      BY <1>1, <1>6
    <3> DEFINE u == a.objects
    <3>3. u \in Seq(Objects) /\ i + 0 <= Len(u)
      BY <3>1, <3>2
    <3> HIDE DEF u
    <3>4. Part(u, i, 0) \in Seq(Objects) /\ Len(Part(u, i, 0)) = 0
      <4>1. i \in Nat
        BY <1>6
      <4>2. 0 \in Nat
        OBVIOUS
      <4>3. i + 0 <= Len(u)
        BY <3>3
      <4>4. u \in Seq(Objects)
        BY <3>3
      <4> QED
        BY <4>1, <4>2, <4>3, <4>4, PartProperties
    <3> QED
      BY <3>4 DEF u
  <2> QED
    BY <2>1
<1>8. \A p \in Objects : g.held[p] = a.held[p] - Occurrences(p, Part(a.objects, i, 0))
                                       + Occurrences(p, w)
  <2> SUFFICES ASSUME NEW p \in Objects
               PROVE  g.held[p] = a.held[p] - Occurrences(p, Part(a.objects, i, 0))
                                    + Occurrences(p, w)
    OBVIOUS
  <2>1. Occurrences(p, Part(a.objects, i, 0)) = 0
    BY <1>7, OccurrencesEmpty
  <2>2. g.held[p] = a.held[p] + Occurrences(p, w)
    BY <1>3, <1>5
  <2>3. a.held[p] \in Int
    BY <1>1
  <2> QED
    BY <2>1, <2>2, <2>3
<1>9. Follows(Bumped(WithObjects(g, v)), a)
  <2>1. g \in ArrayType
    BY <1>5
  <2>2. g.mutations = a.mutations
    BY <1>3, <1>5
  <2>3. i \in Nat
    BY <1>6
  <2>4. i + 0 <= Count(a)
    BY <1>6
  <2>5. Count(a) - 0 + Len(w) <= g.size
    BY <1>6
  <2>6. w \in Seq(Objects)
    BY <1>2
  <2>7. 0 \in Nat
    OBVIOUS
  <2>8. v = Spliced(a.objects, i, 0, w)
    OBVIOUS
  <2> HIDE DEF v
  <2> QED
    BY <1>8, <2>1, <2>2, <2>3, <2>4, <2>5, <2>6, <2>7, <2>8, SplicedProper
<1>10. v = Part(g.objects, 0, i) \o w \o Part(g.objects, i, Len(g.objects) - i)
  <2>1. g.objects = a.objects
    BY <1>3, <1>5
  <2>2. i + 0 = i /\ Len(a.objects) - i - 0 = Len(a.objects) - i
    BY <1>1, <1>6
  <2> QED
    BY <2>1, <2>2 DEF Spliced
<1>11. Inserted(a, o, i) = Bumped(WithObjects(g, v))
  BY <1>10 DEF Inserted, WithObjects, g, r, w
<1> QED
  BY <1>9, <1>11
LEMMA NothingConcat ==
  ASSUME NEW S, NEW v \in Seq(S)
  PROVE  v \o << >> = v
<1> DEFINE e == << >>
<1>1. e \in Seq(S) /\ Len(e) = 0
  OBVIOUS
<1> HIDE DEF e
<1>2. /\ v \o e \in Seq(S) /\ Len(v \o e) = Len(v) + Len(e)
      /\ \A k \in 1 .. Len(v) + Len(e) :
           (v \o e)[k] = IF k <= Len(v) THEN v[k] ELSE e[k - Len(v)]
  BY <1>1, ConcatProperties
<1> DEFINE w == v \o e
<1>3. /\ w \in Seq(S) /\ Len(w) = Len(v)
      /\ \A k \in 1 .. Len(v) : w[k] = v[k]
  BY <1>1, <1>2
<1> HIDE DEF w
<1>4. w = v
  BY <1>3, SeqEqual
<1> QED
  BY <1>4 DEF w, e

LEMMA EmptyPart ==
  ASSUME NEW S, NEW v \in Seq(S), NEW l \in 0 .. Len(v)
  PROVE  Part(v, l, 0) = << >>
<1>1. l \in Nat
  OBVIOUS
<1>2. 0 \in Nat
  OBVIOUS
<1>3. l + 0 <= Len(v)
  OBVIOUS
<1>4. Part(v, l, 0) \in Seq(S) /\ Len(Part(v, l, 0)) = 0
  BY <1>1, <1>2, <1>3, PartProperties
<1> QED
  BY <1>4

LEMMA AddedFollows ==
  ASSUME NEW a, Proper(a), NEW o \in Objects
  PROVE  Follows(Added(a, o), a)
<1> DEFINE g == Grown(Retained(a, <<o>>))
<1> DEFINE u == a.objects
<1>1. u \in Seq(Objects) /\ Count(a) = Len(u) /\ a \in ArrayType /\ Count(a) <= a.size
      /\ Count(a) \in Nat
  BY ProperFacts
<1>2. g.objects = u
  <2> DEFINE r == Retained(a, <<o>>)
  <2>1. <<o>> \in Seq(Objects)
    OBVIOUS
  <2>2. r \in ArrayType /\ r.objects = u /\ r.size = a.size
    BY <1>1, <2>1, RetainedProperties
  <2> HIDE DEF r
  <2>3. Count(r) <= r.size
    BY <1>1, <2>2 DEF Count
  <2>4. Grown(r).objects = r.objects
    BY <2>2, <2>3, GrownProperties
  <2> QED
    BY <2>2, <2>4 DEF r
<1>3. Follows(Inserted(a, o, Count(a)), a)
  <2>1. Count(a) \in 0 .. Count(a)
    BY <1>1
  <2> QED
    BY <2>1, InsertedFollows
<1>4. Append(u, o) = Part(u, 0, Count(a)) \o <<o>> \o Part(u, Count(a), Len(u) - Count(a))
  <2> HIDE DEF u
  <2>1. Part(u, 0, Len(u)) = u
    <3>1. Len(u) \in Nat /\ 0 \in Nat /\ Len(u) + 0 <= Len(u)
      BY <1>1
    <3> QED
      BY <1>1, <3>1, PartsAreAll
  <2>2. Part(u, Len(u), 0) = << >>
    <3>1. Len(u) \in 0 .. Len(u)
      BY <1>1
    <3>2. u \in Seq(Objects)
      BY <1>1
    <3> QED
      BY <3>1, <3>2, EmptyPart
  <2>3. Len(u) - Count(a) = 0
    BY <1>1
  <2> DEFINE w == Append(u, o)
  <2>4. w \in Seq(Objects) /\ w = u \o <<o>>
    BY <1>1
  <2> HIDE DEF w
  <2>5. w \o << >> = w
    BY <2>4, NothingConcat
  <2> QED
    BY <1>1, <2>1, <2>2, <2>3, <2>4, <2>5 DEF w
<1>5. Added(a, o) = Inserted(a, o, Count(a))
  BY <1>2, <1>4 DEF Added, Inserted
<1> QED
  BY <1>3, <1>5

LEMMA ReplacedFollows ==
  ASSUME NEW a, Proper(a), NEW o \in Objects, NEW i \in 0 .. Count(a) - 1
  PROVE  Follows(Replaced(a, o, i), a)
<1> DEFINE u == a.objects
<1> DEFINE w == <<o>>
<1> DEFINE old == <<u[i + 1]>>
<1> DEFINE r == Retained(a, w)
<1> DEFINE b == Released(r, old)
<1> DEFINE v == Spliced(u, i, 1, w)
<1>1. /\ u \in Seq(Objects) /\ Count(a) = Len(u) /\ a \in ArrayType
      /\ Count(a) <= a.size /\ Count(a) \in Nat
      /\ \A p \in Objects : a.held[p] \in Int
  BY ProperFacts
<1>2. i \in 0 .. Len(u) - 1 /\ i \in Nat /\ i + 1 <= Count(a) /\ i + 1 \in 1 .. Len(u)
  BY <1>1
<1>3. w \in Seq(Objects) /\ Len(w) = 1
  OBVIOUS
<1>4. old \in Seq(Objects)
  <2>1. u[i + 1] \in Objects
    BY <1>1, <1>2
  <2> QED
    BY <2>1
<1>5. Part(u, i, 1) = old
  <2> HIDE DEF u
  <2> QED
    BY <1>1, <1>2, PartOfOne DEF old
<1>6. v = [u EXCEPT ![i + 1] = o]
  <2> HIDE DEF u
  <2> QED
    <3>1. u \in Seq(Objects)
      BY <1>1
    <3>2. i \in 0 .. Len(u) - 1
      BY <1>2
    <3> QED
      BY <3>1, <3>2, ReplacedAt
<1> HIDE DEF w, old
<1>7. /\ r \in ArrayType /\ r.objects = u /\ r.size = a.size
      /\ r.mutations = a.mutations
      /\ \A p \in Objects : r.held[p] = a.held[p] + Occurrences(p, w)
  BY <1>1, <1>3, RetainedProperties
<1> HIDE DEF r
<1>8. /\ b \in ArrayType /\ b.objects = r.objects /\ b.size = r.size
      /\ b.mutations = r.mutations
      /\ \A p \in Objects : b.held[p] = r.held[p] - Occurrences(p, old)
  BY <1>4, <1>7, ReleasedProperties
<1> HIDE DEF b
<1>9. \A p \in Objects : b.held[p] = a.held[p] - Occurrences(p, Part(u, i, 1))
                                       + Occurrences(p, w)
  <2> SUFFICES ASSUME NEW p \in Objects
               PROVE  b.held[p] = a.held[p] - Occurrences(p, Part(u, i, 1))
                                    + Occurrences(p, w)
    OBVIOUS
  <2>1. Occurrences(p, w) \in Nat /\ Occurrences(p, old) \in Nat
    BY <1>3, <1>4, PlacesAreFinite
  <2>2. b.held[p] = r.held[p] - Occurrences(p, old)
    BY <1>8
  <2>3. r.held[p] = a.held[p] + Occurrences(p, w) /\ a.held[p] \in Int
    BY <1>1, <1>7
  <2> QED
    BY <1>5, <2>1, <2>2, <2>3
<1>10. Follows(Bumped(WithObjects(b, v)), a)
  <2>1. b \in ArrayType
    BY <1>8
  <2>2. b.mutations = a.mutations
    BY <1>7, <1>8
  <2>3. i \in Nat
    BY <1>2
  <2>4. i + 1 <= Count(a)
    BY <1>2
  <2>5. Count(a) - 1 + Len(w) <= b.size
    BY <1>1, <1>3, <1>7, <1>8
  <2>6. w \in Seq(Objects)
    BY <1>3
  <2>7. 1 \in Nat
    OBVIOUS
  <2>8. v = Spliced(a.objects, i, 1, w)
    OBVIOUS
  <2> HIDE DEF v
  <2> QED
    BY <1>9, <2>1, <2>2, <2>3, <2>4, <2>5, <2>6, <2>7, <2>8, SplicedProper
<1>11. b.objects = u
  BY <1>7, <1>8
<1>12. Replaced(a, o, i) = Bumped([b EXCEPT !.objects = [b.objects EXCEPT ![i + 1] = o]])
  BY DEF Replaced, b, r, w, old
<1>13. Replaced(a, o, i) = Bumped(WithObjects(b, v))
  BY <1>6, <1>11, <1>12 DEF WithObjects
<1> QED
  BY <1>10, <1>13

LEMMA RangeRemovedProper ==
  ASSUME NEW a, Proper(a), NEW l \in Nat, NEW n \in Nat, l + n <= Count(a)
  PROVE  LET b == WithObjects(Released(a, Part(a.objects, l, n)),
                              Without(a.objects, l, n))
         IN  /\ Proper(b)
             /\ b.mutations = a.mutations
             /\ b.objects = Without(a.objects, l, n)
             /\ Follows(Bumped(b), a)
<1> DEFINE u == a.objects
<1> DEFINE w == << >>
<1> DEFINE part == Part(u, l, n)
<1> DEFINE b == Released(a, part)
<1> DEFINE v == Spliced(u, l, n, w)
<1>1. /\ u \in Seq(Objects) /\ Count(a) = Len(u) /\ a \in ArrayType
      /\ Count(a) <= a.size /\ Count(a) \in Nat
      /\ \A p \in Objects : a.held[p] \in Int
  BY ProperFacts
<1>2. w \in Seq(Objects) /\ Len(w) = 0 /\ \A p : Occurrences(p, w) = 0
  BY OccurrencesEmpty
<1>3. l + n <= Len(u)
  BY <1>1
<1>4. part \in Seq(Objects) /\ Part(u, 0, l) \in Seq(Objects)
  <2> HIDE DEF u
  <2>1. 0 + l <= Len(u) /\ 0 \in Nat
    BY <1>1, <1>3
  <2>2. Part(u, 0, l) \in Seq(Objects)
    BY <1>1, <2>1, PartProperties
  <2> QED
    BY <1>1, <1>3, <2>2, PartProperties
<1>5. v = Without(u, l, n)
  <2>1. Part(u, 0, l) \o << >> = Part(u, 0, l)
    BY <1>4, NothingConcat
  <2>2. Len(u) - l - n = Len(u) - l - n
    OBVIOUS
  <2> QED
    BY <2>1 DEF Spliced, Without
<1>6. /\ b \in ArrayType /\ b.objects = u /\ b.size = a.size
      /\ b.mutations = a.mutations
      /\ \A p \in Objects : b.held[p] = a.held[p] - Occurrences(p, part)
  <2> HIDE DEF part
  <2> QED
    BY <1>1, <1>4, ReleasedProperties
<1>10. Len(w) = 0
  BY <1>2
<1> HIDE DEF b
<1>7. \A p \in Objects : b.held[p] = a.held[p] - Occurrences(p, part) + Occurrences(p, w)
  <2> SUFFICES ASSUME NEW p \in Objects
               PROVE  b.held[p] = a.held[p] - Occurrences(p, part) + Occurrences(p, w)
    OBVIOUS
  <2>1. Occurrences(p, part) \in Nat /\ a.held[p] \in Int /\ Occurrences(p, w) = 0
    BY <1>1, <1>2, <1>4, PlacesAreFinite
  <2>2. b.held[p] = a.held[p] - Occurrences(p, part)
    BY <1>6
  <2> QED
    BY <2>1, <2>2
<1>8. /\ Proper(WithObjects(b, v))
      /\ Follows(Bumped(WithObjects(b, v)), a)
  <2>1. b \in ArrayType
    BY <1>6
  <2>2. b.mutations = a.mutations
    BY <1>6
  <2>5. Count(a) - n + Len(w) <= b.size
    <3> HIDE DEF w, v
    <3>1. a.size \in Nat /\ b.size = a.size
      BY <1>1, <1>6 DEF ArrayType
    <3> QED
      BY <1>1, <1>10, <3>1
  <2>6. w \in Seq(Objects)
    BY <1>2
  <2>8. v = Spliced(a.objects, l, n, w)
    OBVIOUS
  <2>9. \A p \in Objects : b.held[p] = a.held[p] - Occurrences(p, Part(a.objects, l, n))
                                         + Occurrences(p, w)
    BY <1>7
  <2> HIDE DEF v, w
  <2> QED
    BY <2>1, <2>2, <2>5, <2>6, <2>8, <2>9, SplicedProper
<1>9. WithObjects(b, v).mutations = a.mutations /\ WithObjects(b, v).objects = v
  <2> HIDE DEF v
  <2> QED
    BY <1>6 DEF WithObjects, ArrayType
<1> QED
  BY <1>5, <1>8, <1>9 DEF b

LEMMA RangeRemovedFollows ==
  ASSUME NEW a, Proper(a), NEW l \in Nat, NEW n \in Nat, l + n <= Count(a)
  PROVE  Follows(RangeRemoved(a, l, n), a)
<1>1. CASE n = 0
  BY <1>1 DEF RangeRemoved, Follows
<1>2. CASE n # 0
  <2> DEFINE x == Released(a, Part(a.objects, l, n))
  <2>1. x.objects = a.objects
    BY DEF Released, Proper, ArrayType
  <2>2. RangeRemoved(a, l, n) = Bumped([x EXCEPT !.objects = Without(x.objects, l, n)])
    BY <1>2 DEF RangeRemoved
  <2>3. RangeRemoved(a, l, n) = Bumped(WithObjects(x, Without(a.objects, l, n)))
    BY <2>1, <2>2 DEF WithObjects
  <2> QED
    BY <2>3, RangeRemovedProper
<1> QED
  BY <1>1, <1>2

LEMMA LastRemovedFollows ==
  ASSUME NEW a, Proper(a), Count(a) > 0
  PROVE  Follows(LastRemoved(a), a)
<1> DEFINE u == a.objects
<1> DEFINE l == Count(a) - 1
<1> DEFINE x == Released(a, Part(u, l, 1))
<1> DEFINE b == WithObjects(x, Without(u, l, 1))
<1>1. /\ u \in Seq(Objects) /\ Count(a) = Len(u) /\ a \in ArrayType
      /\ Count(a) <= a.size /\ Count(a) \in Nat
  BY ProperFacts
<1>2. l \in Nat /\ 1 \in Nat /\ l + 1 <= Count(a) /\ l \in 0 .. Len(u) - 1 /\ l + 1 = Count(a)
      /\ l + 1 \in 0 .. Len(u) /\ Len(u) - l - 1 = 0 /\ l = Len(u) - 1
      /\ 0 + l <= Len(u)
  BY <1>1
<1>3. Proper(b) /\ b.mutations = a.mutations
  <2> HIDE DEF l
  <2>1. l \in Nat
    BY <1>2
  <2>2. 1 \in Nat
    OBVIOUS
  <2>3. l + 1 <= Count(a)
    BY <1>2
  <2> QED
    BY <2>1, <2>2, <2>3, RangeRemovedProper
<1>4. Part(u, l, 1) = <<u[Count(a)]>>
  <2> HIDE DEF u, l
  <2>1. u \in Seq(Objects)
    BY <1>1
  <2>2. l \in 0 .. Len(u) - 1
    BY <1>2
  <2>3. Part(u, l, 1) = <<u[l + 1]>>
    BY <2>1, <2>2, PartOfOne
  <2> QED
    BY <1>2, <2>3
<1>5. Without(u, l, 1) = Part(u, 0, Len(u) - 1)
  <2> HIDE DEF u, l
  <2>1. u \in Seq(Objects)
    BY <1>1
  <2>2. l + 1 \in 0 .. Len(u)
    BY <1>2
  <2>3. Part(u, l + 1, 0) = << >>
    BY <2>1, <2>2, EmptyPart
  <2>4. Part(u, 0, l) \in Seq(Objects)
    <3>1. l \in Nat
      BY <1>2
    <3>2. 0 \in Nat
      OBVIOUS
    <3>3. 0 + l <= Len(u)
      BY <1>2
    <3> QED
      BY <2>1, <3>1, <3>2, <3>3, PartProperties
  <2>5. Part(u, 0, l) \o << >> = Part(u, 0, l)
    BY <2>4, NothingConcat
  <2> QED
    BY <1>2, <2>3, <2>5 DEF Without
<1>6. x.objects = u
  BY DEF Released, Proper, ArrayType
<1>7. LastRemoved(a) = Bumped(Shrunk([x EXCEPT !.objects = Part(x.objects, 0, Len(x.objects) - 1)]))
  BY <1>4 DEF LastRemoved
<1>8. LastRemoved(a) = Bumped(Shrunk(b))
  BY <1>5, <1>6, <1>7 DEF WithObjects
<1> HIDE DEF b
<1>9. Proper(Shrunk(b)) /\ Shrunk(b).mutations = b.mutations
  BY <1>3, ShrunkProper
<1> DEFINE s == Shrunk(b)
<1>10. Proper(s)
  BY <1>9
<1>11. s.mutations = a.mutations
  BY <1>3, <1>9
<1> HIDE DEF s
<1>12. Follows(Bumped(s), a)
  BY <1>10, <1>11, NextProper
<1> QED
  BY <1>8, <1>12 DEF s
(***************************************************************************)
(* What is not spliced: the objects v are retained before, or the held     *)
(* ones stay.                                                              *)
(***************************************************************************)
LEMMA HeldFollows ==
  ASSUME NEW a, Proper(a), NEW b \in ArrayType, b.mutations = a.mutations,
         NEW v \in Seq(Objects), Len(v) <= b.size,
         \A o \in Objects : b.held[o] = Occurrences(o, v)
  PROVE  Follows(Bumped(WithObjects(b, v)), a)
<1> DEFINE c == WithObjects(b, v)
<1>1. Proper(c) /\ c.mutations = b.mutations
  BY WithObjectsProper
<1> HIDE DEF c
<1>2. Follows(Bumped(c), a)
  <2>1. c.mutations = a.mutations
    BY <1>1
  <2> QED
    BY <1>1, <2>1, NextProper
<1> QED
  BY <1>2 DEF c

LEMMA EqualRemovedFollows ==
  ASSUME NEW a, Proper(a), NEW o \in Objects
  PROVE  Follows(EqualRemoved(a, o), a)
<1> DEFINE u == a.objects
<1> DEFINE G == EqualTo(o)
<1> DEFINE gone == Keep(u, G)
<1> DEFINE rest == Keep(u, Objects \ G)
<1> DEFINE b == Released(a, gone)
<1>1. /\ u \in Seq(Objects) /\ Count(a) = Len(u) /\ a \in ArrayType
      /\ Count(a) <= a.size /\ Count(a) \in Nat /\ a.size \in Nat
      /\ \A p \in Objects : a.held[p] = Occurrences(p, u)
  BY ProperFacts
<1> HIDE DEF G
<1>2. /\ gone \in Seq(Objects)
      /\ \A p : Occurrences(p, gone) = IF p \in G THEN Occurrences(p, u) ELSE 0
  <2> HIDE DEF u
  <2>1. u \in Seq(Objects)
    BY <1>1
  <2> SUFFICES ASSUME NEW p
               PROVE  /\ gone \in Seq(Objects)
                      /\ Occurrences(p, gone) = IF p \in G THEN Occurrences(p, u) ELSE 0
    OBVIOUS
  <2> QED
    BY <2>1, OccurrencesKept
<1>3. /\ rest \in Seq(Objects) /\ Len(rest) <= Len(u)
      /\ \A p : Occurrences(p, rest) = IF p \in Objects \ G THEN Occurrences(p, u) ELSE 0
  <2> HIDE DEF u
  <2> DEFINE H == Objects \ G
  <2> HIDE DEF H
  <2>1. /\ Keep(u, H) \in Seq(Objects) /\ Len(Keep(u, H)) <= Len(u)
        /\ \A p : Occurrences(p, Keep(u, H)) = IF p \in H THEN Occurrences(p, u) ELSE 0
    <3>1. u \in Seq(Objects)
      BY <1>1
    <3> SUFFICES ASSUME NEW p
                 PROVE  /\ Keep(u, H) \in Seq(Objects) /\ Len(Keep(u, H)) <= Len(u)
                        /\ Occurrences(p, Keep(u, H)) =
                             IF p \in H THEN Occurrences(p, u) ELSE 0
      OBVIOUS
    <3> QED
      BY <3>1, OccurrencesKept
  <2> QED
    BY <2>1 DEF H
<1> HIDE DEF gone, rest
<1>4. /\ b \in ArrayType /\ b.objects = u /\ b.size = a.size
      /\ b.mutations = a.mutations
      /\ \A p \in Objects : b.held[p] = a.held[p] - Occurrences(p, gone)
  BY <1>1, <1>2, ReleasedProperties
<1>5. EqualRemoved(a, o) = Bumped([b EXCEPT !.objects = Keep(b.objects, Objects \ G)])
  BY DEF EqualRemoved, gone, G
<1>6. EqualRemoved(a, o) = Bumped(WithObjects(b, rest))
  BY <1>4, <1>5 DEF WithObjects, rest
<1> HIDE DEF b
<1>7. \A p \in Objects : b.held[p] = Occurrences(p, rest)
  <2> SUFFICES ASSUME NEW p \in Objects
               PROVE  b.held[p] = Occurrences(p, rest)
    OBVIOUS
  <2>1. Occurrences(p, u) \in Nat
    BY <1>1, PlacesAreFinite
  <2>2. b.held[p] = Occurrences(p, u) - Occurrences(p, gone)
    BY <1>1, <1>4
  <2>3. CASE p \in G
    BY <1>2, <1>3, <2>1, <2>2, <2>3
  <2>4. CASE p \notin G
    BY <1>2, <1>3, <2>1, <2>2, <2>4
  <2> QED
    BY <2>3, <2>4
<1>8. Len(rest) <= b.size
  <2>1. Len(rest) \in Nat /\ b.size = a.size
    BY <1>3, <1>4
  <2> QED
    BY <1>1, <1>3, <2>1
<1> QED
  BY <1>3, <1>4, <1>6, <1>7, <1>8, HeldFollows

LEMMA AllRemovedFollows ==
  ASSUME NEW a, Proper(a)
  PROVE  Follows(AllRemoved(a), a) /\ AllRemoved(a).objects = << >>
<1> DEFINE u == a.objects
<1> DEFINE b == Released(a, u)
<1> DEFINE e == << >>
<1>1. /\ u \in Seq(Objects) /\ a \in ArrayType /\ a.size \in Nat
      /\ \A p \in Objects : a.held[p] = Occurrences(p, u) /\ Occurrences(p, u) \in Nat
  BY ProperFacts, PlacesAreFinite
<1>2. /\ b \in ArrayType /\ b.size = a.size /\ b.mutations = a.mutations
      /\ \A p \in Objects : b.held[p] = a.held[p] - Occurrences(p, u)
  <2> HIDE DEF u
  <2> QED
    BY <1>1, ReleasedProperties
<1>3. AllRemoved(a) = Bumped(WithObjects(b, e))
  BY DEF AllRemoved, WithObjects
<1> HIDE DEF b
<1>4. e \in Seq(Objects) /\ Len(e) = 0 /\ e = << >>
  OBVIOUS
<1> HIDE DEF e
<1>5. \A p \in Objects : b.held[p] = Occurrences(p, e)
  BY <1>1, <1>2, <1>4, OccurrencesEmpty
<1>6. Len(e) <= b.size
  BY <1>1, <1>2, <1>4
<1>7. Follows(Bumped(WithObjects(b, e)), a)
  BY <1>2, <1>4, <1>5, <1>6, HeldFollows
<1>8. Bumped(WithObjects(b, e)).objects = e
  BY <1>2 DEF Bumped, WithObjects, ArrayType
<1> QED
  BY <1>3, <1>4, <1>7, <1>8

LEMMA AllAddedFollows ==
  ASSUME NEW a, Proper(a), NEW v \in Seq(Objects)
  PROVE  Follows(AllAdded(a, v), a)
<1> DEFINE u == a.objects
<1> DEFINE n == Len(v)
<1> DEFINE r == Reserved(a, n)
<1> DEFINE b == Retained(r, v)
<1> DEFINE w == u \o v
<1>1. /\ u \in Seq(Objects) /\ Count(a) = Len(u) /\ a \in ArrayType
      /\ Count(a) <= a.size /\ Count(a) \in Nat
      /\ \A p \in Objects : a.held[p] = Occurrences(p, u)
  BY ProperFacts
<1>2. n \in Nat /\ n = Len(v)
  OBVIOUS
<1> HIDE DEF n
<1>3. /\ r \in ArrayType /\ r.objects = u /\ Count(a) + n <= r.size
      /\ r.mutations = a.mutations /\ r.held = a.held
  BY <1>1, <1>2, ReservedProperties
<1>4. AllAdded(a, v) = Bumped([b EXCEPT !.objects = b.objects \o v])
  BY DEF AllAdded, n
<1> HIDE DEF r
<1>5. /\ b \in ArrayType /\ b.objects = u /\ b.size = r.size
      /\ b.mutations = a.mutations
      /\ \A p \in Objects : b.held[p] = a.held[p] + Occurrences(p, v)
  BY <1>3, RetainedProperties
<1>6. AllAdded(a, v) = Bumped(WithObjects(b, w))
  BY <1>4, <1>5 DEF WithObjects
<1> HIDE DEF b
<1>7. w \in Seq(Objects) /\ Len(w) = Len(u) + Len(v)
  BY <1>1
<1>8. \A p \in Objects : b.held[p] = Occurrences(p, w)
  <2> HIDE DEF u
  <2>1. \A p : Occurrences(p, u \o v) = Occurrences(p, u) + Occurrences(p, v)
    BY <1>1, OccurrencesConcat
  <2> QED
    BY <1>1, <1>5, <2>1
<1>9. Len(w) <= b.size
  BY <1>1, <1>2, <1>3, <1>5, <1>7
<1> HIDE DEF w
<1> QED
  BY <1>5, <1>6, <1>7, <1>8, <1>9, HeldFollows

LEMMA SetToFollows ==
  ASSUME NEW a, Proper(a), NEW v \in Seq(Objects)
  PROVE  Follows(AllAdded(AllRemoved(a), v), a)
<1> DEFINE b == AllRemoved(a)
<1>1. Follows(b, a)
  BY AllRemovedFollows
<1> HIDE DEF b
<1>2. Proper(b) /\ (b = a \/ b.mutations > a.mutations)
  BY <1>1 DEF Follows
<1> DEFINE c == AllAdded(b, v)
<1>3. Follows(c, b)
  BY <1>2, AllAddedFollows
<1> HIDE DEF c
<1>4. Proper(c) /\ (c = b \/ c.mutations > b.mutations)
  BY <1>3 DEF Follows
<1>5. a.mutations \in Nat /\ b.mutations \in Nat /\ c.mutations \in Nat
  BY <1>2, <1>4 DEF Proper, ArrayType
<1>6. Follows(c, a)
  BY <1>2, <1>4, <1>5 DEF Follows
<1> QED
  BY <1>6 DEF b, c

(***************************************************************************)
(* What is read from location l of the buffer v on.  It is v if that is    *)
(* its front, and otherwise what is read last is not an object of v.       *)
(***************************************************************************)
Read(l, v) ==
  [k \in DOMAIN v |-> IF l + k <= Len(v) THEN v[l + k] ELSE Unknown]

LEMMA RangeReplacedFollows ==
  ASSUME NEW a, Proper(a), NEW l \in Nat, NEW v \in Seq(Objects),
         l + Len(v) <= Count(a), l = 0 \/ v = << >>
  PROVE  Follows(RangeReplaced(a, l, v), a)
<1> DEFINE u == a.objects
<1> DEFINE n == Len(v)
<1> DEFINE read == Read(l, v)
<1> DEFINE old == Part(u, l, n)
<1> DEFINE r == Released(a, old)
<1> DEFINE b == Retained(r, read)
<1> DEFINE w == Spliced(u, l, n, read)
<1>1. /\ u \in Seq(Objects) /\ Count(a) = Len(u) /\ a \in ArrayType
      /\ Count(a) <= a.size /\ Count(a) \in Nat
      /\ \A p \in Objects : a.held[p] \in Int
  BY ProperFacts
<1>2. n \in Nat /\ l + n <= Count(a)
  OBVIOUS
<1>3. read = v
  BY DEF Read
<1>4. RangeReplaced(a, l, v) =
        Bumped([b EXCEPT !.objects = Part(b.objects, 0, l) \o read
                  \o Part(b.objects, l + n, Len(b.objects) - l - n)])
  BY DEF RangeReplaced, Read
<1>5. read \in Seq(Objects) /\ Len(read) = n
  BY <1>3
<1> HIDE DEF n, read
<1>6. old \in Seq(Objects)
  <2> HIDE DEF u
  <2>1. l + n <= Len(u)
    BY <1>1, <1>2
  <2> QED
    BY <1>1, <1>2, <2>1, PartProperties
<1>7. old = Part(a.objects, l, n)
  OBVIOUS
<1> HIDE DEF old
<1>8. /\ r \in ArrayType /\ r.objects = u /\ r.size = a.size
      /\ r.mutations = a.mutations
      /\ \A p \in Objects : r.held[p] = a.held[p] - Occurrences(p, old)
  BY <1>1, <1>6, ReleasedProperties
<1> HIDE DEF r
<1>9. /\ b \in ArrayType /\ b.objects = u /\ b.size = a.size
      /\ b.mutations = a.mutations
      /\ \A p \in Objects : b.held[p] = r.held[p] + Occurrences(p, read)
  BY <1>5, <1>8, RetainedProperties
<1>10. RangeReplaced(a, l, v) = Bumped(WithObjects(b, w))
  BY <1>4, <1>9 DEF WithObjects, Spliced
<1> HIDE DEF b
<1>11. \A p \in Objects : b.held[p] = a.held[p] - Occurrences(p, Part(a.objects, l, n))
                                        + Occurrences(p, read)
  BY <1>7, <1>8, <1>9
<1>12. Count(a) - n + Len(read) <= b.size
  <2>1. b.size = a.size
    BY <1>9
  <2>2. Count(a) - n + n = Count(a)
    BY <1>1, <1>2
  <2> QED
    BY <1>1, <1>5, <2>1, <2>2
<1>13. w = Spliced(a.objects, l, n, read)
  OBVIOUS
<1> HIDE DEF w
<1>14. Follows(Bumped(WithObjects(b, w)), a)
  <2>1. l + n <= Count(a)
    BY <1>2
  <2>2. n \in Nat
    BY <1>2
  <2>3. read \in Seq(Objects)
    BY <1>5
  <2>4. b \in ArrayType
    BY <1>9
  <2>5. b.mutations = a.mutations
    BY <1>9
  <2> QED
    BY <1>11, <1>12, <1>13, <2>1, <2>2, <2>3, <2>4, <2>5, SplicedProper
<1> QED
  BY <1>10, <1>14

LEMMA RangeReplacedStrays ==
  ASSUME NEW a, Proper(a), NEW l \in Nat \ {0}, NEW v \in Seq(Objects), v # << >>,
         l + Len(v) <= Count(a)
  PROVE  LET b == RangeReplaced(a, l, v)
         IN  /\ ~HoldsObjects(b)
             /\ b.size = a.size
             /\ b.mutations \in Nat
             /\ b.mutations > a.mutations
<1> DEFINE n == Len(v)
<1> DEFINE read == Read(l, v)
<1> DEFINE old == Part(a.objects, l, n)
<1> DEFINE u == Part(a.objects, 0, l) \o read
                  \o Part(a.objects, l + n, Len(a.objects) - l - n)
<1>1. /\ a.objects \in Seq(Objects) /\ Count(a) = Len(a.objects)
      /\ a.mutations \in Nat /\ a \in ArrayType
  BY ProperFacts
<1>2. n \in Nat \ {0} /\ l + n <= Len(a.objects)
  BY <1>1
<1>3. read \in Seq(Objects \union {Unknown}) /\ Len(read) = n /\ read[n] = Unknown
  BY <1>2 DEF Read
<1>4. old \in Seq(Objects)
  BY <1>1, <1>2, PartProperties
<1> DEFINE r == Released(a, old)
<1>5. r \in ArrayType /\ r.objects = a.objects /\ r.size = a.size /\ r.mutations = a.mutations
  <2> HIDE DEF old
  <2> QED
    BY <1>1, <1>4, ReleasedProperties
<1> DEFINE c == Retained(r, read)
<1> DEFINE h == [o \in Objects |-> r.held[o] + Occurrences(o, read)]
<1>6. c = [r EXCEPT !.held = h]
  BY DEF Retained
<1> DEFINE d == [c EXCEPT !.objects = Part(c.objects, 0, l) \o read
                             \o Part(c.objects, l + n, Len(c.objects) - l - n)]
<1> DEFINE b == RangeReplaced(a, l, v)
<1>8. b = Bumped(d)
  BY DEF RangeReplaced, Read
<1> HIDE DEF b, h, r
<1>9. c.objects = a.objects /\ c.size = a.size /\ c.mutations = a.mutations
      /\ c = [objects |-> a.objects, size |-> a.size, mutations |-> a.mutations, held |-> h]
  <2> HIDE DEF c, old, read
  <2> QED
    BY <1>5, <1>6 DEF ArrayType
<1> HIDE DEF c
<1>10. d = [c EXCEPT !.objects = u]
  BY <1>9
<1> HIDE DEF d
<1>11. b.objects = u /\ b.size = a.size /\ b.mutations = a.mutations + 1
  <2> HIDE DEF u, old, read
  <2> QED
    BY <1>8, <1>9, <1>10 DEF Bumped
<1>7. l + n \in DOMAIN u /\ u[l + n] = Unknown
  <2> DEFINE front == Part(a.objects, 0, l)
  <2> DEFINE back == Part(a.objects, l + n, Len(a.objects) - l - n)
  <2> HIDE DEF n, read
  <2> DEFINE q == Len(a.objects)
  <2> DEFINE m == q - l - n
  <2>0. /\ 0 \in Nat /\ l \in Nat /\ 0 + l <= q
        /\ l + n \in Nat /\ m \in Nat /\ l + n + m <= q
    <3>1. q \in Nat
      BY <1>1
    <3>2. n \in Nat /\ n > 0 /\ l + n <= q
      BY <1>2
    <3> HIDE DEF q
    <3> QED
      BY <3>1, <3>2
  <2>1. front \in Seq(Objects) /\ Len(front) = l
    <3> DEFINE x == a.objects
    <3>1. x \in Seq(Objects)
      BY <1>1
    <3> HIDE DEF x
    <3>2. Part(x, 0, l) \in Seq(Objects) /\ Len(Part(x, 0, l)) = l
      BY <2>0, <3>1, PartProperties DEF x
    <3> QED
      BY <3>2 DEF x
  <2>2. back \in Seq(Objects)
    <3> HIDE DEF m
    <3>1. Part(a.objects, l + n, m) \in Seq(Objects)
      BY <1>1, <2>0, PartProperties
    <3> QED
      BY <3>1 DEF m
  <2> HIDE DEF front, back
  <2>3. /\ front \in Seq(Objects \union {Unknown}) /\ back \in Seq(Objects \union {Unknown})
    BY <2>1, <2>2
  <2>4. u = (front \o read) \o back
    BY DEF front, back
  <2> HIDE DEF u
  <2> DEFINE w == front \o read
  <2>5. w \in Seq(Objects \union {Unknown}) /\ Len(w) = l + n /\ w[l + n] = Unknown
    <3> DEFINE S == Objects \union {Unknown}
    <3>1. front \in Seq(S) /\ read \in Seq(S)
      BY <1>3, <2>3
    <3> HIDE DEF S
    <3>2. /\ w \in Seq(S) /\ Len(w) = Len(front) + Len(read)
          /\ \A k \in 1 .. Len(front) + Len(read) :
               w[k] = IF k <= Len(front) THEN front[k] ELSE read[k - Len(front)]
      BY <3>1, ConcatProperties
    <3>3. Len(front) = l /\ Len(read) = n /\ read[n] = Unknown
      BY <1>3, <2>1
    <3> HIDE DEF w
    <3>4. l + n \in 1 .. l + n /\ ~(l + n <= l) /\ l + n - l = n
      BY <1>2
    <3>5. w[l + n] = read[n]
      BY <3>2, <3>3, <3>4
    <3> QED
      BY <3>2, <3>3, <3>5 DEF S
  <2> HIDE DEF w
  <2>6. u = w \o back
    BY <2>4 DEF w
  <2>7. Len(w) \in 1 .. Len(w) + Len(back)
    <3>1. Len(back) \in Nat
      BY <2>3
    <3>2. Len(w) \in Nat /\ Len(w) > 0
      BY <1>2, <2>5
    <3> QED
      BY <3>1, <3>2
  <2>8. /\ DOMAIN u = 1 .. Len(w) + Len(back)
        /\ u[Len(w)] = w[Len(w)]
    <3> DEFINE S == Objects \union {Unknown}
    <3>1. w \in Seq(S) /\ back \in Seq(S)
      BY <2>3, <2>5
    <3> HIDE DEF S
    <3>2. /\ u \in Seq(S) /\ Len(u) = Len(w) + Len(back)
          /\ \A k \in 1 .. Len(w) + Len(back) :
               u[k] = IF k <= Len(w) THEN w[k] ELSE back[k - Len(w)]
      BY <2>6, <3>1, ConcatProperties
    <3>3. Len(w) <= Len(w)
      BY <2>7
    <3> QED
      BY <2>7, <3>2, <3>3
  <2> QED
    BY <2>5, <2>7, <2>8
<1> HIDE DEF u
<1>12. ~HoldsObjects(b)
  BY <1>7, <1>11, UnknownAssumption DEF HoldsObjects
<1> QED
  BY <1>1, <1>11, <1>12 DEF b

(***************************************************************************)
(* Objects that change places are held as they were.                       *)
(***************************************************************************)
LEMMA SameObjectsProper ==
  ASSUME NEW a, Proper(a), NEW v \in Seq(Objects), SameObjects(v, a.objects)
  PROVE  /\ Proper(WithObjects(a, v))
         /\ WithObjects(a, v).mutations = a.mutations
         /\ WithObjects(a, v).objects = v
         /\ Follows(Bumped(WithObjects(a, v)), a)
<1> DEFINE c == WithObjects(a, v)
<1>1. /\ a \in ArrayType /\ Len(v) <= a.size
      /\ \A o \in Objects : a.held[o] = Occurrences(o, v)
  BY ProperFacts DEF SameObjects
<1>2. Proper(c) /\ c.objects = v /\ c.mutations = a.mutations
  BY <1>1, WithObjectsProper
<1> HIDE DEF c
<1>3. Follows(Bumped(c), a)
  BY <1>2, NextProper
<1> QED
  BY <1>2, <1>3 DEF c

LEMMA ExchangedFollows ==
  ASSUME NEW a, Proper(a), NEW i \in 0 .. Count(a) - 1, NEW k \in 0 .. Count(a) - 1
  PROVE  Follows(Exchanged(a, i, k), a)
<1> DEFINE u == a.objects
<1> DEFINE w == Swapped(u, i, k)
<1>1. u \in Seq(Objects) /\ i \in 0 .. Len(u) - 1 /\ k \in 0 .. Len(u) - 1
  BY ProperFacts
<1>2. w \in Seq(Objects) /\ Len(w) = Len(u) /\ \A o : Occurrences(o, w) = Occurrences(o, u)
  <2> HIDE DEF u
  <2>1. i \in 0 .. Len(u) - 1
    BY <1>1
  <2>2. k \in 0 .. Len(u) - 1
    BY <1>1
  <2> QED
    BY <1>1, <2>1, <2>2, SwappedProperties
<1>3. Exchanged(a, i, k) = Bumped(WithObjects(a, w))
  BY DEF Exchanged, WithObjects
<1> HIDE DEF w
<1>4. SameObjects(w, a.objects)
  BY <1>2 DEF SameObjects
<1> QED
  BY <1>2, <1>3, <1>4, SameObjectsProper

LEMMA ReversedFollows ==
  ASSUME NEW a, Proper(a)
  PROVE  Follows(Reversed(a), a)
<1> DEFINE u == a.objects
<1> DEFINE n == Len(u)
<1> DEFINE w == [k \in 1 .. n |-> u[n + 1 - k]]
<1> DEFINE f == [k \in 1 .. n |-> n + 1 - k]
<1>1. u \in Seq(Objects) /\ n \in Nat
  BY ProperFacts
<1>2. CASE u = << >>
  BY <1>2 DEF Reversed, Follows
<1>3. CASE u # << >>
  <2>1. Reversed(a) = Bumped([a EXCEPT !.objects = [k \in DOMAIN u |-> u[Len(u) + 1 - k]]])
    BY <1>3 DEF Reversed
  <2>2. DOMAIN u = 1 .. n
    BY <1>1
  <2>3. Reversed(a) = Bumped(WithObjects(a, w))
    BY <2>1, <2>2 DEF WithObjects
  <2> HIDE DEF n, u
  <2>4. \A k \in 1 .. n : n + 1 - k \in 1 .. n
    BY <1>1
  <2>5. \A k \in 1 .. n : u[k] \in Objects
    BY <1>1 DEF n
  <2>6. w \in [1 .. n -> Objects]
    BY <2>4, <2>5
  <2>7. w \in Seq(Objects) /\ Len(w) = n /\ \A k \in 1 .. n : w[k] = u[n + 1 - k]
    BY <1>1, <2>6
  <2>8. /\ f \in [1 .. n -> 1 .. n] /\ \A k \in 1 .. n : f[k] = n + 1 - k
    BY <2>4
  <2> HIDE DEF f, w
  <2>9. \A x, y \in 1 .. n : f[x] = f[y] => x = y
    BY <1>1, <2>8
  <2>10. \A y \in 1 .. n : \E x \in 1 .. n : f[x] = y
    <3> SUFFICES ASSUME NEW y \in 1 .. n
                 PROVE  \E x \in 1 .. n : f[x] = y
      OBVIOUS
    <3>1. n + 1 - y \in 1 .. n /\ n + 1 - (n + 1 - y) = y
      BY <1>1
    <3> QED
      BY <2>8, <3>1
  <2>11. \A k \in 1 .. n : w[k] = u[f[k]]
    BY <2>7, <2>8
  <2>12. \A o : Occurrences(o, w) = Occurrences(o, u)
    <3>1. f \in [1 .. Len(w) -> 1 .. Len(u)]
      BY <2>7, <2>8 DEF n
    <3>2. \A x, y \in 1 .. Len(w) : f[x] = f[y] => x = y
      BY <2>7, <2>9
    <3>3. \A y \in 1 .. Len(u) : \E x \in 1 .. Len(w) : f[x] = y
      BY <2>7, <2>10 DEF n
    <3>4. \A k \in 1 .. Len(w) : w[k] = u[f[k]]
      BY <2>7, <2>11
    <3>5. w \in Seq(Objects) /\ u \in Seq(Objects)
      BY <1>1, <2>7
    <3> QED
      BY <3>1, <3>2, <3>3, <3>4, <3>5, MovedAbout
  <2>13. SameObjects(w, a.objects)
    BY <2>7, <2>12 DEF SameObjects, n, u
  <2> QED
    BY <2>3, <2>7, <2>13, SameObjectsProper
<1> QED
  BY <1>2, <1>3

(***************************************************************************)
(* An array that is made.                                                  *)
(***************************************************************************)
LEMMA MadeProper ==
  /\ \A v \in Seq(Objects) : Proper(ArrayWith(v))
  /\ \A n \in Nat : Proper(ArrayWithCapacity(n))
<1>1. ASSUME NEW v \in Seq(Objects)
      PROVE  Proper(ArrayWith(v))
  <2> DEFINE m == Larger(Len(v), MinimumSize)
  <2> DEFINE z == [o \in Objects |-> 0]
  <2> DEFINE a == [objects |-> v, size |-> m, mutations |-> 1, held |-> z]
  <2>1. m \in Nat /\ Len(v) <= m
    BY MinimumSizeAssumption DEF Larger
  <2>2. z \in [Objects -> Int] /\ \A o \in Objects : z[o] = 0
    OBVIOUS
  <2>3. ArrayWith(v) = Retained(a, v)
    BY DEF ArrayWith
  <2> HIDE DEF m, z
  <2>4. a \in ArrayType /\ a.objects = v /\ a.size = m /\ a.held = z
    BY <2>1, <2>2 DEF ArrayType
  <2> HIDE DEF a
  <2>5. /\ Retained(a, v) \in ArrayType
        /\ Retained(a, v).objects = v
        /\ Retained(a, v).size = m
        /\ \A o \in Objects : Retained(a, v).held[o] = a.held[o] + Occurrences(o, v)
    BY <2>4, RetainedProperties
  <2>6. \A o \in Objects : Retained(a, v).held[o] = Occurrences(o, v)
    <3> SUFFICES ASSUME NEW o \in Objects
                 PROVE  Retained(a, v).held[o] = Occurrences(o, v)
      OBVIOUS
    <3>1. Occurrences(o, v) \in Nat
      BY PlacesAreFinite
    <3> QED
      BY <2>2, <2>4, <2>5, <3>1
  <2> QED
    BY <2>1, <2>3, <2>5, <2>6 DEF Proper, Count
<1>2. ASSUME NEW n \in Nat
      PROVE  Proper(ArrayWithCapacity(n))
  <2> DEFINE z == [o \in Objects |-> 0]
  <2> DEFINE e == << >>
  <2> DEFINE a == [objects |-> e, size |-> n, mutations |-> 0, held |-> z]
  <2>1. z \in [Objects -> Int] /\ \A o \in Objects : z[o] = 0
    OBVIOUS
  <2>2. e \in Seq(Objects) /\ Len(e) = 0 /\ \A o : Occurrences(o, e) = 0
    BY OccurrencesEmpty
  <2>3. ArrayWithCapacity(n) = a
    BY DEF ArrayWithCapacity
  <2> HIDE DEF z, e
  <2>4. a \in ArrayType /\ a.objects = e /\ a.size = n /\ a.held = z
    BY <2>1, <2>2 DEF ArrayType
  <2> HIDE DEF a
  <2> QED
    BY <2>1, <2>2, <2>3, <2>4 DEF Proper, Count
<1> QED
  BY <1>1, <1>2
-----------------------------------------------------------------------------
(***************************************************************************)
(* A range that is moved.                                                  *)
(***************************************************************************)
LEMMA OverwrittenProperties ==
  ASSUME NEW S, NEW v \in Seq(S), NEW index \in Nat, NEW w \in Seq(S),
         index + Len(w) <= Len(v)
  PROVE  /\ Overwritten(v, index, w) \in Seq(S)
         /\ Len(Overwritten(v, index, w)) = Len(v)
         /\ \A k \in 1 .. Len(v) :
              Overwritten(v, index, w)[k] =
                IF k > index /\ k <= index + Len(w) THEN w[k - index] ELSE v[k]
<1> DEFINE n == Len(v)
<1> DEFINE m == Len(w)
<1> DEFINE r == [k \in 1 .. n |-> IF k > index /\ k <= index + m THEN w[k - index] ELSE v[k]]
<1>1. n \in Nat /\ m \in Nat /\ DOMAIN v = 1 .. n
  OBVIOUS
<1>2. (\A k \in 1 .. n : v[k] \in S) /\ (\A k \in 1 .. m : w[k] \in S)
  OBVIOUS
<1>3. Overwritten(v, index, w) = r
  BY <1>1 DEF Overwritten
<1> HIDE DEF n, m
<1>4. \A k \in 1 .. n : k > index /\ k <= index + m => k - index \in 1 .. m
  BY <1>1
<1>5. r \in [1 .. n -> S]
  BY <1>2, <1>4
<1>6. \A k \in 1 .. n : r[k] = IF k > index /\ k <= index + m THEN w[k - index] ELSE v[k]
  OBVIOUS
<1> HIDE DEF r
<1>7. r \in Seq(S) /\ Len(r) = n
  BY <1>1, <1>5
<1> QED
  BY <1>3, <1>6, <1>7 DEF n, m

LEMMA WithoutProperties ==
  ASSUME NEW S, NEW v \in Seq(S), NEW l \in Nat, NEW n \in Nat, l + n <= Len(v)
  PROVE  /\ Without(v, l, n) \in Seq(S)
         /\ Len(Without(v, l, n)) = Len(v) - n
         /\ \A k \in 1 .. Len(v) - n :
              Without(v, l, n)[k] = IF k <= l THEN v[k] ELSE v[k + n]
         /\ \A o : Occurrences(o, Without(v, l, n)) =
                     Occurrences(o, v) - Occurrences(o, Part(v, l, n))
<1> DEFINE e == << >>
<1>1. e \in Seq(S) /\ Len(e) = 0 /\ \A o : Occurrences(o, e) = 0
  BY OccurrencesEmpty
<1>2. Part(v, 0, l) \in Seq(S)
  <2>1. 0 \in Nat
    OBVIOUS
  <2>2. 0 + l <= Len(v)
    OBVIOUS
  <2> QED
    BY <2>1, <2>2, PartProperties
<1>3. Part(v, 0, l) \o e = Part(v, 0, l)
  BY <1>2, NothingConcat
<1>4. Spliced(v, l, n, e) = Without(v, l, n)
  BY <1>3 DEF Spliced, Without
<1> HIDE DEF e
<1> DEFINE r == Spliced(v, l, n, e)
<1>5. /\ r \in Seq(S) /\ Len(r) = Len(v) - n + Len(e)
      /\ \A k \in 1 .. Len(v) - n + Len(e) :
           r[k] = IF k <= l THEN v[k]
                  ELSE IF k <= l + Len(e) THEN e[k - l]
                  ELSE v[k - Len(e) + n]
      /\ \A o : Occurrences(o, r) = Occurrences(o, v) - Occurrences(o, Part(v, l, n))
                                      + Occurrences(o, e)
  <2>1. e \in Seq(S)
    BY <1>1
  <2> QED
    BY <2>1, SplicedProperties
<1> HIDE DEF r
<1> DEFINE N == Len(v) - n
<1>6. N \in Nat /\ N = Len(v) - n /\ Len(v) - n + Len(e) = N
  BY <1>1
<1>7. Len(r) = N
  BY <1>5, <1>6
<1>8. ASSUME NEW k \in 1 .. N
      PROVE  r[k] = IF k <= l THEN v[k] ELSE v[k + n]
  <2>1. k - Len(e) + n = k + n /\ l + Len(e) = l
    BY <1>1
  <2>2. r[k] = IF k <= l THEN v[k]
               ELSE IF k <= l + Len(e) THEN e[k - l]
               ELSE v[k - Len(e) + n]
    BY <1>5, <1>6
  <2> QED
    BY <2>1, <2>2
<1>9. ASSUME NEW o
      PROVE  Occurrences(o, r) = Occurrences(o, v) - Occurrences(o, Part(v, l, n))
  <2>1. Part(v, l, n) \in Seq(S)
    BY PartProperties
  <2>2. Occurrences(o, v) \in Nat /\ Occurrences(o, Part(v, l, n)) \in Nat
    BY <2>1, PlacesAreFinite
  <2>3. Occurrences(o, r) = Occurrences(o, v) - Occurrences(o, Part(v, l, n))
                              + Occurrences(o, e)
    BY <1>5
  <2> QED
    BY <1>1, <2>2, <2>3
<1> QED
  BY <1>4, <1>5, <1>7, <1>8, <1>9 DEF r

LEMMA MovedIsSpliced ==
  ASSUME NEW S, NEW v \in Seq(S), NEW location \in Nat, NEW length \in Nat,
         location + length <= Len(v), NEW index \in Nat, index + length <= Len(v)
  PROVE  /\ Moved(v, location, length, index) =
              Spliced(Without(v, location, length), index, 0, Part(v, location, length))
         /\ Moved(v, location, length, index) \in Seq(S)
         /\ SameObjects(Moved(v, location, length, index), v)
<1> DEFINE n == Len(v)
<1> DEFINE rest == Without(v, location, length)
<1> DEFINE range == Part(v, location, length)
<1> DEFINE r == Spliced(rest, index, 0, range)
<1>1. n \in Nat /\ n = Len(v)
  OBVIOUS
<1>2. /\ rest \in Seq(S) /\ Len(rest) = n - length
      /\ \A k \in 1 .. n - length : rest[k] = IF k <= location THEN v[k] ELSE v[k + length]
      /\ \A o : Occurrences(o, rest) = Occurrences(o, v) - Occurrences(o, range)
  BY WithoutProperties
<1>3. /\ range \in Seq(S) /\ Len(range) = length
      /\ \A k \in 1 .. length : range[k] = v[location + k]
  BY PartProperties
<1> HIDE DEF n, rest, range
<1>4. index + 0 <= Len(rest)
  BY <1>1, <1>2
<1>5. /\ r \in Seq(S) /\ Len(r) = Len(rest) - 0 + Len(range)
      /\ \A k \in 1 .. Len(rest) - 0 + Len(range) :
           r[k] = IF k <= index THEN rest[k]
                  ELSE IF k <= index + Len(range) THEN range[k - index]
                  ELSE rest[k - Len(range) + 0]
      /\ \A o : Occurrences(o, r) = Occurrences(o, rest) - Occurrences(o, Part(rest, index, 0))
                                      + Occurrences(o, range)
  <2>1. rest \in Seq(S)
    BY <1>2
  <2>2. range \in Seq(S)
    BY <1>3
  <2>3. 0 \in Nat
    OBVIOUS
  <2> QED
    BY <1>4, <2>1, <2>2, <2>3, SplicedProperties
<1>6. Part(rest, index, 0) = << >>
  <2>1. index \in 0 .. Len(rest)
    BY <1>1, <1>2, <1>4
  <2>2. rest \in Seq(S)
    BY <1>2
  <2> QED
    BY <2>1, <2>2, EmptyPart
<1> HIDE DEF r
<1>7. Len(r) = n
  <2>1. Len(r) = Len(rest) - 0 + Len(range)
    BY <1>5
  <2>2. Len(rest) = n - length /\ Len(range) = length
    BY <1>2, <1>3
  <2> QED
    BY <1>1, <2>1, <2>2
<1>8. ASSUME NEW k \in 1 .. n
      PROVE  r[k] = IF k <= index THEN rest[k]
                    ELSE IF k <= index + length THEN range[k - index]
                    ELSE rest[k - length]
  <2>1. Len(rest) = n - length /\ Len(range) = length
    BY <1>2, <1>3
  <2>2. Len(rest) - 0 + Len(range) = n /\ k - Len(range) + 0 = k - length
    BY <1>1, <2>1
  <2>3. k \in 1 .. Len(rest) - 0 + Len(range)
    BY <2>2
  <2>4. r[k] = IF k <= index THEN rest[k]
               ELSE IF k <= index + Len(range) THEN range[k - index]
               ELSE rest[k - Len(range) + 0]
    BY <1>5, <2>3
  <2> QED
    BY <2>1, <2>2, <2>4
<1>9. SameObjects(r, v)
  <2> SUFFICES ASSUME NEW o
               PROVE  Occurrences(o, r) = Occurrences(o, v)
    BY <1>1, <1>7 DEF SameObjects
  <2>1. Occurrences(o, Part(rest, index, 0)) = 0
    BY <1>6, OccurrencesEmpty
  <2>2. Occurrences(o, v) \in Nat /\ Occurrences(o, range) \in Nat
    BY <1>3, PlacesAreFinite
  <2>3. Occurrences(o, rest) = Occurrences(o, v) - Occurrences(o, range)
    BY <1>2
  <2>4. Occurrences(o, r) = Occurrences(o, rest) - Occurrences(o, Part(rest, index, 0))
                              + Occurrences(o, range)
    BY <1>5
  <2> QED
    BY <2>1, <2>2, <2>3, <2>4
<1> DEFINE up == index <= location
<1> DEFINE from == IF up THEN index ELSE location + length
<1> DEFINE other == IF up THEN location - index ELSE index - location
<1> DEFINE to == IF up THEN index + length ELSE location
<1> DEFINE beside == Part(v, from, other)
<1> DEFINE x == Overwritten(v, index, range)
<1> DEFINE y == Overwritten(v, to, beside)
<1> DEFINE w == IF other < length THEN Overwritten(x, to, beside)
                ELSE Overwritten(y, index, range)
<1>10. Moved(v, location, length, index) = w
  BY DEF Moved, range
<1>11. /\ from \in Nat /\ other \in Nat /\ to \in Nat
       /\ from + other <= n /\ to + other <= n
       /\ up => from = index /\ other = location - index /\ to = index + length
       /\ ~up => from = location + length /\ other = index - location /\ to = location
  BY <1>1
<1> HIDE DEF up, from, other, to
<1>12. /\ beside \in Seq(S) /\ Len(beside) = other
       /\ \A k \in 1 .. other : beside[k] = v[from + k]
  <2>1. from \in Nat
    BY <1>11
  <2>2. other \in Nat
    BY <1>11
  <2>3. from + other <= Len(v)
    BY <1>1, <1>11
  <2> QED
    BY ONLY <2>1, <2>2, <2>3, v \in Seq(S), PartProperties DEF beside
<1> HIDE DEF beside
<1>13. /\ x \in Seq(S) /\ Len(x) = n
       /\ \A k \in 1 .. n : x[k] = IF k > index /\ k <= index + length
                                   THEN range[k - index] ELSE v[k]
  <2>1. index + Len(range) <= Len(v)
    BY <1>1, <1>3
  <2>2. range \in Seq(S)
    BY <1>3
  <2>3. /\ x \in Seq(S) /\ Len(x) = Len(v)
        /\ \A k \in 1 .. Len(v) : x[k] = IF k > index /\ k <= index + Len(range)
                                         THEN range[k - index] ELSE v[k]
    BY <2>1, <2>2, OverwrittenProperties
  <2> HIDE DEF x
  <2> QED
    BY <1>1, <1>3, <2>3
<1>14. /\ y \in Seq(S) /\ Len(y) = n
       /\ \A k \in 1 .. n : y[k] = IF k > to /\ k <= to + other
                                   THEN beside[k - to] ELSE v[k]
  <2>1. to + Len(beside) <= Len(v)
    BY <1>1, <1>11, <1>12
  <2>2. beside \in Seq(S) /\ Len(beside) = other
    BY <1>12
  <2>3. to \in Nat
    BY <1>11
  <2>4. /\ y \in Seq(S) /\ Len(y) = Len(v)
        /\ \A k \in 1 .. Len(v) : y[k] = IF k > to /\ k <= to + Len(beside)
                                         THEN beside[k - to] ELSE v[k]
    BY <2>1, <2>2, <2>3, OverwrittenProperties
  <2> HIDE DEF y
  <2> QED
    BY <1>1, <2>2, <2>4
<1> HIDE DEF x, y
<1>15. /\ w \in Seq(S) /\ Len(w) = n
       /\ \A k \in 1 .. n :
            w[k] = IF k > index /\ k <= index + length THEN range[k - index]
                   ELSE IF k > to /\ k <= to + other THEN beside[k - to]
                   ELSE v[k]
  <2>1. CASE other < length
    <3> DEFINE z == Overwritten(x, to, beside)
    <3>1. to + Len(beside) <= Len(x)
      BY <1>1, <1>11, <1>12, <1>13
    <3>2. beside \in Seq(S) /\ Len(beside) = other
      BY <1>12
    <3>3. to \in Nat
      BY <1>11
    <3>4. x \in Seq(S)
      BY <1>13
    <3>5. /\ z \in Seq(S) /\ Len(z) = Len(x)
          /\ \A k \in 1 .. Len(x) : z[k] = IF k > to /\ k <= to + Len(beside)
                                           THEN beside[k - to] ELSE x[k]
      BY <3>1, <3>2, <3>3, <3>4, OverwrittenProperties
    <3>6. w = z
      BY <2>1
    <3> HIDE DEF z, w
    <3>7. ASSUME NEW k \in 1 .. n
          PROVE  z[k] = IF k > index /\ k <= index + length THEN range[k - index]
                        ELSE IF k > to /\ k <= to + other THEN beside[k - to]
                        ELSE v[k]
      <4>1. z[k] = IF k > to /\ k <= to + other THEN beside[k - to] ELSE x[k]
        BY <1>13, <3>2, <3>5
      <4>2. x[k] = IF k > index /\ k <= index + length THEN range[k - index] ELSE v[k]
        BY <1>13
      <4>3. ~(/\ k > to /\ k <= to + other
              /\ k > index /\ k <= index + length)
        BY <1>1, <1>11
      <4> QED
        BY <4>1, <4>2, <4>3
    <3> QED
      BY <1>13, <3>5, <3>6, <3>7
  <2>2. CASE ~(other < length)
    <3> DEFINE z == Overwritten(y, index, range)
    <3>1. index + Len(range) <= Len(y)
      BY <1>1, <1>3, <1>14
    <3>2. range \in Seq(S) /\ Len(range) = length
      BY <1>3
    <3>4. y \in Seq(S)
      BY <1>14
    <3>5. /\ z \in Seq(S) /\ Len(z) = Len(y)
          /\ \A k \in 1 .. Len(y) : z[k] = IF k > index /\ k <= index + Len(range)
                                           THEN range[k - index] ELSE y[k]
      BY <3>1, <3>2, <3>4, OverwrittenProperties
    <3>6. w = z
      BY <2>2
    <3> HIDE DEF z, w
    <3> QED
      BY <1>14, <3>2, <3>5, <3>6
  <2> QED
    BY <2>1, <2>2
<1> HIDE DEF w
<1>16. ASSUME NEW k \in 1 .. n
       PROVE  w[k] = r[k]
  <2>1. w[k] = IF k > index /\ k <= index + length THEN range[k - index]
               ELSE IF k > to /\ k <= to + other THEN beside[k - to]
               ELSE v[k]
    BY <1>15
  <2>2. CASE k > index /\ k <= index + length
    <3>1. ~(k <= index)
      BY <1>1, <2>2
    <3> QED
      BY <1>8, <2>1, <2>2, <3>1
  <2>3. CASE k <= index
    <3>1. k \in 1 .. n - length
      BY <1>1, <2>3
    <3>2. r[k] = IF k <= location THEN v[k] ELSE v[k + length]
      BY <1>2, <1>8, <2>3, <3>1
    <3>3. CASE k <= location
      <4>1. ~(k > to /\ k <= to + other) /\ ~(k > index /\ k <= index + length)
        BY <1>1, <1>11, <2>3, <3>3 DEF up
      <4> QED
        BY <2>1, <3>2, <3>3, <4>1
    <3>4. CASE k > location
      <4>1. ~(k <= location) /\ ~(k > index /\ k <= index + length) /\ ~up
        BY <1>1, <2>3, <3>4 DEF up
      <4>2. k > to /\ k <= to + other /\ k - to \in 1 .. other /\ from + (k - to) = k + length
        BY <1>1, <1>11, <2>3, <3>4, <4>1
      <4>3. beside[k - to] = v[k + length]
        BY <1>12, <4>2
      <4> QED
        BY <2>1, <3>2, <4>1, <4>2, <4>3
    <3> QED
      BY <1>1, <3>3, <3>4
  <2>4. CASE k > index + length
    <3>1. k - length \in 1 .. n - length /\ ~(k <= index) /\ ~(k <= index + length)
          /\ k - length + length = k
      BY <1>1, <2>4
    <3>2. r[k] = IF k - length <= location THEN v[k - length] ELSE v[k]
      <4>1. r[k] = rest[k - length]
        BY <1>8, <3>1
      <4>2. rest[k - length] = IF k - length <= location THEN v[k - length]
                               ELSE v[k - length + length]
        BY <1>2, <3>1
      <4> QED
        BY <3>1, <4>1, <4>2
    <3>3. CASE k - length <= location
      <4>1. up
        BY <1>1, <2>4, <3>3 DEF up
      <4>2. k > to /\ k <= to + other /\ k - to \in 1 .. other /\ from + (k - to) = k - length
        BY <1>1, <1>11, <2>4, <3>3, <4>1
      <4>3. beside[k - to] = v[k - length]
        BY <1>12, <4>2
      <4> QED
        BY <2>1, <3>1, <3>2, <3>3, <4>2, <4>3
    <3>4. CASE ~(k - length <= location)
      <4>1. ~(k > to /\ k <= to + other)
        BY <1>1, <1>11, <2>4, <3>4 DEF up
      <4> QED
        BY <2>1, <3>1, <3>2, <3>4, <4>1
    <3> QED
      BY <3>3, <3>4
  <2>5. k <= index \/ (k > index /\ k <= index + length) \/ k > index + length
    BY <1>1
  <2> QED
    BY <2>2, <2>3, <2>4, <2>5
<1>17. w = r
  <2>1. Len(w) = Len(r)
    BY <1>7, <1>15
  <2>2. \A k \in 1 .. Len(w) : w[k] = r[k]
    BY <1>15, <1>16
  <2>3. w \in Seq(S) /\ r \in Seq(S)
    BY <1>5, <1>15
  <2> QED
    BY <2>1, <2>2, <2>3, SeqEqual
<1> QED
  BY <1>5, <1>9, <1>10, <1>17 DEF r, rest, range
-----------------------------------------------------------------------------
(***************************************************************************)
(* The set.  Its order and its table tell of the same objects.             *)
(***************************************************************************)
SetType == [order : Seq(Objects), table : SUBSET Objects, mutations : Nat]

Matches(s) ==
  /\ s \in SetType
  /\ s.table = {s.order[k] : k \in DOMAIN s.order}
  /\ \A k, l \in DOMAIN s.order : Equal(s.order[k], s.order[l]) => k = l

SetFollows(t, s) == Matches(t) /\ (t = s \/ t.mutations > s.mutations)

LEMMA InsertedType ==
  ASSUME NEW s \in SetType, NEW o \in Objects, NEW i \in 0 .. Len(s.order)
  PROVE  /\ InsertedInSet(s, o, i) \in SetType
         /\ ~Has(s, o) => /\ InsertedInSet(s, o, i).order = Spliced(s.order, i, 0, <<o>>)
                          /\ InsertedInSet(s, o, i).table = s.table \cup {o}
                          /\ InsertedInSet(s, o, i).mutations = s.mutations + 1
<1> DEFINE u == s.order
<1> DEFINE q == <<o>>
<1> DEFINE w == Spliced(u, i, 0, q)
<1> DEFINE t == Entered(s, o, w)
<1>1. u \in Seq(Objects) /\ Len(u) \in Nat /\ s.mutations \in Nat /\ s.table \in SUBSET Objects
  BY DEF SetType
<1>2. i \in Nat /\ i + 0 <= Len(u) /\ i + 0 = i /\ Len(u) - i - 0 = Len(u) - i
  BY <1>1
<1>3. q \in Seq(Objects)
  OBVIOUS
<1>4. w = Part(u, 0, i) \o <<o>> \o Part(u, i, Len(u) - i)
  <2> HIDE DEF u
  <2> QED
    BY <1>2 DEF Spliced
<1> HIDE DEF q
<1>5. w \in Seq(Objects)
  <2> HIDE DEF u
  <2>1. u \in Seq(Objects)
    BY <1>1
  <2>2. i \in Nat
    BY <1>2
  <2>3. i + 0 <= Len(u)
    BY <1>2
  <2>4. 0 \in Nat
    OBVIOUS
  <2> QED
    BY <1>3, <2>1, <2>2, <2>3, <2>4, SplicedProperties
<1>6. ~Has(s, o) => InsertedInSet(s, o, i) = t
  BY <1>4 DEF InsertedInSet
<1>7. Has(s, o) => InsertedInSet(s, o, i) = s
  BY DEF InsertedInSet
<1> HIDE DEF w
<1>8. t \in SetType /\ t.order = w /\ t.table = s.table \cup {o}
      /\ t.mutations = s.mutations + 1
  BY <1>1, <1>5 DEF Entered, SetType
<1> QED
  BY <1>6, <1>7, <1>8 DEF w, q

LEMMA InsertedFollowsInSet ==
  ASSUME NEW s, Matches(s), NEW o \in Objects, NEW i \in 0 .. Len(s.order)
  PROVE  SetFollows(InsertedInSet(s, o, i), s)
<1>1. CASE Has(s, o)
  BY <1>1 DEF InsertedInSet, SetFollows
<1>2. CASE ~Has(s, o)
  <2> DEFINE t == InsertedInSet(s, o, i)
  <2> DEFINE u == s.order
  <2> DEFINE w == t.order
  <2> DEFINE q == <<o>>
  <2>1. /\ u \in Seq(Objects) /\ s \in SetType /\ Len(u) \in Nat /\ DOMAIN u = 1 .. Len(u)
        /\ s.mutations \in Nat
        /\ s.table = {u[k] : k \in DOMAIN u}
        /\ \A k, l \in DOMAIN u : Equal(u[k], u[l]) => k = l
    BY DEF Matches, SetType
  <2>2. /\ t \in SetType /\ w = Spliced(u, i, 0, q) /\ t.table = s.table \cup {o}
        /\ t.mutations = s.mutations + 1
    BY <1>2, <2>1, InsertedType
  <2>3. q \in Seq(Objects) /\ Len(q) = 1 /\ q[1] = o
    OBVIOUS
  <2> HIDE DEF t, q
  <2>4. i \in Nat /\ i + 0 <= Len(u)
    BY <2>1
  <2> DEFINE r == Spliced(u, i, 0, q)
  <2>5. /\ r \in Seq(Objects) /\ Len(r) = Len(u) - 0 + Len(q)
        /\ \A k \in 1 .. Len(u) - 0 + Len(q) :
             r[k] = IF k <= i THEN u[k]
                    ELSE IF k <= i + Len(q) THEN q[k - i]
                    ELSE u[k - Len(q) + 0]
    <3> HIDE DEF u
    <3>1. u \in Seq(Objects)
      BY <2>1
    <3>2. i \in Nat
      BY <2>4
    <3>3. i + 0 <= Len(u)
      BY <2>4
    <3>4. 0 \in Nat
      OBVIOUS
    <3>5. q \in Seq(Objects)
      BY <2>3
    <3> QED
      BY <3>1, <3>2, <3>3, <3>4, <3>5, SplicedProperties
  <2> HIDE DEF r
  <2>6. w = r
    BY <2>2 DEF r
  <2> DEFINE n == Len(u)
  <2>7. n \in Nat /\ n = Len(u) /\ i \in 0 .. n
    BY <2>1
  <2> HIDE DEF w, u, n
  <2>8. /\ Len(w) = n + 1 /\ DOMAIN w = 1 .. n + 1
        /\ \A k \in 1 .. n + 1 : w[k] = IF k <= i THEN u[k]
                                        ELSE IF k = i + 1 THEN o ELSE u[k - 1]
    <3>1. Len(u) - 0 + Len(q) = n + 1
      BY <2>3, <2>7
    <3>2. Len(w) = n + 1 /\ DOMAIN w = 1 .. n + 1
      BY <2>5, <2>6, <3>1
    <3>3. ASSUME NEW k \in 1 .. n + 1
          PROVE  w[k] = IF k <= i THEN u[k] ELSE IF k = i + 1 THEN o ELSE u[k - 1]
      <4>1. w[k] = IF k <= i THEN u[k]
                   ELSE IF k <= i + Len(q) THEN q[k - i]
                   ELSE u[k - Len(q) + 0]
        BY <2>5, <2>6, <3>1
      <4>2. k - Len(q) + 0 = k - 1
        BY <2>3
      <4>3. CASE k <= i
        BY <4>1, <4>3
      <4>4. CASE k = i + 1
        <5>1. ~(k <= i) /\ k <= i + Len(q) /\ k - i = 1
          BY <2>3, <2>7, <4>4
        <5> QED
          BY <2>3, <4>1, <4>4, <5>1
      <4>5. CASE k > i + 1
        <5>1. ~(k <= i) /\ ~(k <= i + Len(q)) /\ k # i + 1
          BY <2>3, <2>7, <4>5
        <5> QED
          BY <4>1, <4>2, <5>1
      <4> QED
        BY <2>7, <4>3, <4>4, <4>5
    <3> QED
      BY <3>2, <3>3
  <2>9. t.table = {w[k] : k \in DOMAIN w}
    <3>1. ASSUME NEW p \in t.table
          PROVE  \E k \in 1 .. n + 1 : w[k] = p
      <4>1. CASE p = o
        <5>1. i + 1 \in 1 .. n + 1 /\ ~(i + 1 <= i)
          BY <2>7
        <5> QED
          BY <2>8, <4>1, <5>1
      <4>2. CASE p # o
        <5>1. PICK k \in 1 .. n : p = u[k]
          BY <2>1, <2>2, <2>7, <4>2
        <5>2. CASE k <= i
          <6>1. k \in 1 .. n + 1
            BY <2>7
          <6> QED
            BY <2>8, <5>1, <5>2, <6>1
        <5>3. CASE ~(k <= i)
          <6>1. k + 1 \in 1 .. n + 1 /\ ~(k + 1 <= i) /\ k + 1 # i + 1 /\ k + 1 - 1 = k
            BY <2>7, <5>3
          <6>2. w[k + 1] = u[k]
            BY <2>8, <6>1
          <6> QED
            BY <5>1, <6>1, <6>2
        <5> QED
          BY <5>2, <5>3
      <4> QED
        BY <4>1, <4>2
    <3>2. ASSUME NEW k \in 1 .. n + 1
          PROVE  w[k] \in t.table
      <4>1. CASE k <= i
        <5>1. k \in 1 .. n
          BY <2>7, <4>1
        <5> QED
          BY <2>1, <2>2, <2>7, <2>8, <4>1, <5>1
      <4>2. CASE k = i + 1
        <5>1. ~(k <= i)
          BY <2>7, <4>2
        <5> QED
          BY <2>2, <2>8, <4>2, <5>1
      <4>3. CASE k > i + 1
        <5>1. ~(k <= i) /\ k # i + 1 /\ k - 1 \in 1 .. n
          BY <2>7, <4>3
        <5>2. w[k] = u[k - 1]
          BY <2>8, <5>1
        <5> QED
          BY <2>1, <2>2, <2>7, <5>1, <5>2
      <4> QED
        BY <2>7, <4>1, <4>2, <4>3
    <3> QED
      BY <2>8, <3>1, <3>2
  <2> DEFINE back(k) == IF k <= i THEN k ELSE k - 1
  <2>10. \A k \in 1 .. n + 1 : k # i + 1 => back(k) \in 1 .. n /\ w[k] = u[back(k)]
    BY <2>7, <2>8
  <2>11. \A k, l \in 1 .. n + 1 : /\ k # i + 1 /\ l # i + 1 /\ back(k) = back(l)
                                  => k = l
    BY <2>7
  <2>12. \A k \in 1 .. n : ~Equal(o, u[k])
    BY <1>2, <2>1, <2>7 DEF Has
  <2>13. \A x, y : Equal(x, y) => Equal(y, x)
    BY DEF Equal
  <2>14. w[i + 1] = o
    <3>1. i + 1 \in 1 .. n + 1 /\ ~(i + 1 <= i)
      BY <2>7
    <3> QED
      BY <2>8, <3>1
  <2> HIDE DEF back
  <2>15. ASSUME NEW k \in 1 .. n + 1, NEW l \in 1 .. n + 1, Equal(w[k], w[l])
         PROVE  k = l
    <3>1. CASE k = i + 1 /\ l # i + 1
      BY <2>10, <2>12, <2>14, <2>15, <3>1
    <3>2. CASE k # i + 1 /\ l = i + 1
      BY <2>10, <2>12, <2>13, <2>14, <2>15, <3>2
    <3>3. CASE k # i + 1 /\ l # i + 1
      <4>1. Equal(u[back(k)], u[back(l)]) /\ back(k) \in 1 .. n /\ back(l) \in 1 .. n
        BY <2>10, <2>15, <3>3
      <4>2. back(k) = back(l)
        BY <2>1, <2>7, <4>1
      <4> QED
        BY <2>11, <3>3, <4>2
    <3> QED
      BY <3>1, <3>2, <3>3
  <2>16. Matches(t)
    BY <2>2, <2>8, <2>9, <2>15 DEF Matches, w
  <2>17. t.mutations > s.mutations
    BY <2>1, <2>2
  <2> QED
    BY <2>16, <2>17 DEF SetFollows, t
<1> QED
  BY <1>1, <1>2

LEMMA RemovedFollows ==
  ASSUME NEW s, Matches(s), NEW i \in 0 .. Len(s.order) - 1
  PROVE  SetFollows(RemovedFromSet(s, i), s)
<1> DEFINE u == s.order
<1> DEFINE n == Len(u)
<1> DEFINE w == Without(u, i, 1)
<1> DEFINE gone == u[i + 1]
<1> DEFINE T == {p \in s.table : ~Equal(p, gone)}
<1> DEFINE m == s.mutations + 1
<1> DEFINE t == [order |-> w, table |-> T, mutations |-> m]
<1>1. /\ u \in Seq(Objects) /\ n \in Nat /\ n = Len(u) /\ DOMAIN u = 1 .. n
      /\ s.mutations \in Nat /\ s.table \in SUBSET Objects
      /\ s.table = {u[k] : k \in 1 .. n}
      /\ \A k, l \in 1 .. n : Equal(u[k], u[l]) => k = l
  BY DEF Matches, SetType
<1>2. i \in 0 .. n - 1
  OBVIOUS
<1>3. RemovedFromSet(s, i) = t
  BY DEF RemovedFromSet
<1> HIDE DEF u, n
<1>4. i \in Nat /\ i + 1 <= Len(u) /\ i + 1 \in 1 .. n
  BY <1>1, <1>2
<1>5. /\ w \in Seq(Objects) /\ Len(w) = n - 1
      /\ \A k \in 1 .. n - 1 : w[k] = IF k <= i THEN u[k] ELSE u[k + 1]
  <2>1. u \in Seq(Objects)
    BY <1>1
  <2>2. i \in Nat
    BY <1>4
  <2>3. i + 1 <= Len(u)
    BY <1>4
  <2>4. 1 \in Nat
    OBVIOUS
  <2>5. /\ w \in Seq(Objects) /\ Len(w) = Len(u) - 1
        /\ \A k \in 1 .. Len(u) - 1 : w[k] = IF k <= i THEN u[k] ELSE u[k + 1]
    BY <2>1, <2>2, <2>3, <2>4, WithoutProperties
  <2> QED
    BY <1>1, <2>5
<1> HIDE DEF w, T, m
<1>6. m \in Nat /\ m > s.mutations
  BY <1>1 DEF m
<1>7. T \in SUBSET Objects
  BY <1>1 DEF T
<1>8. t \in SetType /\ t.order = w /\ t.table = T /\ t.mutations = m
  BY <1>5, <1>6, <1>7 DEF SetType
<1> HIDE DEF t
<1> DEFINE from(k) == IF k <= i THEN k ELSE k + 1
<1>9. \A k \in 1 .. n - 1 : from(k) \in 1 .. n /\ from(k) # i + 1 /\ w[k] = u[from(k)]
  BY <1>1, <1>2, <1>5
<1>10. \A k, l \in 1 .. n - 1 : from(k) = from(l) => k = l
  BY <1>1, <1>2
<1>11. \A l \in 1 .. n : l # i + 1 => \E k \in 1 .. n - 1 : from(k) = l
  <2> SUFFICES ASSUME NEW l \in 1 .. n, l # i + 1
               PROVE  \E k \in 1 .. n - 1 : from(k) = l
    OBVIOUS
  <2>1. CASE l <= i
    <3>1. l \in 1 .. n - 1 /\ from(l) = l
      BY <1>1, <1>2, <2>1
    <3> QED
      BY <3>1
  <2>2. CASE ~(l <= i)
    <3>1. l - 1 \in 1 .. n - 1 /\ from(l - 1) = l
      BY <1>1, <1>2, <2>2
    <3> QED
      BY <3>1
  <2> QED
    BY <2>1, <2>2
<1> HIDE DEF from
<1>12. DOMAIN w = 1 .. n - 1
  BY <1>5
<1>13. T = {w[k] : k \in DOMAIN w}
  <2>1. ASSUME NEW p \in T
        PROVE  \E k \in 1 .. n - 1 : w[k] = p
    <3>1. p \in s.table /\ ~Equal(p, gone)
      BY DEF T
    <3>2. PICK l \in 1 .. n : p = u[l]
      BY <1>1, <3>1
    <3>3. l # i + 1
      BY <3>1, <3>2 DEF Equal
    <3> QED
      BY <1>9, <1>11, <3>2, <3>3
  <2>2. ASSUME NEW k \in 1 .. n - 1
        PROVE  w[k] \in T
    <3>1. w[k] \in s.table
      BY <1>1, <1>9
    <3>2. ~Equal(w[k], gone)
      BY <1>1, <1>4, <1>9
    <3> QED
      BY <3>1, <3>2 DEF T
  <2> QED
    BY <1>12, <2>1, <2>2
<1>14. \A k, l \in DOMAIN w : Equal(w[k], w[l]) => k = l
  <2>1. ASSUME NEW k \in 1 .. n - 1, NEW l \in 1 .. n - 1, Equal(w[k], w[l])
        PROVE  k = l
    <3>1. from(k) \in 1 .. n /\ from(l) \in 1 .. n /\ Equal(u[from(k)], u[from(l)])
      BY <1>9, <2>1
    <3>2. from(k) = from(l)
      BY <1>1, <3>1
    <3> QED
      BY <1>10, <3>2
  <2> QED
    BY <1>12, <2>1
<1>15. Matches(t)
  BY <1>8, <1>13, <1>14 DEF Matches
<1> QED
  BY <1>3, <1>6, <1>8, <1>15 DEF SetFollows

LEMMA SetEmptiedFollows ==
  ASSUME NEW s, Matches(s)
  PROVE  SetFollows(SetEmptied(s), s)
<1> DEFINE m == s.mutations + 1
<1>1. m \in Nat /\ m > s.mutations
  BY DEF Matches, SetType
<1>2. SetEmptied(s) = [EmptySet EXCEPT !.mutations = m]
  BY DEF SetEmptied
<1> HIDE DEF m
<1> DEFINE t == [EmptySet EXCEPT !.mutations = m]
<1>3. t \in SetType /\ t.order = << >> /\ t.table = {} /\ t.mutations = m
  <2>1. EmptySet \in SetType /\ EmptySet.order = << >> /\ EmptySet.table = {}
    BY DEF EmptySet, SetType
  <2> QED
    BY <1>1, <2>1 DEF SetType
<1> HIDE DEF t
<1>4. Matches(t)
  BY <1>3 DEF Matches
<1> QED
  BY <1>1, <1>2, <1>3, <1>4 DEF SetFollows, t

LEMMA EmptySetMatches ==
  Matches(EmptySet)
BY DEF Matches, EmptySet, SetType

LEMMA ReplacedMatches ==
  ASSUME NEW s, Matches(s), NEW i \in 0 .. Len(s.order) - 1, NEW o \in Objects
  PROVE  Matches(ReplacedInSet(s, i, o))
<1>1. CASE Has(s, o)
  BY <1>1 DEF ReplacedInSet
<1>2. CASE ~Has(s, o)
  <2> DEFINE u == s.order
  <2> DEFINE n == Len(u)
  <2> DEFINE w == [u EXCEPT ![i + 1] = o]
  <2> DEFINE T == {p \in s.table : ~Equal(p, u[i + 1])} \cup {o}
  <2> DEFINE t == [s EXCEPT !.order = w, !.table = T]
  <2>1. /\ u \in Seq(Objects) /\ n \in Nat /\ n = Len(u) /\ DOMAIN u = 1 .. n
        /\ s \in SetType /\ s.table \in SUBSET Objects
        /\ s.table = {u[k] : k \in 1 .. n}
        /\ \A k, l \in 1 .. n : Equal(u[k], u[l]) => k = l
    BY DEF Matches, SetType
  <2>2. ReplacedInSet(s, i, o) = t
    BY <1>2 DEF ReplacedInSet
  <2>3. i + 1 \in 1 .. n
    BY <2>1
  <2> HIDE DEF u, n
  <2>4. w \in Seq(Objects) /\ DOMAIN w = 1 .. n
        /\ \A k \in 1 .. n : w[k] = IF k = i + 1 THEN o ELSE u[k]
    BY <2>1, <2>3
  <2>5. T \in SUBSET Objects
    BY <2>1
  <2> HIDE DEF w, T
  <2>6. t \in SetType /\ t.order = w /\ t.table = T
    BY <2>1, <2>4, <2>5 DEF SetType
  <2> HIDE DEF t
  <2>7. \A k \in 1 .. n : ~Equal(o, u[k]) /\ ~Equal(u[k], o)
    BY <1>2, <2>1 DEF Has, Equal
  <2>8. T = {w[k] : k \in DOMAIN w}
    <3>1. ASSUME NEW p \in T
          PROVE  \E k \in 1 .. n : w[k] = p
      <4>1. CASE p = o
        BY <2>3, <2>4, <4>1
      <4>2. CASE p # o
        <5>1. p \in s.table /\ ~Equal(p, u[i + 1])
          BY <4>2 DEF T
        <5>2. PICK l \in 1 .. n : p = u[l]
          BY <2>1, <5>1
        <5>3. l # i + 1
          BY <5>1, <5>2 DEF Equal
        <5> QED
          BY <2>4, <5>2, <5>3
      <4> QED
        BY <4>1, <4>2
    <3>2. ASSUME NEW k \in 1 .. n
          PROVE  w[k] \in T
      <4>1. CASE k = i + 1
        BY <2>4, <4>1 DEF T
      <4>2. CASE k # i + 1
        <5>1. w[k] = u[k] /\ u[k] \in s.table
          BY <2>1, <2>4, <4>2
        <5>2. ~Equal(u[k], u[i + 1])
          BY <2>1, <2>3, <4>2
        <5> QED
          BY <5>1, <5>2 DEF T
      <4> QED
        BY <4>1, <4>2
    <3> QED
      BY <2>4, <3>1, <3>2
  <2>9. ASSUME NEW k \in 1 .. n, NEW l \in 1 .. n, Equal(w[k], w[l])
        PROVE  k = l
    BY <2>1, <2>4, <2>7, <2>9
  <2>10. \A k, l \in DOMAIN w : Equal(w[k], w[l]) => k = l
    BY <2>4, <2>9
  <2> QED
    BY <2>2, <2>6, <2>8, <2>10 DEF Matches
<1> QED
  BY <1>1, <1>2

LEMMA ReplacedCounts ==
  ASSUME NEW s \in SetType, NEW i, NEW o
  PROVE  ReplacedInSet(s, i, o).mutations = s.mutations
<1> DEFINE v == [s.order EXCEPT ![i + 1] = o]
<1> DEFINE t == {p \in s.table : ~Equal(p, s.order[i + 1])} \cup {o}
<1>1. ReplacedInSet(s, i, o) = IF Has(s, o) THEN s
                               ELSE [s EXCEPT !.order = v, !.table = t]
  BY DEF ReplacedInSet, SetType
<1> HIDE DEF v, t
<1>2. [s EXCEPT !.order = v, !.table = t].mutations = s.mutations
  BY DEF SetType
<1> QED
  BY <1>1, <1>2
(***************************************************************************)
(* Steps one after the other, each with what the last one gave.            *)
(***************************************************************************)
LEMMA StepsExist ==
  ASSUME NEW T, NEW s \in T, NEW N \in Nat, NEW g \in [1 .. N -> [T -> T]]
  PROVE  \E f \in [0 .. N -> T] : f[0] = s /\ \A k \in 1 .. N : f[k] = g[k][f[k - 1]]
<1> DEFINE P == {n \in 0 .. N : \E f \in [0 .. n -> T] :
                   f[0] = s /\ \A k \in 1 .. n : f[k] = g[k][f[k - 1]]}
<1>1. 0 \in P
  <2> DEFINE f == [k \in 0 .. 0 |-> s]
  <2>1. f \in [0 .. 0 -> T] /\ f[0] = s /\ \A k \in 1 .. 0 : f[k] = g[k][f[k - 1]]
    OBVIOUS
  <2>2. 0 \in 0 .. N
    OBVIOUS
  <2> QED
    BY <2>1, <2>2
<1>2. ASSUME NEW n \in 0 .. N, n \in P, n < N
      PROVE  n + 1 \in P
  <2>1. PICK f \in [0 .. n -> T] : f[0] = s /\ \A k \in 1 .. n : f[k] = g[k][f[k - 1]]
    BY <1>2
  <2> DEFINE h == [k \in 0 .. n + 1 |-> IF k <= n THEN f[k] ELSE g[n + 1][f[n]]]
  <2>2. n + 1 \in 1 .. N /\ n \in 0 .. n /\ n + 1 - 1 = n
    BY <1>2
  <2>3. g[n + 1][f[n]] \in T
    <3>1. g[n + 1] \in [T -> T]
      BY <2>2
    <3>2. f[n] \in T
      BY <2>2
    <3> QED
      BY <3>1, <3>2
  <2>4. h \in [0 .. n + 1 -> T]
    BY <2>3
  <2>5. (\A k \in 0 .. n : h[k] = f[k]) /\ h[n + 1] = g[n + 1][f[n]]
    OBVIOUS
  <2> HIDE DEF h
  <2>6. ASSUME NEW k \in 1 .. n + 1
        PROVE  h[k] = g[k][h[k - 1]]
    <3>1. CASE k = n + 1
      BY <2>2, <2>5, <3>1
    <3>2. CASE k \in 1 .. n
      <4>1. h[k] = f[k] /\ h[k - 1] = f[k - 1]
        BY <2>5, <3>2
      <4>2. f[k] = g[k][f[k - 1]]
        BY <2>1, <3>2
      <4> QED
        BY <4>1, <4>2
    <3> QED
      BY <3>1, <3>2
  <2>7. h[0] = s
    BY <2>1, <2>5
  <2>8. n + 1 \in 0 .. N
    BY <1>2
  <2> QED
    BY <2>4, <2>6, <2>7, <2>8
<1>3. N \in 0 .. N
  OBVIOUS
<1>4. \A n \in 0 .. N : n \in P /\ n < N => n + 1 \in P
  BY <1>2
<1>5. N \in P
  <2> HIDE DEF P
  <2> QED
    BY <1>1, <1>3, <1>4, InductionUpTo
<1> QED
  BY <1>5

(***************************************************************************)
(* Insertions one after the other, at places that are in the set; some may *)
(* be left out.                                                            *)
(***************************************************************************)
LEMMA InsertionsFollow ==
  ASSUME NEW s, Matches(s), NEW v \in Seq(Objects), NEW done,
         done[0] = s,
         \A k \in 1 .. Len(v) :
           \/ done[k] = done[k - 1]
           \/ \E i \in 0 .. Len(done[k - 1].order) :
                done[k] = InsertedInSet(done[k - 1], v[k], i)
  PROVE  SetFollows(done[Len(v)], s)
<1> DEFINE N == Len(v)
<1> DEFINE P == {n \in 0 .. N : SetFollows(done[n], s)}
<1>1. 0 \in P
  BY DEF SetFollows
<1>2. ASSUME NEW n \in 0 .. N, n \in P, n < N
      PROVE  n + 1 \in P
  <2>1. n + 1 \in 1 .. Len(v) /\ n + 1 - 1 = n /\ n + 1 \in 0 .. N
    BY <1>2
  <2>2. SetFollows(done[n], s)
    BY <1>2
  <2>3. \/ done[n + 1] = done[n]
        \/ \E i \in 0 .. Len(done[n].order) :
             done[n + 1] = InsertedInSet(done[n], v[n + 1], i)
    BY <2>1
  <2>4. CASE done[n + 1] = done[n]
    BY <2>1, <2>2, <2>4
  <2>5. CASE \E i \in 0 .. Len(done[n].order) :
               done[n + 1] = InsertedInSet(done[n], v[n + 1], i)
    <3> DEFINE t == done[n]
    <3> DEFINE o == v[n + 1]
    <3>1. PICK i \in 0 .. Len(t.order) : done[n + 1] = InsertedInSet(t, o, i)
      BY <2>5
    <3>2. Matches(t) /\ (t = s \/ t.mutations > s.mutations)
      BY <2>2 DEF SetFollows
    <3>3. o \in Objects
      BY <2>1
    <3> DEFINE d == done[n + 1]
    <3>4. d = InsertedInSet(t, o, i)
      BY <3>1
    <3> HIDE DEF t, o, d
    <3>5. SetFollows(InsertedInSet(t, o, i), t)
      BY <3>2, <3>3, InsertedFollowsInSet
    <3>6. Matches(d) /\ (d = t \/ d.mutations > t.mutations)
      BY <3>4, <3>5 DEF SetFollows
    <3>7. s.mutations \in Nat /\ t.mutations \in Nat /\ d.mutations \in Nat
      BY <3>2, <3>6 DEF Matches, SetType
    <3>8. SetFollows(d, s)
      BY <3>2, <3>6, <3>7 DEF SetFollows
    <3> QED
      BY <2>1, <3>8 DEF d
  <2> QED
    BY <2>3, <2>4, <2>5
<1>3. N \in Nat /\ N \in 0 .. N
  OBVIOUS
<1>4. \A n \in 0 .. N : n \in P /\ n < N => n + 1 \in P
  BY <1>2
<1>5. N \in P
  <2> HIDE DEF P, N
  <2> QED
    BY <1>1, <1>3, <1>4, InductionUpTo
<1> QED
  BY <1>5

LEMMA AllInsertedFollows ==
  ASSUME NEW s, Matches(s), NEW v \in Seq(Objects), NEW i \in Nat
  PROVE  SetFollows(AllInserted(s, v, i), s)
<1> DEFINE N == Len(v)
<1> DEFINE at(t, k) == IF i + k - 1 > Len(t.order) THEN t
                       ELSE InsertedInSet(t, v[k], i + k - 1)
<1> DEFINE Step(f) == [k \in 0 .. Len(v) |-> IF k = 0 THEN s ELSE
                         IF i + k - 1 > Len(f[k - 1].order) THEN f[k - 1]
                         ELSE InsertedInSet(f[k - 1], v[k], i + k - 1)]
<1> DEFINE done == CHOOSE f : f = Step(f)
<1> DEFINE g == [k \in 1 .. N |-> [t \in SetType |-> at(t, k)]]
<1>1. N \in Nat /\ N = Len(v)
  OBVIOUS
<1>2. \A k \in 1 .. N, t \in SetType : at(t, k) \in SetType
  <2> SUFFICES ASSUME NEW k \in 1 .. N, NEW t \in SetType
               PROVE  at(t, k) \in SetType
    OBVIOUS
  <2>1. CASE i + k - 1 > Len(t.order)
    BY <2>1
  <2>2. CASE ~(i + k - 1 > Len(t.order))
    <3>1. Len(t.order) \in Nat
      BY DEF SetType
    <3>2. i + k - 1 \in 0 .. Len(t.order)
      BY <2>2, <3>1
    <3>3. v[k] \in Objects
      OBVIOUS
    <3>4. InsertedInSet(t, v[k], i + k - 1) \in SetType
      BY <3>2, <3>3, InsertedType
    <3> QED
      BY <2>2, <3>4
  <2> QED
    BY <2>1, <2>2
<1>3. g \in [1 .. N -> [SetType -> SetType]]
  <2> HIDE DEF N, at
  <2> QED
    BY <1>2
<1>4. \A k \in 1 .. N, t \in SetType : g[k][t] = at(t, k)
  OBVIOUS
<1> HIDE DEF g, N
<1>5. PICK f \in [0 .. N -> SetType] : f[0] = s /\ \A k \in 1 .. N : f[k] = g[k][f[k - 1]]
  <2>1. s \in SetType
    BY DEF Matches
  <2>2. N \in Nat
    BY <1>1
  <2> DEFINE T == SetType
  <2> HIDE DEF T
  <2>3. s \in T
    BY <2>1 DEF T
  <2>4. g \in [1 .. N -> [T -> T]]
    BY <1>3 DEF T
  <2>5. \E f \in [0 .. N -> T] : f[0] = s /\ \A k \in 1 .. N : f[k] = g[k][f[k - 1]]
    BY <2>2, <2>3, <2>4, StepsExist
  <2> QED
    BY <2>5 DEF T
<1>6. \A k \in 1 .. N : f[k - 1] \in SetType /\ f[k] = at(f[k - 1], k)
  <2> SUFFICES ASSUME NEW k \in 1 .. N
               PROVE  f[k - 1] \in SetType /\ f[k] = at(f[k - 1], k)
    OBVIOUS
  <2>1. f[k - 1] \in SetType
    BY <1>1
  <2>2. f[k] = g[k][f[k - 1]]
    BY <1>5
  <2> HIDE DEF at
  <2> QED
    BY <1>4, <2>1, <2>2
<1>7. f = Step(f)
  <2>1. \A k \in 0 .. N : f[k] = Step(f)[k]
    BY <1>1, <1>5, <1>6
  <2>2. DOMAIN f = 0 .. N /\ DOMAIN Step(f) = 0 .. N
    BY <1>1
  <2>3. f = [k \in 0 .. N |-> f[k]]
    OBVIOUS
  <2>4. Step(f) = [k \in 0 .. N |-> Step(f)[k]]
    BY <1>1
  <2> HIDE DEF Step
  <2> QED
    BY <2>1, <2>3, <2>4
<1>8. done = Step(done)
  BY <1>7
<1>9. AllInserted(s, v, i) = done[Len(v)]
  BY DEF AllInserted
<1>10. ASSUME NEW h, h = Step(h)
       PROVE  /\ h[0] = s
              /\ \A k \in 1 .. N : h[k] = at(h[k - 1], k)
  <2>1. \A k \in 0 .. N : h[k] = Step(h)[k]
    BY <1>10
  <2>2. \A k \in 0 .. N : h[k] = IF k = 0 THEN s ELSE at(h[k - 1], k)
    BY <1>1, <2>1
  <2>3. 0 \in 0 .. N
    BY <1>1
  <2> HIDE DEF at, Step
  <2> QED
    BY <1>1, <2>2, <2>3
<1>11. done[0] = s /\ \A k \in 1 .. N : done[k] = at(done[k - 1], k)
  <2> HIDE DEF Step, done, at
  <2> QED
    BY <1>8, <1>10
<1> HIDE DEF done, Step
<1>12. ASSUME NEW n \in 0 .. N
       PROVE  done[n] \in SetType
  <2> DEFINE P == {k \in 0 .. N : done[k] \in SetType}
  <2>1. 0 \in P
    BY <1>1, <1>11 DEF Matches
  <2>2. ASSUME NEW k \in 0 .. N, k \in P, k < N
        PROVE  k + 1 \in P
    <3>1. k + 1 \in 1 .. N /\ k + 1 - 1 = k /\ k + 1 \in 0 .. N
      BY <1>1, <2>2
    <3>2. done[k + 1] = at(done[k], k + 1)
      BY <1>11, <3>1
    <3>3. at(done[k], k + 1) \in SetType
      <4> HIDE DEF at
      <4> QED
        BY <1>2, <2>2, <3>1
    <3> QED
      BY <3>1, <3>2, <3>3
  <2>3. \A k \in 0 .. N : k \in P /\ k < N => k + 1 \in P
    BY <2>2
  <2>4. n \in P
    <3> HIDE DEF P
    <3> QED
      BY <1>1, <2>1, <2>3, InductionUpTo
  <2> QED
    BY <2>4
<1>13. ASSUME NEW k \in 1 .. Len(v)
       PROVE  \/ done[k] = done[k - 1]
              \/ \E j \in 0 .. Len(done[k - 1].order) :
                   done[k] = InsertedInSet(done[k - 1], v[k], j)
  <2> DEFINE t == done[k - 1]
  <2>1. k - 1 \in 0 .. N /\ k \in 1 .. N
    BY <1>1
  <2>2. t \in SetType
    BY <1>12, <2>1
  <2>3. Len(t.order) \in Nat
    BY <2>2 DEF SetType
  <2>4. done[k] = IF i + k - 1 > Len(t.order) THEN t
                  ELSE InsertedInSet(t, v[k], i + k - 1)
    BY <1>11, <2>1
  <2> HIDE DEF t
  <2>5. CASE i + k - 1 > Len(t.order)
    BY <2>4, <2>5 DEF t
  <2>6. CASE ~(i + k - 1 > Len(t.order))
    <3>1. i + k - 1 \in 0 .. Len(t.order)
      BY <1>1, <2>1, <2>3, <2>6
    <3> QED
      BY <2>4, <2>6, <3>1 DEF t
  <2> QED
    BY <2>5, <2>6
<1>14. SetFollows(done[Len(v)], s)
  <2>1. done[0] = s
    BY <1>11
  <2> QED
    BY <1>13, <2>1, InsertionsFollow
<1> QED
  BY <1>9, <1>14

LEMMA AllAddedToSetFollows ==
  ASSUME NEW s, Matches(s), NEW v \in Seq(Objects)
  PROVE  SetFollows(AllAddedToSet(s, v), s)
<1> DEFINE N == Len(v)
<1> DEFINE at(t, k) == InsertedInSet(t, v[k], Len(t.order))
<1> DEFINE Step(f) == [k \in 0 .. Len(v) |-> IF k = 0 THEN s
                         ELSE InsertedInSet(f[k - 1], v[k], Len(f[k - 1].order))]
<1> DEFINE done == CHOOSE f : f = Step(f)
<1> DEFINE g == [k \in 1 .. N |-> [t \in SetType |-> at(t, k)]]
<1>1. N \in Nat /\ N = Len(v)
  OBVIOUS
<1>2. \A k \in 1 .. N, t \in SetType : at(t, k) \in SetType
  <2> SUFFICES ASSUME NEW k \in 1 .. N, NEW t \in SetType
               PROVE  at(t, k) \in SetType
    OBVIOUS
  <2>1. Len(t.order) \in 0 .. Len(t.order)
    BY DEF SetType
  <2>2. v[k] \in Objects
    OBVIOUS
  <2> QED
    BY <2>1, <2>2, InsertedType
<1>3. g \in [1 .. N -> [SetType -> SetType]]
  <2> HIDE DEF N, at
  <2> QED
    BY <1>2
<1>4. \A k \in 1 .. N, t \in SetType : g[k][t] = at(t, k)
  OBVIOUS
<1> HIDE DEF g, N
<1>5. PICK f \in [0 .. N -> SetType] : f[0] = s /\ \A k \in 1 .. N : f[k] = g[k][f[k - 1]]
  <2>1. s \in SetType
    BY DEF Matches
  <2>2. N \in Nat
    BY <1>1
  <2> DEFINE T == SetType
  <2> HIDE DEF T
  <2>3. s \in T
    BY <2>1 DEF T
  <2>4. g \in [1 .. N -> [T -> T]]
    BY <1>3 DEF T
  <2>5. \E f \in [0 .. N -> T] : f[0] = s /\ \A k \in 1 .. N : f[k] = g[k][f[k - 1]]
    BY <2>2, <2>3, <2>4, StepsExist
  <2> QED
    BY <2>5 DEF T
<1>6. \A k \in 1 .. N : f[k] = at(f[k - 1], k)
  <2> SUFFICES ASSUME NEW k \in 1 .. N
               PROVE  f[k] = at(f[k - 1], k)
    OBVIOUS
  <2>1. f[k - 1] \in SetType
    BY <1>1
  <2>2. f[k] = g[k][f[k - 1]]
    BY <1>5
  <2> HIDE DEF at
  <2> QED
    BY <1>4, <2>1, <2>2
<1>7. f = Step(f)
  <2>1. \A k \in 0 .. N : f[k] = Step(f)[k]
    BY <1>1, <1>5, <1>6
  <2>2. f = [k \in 0 .. N |-> f[k]]
    OBVIOUS
  <2>3. Step(f) = [k \in 0 .. N |-> Step(f)[k]]
    BY <1>1
  <2> HIDE DEF Step
  <2> QED
    BY <2>1, <2>2, <2>3
<1>8. done = Step(done)
  BY <1>7
<1>9. AllAddedToSet(s, v) = done[Len(v)]
  BY DEF AllAddedToSet
<1>10. ASSUME NEW h, h = Step(h)
       PROVE  /\ h[0] = s
              /\ \A k \in 1 .. N : h[k] = at(h[k - 1], k)
  <2>1. \A k \in 0 .. N : h[k] = Step(h)[k]
    BY <1>10
  <2>2. \A k \in 0 .. N : h[k] = IF k = 0 THEN s ELSE at(h[k - 1], k)
    BY <1>1, <2>1
  <2>3. 0 \in 0 .. N
    BY <1>1
  <2> HIDE DEF at, Step
  <2> QED
    BY <1>1, <2>2, <2>3
<1>11. done[0] = s /\ \A k \in 1 .. N : done[k] = at(done[k - 1], k)
  <2> HIDE DEF Step, done, at
  <2> QED
    BY <1>8, <1>10
<1> HIDE DEF done, Step
<1>12. ASSUME NEW n \in 0 .. N
       PROVE  done[n] \in SetType
  <2> DEFINE P == {k \in 0 .. N : done[k] \in SetType}
  <2>1. 0 \in P
    BY <1>1, <1>11 DEF Matches
  <2>2. ASSUME NEW k \in 0 .. N, k \in P, k < N
        PROVE  k + 1 \in P
    <3>1. k + 1 \in 1 .. N /\ k + 1 - 1 = k /\ k + 1 \in 0 .. N
      BY <1>1, <2>2
    <3>2. done[k + 1] = at(done[k], k + 1)
      BY <1>11, <3>1
    <3>3. at(done[k], k + 1) \in SetType
      <4> HIDE DEF at
      <4> QED
        BY <1>2, <2>2, <3>1
    <3> QED
      BY <3>1, <3>2, <3>3
  <2>3. \A k \in 0 .. N : k \in P /\ k < N => k + 1 \in P
    BY <2>2
  <2>4. n \in P
    <3> HIDE DEF P
    <3> QED
      BY <1>1, <2>1, <2>3, InductionUpTo
  <2> QED
    BY <2>4
<1>13. ASSUME NEW k \in 1 .. Len(v)
       PROVE  \E j \in 0 .. Len(done[k - 1].order) :
                done[k] = InsertedInSet(done[k - 1], v[k], j)
  <2> DEFINE t == done[k - 1]
  <2>1. k - 1 \in 0 .. N /\ k \in 1 .. N
    BY <1>1
  <2>2. t \in SetType
    BY <1>12, <2>1
  <2>3. Len(t.order) \in 0 .. Len(t.order)
    BY <2>2 DEF SetType
  <2>4. done[k] = InsertedInSet(t, v[k], Len(t.order))
    BY <1>11, <2>1
  <2> HIDE DEF t
  <2> QED
    BY <2>3, <2>4 DEF t
<1>14. SetFollows(done[Len(v)], s)
  <2>1. done[0] = s
    BY <1>11
  <2> QED
    BY <1>13, <2>1, InsertionsFollow
<1> QED
  BY <1>9, <1>14
-----------------------------------------------------------------------------
(***************************************************************************)
(* The steps of the program.  Those that change the array, and those that  *)
(* change the set, are taken together.  An array strays when a range that  *)
(* does not begin at 0 is replaced in it.                                  *)
(***************************************************************************)
ArrayChanges == \E b : ArrayBecomes(b) /\ Follows(b, array)

Strays(b, a) == ~HoldsObjects(b) /\ b.mutations \in Nat /\ b.mutations > a.mutations

ArrayStrays == \E b : ArrayBecomes(b) /\ Strays(b, array)

SetChanges ==
  \E t, blind : /\ SetBecomes(t, blind) /\ Matches(t) /\ blind \in BOOLEAN
                /\ blind \/ t = set \/ t.mutations > set.mutations
                /\ t.mutations >= set.mutations

Moves == \E location, length, index \in Nat : MoveObjects(location, length, index)

LEMMA ArrayStepKinds ==
  ASSUME Proper(array), ArrayNext
  PROVE  \/ ArrayChanges
         \/ ArrayStrays
         \/ Moves
         \/ \E honest \in BOOLEAN : SortArray(honest)
<1>1. Count(array) \in Nat /\ array.objects \in Seq(Objects) /\ Count(array) = Len(array.objects)
  BY ProperFacts
<1>2. \A b : ArrayBecomes(b) /\ Follows(b, array) => ArrayChanges
  BY DEF ArrayChanges
<1>3. Contents \subseteq Seq(Objects)
  BY ContentsAssumption
<1>4. CASE \E o \in Objects : \/ AddObject(o)
                              \/ RemoveObject(o)
                              \/ \E i \in 0 .. Count(array) : InsertObject(o, i)
                              \/ \E i \in 0 .. Count(array) - 1 : ReplaceObject(o, i)
  <2>1. PICK o \in Objects : \/ AddObject(o)
                             \/ RemoveObject(o)
                             \/ \E i \in 0 .. Count(array) : InsertObject(o, i)
                             \/ \E i \in 0 .. Count(array) - 1 : ReplaceObject(o, i)
    BY <1>4
  <2>2. CASE AddObject(o)
    BY <1>2, <2>2, AddedFollows DEF AddObject
  <2>3. CASE RemoveObject(o)
    BY <1>2, <2>3, EqualRemovedFollows DEF RemoveObject
  <2>4. CASE \E i \in 0 .. Count(array) : InsertObject(o, i)
    BY <1>2, <2>4, InsertedFollows DEF InsertObject
  <2>5. CASE \E i \in 0 .. Count(array) - 1 : ReplaceObject(o, i)
    BY <1>2, <2>5, ReplacedFollows DEF ReplaceObject
  <2> QED
    BY <2>1, <2>2, <2>3, <2>4, <2>5
<1>5. CASE \E location \in 0 .. Count(array) - 1 :
             \E length \in 1 .. Count(array) - location :
               \/ RemoveRange(location, length)
               \/ \E index \in 0 .. Count(array) - 1 :
                    MoveObjects(location, length, index)
  <2>5. PICK location \in 0 .. Count(array) - 1 :
               \E length \in 1 .. Count(array) - location :
                 \/ RemoveRange(location, length)
                 \/ \E index \in 0 .. Count(array) - 1 :
                      MoveObjects(location, length, index)
    BY <1>5
  <2>1. PICK length \in 1 .. Count(array) - location :
               \/ RemoveRange(location, length)
               \/ \E index \in 0 .. Count(array) - 1 :
                    MoveObjects(location, length, index)
    BY <2>5
  <2>2. location \in Nat /\ length \in Nat /\ location + length <= Count(array)
    BY <1>1
  <2>3. CASE RemoveRange(location, length)
    <3>1. Follows(RangeRemoved(array, location, length), array)
      BY <2>2, RangeRemovedFollows
    <3> QED
      BY <1>2, <2>3, <3>1 DEF RemoveRange
  <2>4. CASE \E index \in 0 .. Count(array) - 1 : MoveObjects(location, length, index)
    <3>1. PICK index \in 0 .. Count(array) - 1 : MoveObjects(location, length, index)
      BY <2>4
    <3>2. index \in Nat
      OBVIOUS
    <3> QED
      BY <2>2, <3>1, <3>2 DEF Moves
  <2> QED
    BY <2>1, <2>3, <2>4
<1>6. CASE RemoveLastObject
  BY <1>2, <1>6, LastRemovedFollows DEF RemoveLastObject
<1>7. CASE RemoveAllObjects
  BY <1>2, <1>7, AllRemovedFollows DEF RemoveAllObjects
<1>8. CASE \E v \in Contents : AddObjects(v) \/ SetArray(v)
  <2>1. PICK v \in Seq(Objects) : AddObjects(v) \/ SetArray(v)
    BY <1>3, <1>8
  <2>2. Follows(AllAdded(array, v), array) /\ Follows(AllAdded(AllRemoved(array), v), array)
    BY AllAddedFollows, SetToFollows
  <2> QED
    BY <1>2, <2>1, <2>2 DEF AddObjects, SetArray, SetTo
<1>9. CASE AddItself
  <2>1. Follows(AllAdded(array, array.objects), array)
    BY <1>1, AllAddedFollows
  <2> QED
    BY <1>2, <1>9, <2>1 DEF AddItself, AddObjects
<1>10. CASE SetItself
  <2> DEFINE e == << >>
  <2>1. e \in Seq(Objects)
    OBVIOUS
  <2> HIDE DEF e
  <2>2. Follows(AllAdded(AllRemoved(array), e), array)
    BY <2>1, SetToFollows
  <2> QED
    BY <1>2, <1>10, <2>2 DEF SetItself, SetToItself, e
<1>11. CASE \E i, k \in 0 .. Count(array) - 1 : Exchange(i, k)
  BY <1>2, <1>11, ExchangedFollows DEF Exchange
<1>12. CASE Reverse
  BY <1>2, <1>12, ReversedFollows DEF Reverse
<1>13. CASE \E v \in Contents, location \in 0 .. Count(array) - 1 : ReplaceRange(location, v)
  <2>1. PICK v \in Contents, location \in 0 .. Count(array) - 1 : ReplaceRange(location, v)
    BY <1>13
  <2>2. location \in Nat /\ v \in Seq(Objects)
    BY <1>1, <1>3
  <2>3. location + Len(v) <= Count(array)
        /\ ArrayBecomes(RangeReplaced(array, location, v))
    BY <2>1 DEF ReplaceRange
  <2>4. CASE location = 0 \/ v = << >>
    <3>1. Follows(RangeReplaced(array, location, v), array)
      BY <2>2, <2>3, <2>4, RangeReplacedFollows
    <3> QED
      BY <1>2, <2>3, <3>1
  <2>5. CASE location # 0 /\ v # << >>
    <3>1. location \in Nat \ {0}
      BY <2>2, <2>5
    <3>2. Strays(RangeReplaced(array, location, v), array)
      BY <2>2, <2>3, <2>5, <3>1, RangeReplacedStrays DEF Strays
    <3> QED
      BY <2>3, <3>2 DEF ArrayStrays
  <2> QED
    BY <2>4, <2>5
<1>14. CASE \E honest \in BOOLEAN : SortArray(honest)
  BY <1>14
<1> QED
  BY <1>4, <1>5, <1>6, <1>7, <1>8, <1>9, <1>10, <1>11, <1>12, <1>13, <1>14 DEF ArrayNext

LEMMA SetStepKinds ==
  ASSUME Proper(array), Matches(set), SetNext
  PROVE  SetChanges
<1>1. Len(set.order) \in Nat /\ array.objects \in Seq(Objects)
  BY ProperFacts DEF Matches, SetType
<1>2. ASSUME NEW t, SetBecomes(t, FALSE), SetFollows(t, set)
      PROVE  SetChanges
  <2> DEFINE no == FALSE
  <2>1. SetBecomes(t, no) /\ no \in BOOLEAN
    BY <1>2
  <2>2. Matches(t) /\ (no \/ t = set \/ t.mutations > set.mutations)
    BY <1>2 DEF SetFollows
  <2>3. set.mutations \in Nat /\ t.mutations \in Nat
    BY <2>2 DEF Matches, SetType
  <2>4. t.mutations >= set.mutations
    BY <2>2, <2>3
  <2> QED
    BY <2>1, <2>2, <2>4 DEF SetChanges
<1>3. Contents \subseteq Seq(Objects)
  BY ContentsAssumption
<1>4. CASE \E o \in Objects, i \in 0 .. Len(set.order) : InsertInSet(o, i)
  <2>1. PICK o \in Objects, i \in 0 .. Len(set.order) : InsertInSet(o, i)
    BY <1>4
  <2>2. SetFollows(InsertedInSet(set, o, i), set)
    BY InsertedFollowsInSet
  <2> QED
    BY <1>2, <2>1, <2>2 DEF InsertInSet
<1>5. CASE \E v \in Contents, i \in 0 .. Len(set.order) : InsertAllInSet(v, i)
  <2>1. PICK v \in Contents, i \in 0 .. Len(set.order) : InsertAllInSet(v, i)
    BY <1>5
  <2>2. v \in Seq(Objects) /\ i \in Nat
    BY <1>1, <1>3
  <2>3. SetFollows(AllInserted(set, v, i), set)
    BY <2>2, AllInsertedFollows
  <2> QED
    BY <1>2, <2>1, <2>3 DEF InsertAllInSet
<1>6. CASE AddArrayToSet
  <2>1. SetFollows(AllAddedToSet(set, array.objects), set)
    BY <1>1, AllAddedToSetFollows
  <2> QED
    BY <1>2, <1>6, <2>1 DEF AddArrayToSet
<1>7. CASE \E i \in 0 .. Len(set.order) - 1 :
             \/ RemoveFromSet(i)
             \/ \E o \in Objects : ReplaceInSet(i, o)
  <2>1. PICK i \in 0 .. Len(set.order) - 1 :
               \/ RemoveFromSet(i)
               \/ \E o \in Objects : ReplaceInSet(i, o)
    BY <1>7
  <2>2. CASE RemoveFromSet(i)
    <3>1. SetFollows(RemovedFromSet(set, i), set)
      BY RemovedFollows
    <3> QED
      BY <1>2, <2>2, <3>1 DEF RemoveFromSet
  <2>3. CASE \E o \in Objects : ReplaceInSet(i, o)
    <3>1. PICK o \in Objects : ReplaceInSet(i, o)
      BY <2>3
    <3> DEFINE t == ReplacedInSet(set, i, o)
    <3> DEFINE yes == TRUE
    <3>2. Matches(t)
      BY ReplacedMatches
    <3>3. SetBecomes(t, yes) /\ yes \in BOOLEAN /\ yes
      BY <3>1 DEF ReplaceInSet
    <3>4. t.mutations >= set.mutations
      <4>1. set \in SetType /\ set.mutations \in Nat
        BY DEF Matches, SetType
      <4>2. t.mutations = set.mutations
        BY <4>1, ReplacedCounts
      <4> QED
        BY <4>1, <4>2
    <3> HIDE DEF t
    <3> QED
      BY <3>2, <3>3, <3>4 DEF SetChanges
  <2> QED
    BY <2>1, <2>2, <2>3
<1>8. CASE EmptyTheSet
  <2>1. SetFollows(SetEmptied(set), set)
    BY SetEmptiedFollows
  <2> QED
    BY <1>2, <1>8, <2>1 DEF EmptyTheSet
<1> QED
  BY <1>4, <1>5, <1>6, <1>7, <1>8 DEF SetNext
-----------------------------------------------------------------------------
(***************************************************************************)
(* The inductive invariant.  The sort: its ranges and walkers are inside   *)
(* of the storage, which holds what it held; with a sound comparator what  *)
(* is done is in order.  The array and the set are proper; while the sort  *)
(* runs the array holds what it does.  An array that has strayed is not    *)
(* followed: it stays as it is until another is made.                      *)
(***************************************************************************)
SortInv ==
  /\ Inside(sort)
  /\ given \in Seq(Objects)
  /\ SameObjects(sort.v, given)
  /\ sound /\ sort.walks # "raised" => InOrder(sort)

ArrayInv ==
  /\ Proper(array)
  /\ Sorts => array.objects = sort.v

SetInv == Matches(set)

Strayed == ~ArrayHoldsObjects /\ ~Sorts /\ array.mutations \in Nat

(***************************************************************************)
(* A sort that begins, and one of nothing, which is done.                  *)
(***************************************************************************)
LEMMA SortBegins ==
  ASSUME NEW v \in Seq(Objects), NEW honest, StartSort(v, honest)
  PROVE  SortInv' /\ sort'.v \in Seq(Objects) /\ SameObjects(sort'.v, v)
<1> DEFINE s == Sort(v)
<1>1. Inside(s) /\ SameObjects(s.v, v) /\ InOrder(s)
  BY SortProperties
<1>2. sort' = s /\ given' = v
  BY DEF StartSort
<1> HIDE DEF s
<1>3. s.v \in Seq(Objects)
  BY <1>1 DEF Inside, SortType
<1> QED
  BY <1>1, <1>2, <1>3 DEF SortInv

LEMMA NothingIsSorted ==
  ASSUME NEW honest, StartSort(<< >>, honest)
  PROVE  SortInv' /\ Done(sort') /\ ~Sorts'
<1> DEFINE v == << >>
<1> DEFINE s == Sort(v)
<1>1. v \in Seq(Objects) /\ Len(v) = 0
  OBVIOUS
<1>2. StartSort(v, honest)
  OBVIOUS
<1> HIDE DEF v
<1>3. SortInv'
  BY <1>1, <1>2, SortBegins
<1>4. Inside(s) /\ SameObjects(s.v, v)
  BY <1>1, SortProperties
<1>5. sort' = s
  BY <1>2 DEF StartSort
<1> HIDE DEF s
<1>6. Len(s.v) = 0
  BY <1>1, <1>4 DEF SameObjects
<1>7. s.todo = << >>
  <2> SUFFICES ASSUME s.todo # << >> PROVE FALSE
    OBVIOUS
  <2>1. /\ Current(s).base \in Nat /\ Current(s).n \in Nat
        /\ Current(s).base + Current(s).n <= Len(s.v)
    BY <1>4, CurrentProperties
  <2>2. Current(s).n > 1
    BY <1>4 DEF Inside
  <2> QED
    BY <1>6, <2>1, <2>2
<1> QED
  BY <1>3, <1>5, <1>7 DEF Done, Sorts

LEMMA IdleSorts ==
  ASSUME Idle
  PROVE  Done(sort) /\ SortInv' /\ Done(sort') /\ ~Sorts'
<1>1. Done(sort)
  BY DEF Idle, Sorts
<1>2. StartSort(<< >>, TRUE)
  BY DEF Idle
<1> QED
  BY <1>1, <1>2, NothingIsSorted

LEMMA KindsSort ==
  ASSUME ArrayChanges \/ ArrayStrays \/ Moves \/ SetChanges
           \/ (\E container \in {"array", "set"} : Enumerate(container))
           \/ ShowNext \/ NextPortion \/ LeaveLoop
  PROVE  Idle
BY DEF ArrayChanges, ArrayStrays, Moves, SetChanges, ArrayBecomes, MoveObjects, SetBecomes, Enumerate,
       ShowNext, NextPortion, LeaveLoop

(***************************************************************************)
(* A call of the comparator, and one that does not return.                 *)
(***************************************************************************)
LEMMA CallSorts ==
  ASSUME SortInv, NEW answer \in Int, Compare(answer)
  PROVE  /\ SortInv'
         /\ sort'.v \in Seq(Objects)
         /\ SameObjects(sort'.v, sort.v)
<1> DEFINE s == Compared(sort, answer)
<1>1. /\ sort.todo # << >> /\ sort.walks # "broken"
      /\ sound => IsSound(answer, Walker(sort), Pivot(sort))
      /\ sort' = s /\ given' = given /\ sound' = sound
  BY DEF Compare, Sorts, Done
<1>2. Inside(sort)
  BY DEF SortInv
<1>3. Inside(s) /\ SameObjects(s.v, sort.v)
  BY <1>1, <1>2, ComparedKeeps
<1>4. sort.walks # "raised"
  BY <1>1, <1>2 DEF Inside
<1>5. sound => InOrder(s)
  <2> SUFFICES ASSUME sound PROVE InOrder(s)
    OBVIOUS
  <2>1. InOrder(sort)
    BY <1>4 DEF SortInv
  <2>2. IsSound(answer, Walker(sort), Pivot(sort))
    BY <1>1
  <2>3. sort.todo # << >>
    BY <1>1
  <2> QED
    BY <1>2, <2>1, <2>2, <2>3, ComparedOrdered
<1>6. SameObjects(s.v, given)
  BY <1>3 DEF SortInv, SameObjects
<1> HIDE DEF s
<1>7. s.v \in Seq(Objects)
  BY <1>3 DEF Inside, SortType
<1> QED
  BY <1>1, <1>3, <1>5, <1>6, <1>7 DEF SortInv

LEMMA RaiseSorts ==
  ASSUME SortInv, Raise
  PROVE  /\ SortInv'
         /\ sort'.v = sort.v
         /\ sort'.walks = "raised"
         /\ Done(sort')
<1> DEFINE e == << >>
<1> DEFINE s == [sort EXCEPT !.todo = e, !.walks = "raised"]
<1>1. sort' = s /\ given' = given
  BY DEF Raise
<1>2. Inside(sort) /\ sort \in SortType
  BY DEF SortInv, Inside
<1>3. e \in Seq(Ranges) /\ e = << >> /\ DOMAIN e = {}
  OBVIOUS
<1> HIDE DEF e
<1>4. /\ s \in SortType /\ s.v = sort.v /\ s.todo = e /\ s.walks = "raised"
  BY <1>2, <1>3 DEF SortType
<1> HIDE DEF s
<1>5. AreApart(s.todo, Len(s.v))
  BY <1>3, <1>4 DEF AreApart
<1>6. Inside(s)
  BY <1>3, <1>4, <1>5 DEF Inside
<1> QED
  BY <1>1, <1>3, <1>4, <1>6 DEF SortInv, Done

LEMMA SortInvStep ==
  ASSUME SortInv, ArrayInv, SetInv, [Next]_vars
  PROVE  SortInv'
<1>1. Proper(array) /\ Matches(set)
  BY DEF ArrayInv, SetInv
<1>2. CASE ArrayNext
  <2>1. CASE ArrayChanges \/ ArrayStrays \/ Moves
    BY <2>1, KindsSort, IdleSorts
  <2>2. CASE \E honest \in BOOLEAN : SortArray(honest)
    <3>1. PICK honest \in BOOLEAN : SortArray(honest)
      BY <2>2
    <3>2. array.objects \in Seq(Objects)
      BY <1>1, ProperFacts
    <3> DEFINE v == array.objects
    <3>3. StartSort(v, honest)
      BY <3>1 DEF SortArray
    <3>4. v \in Seq(Objects)
      BY <3>2
    <3> HIDE DEF v
    <3> QED
      BY <3>3, <3>4, SortBegins
  <2> QED
    BY <1>1, <1>2, <2>1, <2>2, ArrayStepKinds
<1>3. CASE ComparatorNext
  <2>1. PICK answer \in Answers : CallComparator(answer)
    BY <1>3 DEF ComparatorNext
  <2>2. answer \in Int
    BY AnswersAssumption
  <2> QED
    BY <2>1, <2>2, CallSorts DEF CallComparator
<1>4. CASE ComparatorRaises
  BY <1>4, RaiseSorts DEF ComparatorRaises
<1>5. CASE SetNext
  BY <1>1, <1>5, SetStepKinds, KindsSort, IdleSorts
<1>6. CASE LoopNext
  BY <1>6, KindsSort, IdleSorts DEF LoopNext
<1>7. CASE BeginAnew
  <2>1. StartSort(<< >>, TRUE)
    BY <1>7 DEF BeginAnew
  <2> QED
    BY <2>1, NothingIsSorted
<1>8. CASE UNCHANGED vars
  BY <1>8 DEF vars, sortingVars, SortInv
<1> QED
  BY <1>2, <1>3, <1>4, <1>5, <1>6, <1>7, <1>8 DEF Next

(***************************************************************************)
(* The array.                                                              *)
(***************************************************************************)
LEMMA ArraySortsProper ==
  ASSUME Proper(array), ArraySorts, sort'.v \in Seq(Objects),
         SameObjects(sort'.v, array.objects)
  PROVE  Proper(array') /\ array'.objects = sort'.v
<1> DEFINE v == sort'.v
<1> DEFINE m == IF Done(sort') /\ sort'.walks # "raised" THEN array.mutations + 1
                ELSE array.mutations
<1> DEFINE b == WithObjects(array, v)
<1>1. array.mutations \in Nat /\ array \in ArrayType
  BY ProperFacts
<1>2. m \in Nat
  BY <1>1
<1>3. array' = [array EXCEPT !.objects = v, !.mutations = m]
  BY DEF ArraySorts
<1> HIDE DEF v, m
<1>4. v \in Seq(Objects) /\ SameObjects(v, array.objects)
  BY DEF v
<1>5. Proper(b) /\ b.objects = v
  BY <1>4, SameObjectsProper
<1>6. b = [array EXCEPT !.objects = v]
  BY DEF WithObjects
<1>7. array' = [b EXCEPT !.mutations = m]
  BY <1>1, <1>3, <1>6 DEF ArrayType
<1> HIDE DEF b
<1>8. b \in ArrayType
  BY <1>5 DEF Proper
<1> DEFINE c == [b EXCEPT !.mutations = m]
<1>9. c \in ArrayType /\ c.objects = b.objects /\ c.size = b.size /\ c.held = b.held
  BY <1>2, <1>8 DEF ArrayType
<1>10. array' = c
  BY <1>7
<1> HIDE DEF c
<1>11. Proper(c)
  BY <1>5, <1>9 DEF Proper, Count
<1> QED
  BY <1>5, <1>9, <1>10, <1>11 DEF v

LEMMA MovesProper ==
  ASSUME Proper(array), Moves
  PROVE  Proper(array') /\ array'.mutations = array.mutations
<1>1. PICK location, length, index \in Nat : MoveObjects(location, length, index)
  BY DEF Moves
<1> DEFINE u == array.objects
<1> DEFINE v == Moved(u, location, length, index)
<1>2. /\ array' = WithObjects(array, v)
      /\ location + length <= Count(array)
      /\ index + length <= Count(array) \/ index <= location
  BY <1>1 DEF MoveObjects, WithObjects
<1>3. u \in Seq(Objects) /\ Count(array) = Len(u) /\ Len(u) \in Nat
  BY ProperFacts
<1>4. location + length <= Len(u)
  BY <1>2, <1>3
<1>5. index + length <= Len(u)
  BY <1>2, <1>3
<1>6. v \in Seq(Objects) /\ SameObjects(v, u)
  <2> HIDE DEF u
  <2>1. u \in Seq(Objects)
    BY <1>3
  <2> QED
    BY <1>4, <1>5, <2>1, MovedIsSpliced
<1> HIDE DEF v
<1> QED
  BY <1>2, <1>6, SameObjectsProper

LEMMA MadeAnew ==
  ASSUME \/ \E v \in Contents : array' = ArrayWith(v)
         \/ \E n \in Capacities : array' = ArrayWithCapacity(n)
  PROVE  Proper(array')
BY MadeProper, ContentsAssumption, CapacitiesAssumption

LEMMA ArrayInvStep ==
  ASSUME SortInv, ArrayInv, SetInv, [Next]_vars
  PROVE  ArrayInv' \/ Strayed'
<1>1. Proper(array) /\ Matches(set)
  BY DEF ArrayInv, SetInv
<1>2. CASE ArrayNext
  <2>1. CASE ArrayChanges
    <3>1. PICK b : ArrayBecomes(b) /\ Follows(b, array)
      BY <2>1 DEF ArrayChanges
    <3>2. array' = b /\ Proper(b) /\ ~Sorts'
      BY <2>1, <3>1, KindsSort, IdleSorts DEF ArrayBecomes, Follows
    <3> QED
      BY <3>2 DEF ArrayInv
  <2>4. CASE ArrayStrays
    <3>1. PICK b : ArrayBecomes(b) /\ Strays(b, array)
      BY <2>4 DEF ArrayStrays
    <3>2. array' = b /\ ~Sorts'
      BY <2>4, <3>1, KindsSort, IdleSorts DEF ArrayBecomes
    <3> QED
      BY <3>1, <3>2 DEF Strayed, Strays, ArrayHoldsObjects
  <2>2. CASE Moves
    <3>1. Proper(array')
      BY <1>1, <2>2, MovesProper
    <3>2. ~Sorts'
      BY <2>2, KindsSort, IdleSorts
    <3> QED
      BY <3>1, <3>2 DEF ArrayInv
  <2>3. CASE \E honest \in BOOLEAN : SortArray(honest)
    <3>1. PICK honest \in BOOLEAN : SortArray(honest)
      BY <2>3
    <3> DEFINE v == array.objects
    <3>2. StartSort(v, honest) /\ ArraySorts
      BY <3>1 DEF SortArray
    <3>3. v \in Seq(Objects)
      BY <1>1, ProperFacts
    <3>4. sort'.v \in Seq(Objects) /\ SameObjects(sort'.v, v)
      <4> HIDE DEF v
      <4> QED
        BY <3>2, <3>3, SortBegins
    <3>5. Proper(array') /\ array'.objects = sort'.v
      BY <1>1, <3>2, <3>4, ArraySortsProper
    <3> QED
      BY <3>5 DEF ArrayInv
  <2> QED
    BY <1>1, <1>2, <2>1, <2>2, <2>3, <2>4, ArrayStepKinds
<1>3. CASE ComparatorNext
  <2>1. PICK answer \in Answers : CallComparator(answer)
    BY <1>3 DEF ComparatorNext
  <2>2. answer \in Int
    BY AnswersAssumption
  <2>3. Compare(answer) /\ ArraySorts /\ Sorts
    BY <2>1 DEF CallComparator, Compare
  <2>4. sort'.v \in Seq(Objects) /\ SameObjects(sort'.v, sort.v)
    BY <2>2, <2>3, CallSorts
  <2>5. array.objects = sort.v
    BY <2>3 DEF ArrayInv
  <2>6. Proper(array') /\ array'.objects = sort'.v
    BY <1>1, <2>3, <2>4, <2>5, ArraySortsProper
  <2> QED
    BY <2>6 DEF ArrayInv
<1>4. CASE ComparatorRaises
  <2>1. Raise /\ ArraySorts /\ Sorts
    BY <1>4 DEF ComparatorRaises, Raise
  <2>2. sort'.v = sort.v
    BY <2>1, RaiseSorts
  <2>3. array.objects = sort.v
    BY <2>1 DEF ArrayInv
  <2>4. sort'.v \in Seq(Objects) /\ SameObjects(sort'.v, array.objects)
    BY <1>1, <2>2, <2>3, ProperFacts DEF SameObjects
  <2>5. Proper(array') /\ array'.objects = sort'.v
    BY <1>1, <2>1, <2>4, ArraySortsProper
  <2> QED
    BY <2>5 DEF ArrayInv
<1>5. CASE SetNext
  <2>1. SetChanges
    BY <1>1, <1>5, SetStepKinds
  <2>2. array' = array /\ ~Sorts'
    BY <2>1, KindsSort, IdleSorts DEF SetChanges, SetBecomes
  <2> QED
    BY <1>1, <2>2 DEF ArrayInv
<1>6. CASE LoopNext
  <2>1. array' = array
    BY <1>6 DEF LoopNext, Enumerate, ShowNext, NextPortion, LeaveLoop
  <2>2. ~Sorts'
    BY <1>6, KindsSort, IdleSorts DEF LoopNext
  <2> QED
    BY <1>1, <2>1, <2>2 DEF ArrayInv
<1>7. CASE BeginAnew
  <2>1. StartSort(<< >>, TRUE)
    BY <1>7 DEF BeginAnew
  <2>2. ~Sorts'
    BY <2>1, NothingIsSorted
  <2>3. Proper(array')
    BY <1>7, MadeAnew DEF BeginAnew
  <2> QED
    BY <2>2, <2>3 DEF ArrayInv
<1>8. CASE UNCHANGED vars
  BY <1>8 DEF vars, sortingVars, containers, ArrayInv, Sorts
<1> QED
  BY <1>2, <1>3, <1>4, <1>5, <1>6, <1>7, <1>8 DEF Next

(***************************************************************************)
(* The set.                                                                *)
(***************************************************************************)
LEMMA SetInvStep ==
  ASSUME SortInv, ArrayInv, SetInv, [Next]_vars
  PROVE  SetInv'
<1>1. Proper(array) /\ Matches(set)
  BY DEF ArrayInv, SetInv
<1>2. CASE ArrayNext
  <2>1. set' = set
    BY <1>1, <1>2, ArrayStepKinds
       DEF ArrayChanges, ArrayStrays, ArrayBecomes, Moves, MoveObjects, SortArray
  <2> QED
    BY <1>1, <2>1 DEF SetInv
<1>3. CASE ComparatorNext
  BY <1>1, <1>3 DEF ComparatorNext, CallComparator, SetInv
<1>4. CASE ComparatorRaises
  BY <1>1, <1>4 DEF ComparatorRaises, SetInv
<1>5. CASE SetNext
  <2>1. SetChanges
    BY <1>1, <1>5, SetStepKinds
  <2> QED
    BY <2>1 DEF SetChanges, SetBecomes, SetInv
<1>6. CASE LoopNext
  BY <1>1, <1>6 DEF LoopNext, Enumerate, ShowNext, NextPortion, LeaveLoop, SetInv
<1>7. CASE BeginAnew
  BY <1>7, EmptySetMatches DEF BeginAnew, SetInv
<1>8. CASE UNCHANGED vars
  BY <1>1, <1>8 DEF vars, containers, SetInv
<1> QED
  BY <1>2, <1>3, <1>4, <1>5, <1>6, <1>7, <1>8 DEF Next

(***************************************************************************)
(* Nothing is done with an array that has strayed.                         *)
(***************************************************************************)
LEMMA StrayedStep ==
  ASSUME Strayed, [Next]_vars
  PROVE  BeginAnew \/ UNCHANGED vars
<1>1. ~Idle /\ ~ArrayHoldsObjects /\ ~Sorts
  BY DEF Strayed, Idle
<1>2. ASSUME NEW b PROVE ~ArrayBecomes(b)
  BY <1>1 DEF ArrayBecomes
<1>3. ASSUME NEW t, NEW blind PROVE ~SetBecomes(t, blind)
  BY <1>1 DEF SetBecomes
<1>4. ~ArrayNext
  BY <1>1, <1>2 DEF ArrayNext, AddObject, RemoveObject, InsertObject, ReplaceObject,
     RemoveRange, MoveObjects, RemoveLastObject, RemoveAllObjects, AddObjects, SetArray,
     AddItself, SetItself, Exchange, Reverse, ReplaceRange, SortArray
<1>5. ~SetNext
  BY <1>3 DEF SetNext, InsertInSet, InsertAllInSet, AddArrayToSet, RemoveFromSet,
     ReplaceInSet, EmptyTheSet
<1>6. ~LoopNext
  BY <1>1, KindsSort DEF LoopNext
<1>7. ~ComparatorNext /\ ~ComparatorRaises
  BY <1>1 DEF ComparatorNext, CallComparator, Compare, ComparatorRaises, Raise
<1> QED
  BY <1>4, <1>5, <1>6, <1>7 DEF Next

LEMMA StrayedKeeps ==
  ASSUME SortInv, Strayed, SetInv, [Next]_vars
  PROVE  SortInv' /\ (ArrayInv' \/ Strayed') /\ SetInv'
<1>1. CASE BeginAnew
  <2>1. StartSort(<< >>, TRUE)
    BY <1>1 DEF BeginAnew
  <2>2. SortInv' /\ ~Sorts'
    BY <2>1, NothingIsSorted
  <2>3. Proper(array')
    BY <1>1, MadeAnew DEF BeginAnew
  <2>4. SetInv'
    BY <1>1, EmptySetMatches DEF BeginAnew, SetInv
  <2> QED
    BY <2>2, <2>3, <2>4 DEF ArrayInv
<1>2. CASE UNCHANGED vars
  BY <1>2 DEF vars, sortingVars, containers, SortInv, SetInv, Strayed, ArrayHoldsObjects, Sorts
<1> QED
  BY <1>1, <1>2, StrayedStep

ContainerInv == SortInv /\ (ArrayInv \/ Strayed) /\ SetInv

LEMMA ContainerInvStep ==
  ASSUME ContainerInv, [Next]_vars
  PROVE  ContainerInv'
<1>1. SortInv /\ SetInv /\ (ArrayInv \/ Strayed)
  BY DEF ContainerInv
<1>2. CASE ArrayInv
  BY <1>1, <1>2, SortInvStep, ArrayInvStep, SetInvStep DEF ContainerInv
<1>3. CASE Strayed
  BY <1>1, <1>3, StrayedKeeps DEF ContainerInv
<1> QED
  BY <1>1, <1>2, <1>3

LEMMA ContainerInvInit ==
  ASSUME Init
  PROVE  ContainerInv
<1> DEFINE v == << >>
<1>1. v \in Seq(Objects)
  OBVIOUS
<1>2. sort = Sort(v) /\ given = v
  BY DEF Init, SortingInit
<1> HIDE DEF v
<1> DEFINE s == Sort(v)
<1>3. Inside(s) /\ SameObjects(s.v, v) /\ InOrder(s)
  BY <1>1, SortProperties
<1>4. sort = s
  BY <1>2
<1> HIDE DEF s
<1>5. SortInv
  BY <1>1, <1>2, <1>3, <1>4 DEF SortInv
<1>6. Proper(array)
  BY MadeProper, ContentsAssumption, CapacitiesAssumption DEF Init
<1>7. Sorts => array.objects = sort.v
  <2>1. Len(s.v) = 0
    BY <1>3 DEF SameObjects, v
  <2>2. s.todo = << >>
    <3> SUFFICES ASSUME s.todo # << >> PROVE FALSE
      OBVIOUS
    <3>1. /\ Current(s).base \in Nat /\ Current(s).n \in Nat
          /\ Current(s).base + Current(s).n <= Len(s.v)
      BY <1>3, CurrentProperties
    <3>2. Current(s).n > 1
      BY <1>3 DEF Inside
    <3> QED
      BY <2>1, <3>1, <3>2
  <2> QED
    BY <1>4, <2>2 DEF Sorts, Done
<1>8. SetInv
  BY EmptySetMatches DEF Init, SetInv
<1> QED
  BY <1>5, <1>6, <1>7, <1>8 DEF ContainerInv, ArrayInv

LEMMA ContainerInvAlways ==
  Spec => []ContainerInv
<1>1. Init => ContainerInv
  BY ContainerInvInit
<1>2. ContainerInv /\ [Next]_vars => ContainerInv'
  BY ContainerInvStep
<1> QED
  BY <1>1, <1>2, PTL DEF Spec
-----------------------------------------------------------------------------
(***************************************************************************)
(* mulle_qsort_pointers never touches a pointer that is not the array's:   *)
(* the ranges it has yet to sort and its two walkers are inside of the     *)
(* storage, whatever the comparator answers and wherever it raises.        *)
(***************************************************************************)
THEOREM SortStaysInTheArray == Spec => []SortStaysInside
<1>1. ContainerInv => SortStaysInside
  <2> SUFFICES ASSUME ContainerInv
               PROVE  SortStaysInside
    OBVIOUS
  <2>1. Inside(sort)
    BY DEF ContainerInv, SortInv
  <2>2. ASSUME NEW k \in DOMAIN sort.todo
        PROVE  /\ sort.todo[k].base >= 0
               /\ sort.todo[k].base + sort.todo[k].n <= Len(sort.v)
    <3>1. sort.todo \in Seq(Ranges) /\ AreApart(sort.todo, Len(sort.v))
      BY <2>1 DEF Inside, SortType
    <3>2. sort.todo[k] \in Ranges
      BY <3>1
    <3>3. sort.todo[k].base \in Nat
      BY <3>2 DEF Ranges
    <3> QED
      BY <3>1, <3>3 DEF AreApart
  <2>3. ~Done(sort) => /\ 0 <= sort.i /\ sort.i < Current(sort).n
                       /\ 0 <= sort.j /\ sort.j < Current(sort).n
    BY <2>1 DEF Inside, SortType, Done
  <2> QED
    BY <2>2, <2>3 DEF SortStaysInside
<1> QED
  BY <1>1, ContainerInvAlways, PTL

(***************************************************************************)
(* The sort loses no pointer and repeats none, whatever the comparator     *)
(* answers, also when it ends by an exception or abort().                  *)
(***************************************************************************)
THEOREM SortLosesNothing == Spec => []SortKeepsAll
<1>1. ContainerInv => SortKeepsAll
  BY DEF ContainerInv, SortInv, SameObjects, SortKeepsAll, Rearranged
<1> QED
  BY <1>1, ContainerInvAlways, PTL

(***************************************************************************)
(* With a comparator that answers from an order the sort never aborts, and *)
(* once it has returned the objects are in that order.                     *)
(***************************************************************************)
THEOREM SortDoesSort == Spec => []SortSorts
<1>1. ContainerInv => SortSorts
  <2> SUFFICES ASSUME ContainerInv
               PROVE  SortSorts
    OBVIOUS
  <2>1. Inside(sort) /\ (sound /\ sort.walks # "raised" => InOrder(sort))
    BY DEF ContainerInv, SortInv
  <2>2. sort.v \in Seq(Objects) /\ sort \in SortType
    BY <2>1 DEF Inside, SortType
  <2>3. ASSUME sound
        PROVE  sort.walks # "broken"
    <3> SUFFICES ASSUME sort.walks = "broken" PROVE FALSE
      OBVIOUS
    <3>1. InOrder(sort) /\ sort.todo # << >>
      BY <2>1, <2>3 DEF Inside
    <3> QED
      BY <3>1 DEF InOrder, Parted
  <2>4. ASSUME sound, Done(sort), sort.walks # "raised",
               NEW a \in DOMAIN sort.v, NEW b \in DOMAIN sort.v, a < b
        PROVE  Worth[sort.v[a]] <= Worth[sort.v[b]]
    <3>1. Ordered(sort.v, sort.todo) /\ sort.todo = << >>
      BY <2>1, <2>4 DEF InOrder, Done
    <3>2. ~Together(sort.todo, a, b)
      BY <3>1 DEF Together
    <3>3. a \in 1 .. Len(sort.v) /\ b \in 1 .. Len(sort.v)
      BY <2>2
    <3> QED
      BY <2>4, <3>1, <3>2, <3>3 DEF Ordered
  <2> QED
    BY <2>3, <2>4 DEF SortSorts
<1> QED
  BY <1>1, ContainerInvAlways, PTL

(***************************************************************************)
(* After any method _storage has room for _count objects, and the array    *)
(* has retained each object once for every place it is at, so that its     *)
(* -dealloc releases each as often as it should; except that an array in   *)
(* which a range that does not begin at 0 was replaced, so that it holds   *)
(* what was read behind the end of a buffer, is not followed further.      *)
(***************************************************************************)
THEOREM ArrayStaysSound == Spec => []ArrayIsSound
<1>1. ContainerInv => ArrayIsSound
  BY ProperFacts DEF ContainerInv, ArrayInv, Strayed, ArrayIsSound
<1> QED
  BY <1>1, ContainerInvAlways, PTL

(***************************************************************************)
(* mulleMoveObjectsInRange:toIndex: takes the range out and puts it in     *)
(* where it is to begin, for every array of objects, range and index.      *)
(***************************************************************************)
THEOREM MovesKeepAll == Spec => []MovesKeepTheRest
<1>1. ContainerInv => MovesKeepTheRest
  <2> SUFFICES ASSUME Proper(array)
               PROVE  MovesKeepTheRest
    BY DEF ContainerInv, ArrayInv, Strayed, MovesKeepTheRest
  <2> DEFINE u == array.objects
  <2>1. u \in Seq(Objects) /\ Count(array) = Len(u) /\ Len(u) \in Nat
    BY ProperFacts
  <2> SUFFICES ASSUME NEW location \in 0 .. Len(u) - 1,
                      NEW length \in 1 .. Len(u) - location,
                      NEW index \in 0 .. Len(u) - length
               PROVE  Moved(u, location, length, index) =
                        SubSeq(Without(u, location, length), 1, index)
                          \o Part(u, location, length)
                          \o SubSeq(Without(u, location, length), index + 1,
                                    Len(Without(u, location, length)))
    BY <2>1 DEF MovesKeepTheRest
  <2> DEFINE rest == Without(u, location, length)
  <2> HIDE DEF u
  <2>2. location \in Nat
    BY <2>1
  <2>3. length \in Nat
    BY <2>1
  <2>4. index \in Nat
    BY <2>1
  <2>5. location + length <= Len(u)
    BY <2>1
  <2>6. index + length <= Len(u)
    BY <2>1
  <2>7. u \in Seq(Objects)
    BY <2>1
  <2>8. Moved(u, location, length, index) = Spliced(rest, index, 0, Part(u, location, length))
    BY <2>2, <2>3, <2>4, <2>5, <2>6, <2>7, MovedIsSpliced
  <2>9. rest \in Seq(Objects) /\ Len(rest) \in Nat
    <3>1. rest \in Seq(Objects)
      BY <2>2, <2>3, <2>5, <2>7, WithoutProperties
    <3> QED
      BY <3>1
  <2> HIDE DEF rest
  <2>10. Part(rest, 0, index) = SubSeq(rest, 1, index)
    <3>1. 0 + 1 = 1 /\ 0 + index = index
      BY <2>4
    <3> QED
      BY <3>1 DEF Part
  <2>11. Part(rest, index + 0, Len(rest) - index - 0) = SubSeq(rest, index + 1, Len(rest))
    <3>1. index + 0 + 1 = index + 1 /\ index + 0 + (Len(rest) - index - 0) = Len(rest)
      BY <2>4, <2>9
    <3> QED
      BY <3>1 DEF Part
  <2> QED
    BY <2>8, <2>10, <2>11 DEF Spliced, rest
<1> QED
  BY <1>1, ContainerInvAlways, PTL

(***************************************************************************)
(* After any method of the mutable ordered set its pointer array and its   *)
(* table hold the same objects, and no two objects of it are equal.        *)
(***************************************************************************)
THEOREM SetStaysConsistent == Spec => []OrderMatchesTable
<1>1. ContainerInv => OrderMatchesTable
  BY DEF ContainerInv, SetInv, Matches, OrderMatchesTable
<1> QED
  BY <1>1, ContainerInvAlways, PTL
-----------------------------------------------------------------------------
(***************************************************************************)
(* The for loop.                                                           *)
(***************************************************************************)
LEMMA Division ==
  ASSUME NEW n \in Nat \ {0}, NEW x \in Nat
  PROVE  x = n * (x \div n) + (x % n) /\ x \div n \in Int /\ x % n \in 0 .. n - 1
OBVIOUS
LEMMA NextMultiple ==
  ASSUME NEW n \in Nat \ {0}, NEW x \in Nat, x % n = 0
  PROVE  (x + n) % n = 0
<1> DEFINE q == x \div n
<1> DEFINE p == (x + n) \div n
<1> DEFINE r == (x + n) % n
<1>1. x = n * q + (x % n) /\ q \in Int
  BY Division
<1>2. x + n \in Nat
  OBVIOUS
<1>3. x + n = n * p + r /\ p \in Int /\ r \in 0 .. n - 1
  BY <1>2, Division
<1> HIDE DEF q, p, r
<1>4. n * q \in Int /\ n * p \in Int /\ n * q + n = n * p + r
  BY <1>1, <1>3
<1>5. CASE p <= q
  <2>1. n * p <= n * q
    BY <1>1, <1>3, <1>5
  <2> QED
    BY <1>3, <1>4, <2>1
<1>6. CASE p = q + 1
  BY <1>1, <1>3, <1>4, <1>6 DEF r
<1>7. CASE p > q + 1
  BY <1>1, <1>3, <1>4, <1>7
<1> QED
  BY <1>1, <1>3, <1>5, <1>6, <1>7

RoverType == [over : {"array", "set"}, found : Nat, end : Nat, next : Nat,
              runs : BOOLEAN, given : Seq(Objects), shown : Seq(Objects),
              moved : BOOLEAN, blind : BOOLEAN]

Begins(v, w) == Len(v) <= Len(w) /\ \A k \in 1 .. Len(v) : v[k] = w[k]

(***************************************************************************)
(* A loop over the array that still has the number of mutations it found   *)
(* has the objects and the storage it found, unless a sort is under way.   *)
(* One over the set has a portion behind it that ends where the set did,   *)
(* or is full, until a mutation is made in the middle of a portion.        *)
(***************************************************************************)
OverArray(r, a, done) ==
  /\ r.found <= a.mutations
  /\ a.mutations = r.found => ~r.moved
  /\ ~r.blind => r.end = Len(r.given)
  /\ ~r.blind /\ done /\ a.mutations = r.found => a.objects = r.given

OverSet(r, s) ==
  /\ r.found <= s.mutations
  /\ ~r.blind /\ s.mutations = r.found => s.order = r.given /\ r.end <= Len(r.given)
  /\ ~r.blind /\ (s.mutations = r.found \/ r.next = r.end) =>
       r.end = Len(r.given) \/ r.end % PortionLength = 0

HasShown(r, s) ==
  \/ r.shown = r.given
  \/ /\ r.over = "set" /\ s.mutations # r.found
     /\ Len(r.shown) % PortionLength = 0
     /\ Len(s.order) <= Len(r.shown)

LoopOk(r, a, s, done) ==
  /\ r \in RoverType
  /\ ~r.blind => Begins(r.shown, r.given)
  /\ r.runs => r.end > 0
  /\ r.runs /\ ~r.blind => r.next = Len(r.shown) /\ r.next <= r.end
  /\ ~r.runs /\ ~r.blind => HasShown(r, s)
  /\ r.runs /\ r.over = "array" => OverArray(r, a, done)
  /\ r.runs /\ r.over = "set" => OverSet(r, s)

LEMMA NoLoop ==
  ASSUME NEW a, NEW s, NEW done
  PROVE  LoopOk(NoRover, a, s, done)
<1> DEFINE r == NoRover
<1>1. /\ r \in RoverType /\ ~r.runs /\ ~r.blind
      /\ r.given = << >> /\ r.shown = << >>
  <2> DEFINE e == << >>
  <2> DEFINE runs == 0 > 0
  <2>1. e \in Seq(Objects)
    OBVIOUS
  <2>2. runs = FALSE
    OBVIOUS
  <2>3. r = [over |-> "array", found |-> 0, end |-> 0, next |-> 0, runs |-> runs,
             given |-> e, shown |-> e, moved |-> FALSE, blind |-> FALSE]
    BY DEF NoRover, Rover
  <2> HIDE DEF e, runs, r
  <2>4. /\ r \in RoverType /\ ~r.runs /\ ~r.blind /\ r.given = e /\ r.shown = e
    BY <2>1, <2>2, <2>3 DEF RoverType
  <2> QED
    BY <2>4 DEF e
<1> HIDE DEF r
<1>2. Begins(r.shown, r.given) /\ HasShown(r, s)
  BY <1>1 DEF Begins, HasShown
<1>3. LoopOk(r, a, s, done)
  BY <1>1, <1>2 DEF LoopOk
<1> QED
  BY <1>3 DEF r

(***************************************************************************)
(* The array becomes b: a loop over it notices, or the number of mutations *)
(* does.                                                                   *)
(***************************************************************************)
LEMMA ArrayNoticed ==
  ASSUME NEW r, NEW a, NEW s, NEW b, NEW done, LoopOk(r, a, s, TRUE),
         r.runs, r.over = "array", a.mutations \in Nat, b.mutations \in Nat,
         b = a \/ b.mutations > a.mutations,
         NEW t, t \in RoverType, t.over = r.over, t.found = r.found, t.end = r.end,
         t.next = r.next, t.runs = r.runs, t.given = r.given, t.shown = r.shown,
         t.moved = (r.moved \/ b.size # a.size), t.blind = r.blind
  PROVE  LoopOk(t, b, s, done)
<1>1. r \in RoverType /\ r.found \in Nat /\ OverArray(r, a, TRUE)
  BY DEF LoopOk, RoverType
<1>2. OverArray(t, b, done)
  <2>1. CASE b = a
    BY <1>1, <2>1 DEF OverArray
  <2>2. CASE b.mutations > a.mutations
    <3>1. b.mutations # r.found /\ r.found <= b.mutations
      BY <1>1, <2>2 DEF OverArray
    <3> QED
      BY <1>1, <3>1 DEF OverArray
  <2> QED
    BY <2>1, <2>2
<1> QED
  BY <1>2 DEF LoopOk

(***************************************************************************)
(* The set becomes u.                                                      *)
(***************************************************************************)
LEMMA SetNoticed ==
  ASSUME NEW r, NEW a, NEW s, NEW u, NEW b, NEW done, NEW before,
         LoopOk(r, a, s, before),
         r.runs, r.over = "set", s.mutations \in Nat, u.mutations \in Nat,
         u = s \/ u.mutations > s.mutations,
         NEW t, t \in RoverType, t.over = r.over, t.found = r.found, t.end = r.end,
         t.next = r.next, t.runs = r.runs, t.given = r.given, t.shown = r.shown,
         t.blind = r.blind
  PROVE  LoopOk(t, b, u, done)
<1>1. r \in RoverType /\ r.found \in Nat /\ OverSet(r, s)
  BY DEF LoopOk, RoverType
<1>2. OverSet(t, u)
  <2>1. CASE u = s
    BY <1>1, <2>1 DEF OverSet
  <2>2. CASE u.mutations > s.mutations
    <3>1. u.mutations # r.found /\ r.found <= u.mutations
      BY <1>1, <2>2 DEF OverSet
    <3> QED
      BY <1>1, <3>1 DEF OverSet
  <2> QED
    BY <2>1, <2>2
<1> QED
  BY <1>2 DEF LoopOk

(***************************************************************************)
(* A loop that is not followed any more.                                   *)
(***************************************************************************)
LEMMA BlindLoop ==
  ASSUME NEW r, NEW a, NEW s, NEW u, NEW b, NEW done, NEW before,
         LoopOk(r, a, s, before), r.runs,
         a.mutations \in Nat, b.mutations \in Nat, s.mutations \in Nat, u.mutations \in Nat,
         b.mutations >= a.mutations, u.mutations >= s.mutations,
         NEW t, t \in RoverType, t.over = r.over, t.found = r.found, t.end = r.end,
         t.runs = r.runs, t.moved = r.moved, t.blind
  PROVE  LoopOk(t, b, u, done)
<1>1. r \in RoverType /\ r.found \in Nat /\ r.over \in {"array", "set"}
      /\ (r.over = "array" => OverArray(r, a, before))
      /\ (r.over = "set" => OverSet(r, s))
  BY DEF LoopOk, RoverType
<1>2. CASE r.over = "array"
  <2>1. r.found <= a.mutations /\ (a.mutations = r.found => ~r.moved)
    BY <1>1, <1>2 DEF OverArray
  <2>2. r.found <= b.mutations /\ (b.mutations = r.found => a.mutations = r.found)
    BY <1>1, <2>1
  <2>3. OverArray(t, b, done)
    BY <2>1, <2>2 DEF OverArray
  <2> QED
    BY <1>2, <2>3 DEF LoopOk
<1>3. CASE r.over = "set"
  <2>1. r.found <= s.mutations
    BY <1>1, <1>3 DEF OverSet
  <2>2. r.found <= u.mutations
    BY <1>1, <2>1
  <2>3. OverSet(t, u)
    BY <2>2 DEF OverSet
  <2> QED
    BY <1>3, <2>3 DEF LoopOk
<1> QED
  BY <1>1, <1>2, <1>3

(***************************************************************************)
(* What a loop sees of a sort is its end: that is counted.                 *)
(***************************************************************************)
LEMMA SortNoticed ==
  ASSUME NEW r, NEW a, NEW s, NEW b, NEW done, NEW before,
         LoopOk(r, a, s, before), a.mutations \in Nat, b.mutations \in Nat,
         b.mutations >= a.mutations, done => b.mutations > a.mutations
  PROVE  LoopOk(r, b, s, done)
<1>1. r \in RoverType /\ r.found \in Nat
      /\ (r.runs /\ r.over = "array" => OverArray(r, a, before))
  BY DEF LoopOk, RoverType
<1>2. CASE r.runs /\ r.over = "array"
  <2>1. r.found <= a.mutations /\ (a.mutations = r.found => ~r.moved)
        /\ (~r.blind => r.end = Len(r.given))
    BY <1>1, <1>2 DEF OverArray
  <2>2. r.found <= b.mutations /\ (b.mutations = r.found => a.mutations = r.found /\ ~done)
    BY <1>1, <2>1
  <2>3. OverArray(r, b, done)
    BY <2>1, <2>2 DEF OverArray
  <2> QED
    BY <1>2, <2>3 DEF LoopOk
<1>3. CASE ~(r.runs /\ r.over = "array")
  BY <1>3 DEF LoopOk
<1> QED
  BY <1>2, <1>3
(***************************************************************************)
(* Only an exception ends the sort as one.                                 *)
(***************************************************************************)
LEMMA StartedReturns ==
  ASSUME NEW v \in Seq(Objects), NEW todo \in Seq(Ranges), AreApart(todo, Len(v))
  PROVE  Started(v, todo).walks # "raised"
<1> DEFINE s == Started(v, todo)
<1>1. s = Started(v, todo)
  OBVIOUS
<1> HIDE DEF s
<1>2. s.walks = "none" \/ s.walks = "j"
  <2>1. \/ /\ \A k \in 1 .. Len(todo) : todo[k].n <= 1
           /\ s = [v |-> v, todo |-> << >>, i |-> 0, j |-> 0, walks |-> "none"]
        \/ \E last \in 1 .. Len(todo) :
             /\ todo[last].n > 1
             /\ \A k \in 1 .. Len(todo) : k > last => todo[k].n <= 1
             /\ s = [v |-> Swapped(v, todo[last].base,
                                   todo[last].base + (todo[last].n \div 2)),
                     todo |-> SubSeq(todo, 1, last),
                     i |-> 0, j |-> todo[last].n - 1, walks |-> "j"]
    BY ONLY <1>1, v \in Seq(Objects), todo \in Seq(Ranges), AreApart(todo, Len(v)),
            StartedProperties
  <2> QED
    BY <2>1
<1> QED
  BY <1>2 DEF s

LEMMA SortReturns ==
  ASSUME NEW v \in Seq(Objects)
  PROVE  Sort(v).walks # "raised"
<1> DEFINE r == Run(0, Len(v))
<1>1. Len(v) \in Nat
  OBVIOUS
<1>2. r \in Ranges /\ r.base = 0 /\ r.n = Len(v)
  BY <1>1 DEF Run, Ranges
<1> HIDE DEF r
<1>3. <<r>> \in Seq(Ranges) /\ DOMAIN <<r>> = {1} /\ <<r>>[1] = r
  BY <1>2
<1>4. AreApart(<<r>>, Len(v))
  BY <1>1, <1>2, <1>3 DEF AreApart
<1>5. Sort(v) = Started(v, <<r>>)
  BY DEF Sort, r
<1> QED
  BY <1>3, <1>4, <1>5, StartedReturns

LEMMA PartitionedReturns ==
  ASSUME NEW s, Inside(s), s.todo # << >>
  PROVE  Partitioned(s).walks # "raised"
<1> DEFINE w == Swapped(s.v, Current(s).base + s.j, Current(s).base)
<1>1. PICK u \in Seq(Ranges) : /\ Partitioned(s) = Started(w, u)
                               /\ AreApart(u, Len(s.v))
  BY PartitionedProperties
<1>2. /\ s.v \in Seq(Objects) /\ s.j \in Nat /\ Current(s).base \in Nat
      /\ Current(s).base + Current(s).n <= Len(s.v) /\ Current(s).n \in Nat
      /\ s.j < Current(s).n /\ Len(s.v) \in Nat
  BY CurrentProperties DEF Inside, SortType
<1> DEFINE v == s.v
<1> DEFINE a == Current(s).base + s.j
<1> DEFINE b == Current(s).base
<1>3. a \in 0 .. Len(v) - 1
  BY <1>2
<1>4. b \in 0 .. Len(v) - 1
  BY <1>2
<1>5. v \in Seq(Objects)
  BY <1>2
<1>6. w = Swapped(v, a, b)
  OBVIOUS
<1> HIDE DEF v, a, b, w
<1>7. w \in Seq(Objects) /\ Len(w) = Len(v)
  BY <1>3, <1>4, <1>5, <1>6, SwappedProperties
<1>8. AreApart(u, Len(w))
  BY <1>1, <1>7 DEF v
<1>9. Started(w, u).walks # "raised"
  BY <1>7, <1>8, StartedReturns
<1> QED
  BY <1>1, <1>9

LEMMA ComparedReturns ==
  ASSUME NEW s, Inside(s), s.todo # << >>, s.walks # "broken", NEW answer \in Int
  PROVE  Compared(s, answer).walks # "raised"
<1>1. s \in SortType /\ s.walks \in {"i", "j"} /\ s.j \in Nat
  BY DEF Inside, SortType
<1>2. IncrementI(s).walks # "raised"
  <2>1. CASE s.i + 1 >= s.j
    BY <2>1, PartitionedReturns DEF IncrementI
  <2>2. CASE ~(s.i + 1 >= s.j)
    BY <1>1, <2>2 DEF IncrementI, SortType
  <2> QED
    BY <2>1, <2>2
<1>3. CASE s.walks = "j" /\ answer > 0 /\ s.j = 0
  BY <1>1, <1>3 DEF Compared, SortType
<1>4. CASE s.walks = "j" /\ answer > 0 /\ s.j > 0
  BY <1>1, <1>4 DEF Compared, SortType
<1>5. CASE s.walks = "j" /\ answer <= 0
  BY <1>2, <1>5 DEF Compared
<1>6. CASE s.walks = "i" /\ answer < 0
  BY <1>2, <1>6 DEF Compared
<1>7. CASE s.walks = "i" /\ answer >= 0
  <2> DEFINE w == Swapped(s.v, Current(s).base + s.i, Current(s).base + s.j)
  <2>1. Compared(s, answer) = [s EXCEPT !.v = w, !.j = s.j - 1, !.walks = "j"]
    BY <1>7 DEF Compared
  <2> HIDE DEF w
  <2> QED
    BY <1>1, <2>1 DEF SortType
<1>8. answer > 0 \/ answer <= 0
  OBVIOUS
<1>9. answer < 0 \/ answer >= 0
  OBVIOUS
<1>10. s.j = 0 \/ s.j > 0
  BY <1>1
<1> QED
  BY <1>1, <1>3, <1>4, <1>5, <1>6, <1>7, <1>8, <1>9, <1>10

(***************************************************************************)
(* The loop's own steps.                                                   *)
(***************************************************************************)
LEMMA LoopBegins ==
  ASSUME NEW over \in {"array", "set"}, Proper(array), Matches(set),
         NEW r, r = Rover(over, ObjectsOf(over), Portion(over, 0), Mutations(over)),
         NEW done
  PROVE  LoopOk(r, array, set, done)
<1> DEFINE end == Portion(over, 0)
<1> DEFINE v == ObjectsOf(over)
<1> DEFINE found == Mutations(over)
<1> DEFINE e == << >>
<1> DEFINE runs == end > 0
<1>1. PortionLength \in Nat \ {0}
  BY PortionLengthAssumption
<1>2. v \in Seq(Objects) /\ found \in Nat
  BY ProperFacts DEF Matches, SetType, ObjectsOf, Mutations
<1>3. /\ end \in Nat /\ end <= Len(v) /\ (end = 0 => Len(v) = 0)
      /\ over = "array" => end = Len(v)
      /\ end = Len(v) \/ end = PortionLength
  <2>1. Len(v) \in Nat
    BY <1>2
  <2>2. CASE over = "array"
    BY <2>1, <2>2 DEF Portion, ObjectsOf, Count
  <2>3. CASE over = "set"
    <3>1. end = PortionEnd(set, 0, PortionLength)
      BY <2>3 DEF Portion
    <3>2. end = IF 0 >= Len(v) THEN 0
                ELSE IF Len(v) - 0 > PortionLength THEN 0 + PortionLength ELSE Len(v)
      BY <2>3, <3>1 DEF PortionEnd, ObjectsOf
    <3> HIDE DEF end, v
    <3> QED
      BY <1>1, <2>1, <2>3, <3>2
  <2> QED
    BY <2>2, <2>3
<1>4. r = [over |-> over, found |-> found, end |-> end, next |-> 0,
           runs |-> runs, given |-> v, shown |-> e, moved |-> FALSE, blind |-> FALSE]
  BY DEF Rover
<1>5. e \in Seq(Objects) /\ Len(e) = 0 /\ e = << >>
  OBVIOUS
<1>6. runs \in BOOLEAN /\ (runs <=> end > 0)
  OBVIOUS
<1> HIDE DEF end, v, found, e, runs
<1>7. /\ r \in RoverType /\ r.over = over /\ r.found = found /\ r.end = end
      /\ r.next = 0 /\ r.runs = runs /\ r.given = v /\ r.shown = e /\ ~r.moved /\ ~r.blind
  <2>1. over \in {"array", "set"}
    OBVIOUS
  <2>2. found \in Nat
    BY <1>2
  <2>3. end \in Nat
    BY <1>3
  <2>4. v \in Seq(Objects)
    BY <1>2
  <2>5. e \in Seq(Objects)
    BY <1>5
  <2>6. runs \in BOOLEAN
    BY <1>6
  <2>7. r \in RoverType
    <3>1. CASE over = "array"
      BY ONLY <1>4, <2>2, <2>3, <2>4, <2>5, <2>6, <3>1 DEF RoverType
    <3>2. CASE over = "set"
      BY ONLY <1>4, <2>2, <2>3, <2>4, <2>5, <2>6, <3>2 DEF RoverType
    <3> QED
      BY <2>1, <3>1, <3>2
  <2>8. /\ r.over = over /\ r.found = found /\ r.end = end /\ r.next = 0
        /\ r.runs = runs /\ r.given = v /\ r.shown = e
    BY <1>4
  <2>9. ~r.moved /\ ~r.blind
    BY <1>4
  <2> QED
    BY <2>7, <2>8, <2>9
<1>8. Begins(r.shown, r.given)
  <2>1. Len(v) \in Nat
    BY <1>2
  <2> QED
    BY <1>5, <1>7, <2>1 DEF Begins
<1>9. ~r.runs => HasShown(r, set)
  <2>1. end = 0 => v = e
    BY <1>2, <1>3, <1>5
  <2> QED
    BY <1>3, <1>6, <1>7, <2>1 DEF HasShown
<1>10. over = "array" => OverArray(r, array, done)
  BY <1>2, <1>3, <1>7 DEF OverArray, found, v, Mutations, ObjectsOf
<1>11. over = "set" => OverSet(r, set)
  <2> SUFFICES ASSUME over = "set" PROVE OverSet(r, set)
    OBVIOUS
  <2>1. set.mutations = found /\ set.order = v
    BY DEF found, v, Mutations, ObjectsOf
  <2>2. end = Len(v) \/ end % PortionLength = 0
    <3>1. PortionLength % PortionLength = 0
      BY <1>1
    <3> QED
      BY <1>3, <3>1
  <2>3. r.found <= set.mutations
    BY <1>2, <1>7, <2>1
  <2> QED
    BY <1>3, <1>7, <2>1, <2>2, <2>3 DEF OverSet
<1>12. r.end > 0 <=> r.runs
  BY <1>6, <1>7
<1>13. r.next = Len(r.shown) /\ r.next <= r.end
  BY <1>3, <1>5, <1>7
<1> QED
  BY <1>7, <1>8, <1>9, <1>10, <1>11, <1>12, <1>13 DEF LoopOk

LEMMA LoopShows ==
  ASSUME Proper(array), Matches(set), NEW r, LoopOk(r, array, set, TRUE),
         r.runs, r.next < r.end, Mutations(r.over) = r.found, NEW t, NEW done,
         t = [r EXCEPT !.next = r.next + 1,
                       !.shown = IF r.blind THEN r.shown
                                 ELSE Append(r.shown, ObjectsOf(r.over)[r.next + 1])]
  PROVE  LoopOk(t, array, set, done)
<1> DEFINE n == r.next + 1
<1> DEFINE w == IF r.blind THEN r.shown ELSE Append(r.shown, ObjectsOf(r.over)[r.next + 1])
<1>1. /\ r \in RoverType /\ r.next \in Nat /\ r.end \in Nat /\ r.given \in Seq(Objects)
      /\ r.shown \in Seq(Objects) /\ r.over \in {"array", "set"} /\ r.found \in Nat
      /\ r.blind \in BOOLEAN
      /\ ~r.blind => Begins(r.shown, r.given) /\ r.next = Len(r.shown) /\ r.next <= r.end
      /\ r.end > 0
      /\ r.over = "array" => OverArray(r, array, TRUE)
      /\ r.over = "set" => OverSet(r, set)
  BY DEF LoopOk, RoverType
<1>2. ~r.blind => ObjectsOf(r.over) = r.given /\ r.end <= Len(r.given)
  <2>1. CASE r.over = "array"
    BY <1>1, <2>1 DEF OverArray, ObjectsOf, Mutations
  <2>2. CASE r.over = "set"
    BY <1>1, <2>2 DEF OverSet, ObjectsOf, Mutations
  <2> QED
    BY <1>1, <2>1, <2>2
<1>3. /\ w \in Seq(Objects)
      /\ ~r.blind => Begins(w, r.given) /\ n = Len(w) /\ n <= r.end
  <2>1. CASE r.blind
    BY <1>1, <2>1
  <2>2. CASE ~r.blind
    <3> DEFINE g == r.given
    <3> DEFINE x == g[n]
    <3> DEFINE p == r.shown
    <3>1. g \in Seq(Objects) /\ p \in Seq(Objects) /\ n = Len(p) + 1 /\ n <= Len(g) /\ n <= r.end
          /\ Len(g) \in Nat /\ Len(p) \in Nat
      BY <1>1, <1>2, <2>2
    <3>2. w = Append(p, x)
      BY <1>2, <2>2
    <3>3. \A k \in 1 .. Len(p) : p[k] = g[k]
      BY <1>1, <2>2 DEF Begins
    <3> HIDE DEF g, p, n, w
    <3>4. x \in Objects
      BY <3>1
    <3>5. /\ w \in Seq(Objects) /\ Len(w) = n
          /\ \A k \in 1 .. n : w[k] = IF k = n THEN x ELSE p[k]
      BY <3>1, <3>2, <3>4
    <3>6. \A k \in 1 .. n : w[k] = g[k]
      <4> SUFFICES ASSUME NEW k \in 1 .. n
                   PROVE  w[k] = g[k]
        OBVIOUS
      <4>1. CASE k = n
        BY <3>5, <4>1
      <4>2. CASE k # n
        <5>1. k \in 1 .. Len(p)
          BY <3>1, <4>2
        <5> QED
          BY <3>3, <3>5, <4>2, <5>1
      <4> QED
        BY <4>1, <4>2
    <3>7. Begins(w, g)
      BY <3>1, <3>5, <3>6 DEF Begins
    <3> QED
      BY <3>1, <3>5, <3>7 DEF g
  <2> QED
    BY <1>1, <2>1, <2>2
<1>4. n \in Nat
  BY <1>1
<1> HIDE DEF n, w
<1>5. t = [r EXCEPT !.next = n, !.shown = w]
  BY DEF n, w
<1>6. /\ t \in RoverType /\ t.over = r.over /\ t.found = r.found /\ t.end = r.end
      /\ t.next = n /\ t.runs = r.runs /\ t.given = r.given /\ t.shown = w
      /\ t.moved = r.moved /\ t.blind = r.blind
  BY <1>1, <1>3, <1>4, <1>5 DEF RoverType
<1>7. r.over = "array" => OverArray(t, array, done)
  BY <1>1, <1>6 DEF OverArray
<1>8. r.over = "set" => OverSet(t, set)
  BY <1>1, <1>6 DEF OverSet, Mutations
<1> QED
  BY <1>1, <1>3, <1>6, <1>7, <1>8 DEF LoopOk

LEMMA PortionFollows ==
  ASSUME Proper(array), Matches(set), NEW r, LoopOk(r, array, set, TRUE),
         r.runs, r.next = r.end, NEW end, end = Portion(r.over, r.end), NEW t, NEW done,
         t = [r EXCEPT !.runs = end > r.end, !.end = end]
  PROVE  LoopOk(t, array, set, done)
<1> DEFINE runs == end > r.end
<1>1. /\ r \in RoverType /\ r.next \in Nat /\ r.end \in Nat /\ r.given \in Seq(Objects)
      /\ r.shown \in Seq(Objects) /\ r.over \in {"array", "set"} /\ r.found \in Nat
      /\ r.blind \in BOOLEAN
      /\ ~r.blind => Begins(r.shown, r.given) /\ r.next = Len(r.shown)
      /\ r.end > 0
      /\ r.over = "array" => OverArray(r, array, TRUE)
      /\ r.over = "set" => OverSet(r, set)
  BY DEF LoopOk, RoverType
<1>2. PortionLength \in Nat \ {0}
  BY PortionLengthAssumption
<1>3. Len(set.order) \in Nat /\ set.mutations \in Nat
  BY DEF Matches, SetType
<1>4. r.over = "array" => end = r.end
  BY <1>1 DEF Portion
<1>5. r.over = "set" => end = IF r.end >= Len(set.order) THEN r.end
                              ELSE IF Len(set.order) - r.end > PortionLength
                                   THEN r.end + PortionLength ELSE Len(set.order)
  BY DEF Portion, PortionEnd
<1>6. end \in Nat /\ end >= r.end /\ end > 0
  BY <1>1, <1>2, <1>3, <1>4, <1>5
<1>7. runs \in BOOLEAN /\ (runs <=> end > r.end)
  OBVIOUS
<1>8. t = [r EXCEPT !.runs = runs, !.end = end]
  OBVIOUS
<1> HIDE DEF runs
<1>9. /\ t \in RoverType /\ t.over = r.over /\ t.found = r.found /\ t.end = end
      /\ t.next = r.next /\ t.runs = runs /\ t.given = r.given /\ t.shown = r.shown
      /\ t.moved = r.moved /\ t.blind = r.blind
  BY <1>1, <1>6, <1>7, <1>8 DEF RoverType
<1>10. runs => r.over = "set" /\ t.next # t.end
  BY <1>1, <1>4, <1>6, <1>7, <1>9
<1>11. ~r.blind => Len(r.shown) = r.end /\ Len(r.shown) <= Len(r.given)
                   /\ Len(r.given) \in Nat
  BY <1>1 DEF Begins
<1>12. ASSUME ~r.blind, r.end = Len(r.given)
       PROVE  r.shown = r.given
  <2> DEFINE p == r.shown
  <2> DEFINE g == r.given
  <2>1. p \in Seq(Objects) /\ g \in Seq(Objects) /\ Len(p) = Len(g)
        /\ \A k \in 1 .. Len(p) : p[k] = g[k]
    BY <1>1, <1>11, <1>12 DEF Begins
  <2> HIDE DEF p, g
  <2>2. p = g
    BY <2>1, SeqEqual
  <2> QED
    BY <2>2 DEF p, g
<1>13. ASSUME ~r.blind, ~runs
       PROVE  HasShown(t, set)
  <2>1. end = r.end
    BY <1>1, <1>6, <1>7, <1>13
  <2>2. CASE r.end = Len(r.given)
    BY <1>9, <1>12, <1>13, <2>2 DEF HasShown
  <2>3. CASE r.end # Len(r.given)
    <3>1. r.over = "set"
      BY <1>1, <1>13, <2>3 DEF OverArray
    <3>2. OverSet(r, set) /\ r.end % PortionLength = 0
      BY <1>1, <1>13, <2>3, <3>1 DEF OverSet
    <3>3. Len(set.order) <= r.end
      BY <1>1, <1>2, <1>3, <1>5, <2>1, <3>1
    <3>4. set.mutations # r.found
      <4> SUFFICES ASSUME set.mutations = r.found PROVE FALSE
        OBVIOUS
      <4>1. set.order = r.given /\ r.end <= Len(r.given)
        BY <1>13, <3>2 DEF OverSet
      <4> QED
        BY <1>1, <1>3, <2>3, <3>3, <4>1
    <3>5. Len(r.shown) = r.end
      BY <1>11, <1>13
    <3> QED
      BY <1>9, <3>1, <3>2, <3>3, <3>4, <3>5 DEF HasShown
  <2> QED
    BY <2>2, <2>3
<1>14. ASSUME runs
       PROVE  OverSet(t, set)
  <2>1. r.over = "set" /\ t.next # t.end /\ OverSet(r, set) /\ end > r.end
    BY <1>1, <1>7, <1>10, <1>14
  <2>2. r.found <= set.mutations
    BY <2>1 DEF OverSet
  <2>3. ASSUME ~r.blind, set.mutations = r.found
        PROVE  /\ set.order = r.given /\ end <= Len(r.given)
               /\ end = Len(r.given) \/ end % PortionLength = 0
    <3>1. /\ set.order = r.given /\ r.end <= Len(r.given)
          /\ r.end = Len(r.given) \/ r.end % PortionLength = 0
      BY <2>1, <2>3 DEF OverSet
    <3>2. r.end < Len(set.order)
      BY <1>1, <1>2, <1>3, <1>5, <2>1
    <3>3. r.end % PortionLength = 0
      BY <1>1, <1>3, <3>1, <3>2
    <3>4. CASE Len(set.order) - r.end > PortionLength
      <4>1. end = r.end + PortionLength
        BY <1>1, <1>3, <1>5, <2>1, <3>2, <3>4
      <4>2. (r.end + PortionLength) % PortionLength = 0
        <5> DEFINE x == r.end
        <5>1. x \in Nat /\ x % PortionLength = 0
          BY <1>1, <3>3
        <5> HIDE DEF x
        <5>2. (x + PortionLength) % PortionLength = 0
          BY <1>2, <5>1, NextMultiple
        <5> QED
          BY <5>2 DEF x
      <4>3. end <= Len(r.given)
        BY <1>1, <1>2, <1>3, <3>1, <3>4, <4>1
      <4> QED
        BY <3>1, <4>1, <4>2, <4>3
    <3>5. CASE ~(Len(set.order) - r.end > PortionLength)
      <4>1. end = Len(set.order)
        BY <1>1, <1>3, <1>5, <2>1, <3>2, <3>5
      <4> QED
        BY <1>3, <3>1, <4>1
    <3> QED
      BY <3>4, <3>5
  <2> QED
    BY <1>9, <2>1, <2>2, <2>3 DEF OverSet
<1>15. runs /\ ~r.blind => t.next = Len(t.shown) /\ t.next <= t.end
  BY <1>1, <1>6, <1>9
<1> QED
  BY <1>1, <1>6, <1>9, <1>10, <1>13, <1>14, <1>15 DEF LoopOk
-----------------------------------------------------------------------------
(***************************************************************************)
(* The fourth part of the inductive invariant.                             *)
(***************************************************************************)
LoopInv == LoopOk(rover, array, set, Done(sort))

LEMMA NothingSorts ==
  ASSUME NEW r, NEW a, NEW s, NEW done, LoopOk(r, a, s, done), done
  PROVE  LoopOk(r, a, s, TRUE)
BY DEF LoopOk, OverArray

LEMMA OneIsMade ==
  ASSUME NEW r, r \in RoverType, NEW moved
  PROVE  LET t == [r EXCEPT !.moved = r.moved \/ moved]
         IN  /\ t \in RoverType /\ t.over = r.over /\ t.found = r.found /\ t.end = r.end
             /\ t.next = r.next /\ t.runs = r.runs /\ t.given = r.given
             /\ t.shown = r.shown /\ t.moved = (r.moved \/ moved) /\ t.blind = r.blind
<1> DEFINE m == r.moved \/ moved
<1>1. m \in BOOLEAN
  OBVIOUS
<1> HIDE DEF m
<1> DEFINE t == [r EXCEPT !.moved = m]
<1>2. /\ t \in RoverType /\ t.over = r.over /\ t.found = r.found /\ t.end = r.end
      /\ t.next = r.next /\ t.runs = r.runs /\ t.given = r.given
      /\ t.shown = r.shown /\ t.moved = m /\ t.blind = r.blind
  BY <1>1 DEF RoverType
<1> QED
  BY <1>2 DEF m

LEMMA OneIsBlind ==
  ASSUME NEW r, r \in RoverType
  PROVE  LET t == [r EXCEPT !.blind = TRUE, !.given = << >>, !.shown = << >>]
         IN  /\ t \in RoverType /\ t.over = r.over /\ t.found = r.found /\ t.end = r.end
             /\ t.runs = r.runs /\ t.moved = r.moved /\ t.blind
<1> DEFINE e == << >>
<1>1. e \in Seq(Objects)
  OBVIOUS
<1> HIDE DEF e
<1> DEFINE t == [r EXCEPT !.blind = TRUE, !.given = e, !.shown = e]
<1>2. /\ t \in RoverType /\ t.over = r.over /\ t.found = r.found /\ t.end = r.end
      /\ t.runs = r.runs /\ t.moved = r.moved /\ t.blind
  BY <1>1 DEF RoverType
<1> QED
  BY <1>2 DEF e

(***************************************************************************)
(* A method of the array is seen by a loop over it.                        *)
(***************************************************************************)
LEMMA ArrayIsSeen ==
  ASSUME LoopInv, Done(sort), NEW b, array.mutations \in Nat, b.mutations \in Nat,
         b = array \/ b.mutations > array.mutations,
         RoverNotices("array", b.size # array.size, FALSE), NEW done
  PROVE  LoopOk(rover', b, set, done)
<1>1. LoopOk(rover, array, set, TRUE) /\ rover \in RoverType
  BY NothingSorts DEF LoopInv, LoopOk
<1>2. CASE rover.runs /\ rover.over = "array"
  <2> DEFINE moved == b.size # array.size
  <2> DEFINE t == [rover EXCEPT !.moved = rover.moved \/ moved]
  <2>1. rover' = t
    BY <1>2 DEF RoverNotices, RunsOver
  <2>2. /\ t \in RoverType /\ t.over = rover.over /\ t.found = rover.found
        /\ t.end = rover.end /\ t.next = rover.next /\ t.runs = rover.runs
        /\ t.given = rover.given /\ t.shown = rover.shown
        /\ t.moved = (rover.moved \/ moved) /\ t.blind = rover.blind
    <3> HIDE DEF moved
    <3> QED
      BY <1>1, OneIsMade
  <2> HIDE DEF t
  <2>3. t.moved = (rover.moved \/ b.size # array.size)
    BY <2>2
  <2>4. LoopOk(t, b, set, done)
    BY <1>1, <1>2, <2>2, <2>3, ArrayNoticed
  <2> QED
    BY <2>1, <2>4
<1>3. CASE rover.runs /\ rover.over # "array"
  <2>1. rover' = rover
    BY <1>3 DEF RoverNotices, RunsOver
  <2> QED
    BY <1>1, <1>3, <2>1 DEF LoopOk
<1>4. CASE ~rover.runs
  <2>1. rover' = NoRover
    BY <1>4 DEF RoverNotices, RunsOver
  <2> QED
    BY <2>1, NoLoop
<1> QED
  BY <1>2, <1>3, <1>4

(***************************************************************************)
(* What does not count as a mutation of the array blinds a loop over it.   *)
(***************************************************************************)
LEMMA ArrayIsNotSeen ==
  ASSUME LoopInv, NEW b, array.mutations \in Nat, b.mutations \in Nat,
         set.mutations \in Nat, b.mutations >= array.mutations,
         RoverNotices("array", FALSE, TRUE), NEW done
  PROVE  LoopOk(rover', b, set, done)
<1>1. LoopOk(rover, array, set, Done(sort)) /\ rover \in RoverType
  BY DEF LoopInv, LoopOk
<1>2. CASE rover.runs /\ rover.over = "array"
  <2> DEFINE t == [rover EXCEPT !.blind = TRUE, !.given = << >>, !.shown = << >>]
  <2>1. rover' = t
    BY <1>2 DEF RoverNotices, RunsOver
  <2>2. /\ t \in RoverType /\ t.over = rover.over /\ t.found = rover.found
        /\ t.end = rover.end /\ t.runs = rover.runs /\ t.moved = rover.moved /\ t.blind
    BY <1>1, OneIsBlind
  <2> HIDE DEF t
  <2> DEFINE before == Done(sort)
  <2>3. LoopOk(rover, array, set, before)
    BY <1>1
  <2> HIDE DEF before
  <2>4. set.mutations >= set.mutations
    OBVIOUS
  <2>5. LoopOk(t, b, set, done)
    BY <1>2, <2>2, <2>3, <2>4, BlindLoop
  <2> QED
    BY <2>1, <2>5
<1>3. CASE rover.runs /\ rover.over # "array"
  <2>1. rover' = rover
    BY <1>3 DEF RoverNotices, RunsOver
  <2> QED
    BY <1>1, <1>3, <2>1 DEF LoopOk
<1>4. CASE ~rover.runs
  <2>1. rover' = NoRover
    BY <1>4 DEF RoverNotices, RunsOver
  <2> QED
    BY <2>1, NoLoop
<1> QED
  BY <1>2, <1>3, <1>4

(***************************************************************************)
(* A method of the set, while nothing is sorted.                           *)
(***************************************************************************)
LEMMA SetIsSeen ==
  ASSUME LoopInv, Done(sort), NEW u, NEW blind \in BOOLEAN, array.mutations \in Nat,
         set.mutations \in Nat, u.mutations \in Nat,
         u.mutations >= set.mutations,
         blind \/ u = set \/ u.mutations > set.mutations,
         RoverNotices("set", FALSE, blind), NEW done
  PROVE  LoopOk(rover', array, u, done)
<1>1. LoopOk(rover, array, set, TRUE) /\ rover \in RoverType
  BY NothingSorts DEF LoopInv, LoopOk
<1>2. CASE rover.runs /\ rover.over = "set" /\ ~blind
  <2> DEFINE moved == FALSE
  <2> DEFINE t == [rover EXCEPT !.moved = rover.moved \/ moved]
  <2>1. rover' = t
    BY <1>2 DEF RoverNotices, RunsOver
  <2>2. /\ t \in RoverType /\ t.over = rover.over /\ t.found = rover.found
        /\ t.end = rover.end /\ t.next = rover.next /\ t.runs = rover.runs
        /\ t.given = rover.given /\ t.shown = rover.shown /\ t.blind = rover.blind
    <3> HIDE DEF moved
    <3> QED
      BY <1>1, OneIsMade
  <2> HIDE DEF t
  <2>3. u = set \/ u.mutations > set.mutations
    BY <1>2
  <2>4. LoopOk(t, array, u, done)
    BY <1>1, <1>2, <2>2, <2>3, SetNoticed
  <2> QED
    BY <2>1, <2>4
<1>3. CASE rover.runs /\ rover.over = "set" /\ blind
  <2> DEFINE t == [rover EXCEPT !.blind = TRUE, !.given = << >>, !.shown = << >>]
  <2>1. rover' = t
    BY <1>3 DEF RoverNotices, RunsOver
  <2>2. /\ t \in RoverType /\ t.over = rover.over /\ t.found = rover.found
        /\ t.end = rover.end /\ t.runs = rover.runs /\ t.moved = rover.moved /\ t.blind
    BY <1>1, OneIsBlind
  <2> HIDE DEF t
  <2>3. array.mutations >= array.mutations
    OBVIOUS
  <2>4. LoopOk(t, array, u, done)
    BY <1>1, <1>3, <2>2, <2>3, BlindLoop
  <2> QED
    BY <2>1, <2>4
<1>4. CASE rover.runs /\ rover.over # "set"
  <2>1. rover' = rover
    BY <1>4 DEF RoverNotices, RunsOver
  <2>2. rover.over = "array"
    BY <1>1, <1>4 DEF RoverType
  <2> QED
    BY <1>1, <1>4, <2>1, <2>2 DEF LoopOk, OverArray
<1>5. CASE ~rover.runs
  <2>1. rover' = NoRover
    BY <1>5 DEF RoverNotices, RunsOver
  <2> QED
    BY <2>1, NoLoop
<1> QED
  BY <1>2, <1>3, <1>4, <1>5
(***************************************************************************)
(* A sort that has returned has counted a mutation.                        *)
(***************************************************************************)
LEMMA SortCounts ==
  ASSUME Proper(array), ArraySorts
  PROVE  /\ array.mutations \in Nat /\ array'.mutations \in Nat
         /\ array'.mutations >= array.mutations
         /\ Done(sort') /\ sort'.walks # "raised" => array'.mutations > array.mutations
         /\ sort'.walks = "raised" => array'.mutations = array.mutations
<1> DEFINE v == sort'.v
<1> DEFINE m == IF Done(sort') /\ sort'.walks # "raised" THEN array.mutations + 1
                ELSE array.mutations
<1>1. array.mutations \in Nat /\ array \in ArrayType
  BY ProperFacts
<1>2. array' = [array EXCEPT !.objects = v, !.mutations = m]
  BY DEF ArraySorts
<1>3. /\ m \in Nat /\ m >= array.mutations
      /\ Done(sort') /\ sort'.walks # "raised" => m > array.mutations
      /\ sort'.walks = "raised" => m = array.mutations
  BY <1>1
<1> HIDE DEF v, m
<1>4. array'.mutations = m
  BY <1>1, <1>2 DEF ArrayType
<1> QED
  BY <1>1, <1>3, <1>4

LEMMA LoopInvStep ==
  ASSUME SortInv, ArrayInv, SetInv, LoopInv, [Next]_vars
  PROVE  LoopInv'
<1> DEFINE done == Done(sort')
<1> DEFINE before == Done(sort)
<1>1. Proper(array) /\ Matches(set)
  BY DEF ArrayInv, SetInv
<1>2. array.mutations \in Nat /\ set.mutations \in Nat
  BY <1>1, ProperFacts DEF Matches, SetType
<1>3. SUFFICES LoopOk(rover', array', set', done)
  BY DEF LoopInv
<1>4. LoopOk(rover, array, set, before)
  BY DEF LoopInv
<1>5. CASE ArrayNext
  <2>1. set' = set
    BY <1>1, <1>5, ArrayStepKinds
       DEF ArrayChanges, ArrayStrays, ArrayBecomes, Moves, MoveObjects, SortArray
  <2>2. CASE ArrayChanges
    <3>1. PICK b : ArrayBecomes(b) /\ Follows(b, array)
      BY <2>2 DEF ArrayChanges
    <3>2. array' = b /\ RoverNotices("array", b.size # array.size, FALSE)
      BY <3>1 DEF ArrayBecomes
    <3>3. Done(sort)
      BY <2>2, KindsSort, IdleSorts
    <3>4. Proper(b) /\ (b = array \/ b.mutations > array.mutations)
      BY <3>1 DEF Follows
    <3>5. b.mutations \in Nat
      BY <3>4, ProperFacts
    <3> HIDE DEF done
    <3>6. LoopOk(rover', b, set, done)
      BY <1>2, <3>2, <3>3, <3>4, <3>5, ArrayIsSeen
    <3> QED
      BY <2>1, <3>2, <3>6
  <2>5. CASE ArrayStrays
    <3>1. PICK b : ArrayBecomes(b) /\ Strays(b, array)
      BY <2>5 DEF ArrayStrays
    <3>2. array' = b /\ RoverNotices("array", b.size # array.size, FALSE)
      BY <3>1 DEF ArrayBecomes
    <3>3. Done(sort)
      BY <2>5, KindsSort, IdleSorts
    <3>4. b.mutations \in Nat /\ b.mutations > array.mutations
      BY <3>1 DEF Strays
    <3> HIDE DEF done
    <3>5. LoopOk(rover', b, set, done)
      BY <1>2, <3>2, <3>3, <3>4, ArrayIsSeen
    <3> QED
      BY <2>1, <3>2, <3>5
  <2>3. CASE Moves
    <3>1. Proper(array') /\ array'.mutations = array.mutations
      BY <1>1, <2>3, MovesProper
    <3>2. array'.mutations \in Nat /\ array'.mutations >= array.mutations
      BY <1>2, <3>1
    <3>3. RoverNotices("array", FALSE, TRUE)
      BY <2>3 DEF Moves, MoveObjects
    <3> HIDE DEF done
    <3> DEFINE b == array'
    <3>4. b.mutations \in Nat /\ b.mutations >= array.mutations
      BY <3>2
    <3> HIDE DEF b
    <3>5. LoopOk(rover', b, set, done)
      BY <1>2, <3>3, <3>4, ArrayIsNotSeen
    <3> QED
      BY <2>1, <3>5 DEF b
  <2>4. CASE \E honest \in BOOLEAN : SortArray(honest)
    <3>1. PICK honest \in BOOLEAN : SortArray(honest)
      BY <2>4
    <3>2. ArraySorts /\ sort' = Sort(array.objects) /\ rover' = rover
      BY <3>1 DEF SortArray, StartSort
    <3>3. array.objects \in Seq(Objects)
      BY <1>1, ProperFacts
    <3>4. Sort(array.objects).walks # "raised"
      BY <3>3, SortReturns
    <3> DEFINE b == array'
    <3>5. /\ b.mutations \in Nat /\ b.mutations >= array.mutations
          /\ done => b.mutations > array.mutations
      BY <1>1, <3>2, <3>4, SortCounts
    <3> HIDE DEF done, before, b
    <3>6. LoopOk(rover, b, set, done)
      BY <1>2, <1>4, <3>5, SortNoticed
    <3> QED
      BY <2>1, <3>2, <3>6 DEF b
  <2> QED
    BY <1>1, <1>5, <2>2, <2>3, <2>4, <2>5, ArrayStepKinds
<1>6. CASE ComparatorNext
  <2>1. PICK answer \in Answers : CallComparator(answer)
    BY <1>6 DEF ComparatorNext
  <2>2. answer \in Int
    BY AnswersAssumption
  <2>3. /\ ArraySorts /\ sort' = Compared(sort, answer) /\ rover' = rover /\ set' = set
        /\ sort.todo # << >> /\ sort.walks # "broken"
    BY <2>1 DEF CallComparator, Compare, Sorts, Done
  <2>4. Inside(sort)
    BY DEF SortInv
  <2>5. Compared(sort, answer).walks # "raised"
    BY <2>2, <2>3, <2>4, ComparedReturns
  <2> DEFINE b == array'
  <2>6. /\ b.mutations \in Nat /\ b.mutations >= array.mutations
        /\ done => b.mutations > array.mutations
    BY <1>1, <2>3, <2>5, SortCounts
  <2> HIDE DEF done, before, b
  <2>7. LoopOk(rover, b, set, done)
    BY <1>2, <1>4, <2>6, SortNoticed
  <2> QED
    BY <2>3, <2>7 DEF b
<1>7. CASE ComparatorRaises
  <2>1. ArraySorts /\ Raise /\ set' = set /\ RoverNotices("array", FALSE, TRUE)
    BY <1>7 DEF ComparatorRaises
  <2>2. sort'.walks = "raised"
    BY <2>1, RaiseSorts
  <2> DEFINE b == array'
  <2>3. b.mutations \in Nat /\ b.mutations >= array.mutations
    BY <1>1, <2>1, <2>2, SortCounts
  <2> HIDE DEF done, b
  <2>4. LoopOk(rover', b, set, done)
    BY <1>2, <2>1, <2>3, ArrayIsNotSeen
  <2> QED
    BY <2>1, <2>4 DEF b
<1>8. CASE SetNext
  <2>1. SetChanges
    BY <1>1, <1>8, SetStepKinds
  <2>2. PICK u, blind : /\ SetBecomes(u, blind) /\ Matches(u) /\ blind \in BOOLEAN
                        /\ blind \/ u = set \/ u.mutations > set.mutations
                        /\ u.mutations >= set.mutations
    BY <2>1 DEF SetChanges
  <2>3. set' = u /\ array' = array /\ RoverNotices("set", FALSE, blind)
    BY <2>2 DEF SetBecomes
  <2>4. Done(sort)
    BY <2>1, KindsSort, IdleSorts
  <2>5. u.mutations \in Nat
    BY <2>2 DEF Matches, SetType
  <2> HIDE DEF done
  <2>6. LoopOk(rover', array, u, done)
    BY <1>2, <2>2, <2>3, <2>4, <2>5, SetIsSeen
  <2> QED
    BY <2>3, <2>6
<1>9. CASE LoopNext
  <2>1. array' = array /\ set' = set
    BY <1>9 DEF LoopNext, Enumerate, ShowNext, NextPortion, LeaveLoop
  <2>2. Done(sort)
    BY <1>9, KindsSort, IdleSorts DEF LoopNext
  <2>3. LoopOk(rover, array, set, TRUE)
    BY <2>2, NothingSorts DEF LoopInv
  <2> HIDE DEF done
  <2>4. CASE \E container \in {"array", "set"} : Enumerate(container)
    <3>1. PICK over \in {"array", "set"} : Enumerate(over)
      BY <2>4
    <3> DEFINE r == Rover(over, ObjectsOf(over), Portion(over, 0), Mutations(over))
    <3>2. rover' = r
      BY <3>1 DEF Enumerate
    <3> HIDE DEF r
    <3>3. r = Rover(over, ObjectsOf(over), Portion(over, 0), Mutations(over))
      BY DEF r
    <3>4. LoopOk(r, array, set, done)
      BY <1>1, <3>3, LoopBegins
    <3> QED
      BY <2>1, <3>2, <3>4
  <2>5. CASE ShowNext
    <3> DEFINE t == [rover EXCEPT !.next = rover.next + 1,
                                  !.shown = IF rover.blind THEN rover.shown
                                            ELSE Append(rover.shown,
                                                        ObjectsOf(rover.over)[rover.next + 1])]
    <3>1. /\ rover.runs /\ rover.next < rover.end /\ Mutations(rover.over) = rover.found
      BY <2>5 DEF ShowNext
    <3>2. rover' = t
      BY <2>5 DEF ShowNext
    <3>3. LoopOk(t, array, set, done)
      BY <1>1, <2>3, <3>1, LoopShows
    <3> QED
      BY <2>1, <3>2, <3>3
  <2>6. CASE NextPortion
    <3> DEFINE end == Portion(rover.over, rover.end)
    <3> DEFINE t == [rover EXCEPT !.runs = end > rover.end, !.end = end]
    <3>1. rover.runs /\ rover.next = rover.end /\ rover' = t
      BY <2>6 DEF NextPortion
    <3>2. end = Portion(rover.over, rover.end)
      OBVIOUS
    <3> HIDE DEF end
    <3>3. t = [rover EXCEPT !.runs = end > rover.end, !.end = end]
      OBVIOUS
    <3> HIDE DEF t
    <3>4. LoopOk(t, array, set, done)
      BY <1>1, <2>3, <3>1, <3>2, <3>3, PortionFollows
    <3> QED
      BY <2>1, <3>1, <3>4
  <2>7. CASE LeaveLoop
    BY <2>1, <2>7, NoLoop DEF LeaveLoop
  <2> QED
    BY <1>9, <2>4, <2>5, <2>6, <2>7 DEF LoopNext
<1>10. CASE BeginAnew
  <2> HIDE DEF done
  <2>1. rover' = NoRover
    BY <1>10 DEF BeginAnew
  <2> QED
    BY <2>1, NoLoop
<1>11. CASE UNCHANGED vars
  BY <1>4, <1>11 DEF vars, sortingVars, containers
<1> QED
  BY <1>5, <1>6, <1>7, <1>8, <1>9, <1>10, <1>11 DEF Next

LEMMA LoopStays ==
  ASSUME ContainerInv, LoopInv, [Next]_vars
  PROVE  LoopInv'
<1>1. SortInv /\ SetInv /\ (ArrayInv \/ Strayed)
  BY DEF ContainerInv
<1>2. CASE ArrayInv
  BY <1>1, <1>2, LoopInvStep
<1>3. CASE Strayed /\ BeginAnew
  <2> DEFINE done == Done(sort')
  <2> HIDE DEF done
  <2>1. LoopOk(NoRover, array', set', done)
    BY NoLoop
  <2> QED
    BY <1>3, <2>1 DEF BeginAnew, LoopInv, done
<1>4. CASE UNCHANGED vars
  BY <1>4 DEF vars, sortingVars, containers, LoopInv
<1> QED
  BY <1>1, <1>2, <1>3, <1>4, StrayedStep

LEMMA LoopInvAlways ==
  Spec => [](ContainerInv /\ LoopInv)
<1>1. Init => ContainerInv /\ LoopInv
  <2> SUFFICES ASSUME Init
               PROVE  ContainerInv /\ LoopInv
    OBVIOUS
  <2>1. rover = NoRover
    BY DEF Init
  <2> QED
    BY <2>1, ContainerInvInit, NoLoop DEF LoopInv
<1>2. ContainerInv /\ LoopInv /\ [Next]_vars => (ContainerInv /\ LoopInv)'
  BY ContainerInvStep, LoopStays
<1> QED
  BY <1>1, <1>2, PTL DEF Spec

(***************************************************************************)
(* for( object in container) shows what the container held at the start,   *)
(* in that order, for as long as each change of the body counts as a       *)
(* mutation; and the storage it reads is the one it was given.             *)
(***************************************************************************)
THEOREM LoopShowsNothingElse == Spec => []LoopShowsTheStart
<1>1. LoopInv => LoopShowsTheStart
  <2> SUFFICES ASSUME LoopInv
               PROVE  LoopShowsTheStart
    OBVIOUS
  <2>1. /\ rover \in RoverType
        /\ ~rover.blind => Begins(rover.shown, rover.given)
        /\ rover.runs /\ rover.over = "array" => OverArray(rover, array, Done(sort))
    BY DEF LoopInv, LoopOk
  <2> DEFINE v == rover.shown
  <2> DEFINE w == rover.given
  <2>2. v \in Seq(Objects) /\ w \in Seq(Objects)
    BY <2>1 DEF RoverType
  <2>3. ASSUME ~rover.blind
        PROVE  v = SubSeq(w, 1, Len(v))
    <3>1. Begins(v, w)
      BY <2>1, <2>3
    <3> HIDE DEF v, w
    <3>2. Len(v) <= Len(w) /\ Len(v) \in Nat /\ \A k \in 1 .. Len(v) : v[k] = w[k]
      BY <2>2, <3>1 DEF Begins
    <3> DEFINE u == SubSeq(w, 1, Len(v))
    <3>3. /\ u \in Seq(Objects) /\ Len(u) = Len(v)
          /\ \A k \in 1 .. Len(v) : u[k] = w[k]
      BY <2>2, <3>2
    <3> HIDE DEF u
    <3>4. \A k \in 1 .. Len(v) : v[k] = u[k]
      BY <3>2, <3>3
    <3>5. v = u
      BY <2>2, <3>3, <3>4, SeqEqual
    <3> QED
      BY <3>5 DEF u
  <2>4. RunsOver("array") /\ array.mutations = rover.found => ~rover.moved
    BY <2>1 DEF RunsOver, OverArray
  <2> QED
    BY <2>3, <2>4 DEF LoopShowsTheStart
<1> QED
  BY <1>1, LoopInvAlways, PTL

(***************************************************************************)
(* A for loop that was not left early has shown all, but for the gap at    *)
(* the end of a portion of the set.                                        *)
(***************************************************************************)
THEOREM LoopMissesNothing == Spec => []LoopShowsAll
<1>1. LoopInv => LoopShowsAll
  BY DEF LoopInv, LoopOk, HasShown, LoopShowsAll
<1> QED
  BY <1>1, LoopInvAlways, PTL
-----------------------------------------------------------------------------
(***************************************************************************)
(* The depth of the recursion.  Each range that waits is at least twice as *)
(* long as all that is sorted before it: e bounds the lengths.             *)
(***************************************************************************)
Halved(todo, length) ==
  \E e \in [1 .. Len(todo) -> Nat] :
    /\ \A k \in 1 .. Len(todo) : todo[k].n <= e[k] /\ e[k] <= length
    /\ \A k \in 1 .. Len(todo) : k > 1 => e[k - 1] >= 2 * e[k] + 1

LEMMA HalvedEmpty ==
  ASSUME NEW n
  PROVE  Halved(<< >>, n)
<1> DEFINE e == [k \in 1 .. 0 |-> 0]
<1>1. Len(<< >>) = 0 /\ 1 .. 0 = {}
  OBVIOUS
<1>2. e \in [1 .. 0 -> Nat]
  OBVIOUS
<1> HIDE DEF e
<1> QED
  BY <1>1, <1>2 DEF Halved

LEMMA StartedHalved ==
  ASSUME NEW v \in Seq(Objects), NEW todo \in Seq(Ranges), AreApart(todo, Len(v)),
         NEW n \in Nat, Halved(todo, n)
  PROVE  Halved(Started(v, todo).todo, n)
<1> DEFINE s == Started(v, todo)
<1>1. s = Started(v, todo)
  OBVIOUS
<1> HIDE DEF s
<1>2. s.todo = << >> \/ \E last \in 1 .. Len(todo) : s.todo = SubSeq(todo, 1, last)
  <2>1. \/ /\ \A k \in 1 .. Len(todo) : todo[k].n <= 1
           /\ s = [v |-> v, todo |-> << >>, i |-> 0, j |-> 0, walks |-> "none"]
        \/ \E last \in 1 .. Len(todo) :
             /\ todo[last].n > 1
             /\ \A k \in 1 .. Len(todo) : k > last => todo[k].n <= 1
             /\ s = [v |-> Swapped(v, todo[last].base,
                                   todo[last].base + (todo[last].n \div 2)),
                     todo |-> SubSeq(todo, 1, last),
                     i |-> 0, j |-> todo[last].n - 1, walks |-> "j"]
    BY ONLY <1>1, v \in Seq(Objects), todo \in Seq(Ranges), AreApart(todo, Len(v)),
            StartedProperties
  <2> QED
    BY <2>1
<1>3. CASE s.todo = << >>
  BY <1>3, HalvedEmpty DEF s
<1>4. CASE \E last \in 1 .. Len(todo) : s.todo = SubSeq(todo, 1, last)
  <2>1. PICK last \in 1 .. Len(todo) : s.todo = SubSeq(todo, 1, last)
    BY <1>4
  <2> DEFINE t == SubSeq(todo, 1, last)
  <2>2. Len(t) = last /\ last \in Nat /\ last <= Len(todo) /\ \A k \in 1 .. last : t[k] = todo[k]
    OBVIOUS
  <2>3. PICK e \in [1 .. Len(todo) -> Nat] :
          /\ \A k \in 1 .. Len(todo) : todo[k].n <= e[k] /\ e[k] <= n
          /\ \A k \in 1 .. Len(todo) : k > 1 => e[k - 1] >= 2 * e[k] + 1
    BY DEF Halved
  <2> HIDE DEF t
  <2> DEFINE f == [k \in 1 .. last |-> e[k]]
  <2>4. \A k \in 1 .. last : k \in 1 .. Len(todo) /\ (k > 1 => k - 1 \in 1 .. last)
    BY <2>2
  <2>5. f \in [1 .. last -> Nat] /\ \A k \in 1 .. last : f[k] = e[k]
    BY <2>3, <2>4
  <2> HIDE DEF f
  <2>6. \A k \in 1 .. last : t[k].n <= f[k] /\ f[k] <= n
    BY <2>2, <2>3, <2>4, <2>5
  <2>7. ASSUME NEW k \in 1 .. last, k > 1
        PROVE  f[k - 1] >= 2 * f[k] + 1
    <3>1. k - 1 \in 1 .. last /\ k \in 1 .. Len(todo)
      BY <2>4, <2>7
    <3>2. e[k - 1] >= 2 * e[k] + 1
      BY <2>3, <2>7, <3>1
    <3> QED
      BY <2>5, <3>1, <3>2
  <2>8. Halved(t, n)
    BY <2>2, <2>5, <2>6, <2>7 DEF Halved
  <2> QED
    BY <2>1, <2>8 DEF s, t
<1> QED
  BY <1>2, <1>3, <1>4

(***************************************************************************)
(* A range that is split: the shorter part is less than half of it.        *)
(***************************************************************************)
LEMMA SplitHalved ==
  ASSUME NEW todo \in Seq(Ranges), todo # << >>, NEW n \in Nat, Halved(todo, n),
         NEW u \in Seq(Ranges), NEW j \in Nat, j < todo[Len(todo)].n,
         Splits(u, todo, todo[Len(todo)], j)
  PROVE  Halved(u, n)
<1> DEFINE m == Len(todo)
<1> DEFINE r == todo[m]
<1>1. m \in Nat /\ m \in 1 .. m /\ r \in Ranges
  OBVIOUS
<1>2. r.n \in Nat /\ r.base \in Nat /\ j < r.n
  BY <1>1 DEF Ranges
<1>3. PICK e \in [1 .. m -> Nat] :
        /\ \A k \in 1 .. m : todo[k].n <= e[k] /\ e[k] <= n
        /\ \A k \in 1 .. m : k > 1 => e[k - 1] >= 2 * e[k] + 1
  BY DEF Halved
<1>4. /\ Len(u) = m + 1
      /\ \A k \in 1 .. m - 1 : u[k] = todo[k]
      /\ u[m + 1].n <= u[m].n
      /\ \/ /\ u[m] = Run(r.base, j)
            /\ u[m + 1] = Run(r.base + j + 1, r.n - j - 1)
         \/ /\ u[m + 1] = Run(r.base, j)
            /\ u[m] = Run(r.base + j + 1, r.n - j - 1)
  BY DEF Splits
<1> HIDE DEF m
<1>5. r.n <= e[m] /\ e[m] <= n /\ e[m] \in Nat
  BY <1>1, <1>3
<1> DEFINE a == u[m].n
<1> DEFINE b == u[m + 1].n
<1> DEFINE N == r.n
<1>6. a + b + 1 = N /\ a \in Nat /\ b \in Nat /\ b <= a /\ N \in Nat
  <2>1. (a = j /\ b = N - j - 1) \/ (b = j /\ a = N - j - 1)
    BY <1>4 DEF Run
  <2>2. N \in Nat /\ j < N
    BY <1>2
  <2>3. b <= a
    BY <1>4
  <2> HIDE DEF a, b, N
  <2> QED
    BY <2>1, <2>2, <2>3
<1>7. N <= e[m]
  BY <1>5
<1> HIDE DEF N
<1>8. e[m] >= 2 * b + 1 /\ a <= e[m] /\ b <= n /\ b <= e[m]
  <2> HIDE DEF a, b
  <2> QED
    BY <1>5, <1>6, <1>7
<1> DEFINE f == [k \in 1 .. m + 1 |-> IF k = m + 1 THEN b ELSE e[k]]
<1>9. \A k \in 1 .. m + 1 : k = m + 1 \/ k = m \/ k \in 1 .. m - 1
  BY <1>1
<1>10. m \in 1 .. m + 1 /\ m + 1 \in 1 .. m + 1 /\ m # m + 1
  BY <1>1
<1>11. \A k \in 1 .. m : k \in 1 .. m + 1 /\ k # m + 1
  BY <1>1
<1>12. /\ f \in [1 .. m + 1 -> Nat] /\ f[m + 1] = b
       /\ \A k \in 1 .. m : f[k] = e[k]
  <2> HIDE DEF a, b
  <2>1. \A k \in 1 .. m + 1 : k = m + 1 \/ k \in 1 .. m
    BY <1>1
  <2>2. \A k \in 1 .. m : e[k] \in Nat
    BY <1>3
  <2>3. f \in [1 .. m + 1 -> Nat]
    BY <1>6, <2>1, <2>2
  <2> QED
    BY <1>10, <1>11, <2>3
<1> HIDE DEF f
<1>13. ASSUME NEW k \in 1 .. m + 1
       PROVE  u[k].n <= f[k] /\ f[k] <= n
  <2>1. CASE k = m + 1
    BY <1>6, <1>8, <1>12, <2>1
  <2>2. CASE k = m
    BY <1>1, <1>5, <1>8, <1>12, <2>2
  <2>3. CASE k \in 1 .. m - 1
    <3>1. k \in 1 .. m
      BY <1>1, <2>3
    <3> QED
      BY <1>3, <1>4, <1>12, <2>3, <3>1
  <2> QED
    BY <1>9, <2>1, <2>2, <2>3
<1>14. ASSUME NEW k \in 1 .. m + 1, k > 1
       PROVE  f[k - 1] >= 2 * f[k] + 1
  <2>1. CASE k = m + 1
    <3>1. k - 1 = m
      BY <1>1, <2>1
    <3>2. f[k - 1] = e[m] /\ f[k] = b
      BY <1>1, <1>12, <2>1, <3>1
    <3> QED
      BY <1>8, <3>2
  <2>2. CASE k # m + 1
    <3>1. k \in 1 .. m /\ k - 1 \in 1 .. m
      BY <1>1, <1>14, <2>2
    <3>2. e[k - 1] >= 2 * e[k] + 1
      BY <1>3, <1>14, <3>1
    <3> QED
      BY <1>12, <3>1, <3>2
  <2> QED
    BY <2>1, <2>2
<1>15. Len(u) = m + 1
  BY <1>4
<1> HIDE DEF a, b, r
<1> QED
  BY <1>12, <1>13, <1>14, <1>15 DEF Halved

LEMMA PartitionedHalved ==
  ASSUME NEW s, Inside(s), s.todo # << >>, NEW n \in Nat, Halved(s.todo, n)
  PROVE  Halved(Partitioned(s).todo, n)
<1> DEFINE w == Swapped(s.v, Current(s).base + s.j, Current(s).base)
<1>1. PICK u \in Seq(Ranges) : /\ Partitioned(s) = Started(w, u)
                               /\ Splits(u, s.todo, Current(s), s.j)
                               /\ AreApart(u, Len(s.v))
  BY PartitionedProperties
<1>2. /\ s.v \in Seq(Objects) /\ s.j \in Nat /\ Current(s).base \in Nat
      /\ Current(s).base + Current(s).n <= Len(s.v) /\ Current(s).n \in Nat
      /\ s.j < Current(s).n /\ Len(s.v) \in Nat
  BY CurrentProperties DEF Inside, SortType
<1>3. s.todo \in Seq(Ranges) /\ Current(s) = s.todo[Len(s.todo)]
  BY CurrentProperties
<1> DEFINE v == s.v
<1> DEFINE a == Current(s).base + s.j
<1> DEFINE b == Current(s).base
<1>4. a \in 0 .. Len(v) - 1
  BY <1>2
<1>5. b \in 0 .. Len(v) - 1
  BY <1>2
<1>6. v \in Seq(Objects)
  BY <1>2
<1>7. w = Swapped(v, a, b)
  OBVIOUS
<1>8. Halved(u, n)
  <2> DEFINE t == s.todo
  <2> DEFINE j == s.j
  <2>1. t \in Seq(Ranges)
    BY <1>3
  <2>2. t # << >>
    OBVIOUS
  <2>3. Halved(t, n)
    OBVIOUS
  <2>4. j \in Nat
    BY <1>2
  <2>5. j < t[Len(t)].n
    BY <1>2, <1>3
  <2>6. Splits(u, t, t[Len(t)], j)
    BY <1>1, <1>3
  <2> HIDE DEF t, j
  <2> QED
    BY <2>1, <2>2, <2>3, <2>4, <2>5, <2>6, SplitHalved
<1> HIDE DEF v, a, b, w
<1>9. w \in Seq(Objects) /\ Len(w) = Len(v)
  BY <1>4, <1>5, <1>6, <1>7, SwappedProperties
<1>10. AreApart(u, Len(w))
  BY <1>1, <1>9 DEF v
<1>11. Halved(Started(w, u).todo, n)
  BY <1>8, <1>9, <1>10, StartedHalved
<1> QED
  BY <1>1, <1>11

LEMMA ComparedHalved ==
  ASSUME NEW s, Inside(s), s.todo # << >>, s.walks # "broken", NEW answer \in Int,
         NEW n \in Nat, Halved(s.todo, n)
  PROVE  Halved(Compared(s, answer).todo, n)
<1>1. s \in SortType /\ s.walks \in {"i", "j"} /\ s.j \in Nat
  BY DEF Inside, SortType
<1>2. Halved(IncrementI(s).todo, n)
  <2>1. CASE s.i + 1 >= s.j
    BY <2>1, PartitionedHalved DEF IncrementI
  <2>2. CASE ~(s.i + 1 >= s.j)
    <3>1. IncrementI(s).todo = s.todo
      BY <1>1, <2>2 DEF IncrementI, SortType
    <3> QED
      BY <3>1
  <2> QED
    BY <2>1, <2>2
<1>3. CASE s.walks = "j" /\ answer > 0 /\ s.j = 0
  <2>1. Compared(s, answer).todo = s.todo
    BY <1>1, <1>3 DEF Compared, SortType
  <2> QED
    BY <2>1
<1>4. CASE s.walks = "j" /\ answer > 0 /\ s.j > 0
  <2>1. Compared(s, answer).todo = s.todo
    BY <1>1, <1>4 DEF Compared, SortType
  <2> QED
    BY <2>1
<1>5. CASE s.walks = "j" /\ answer <= 0
  BY <1>2, <1>5 DEF Compared
<1>6. CASE s.walks = "i" /\ answer < 0
  BY <1>2, <1>6 DEF Compared
<1>7. CASE s.walks = "i" /\ answer >= 0
  <2> DEFINE w == Swapped(s.v, Current(s).base + s.i, Current(s).base + s.j)
  <2>1. Compared(s, answer) = [s EXCEPT !.v = w, !.j = s.j - 1, !.walks = "j"]
    BY <1>7 DEF Compared
  <2> HIDE DEF w
  <2>2. Compared(s, answer).todo = s.todo
    BY <1>1, <2>1 DEF SortType
  <2> QED
    BY <2>2
<1>8. answer > 0 \/ answer <= 0
  OBVIOUS
<1>9. answer < 0 \/ answer >= 0
  OBVIOUS
<1>10. s.j = 0 \/ s.j > 0
  BY <1>1
<1> QED
  BY <1>1, <1>3, <1>4, <1>5, <1>6, <1>7, <1>8, <1>9, <1>10

LEMMA SortHalved ==
  ASSUME NEW v \in Seq(Objects)
  PROVE  Halved(Sort(v).todo, Len(v))
<1> DEFINE r == Run(0, Len(v))
<1> DEFINE n == Len(v)
<1>1. n \in Nat
  OBVIOUS
<1>2. r \in Ranges /\ r.base = 0 /\ r.n = n
  BY <1>1 DEF Run, Ranges
<1> HIDE DEF r
<1>3. <<r>> \in Seq(Ranges) /\ Len(<<r>>) = 1 /\ DOMAIN <<r>> = {1} /\ <<r>>[1] = r
  BY <1>2
<1>4. AreApart(<<r>>, Len(v))
  BY <1>1, <1>2, <1>3 DEF AreApart
<1>5. Sort(v) = Started(v, <<r>>)
  BY DEF Sort, r
<1>6. Halved(<<r>>, n)
  <2> DEFINE e == [k \in 1 .. 1 |-> n]
  <2> HIDE DEF n
  <2>1. e \in [1 .. 1 -> Nat] /\ \A k \in 1 .. 1 : k = 1 /\ e[k] = n
    BY <1>1
  <2> HIDE DEF e
  <2>2. \A k \in 1 .. 1 : <<r>>[k].n <= e[k] /\ e[k] <= n
    BY <1>1, <1>2, <1>3, <2>1
  <2>3. \A k \in 1 .. 1 : k > 1 => e[k - 1] >= 2 * e[k] + 1
    BY <2>1
  <2> QED
    BY <1>3, <2>1, <2>2, <2>3 DEF Halved
<1>7. Halved(Started(v, <<r>>).todo, n)
  <2> HIDE DEF n
  <2> DEFINE q == <<r>>
  <2>1. q \in Seq(Ranges) /\ AreApart(q, Len(v)) /\ Halved(q, n)
    BY <1>3, <1>4, <1>6
  <2> HIDE DEF q
  <2>2. Halved(Started(v, q).todo, n)
    BY <1>1, <2>1, StartedHalved
  <2> QED
    BY <2>2 DEF q
<1> QED
  BY <1>5, <1>7

(***************************************************************************)
(* A set with one more element has twice as many subsets: those without    *)
(* the element and those with it.                                          *)
(***************************************************************************)
LEMMA TwiceAsManySubsets ==
  ASSUME NEW n \in Nat
  PROVE  2 ^ n \in Nat /\ 2 ^ (n + 1) = 2 * 2 ^ n
<1> DEFINE S == 1 .. n
<1> DEFINE T == 1 .. n + 1
<1> DEFINE A == SUBSET S
<1> DEFINE B == { X \union {n + 1} : X \in A }
<1>1. IsFiniteSet(S) /\ Cardinality(S) = n /\ IsFiniteSet(T) /\ Cardinality(T) = n + 1
  <2>1. 1 \in Int /\ n \in Int /\ n + 1 \in Int
    OBVIOUS
  <2>2. IsFiniteSet(S) /\ Cardinality(S) = IF 1 > n THEN 0 ELSE n - 1 + 1
    BY <2>1, FS_Interval
  <2>3. IsFiniteSet(T) /\ Cardinality(T) = IF 1 > n + 1 THEN 0 ELSE n + 1 - 1 + 1
    BY <2>1, FS_Interval
  <2> HIDE DEF S, T
  <2> QED
    BY <2>2, <2>3
<1>2. n + 1 \notin S /\ T = S \union {n + 1}
  OBVIOUS
<1> HIDE DEF S, T
<1>3. IsFiniteSet(A) /\ Cardinality(A) = 2 ^ n
  BY <1>1, FS_SUBSET
<1>4. IsFiniteSet(SUBSET T) /\ Cardinality(SUBSET T) = 2 ^ (n + 1)
  BY <1>1, FS_SUBSET
<1>5. IsFiniteSet(B) /\ Cardinality(B) = Cardinality(A)
  <2> DEFINE f == [X \in A |-> X \union {n + 1}]
  <2>1. f \in Bijection(A, B)
    <3>1. f \in [A -> B] /\ \A Y \in B : \E X \in A : f[X] = Y
      OBVIOUS
    <3>2. ASSUME NEW X \in A, NEW Y \in A, f[X] = f[Y]
          PROVE  X = Y
      <4>1. X \union {n + 1} = Y \union {n + 1} /\ n + 1 \notin X /\ n + 1 \notin Y
        BY <1>2, <3>2
      <4> QED
        BY <4>1
    <3> HIDE DEF f, A, B
    <3> QED
      BY <3>1, <3>2, Fun_IsBij
  <2>2. ExistsBijection(A, B)
    BY <2>1 DEF ExistsBijection
  <2> HIDE DEF A, B
  <2> QED
    BY <1>3, <2>2, FS_Bijection
<1>6. SUBSET T = A \union B
  <2>1. ASSUME NEW X \in SUBSET T
        PROVE  X \in A \union B
    <3>1. CASE n + 1 \notin X
      BY <1>2, <2>1, <3>1
    <3>2. CASE n + 1 \in X
      <4>1. X \ {n + 1} \in A /\ X = (X \ {n + 1}) \union {n + 1}
        BY <1>2, <2>1, <3>2
      <4> QED
        BY <4>1
    <3> QED
      BY <3>1, <3>2
  <2>2. A \union B \subseteq SUBSET T
    BY <1>2
  <2> QED
    BY <2>1, <2>2
<1>7. A \intersect B = {}
  BY <1>2
<1> HIDE DEF A, B
<1>8. Cardinality(A \union B) = Cardinality(A) + Cardinality(B) - Cardinality(A \intersect B)
  BY <1>3, <1>5, FS_Union
<1>9. Cardinality(A) \in Nat /\ Cardinality({}) = 0
  BY <1>3, FS_CardinalityType, FS_EmptySet
<1> DEFINE p == 2 ^ n
<1> DEFINE q == 2 ^ (n + 1)
<1>10. p \in Nat /\ q = p + p
  <2>1. p = Cardinality(A) /\ q = Cardinality(SUBSET T)
    BY <1>3, <1>4
  <2> HIDE DEF p, q
  <2> QED
    <3>1. q = Cardinality(A \union B)
      BY <2>1, <1>6
    <3>2. Cardinality(A \intersect B) = 0
      BY <1>7, <1>9
    <3> DEFINE x == Cardinality(A)
    <3> DEFINE y == Cardinality(B)
    <3> DEFINE z == Cardinality(A \intersect B)
    <3>3. p = x /\ q = x + y - z /\ y = x /\ z = 0 /\ x \in Nat
      BY <1>5, <1>8, <1>9, <2>1, <3>1, <3>2
    <3> HIDE DEF x, y, z
    <3> QED
      BY <3>3
<1> HIDE DEF p, q
<1>11. p \in Nat /\ q = 2 * p
  BY <1>10
<1> QED
  BY <1>11 DEF p, q

LEMMA HalvedIsShallow ==
  ASSUME NEW todo \in Seq(Ranges), NEW length \in Nat, Halved(todo, length),
         todo # << >> => todo[Len(todo)].n > 1
  PROVE  2 ^ Len(todo) <= length + 1
<1> DEFINE m == Len(todo)
<1>1. m \in Nat /\ (todo # << >> => m # 0)
  OBVIOUS
<1>2. PICK e \in [1 .. m -> Nat] :
        /\ \A k \in 1 .. m : todo[k].n <= e[k] /\ e[k] <= length
        /\ \A k \in 1 .. m : k > 1 => e[k - 1] >= 2 * e[k] + 1
  BY DEF Halved
<1>3. 2 ^ 0 = 1
  OBVIOUS
<1>4. CASE todo = << >>
  <2>1. m = 0
    BY <1>4
  <2> HIDE DEF m
  <2>2. 2 ^ m = 1
    BY <1>3, <2>1
  <2> DEFINE p == 2 ^ m
  <2> HIDE DEF p
  <2>3. p = 1
    BY <2>2 DEF p
  <2>4. p <= length + 1
    BY <2>3
  <2> QED
    BY <2>4 DEF p, m
<1>5. CASE todo # << >>
  <2>1. m # 0 /\ m \in 1 .. m /\ todo[m] \in Ranges /\ todo[m].n > 1
    BY <1>1, <1>5
  <2>2. todo[m].n \in Nat /\ todo[m].n <= e[m] /\ e[m] \in Nat
    BY <1>2, <2>1 DEF Ranges
  <2> DEFINE N == m - 1
  <2> DEFINE P == { d \in 0 .. N : e[m - d] + 1 >= 2 ^ (d + 1) }
  <2> HIDE DEF m
  <2>3. N \in Nat /\ N \in 0 .. N
    BY <1>1, <2>1
  <2>4. 0 \in P
    <3>1. 2 ^ (0 + 1) = 2 * 2 ^ 0
      BY TwiceAsManySubsets
    <3> DEFINE p == 2 ^ (0 + 1)
    <3>2. p = 2
      BY <1>3, <3>1
    <3> HIDE DEF p
    <3>3. m - 0 = m /\ e[m] + 1 >= p
      BY <1>1, <2>1, <2>2, <3>2
    <3> QED
      BY <2>3, <3>3 DEF p
  <2>5. ASSUME NEW d \in 0 .. N, d \in P, d < N
        PROVE  d + 1 \in P
    <3>1. m - d \in 1 .. m /\ m - d > 1 /\ (m - d) - 1 = m - (d + 1) /\ m - (d + 1) \in 1 .. m
      BY <1>1, <2>3, <2>5
    <3>2. e[m - (d + 1)] >= 2 * e[m - d] + 1 /\ e[m - d] \in Nat /\ e[m - (d + 1)] \in Nat
      BY <1>2, <3>1
    <3>3. d + 1 \in Nat /\ d + 1 \in 0 .. N
      BY <2>3, <2>5
    <3> DEFINE p == 2 ^ (d + 1)
    <3> DEFINE q == 2 ^ ((d + 1) + 1)
    <3> DEFINE x == e[m - d]
    <3> DEFINE y == e[m - (d + 1)]
    <3>4. p \in Nat /\ q = 2 * p
      BY <3>3, TwiceAsManySubsets
    <3>5. x + 1 >= p
      BY <2>5
    <3>6. y >= 2 * x + 1 /\ x \in Nat /\ y \in Nat
      BY <3>2
    <3>7. y + 1 >= q
      <4> HIDE DEF p, q, x, y
      <4> QED
        BY <3>4, <3>5, <3>6
    <3> QED
      BY <3>3, <3>7
  <2>6. \A d \in 0 .. N : d \in P /\ d < N => d + 1 \in P
    BY <2>5
  <2>7. N \in P
    <3> HIDE DEF P, N
    <3> QED
      BY <2>3, <2>4, <2>6, InductionUpTo
  <2>8. m - N = 1 /\ N + 1 = m /\ 1 \in 1 .. m
    BY <1>1, <2>1
  <2> DEFINE p == 2 ^ m
  <2>9. e[1] + 1 >= p
    BY <2>7, <2>8
  <2>10. p \in Nat
    BY <1>1, TwiceAsManySubsets
  <2>11. e[1] <= length /\ e[1] \in Nat
    BY <1>2, <2>8
  <2> HIDE DEF p
  <2>12. p <= length + 1
    BY <2>9, <2>10, <2>11
  <2> QED
    BY <2>12 DEF p, m
<1> QED
  BY <1>4, <1>5

DepthInv == Halved(sort.todo, Len(sort.v))

LEMMA StartIsHalved ==
  ASSUME NEW v \in Seq(Objects), NEW honest, StartSort(v, honest)
  PROVE  DepthInv'
<1>1. sort' = Sort(v)
  BY DEF StartSort
<1>2. Len(Sort(v).v) = Len(v)
  BY SortProperties DEF SameObjects
<1>3. Halved(Sort(v).todo, Len(v))
  BY SortHalved
<1> QED
  BY <1>1, <1>2, <1>3 DEF DepthInv

LEMMA IdleIsHalved ==
  ASSUME Idle
  PROVE  DepthInv'
<1> DEFINE v == << >>
<1>1. v \in Seq(Objects)
  OBVIOUS
<1>2. StartSort(v, TRUE)
  BY DEF Idle
<1> HIDE DEF v
<1> QED
  BY <1>1, <1>2, StartIsHalved

LEMMA CompareIsHalved ==
  ASSUME SortInv, DepthInv, NEW answer \in Int, Compare(answer)
  PROVE  DepthInv'
<1>1. /\ sort.todo # << >> /\ sort.walks # "broken" /\ sort' = Compared(sort, answer)
  BY DEF Compare, Sorts, Done
<1>2. Inside(sort) /\ Len(sort.v) \in Nat
  BY DEF SortInv, Inside, SortType
<1>3. Len(Compared(sort, answer).v) = Len(sort.v)
  BY <1>1, <1>2, ComparedKeeps DEF SameObjects
<1> DEFINE n == Len(sort.v)
<1>4. n \in Nat /\ Halved(sort.todo, n)
  BY <1>2 DEF DepthInv
<1> HIDE DEF n
<1>5. Halved(Compared(sort, answer).todo, n)
  BY <1>1, <1>2, <1>4, ComparedHalved
<1> QED
  BY <1>1, <1>3, <1>5 DEF DepthInv, n

LEMMA DepthInvStep ==
  ASSUME SortInv, ArrayInv, SetInv, DepthInv, [Next]_vars
  PROVE  DepthInv'
<1>1. SortInv /\ Proper(array) /\ Matches(set)
  BY DEF ArrayInv, SetInv
<1>2. CASE ArrayNext
  <2>1. CASE ArrayChanges \/ ArrayStrays \/ Moves
    BY <2>1, KindsSort, IdleIsHalved
  <2>2. CASE \E honest \in BOOLEAN : SortArray(honest)
    <3>1. PICK honest \in BOOLEAN : SortArray(honest)
      BY <2>2
    <3> DEFINE v == array.objects
    <3>2. v \in Seq(Objects)
      BY <1>1, ProperFacts
    <3>3. StartSort(v, honest)
      BY <3>1 DEF SortArray
    <3> HIDE DEF v
    <3> QED
      BY <3>2, <3>3, StartIsHalved
  <2> QED
    BY <1>1, <1>2, <2>1, <2>2, ArrayStepKinds
<1>3. CASE ComparatorNext
  <2>1. PICK answer \in Answers : CallComparator(answer)
    BY <1>3 DEF ComparatorNext
  <2>2. answer \in Int
    BY AnswersAssumption
  <2> QED
    BY <1>1, <2>1, <2>2, CompareIsHalved DEF CallComparator
<1>4. CASE ComparatorRaises
  <2>1. Raise
    BY <1>4 DEF ComparatorRaises
  <2>2. sort'.todo = << >>
    BY <1>1, <2>1, RaiseSorts DEF Done
  <2> QED
    BY <2>2, HalvedEmpty DEF DepthInv
<1>5. CASE SetNext
  BY <1>1, <1>5, SetStepKinds, KindsSort, IdleIsHalved
<1>6. CASE LoopNext
  BY <1>6, KindsSort, IdleIsHalved DEF LoopNext
<1>7. CASE BeginAnew
  <2> DEFINE v == << >>
  <2>1. v \in Seq(Objects)
    OBVIOUS
  <2>2. StartSort(v, TRUE)
    BY <1>7 DEF BeginAnew
  <2> HIDE DEF v
  <2> QED
    BY <2>1, <2>2, StartIsHalved
<1>8. CASE UNCHANGED vars
  BY <1>8 DEF vars, sortingVars, DepthInv
<1> QED
  BY <1>2, <1>3, <1>4, <1>5, <1>6, <1>7, <1>8 DEF Next

LEMMA DepthStays ==
  ASSUME ContainerInv, DepthInv, [Next]_vars
  PROVE  DepthInv'
<1>1. SortInv /\ SetInv /\ (ArrayInv \/ Strayed)
  BY DEF ContainerInv
<1>2. CASE ArrayInv
  BY <1>1, <1>2, DepthInvStep
<1>3. CASE Strayed /\ BeginAnew
  <2> DEFINE v == << >>
  <2>1. v \in Seq(Objects)
    OBVIOUS
  <2>2. StartSort(v, TRUE)
    BY <1>3 DEF BeginAnew
  <2> HIDE DEF v
  <2> QED
    BY <2>1, <2>2, StartIsHalved
<1>4. CASE UNCHANGED vars
  BY <1>4 DEF vars, sortingVars, DepthInv
<1> QED
  BY <1>1, <1>2, <1>3, <1>4, StrayedStep

LEMMA DepthInvAlways ==
  Spec => [](ContainerInv /\ DepthInv)
<1>1. Init => ContainerInv /\ DepthInv
  <2> SUFFICES ASSUME Init
               PROVE  DepthInv
    BY ContainerInvInit
  <2>1. sort = Sort(<< >>) /\ << >> \in Seq(Objects)
    BY DEF Init, SortingInit
  <2> DEFINE v == << >>
  <2>2. v \in Seq(Objects) /\ sort = Sort(v)
    BY <2>1
  <2> HIDE DEF v
  <2>3. Halved(Sort(v).todo, Len(v)) /\ Len(Sort(v).v) = Len(v)
    BY <2>2, SortHalved, SortProperties DEF SameObjects
  <2> QED
    BY <2>2, <2>3 DEF DepthInv
<1>2. ContainerInv /\ DepthInv /\ [Next]_vars => (ContainerInv /\ DepthInv)'
  BY ContainerInvStep, DepthStays
<1> QED
  BY <1>1, <1>2, PTL DEF Spec

(***************************************************************************)
(* mulle_qsort_pointers recurses for the shorter part and loops for the    *)
(* other: whatever the comparator answers, for an array of any length the  *)
(* recursion is no deeper than the logarithm of the length.                *)
(***************************************************************************)
THEOREM SortStaysShallow == Spec => []SortIsShallow
<1>1. ContainerInv /\ DepthInv => SortIsShallow
  <2> SUFFICES ASSUME ContainerInv, DepthInv
               PROVE  SortIsShallow
    OBVIOUS
  <2>1. Inside(sort)
    BY DEF ContainerInv, SortInv
  <2> DEFINE todo == sort.todo
  <2> DEFINE length == Len(sort.v)
  <2>2. todo \in Seq(Ranges) /\ length \in Nat
    BY <2>1 DEF Inside, SortType
  <2>3. todo # << >> => todo[Len(todo)].n > 1
    BY <2>1 DEF Inside, Current
  <2>4. Halved(todo, length)
    BY DEF DepthInv
  <2> HIDE DEF todo, length
  <2>5. 2 ^ Len(todo) <= length + 1
    BY <2>2, <2>3, <2>4, HalvedIsShallow
  <2> QED
    BY <2>5 DEF todo, length, SortIsShallow
<1> QED
  BY <1>1, DepthInvAlways, PTL
-----------------------------------------------------------------------------
(***************************************************************************)
(* A range that is parted: no two places come together that were not, and  *)
(* the pivot's is alone from now on.                                       *)
(***************************************************************************)
Fewer(A, B) == A \subseteq B /\ A # B

LEMMA PartitionedSettles ==
  ASSUME NEW s, Inside(s), s.todo # << >>
  PROVE  Fewer(Unsettled(Partitioned(s)), Unsettled(s))
<1> DEFINE r == Current(s)
<1> DEFINE m == Len(s.todo)
<1> DEFINE t == Partitioned(s)
<1> DEFINE w == Swapped(s.v, r.base + s.j, r.base)
<1> DEFINE n == Len(s.v)
<1>1. /\ m \in 1 .. m /\ m \in Nat /\ r = s.todo[m]
      /\ r.base \in Nat /\ r.n \in Nat /\ r.base + r.n <= n
      /\ s.v \in Seq(Objects) /\ n \in Nat /\ s.j \in Nat
      /\ s.todo \in Seq(Ranges) /\ DOMAIN s.todo = 1 .. m
  BY CurrentProperties
<1>2. s.j < r.n /\ r.n > 1
  BY DEF Inside
<1>3. PICK u \in Seq(Ranges) : /\ t = Started(w, u)
                               /\ Splits(u, s.todo, r, s.j)
                               /\ AreApart(u, n)
  BY PartitionedProperties
<1>4. Len(t.v) = n
  BY PartitionedKeeps DEF SameObjects
<1>5. w \in Seq(Objects) /\ Len(w) = n
  <2>1. r.base + s.j \in 0 .. n - 1 /\ r.base \in 0 .. n - 1
    <3> HIDE DEF r, n
    <3> QED
      BY <1>1, <1>2
  <2>2. s.v \in Seq(Objects)
    BY <1>1
  <2>3. ASSUME NEW v \in Seq(Objects), NEW a \in 0 .. Len(v) - 1,
               NEW b \in 0 .. Len(v) - 1
        PROVE  Swapped(v, a, b) \in Seq(Objects) /\ Len(Swapped(v, a, b)) = Len(v)
    BY SwappedProperties
  <2> HIDE DEF r
  <2> QED
    BY <2>1, <2>2, <2>3
<1>6. \A k \in DOMAIN t.todo : k \in 1 .. Len(u) /\ t.todo[k] = u[k]
  <2> HIDE DEF w, n, t
  <2>1. AreApart(u, Len(w))
    BY <1>3, <1>5
  <2>2. CASE t = [v |-> w, todo |-> << >>, i |-> 0, j |-> 0, walks |-> "none"]
    <3>1. t.todo = << >>
      BY <2>2
    <3> QED
      BY <3>1
  <2>3. ASSUME NEW last \in 1 .. Len(u), t.todo = SubSeq(u, 1, last)
        PROVE  \A k \in DOMAIN t.todo : k \in 1 .. Len(u) /\ t.todo[k] = u[k]
    <3>1. /\ t.todo \in Seq(Ranges) /\ Len(t.todo) = last
          /\ \A k \in 1 .. last : t.todo[k] = u[k]
      BY <2>3, FirstOnes
    <3>2. DOMAIN t.todo = 1 .. last /\ last \in Nat /\ Len(u) \in Nat
      BY <3>1
    <3> QED
      BY <3>1, <3>2
  <2>4. t.todo = << >> \/ \E last \in 1 .. Len(u) : t.todo = SubSeq(u, 1, last)
    <3>1. t = Started(w, u) /\ w \in Seq(Objects)
      BY <1>3, <1>5
    <3>2. \/ t = [v |-> w, todo |-> << >>, i |-> 0, j |-> 0, walks |-> "none"]
          \/ \E last \in 1 .. Len(u) :
               t = [v |-> Swapped(w, u[last].base, u[last].base + (u[last].n \div 2)),
                    todo |-> SubSeq(u, 1, last),
                    i |-> 0, j |-> u[last].n - 1, walks |-> "j"]
      BY <2>1, <3>1, StartedProperties
    <3>3. CASE t = [v |-> w, todo |-> << >>, i |-> 0, j |-> 0, walks |-> "none"]
      BY <3>3
    <3>4. ASSUME NEW last \in 1 .. Len(u),
                 t = [v |-> Swapped(w, u[last].base, u[last].base + (u[last].n \div 2)),
                      todo |-> SubSeq(u, 1, last),
                      i |-> 0, j |-> u[last].n - 1, walks |-> "j"]
          PROVE  t.todo = SubSeq(u, 1, last)
      BY <3>4
    <3> QED
      BY <3>2, <3>3, <3>4
  <2> QED
    BY <2>3, <2>4
<1>7. /\ Len(u) = m + 1
      /\ \A k \in 1 .. m - 1 : u[k] = s.todo[k]
      /\ \A k \in {m, m + 1} : \/ u[k] = Run(r.base, s.j)
                               \/ u[k] = Run(r.base + s.j + 1, r.n - s.j - 1)
  <2> HIDE DEF r
  <2> QED
    BY <1>3 DEF Splits
<1>8. /\ Run(r.base, s.j).base = r.base /\ Run(r.base, s.j).n = s.j
      /\ Run(r.base + s.j + 1, r.n - s.j - 1).base = r.base + s.j + 1
      /\ Run(r.base + s.j + 1, r.n - s.j - 1).n = r.n - s.j - 1
  BY DEF Run
<1>9. ASSUME NEW k \in {m, m + 1}, NEW p \in 1 .. n, Within(u[k], p)
      PROVE  Within(r, p) /\ p # r.base + s.j + 1
  <2>1. r.base \in Nat /\ r.n \in Nat /\ s.j \in Nat /\ s.j < r.n /\ p \in Nat
    BY <1>1, <1>2
  <2>2. \/ u[k].base = r.base /\ u[k].n = s.j
        \/ u[k].base = r.base + s.j + 1 /\ u[k].n = r.n - s.j - 1
    BY <1>7, <1>8
  <2>3. u[k].base < p /\ p <= u[k].base + u[k].n
    BY <1>9 DEF Within
  <2> HIDE DEF r
  <2>4. r.base < p /\ p <= r.base + r.n /\ p # r.base + s.j + 1
    <3>1. CASE u[k].base = r.base /\ u[k].n = s.j
      <4>1. r.base < p /\ p <= r.base + s.j
        BY <2>3, <3>1
      <4> QED
        BY <2>1, <4>1
    <3>2. CASE u[k].base = r.base + s.j + 1 /\ u[k].n = r.n - s.j - 1
      <4>1. r.base + s.j + 1 < p /\ p <= r.base + s.j + 1 + (r.n - s.j - 1)
        BY <2>3, <3>2
      <4> QED
        BY <2>1, <4>1
    <3> QED
      BY <2>2, <3>1, <3>2
  <2> QED
    BY <2>4 DEF Within
<1>10. ASSUME NEW k \in 1 .. m - 1, NEW p \in 1 .. n, Within(s.todo[k], p)
       PROVE  ~Within(r, p)
  <2>1. Apart(s.todo[k], r)
    <3>1. k \in DOMAIN s.todo /\ m \in DOMAIN s.todo /\ k # m
      BY <1>1
    <3> QED
      BY <1>1, <3>1 DEF Inside, AreApart
  <2>2. s.todo[k] \in Ranges
    BY <1>1
  <2>3. s.todo[k].base \in Nat /\ s.todo[k].n \in Nat
    BY <2>2 DEF Ranges
  <2>4. r.base \in Nat /\ r.n \in Nat /\ p \in Nat
    BY <1>1
  <2>5. s.todo[k].base < p /\ p <= s.todo[k].base + s.todo[k].n
    BY <1>10 DEF Within
  <2>6. \/ s.todo[k].base + s.todo[k].n <= r.base
        \/ r.base + r.n <= s.todo[k].base
    BY <2>1 DEF Apart
  <2> HIDE DEF r
  <2>7. ~(r.base < p /\ p <= r.base + r.n)
    BY <2>3, <2>4, <2>5, <2>6
  <2> QED
    BY <2>7 DEF Within
<1> DEFINE a == r.base + s.j + 1
<1> DEFINE b == IF s.j = 0 THEN r.base + 2 ELSE r.base + 1
<1>11. /\ a \in 1 .. n /\ b \in 1 .. n /\ a # b
       /\ Within(r, a) /\ Within(r, b)
  <2>1. r.base \in Nat /\ r.n \in Nat /\ s.j \in Nat /\ n \in Nat
        /\ r.base + r.n <= n
    BY <1>1
  <2>2. s.j < r.n /\ r.n > 1
    BY <1>2
  <2> HIDE DEF r, n
  <2>3. a \in 1 .. n /\ b \in 1 .. n /\ a # b
    BY <2>1, <2>2
  <2>4. /\ r.base < a /\ a <= r.base + r.n
        /\ r.base < b /\ b <= r.base + r.n
    BY <2>1, <2>2
  <2> QED
    BY <2>3, <2>4 DEF Within
<1> HIDE DEF a, b, t, w
<1>12. ASSUME NEW p \in 1 .. n, NEW q \in 1 .. n, Together(t.todo, p, q)
       PROVE  Together(s.todo, p, q) /\ p # a
  <2>1. PICK k \in DOMAIN t.todo : Within(t.todo[k], p) /\ Within(t.todo[k], q)
    BY <1>12 DEF Together
  <2>2. k \in 1 .. m + 1 /\ Within(u[k], p) /\ Within(u[k], q)
    BY <1>6, <1>7, <2>1
  <2>3. CASE k \in {m, m + 1}
    <3>1. Within(r, p) /\ Within(r, q) /\ p # a
      BY <1>9, <2>2, <2>3 DEF a
    <3>2. m \in DOMAIN s.todo
      BY <1>1
    <3> QED
      BY <1>1, <3>1, <3>2 DEF Together
  <2>4. CASE k \in 1 .. m - 1
    <3>1. Within(s.todo[k], p) /\ Within(s.todo[k], q)
      BY <1>7, <2>2, <2>4
    <3>2. k \in DOMAIN s.todo
      <4> HIDE DEF m
      <4> QED
        BY <1>1, <2>4
    <3>3. p # a
      BY <1>10, <1>11, <2>4, <3>1
    <3> QED
      BY <3>1, <3>2, <3>3 DEF Together
  <2>5. k \in {m, m + 1} \/ k \in 1 .. m - 1
    <3> HIDE DEF m
    <3> QED
      BY <1>1, <2>2
  <2> QED
    BY <2>3, <2>4, <2>5
<1>13. Unsettled(t) \subseteq Unsettled(s)
  BY <1>4, <1>12 DEF Unsettled
<1>14. <<a, b>> \in Unsettled(s)
  <2>1. m \in DOMAIN s.todo
    BY <1>1
  <2>2. Together(s.todo, a, b)
    BY <1>1, <1>11, <2>1 DEF Together
  <2> QED
    BY <1>11, <2>2 DEF Unsettled
<1>15. <<a, b>> \notin Unsettled(t)
  BY <1>4, <1>11, <1>12 DEF Unsettled
<1> QED
  BY <1>13, <1>14, <1>15 DEF Fewer, t

(***************************************************************************)
(* An answer of the comparator.                                            *)
(***************************************************************************)
Nearer(t, s) ==
  \/ t.walks = "broken"
  \/ Fewer(Unsettled(t), Unsettled(s))
  \/ t.todo = s.todo /\ t.j - t.i < s.j - s.i

LEMMA IncrementNearer ==
  ASSUME NEW s, Inside(s), s.todo # << >>
  PROVE  Nearer(IncrementI(s), s)
<1>1. CASE s.i + 1 >= s.j
  BY <1>1, PartitionedSettles DEF IncrementI, Nearer
<1>2. CASE ~(s.i + 1 >= s.j)
  <2> DEFINE t == [s EXCEPT !.i = @ + 1, !.walks = "i"]
  <2>1. IncrementI(s) = t
    BY <1>2 DEF IncrementI
  <2>2. s \in SortType /\ s.i \in Nat /\ s.j \in Nat
    BY DEF Inside, SortType
  <2>3. t.todo = s.todo /\ t.i = s.i + 1 /\ t.j = s.j
    BY <2>2 DEF SortType
  <2> HIDE DEF t
  <2>4. t.j - t.i < s.j - s.i
    BY <2>2, <2>3
  <2> QED
    BY <2>1, <2>3, <2>4 DEF Nearer
<1> QED
  BY <1>1, <1>2

LEMMA ComparedNearer ==
  ASSUME NEW s, Inside(s), s.todo # << >>, s.walks # "broken", NEW answer \in Int
  PROVE  Nearer(Compared(s, answer), s)
<1>1. /\ s \in SortType /\ s.i \in Nat /\ s.j \in Nat
      /\ s.walks \in {"i", "j"} /\ (s.walks = "i" => s.i < s.j)
  BY DEF Inside, SortType
<1>2. CASE s.walks = "j" /\ answer > 0 /\ s.j = 0
  <2>1. Compared(s, answer) = [s EXCEPT !.walks = "broken"]
    BY <1>2 DEF Compared
  <2>2. Compared(s, answer).walks = "broken"
    BY <1>1, <2>1 DEF SortType
  <2> QED
    BY <2>2 DEF Nearer
<1>3. CASE s.walks = "j" /\ answer > 0 /\ s.j > 0
  <2> DEFINE t == [s EXCEPT !.j = @ - 1]
  <2>1. Compared(s, answer) = t
    BY <1>3 DEF Compared
  <2>2. t.todo = s.todo /\ t.i = s.i /\ t.j = s.j - 1
    BY <1>1 DEF SortType
  <2> HIDE DEF t
  <2>3. t.j - t.i < s.j - s.i
    BY <1>1, <2>2
  <2> QED
    BY <2>1, <2>2, <2>3 DEF Nearer
<1>4. CASE (s.walks = "j" /\ answer <= 0) \/ (s.walks = "i" /\ answer < 0)
  <2>1. Compared(s, answer) = IncrementI(s)
    BY <1>4 DEF Compared
  <2> QED
    BY <2>1, IncrementNearer
<1>5. CASE s.walks = "i" /\ answer >= 0
  <2> DEFINE w == Swapped(s.v, Current(s).base + s.i, Current(s).base + s.j)
  <2> DEFINE t == [s EXCEPT !.v = w, !.j = s.j - 1, !.walks = "j"]
  <2>1. Compared(s, answer) = t
    BY <1>5 DEF Compared
  <2> HIDE DEF w
  <2>2. t.todo = s.todo /\ t.i = s.i /\ t.j = s.j - 1
    BY <1>1 DEF SortType
  <2> HIDE DEF t
  <2>3. t.j - t.i < s.j - s.i
    BY <1>1, <2>2
  <2> QED
    BY <2>1, <2>2, <2>3 DEF Nearer
<1>6. s.j = 0 \/ s.j > 0
  BY <1>1
<1>7. (answer > 0 \/ answer <= 0) /\ (answer < 0 \/ answer >= 0)
  OBVIOUS
<1> QED
  BY <1>1, <1>2, <1>3, <1>4, <1>5, <1>6, <1>7

(***************************************************************************)
(* While a sort runs the thread is in it: nothing else touches the sort.   *)
(***************************************************************************)
LEMMA NearerStep ==
  ASSUME ContainerInv, [Next]_vars, Sorts, sort' # sort
  PROVE  ~Sorts' \/ Nearer(sort', sort)
<1>1. SortInv /\ Proper(array) /\ Matches(set)
  BY DEF ContainerInv, ArrayInv, SetInv, Strayed
<1>2. ~Idle
  BY DEF Idle
<1>3. CASE ArrayNext
  BY <1>1, <1>2, <1>3, ArrayStepKinds, KindsSort DEF SortArray
<1>4. CASE ComparatorNext
  <2>1. PICK answer \in Answers : CallComparator(answer)
    BY <1>4 DEF ComparatorNext
  <2>2. answer \in Int
    BY AnswersAssumption
  <2>3. /\ sort.todo # << >> /\ sort.walks # "broken"
        /\ sort' = Compared(sort, answer)
    BY <2>1 DEF CallComparator, Compare, Sorts, Done
  <2>4. Inside(sort)
    BY <1>1 DEF SortInv
  <2> QED
    BY <2>2, <2>3, <2>4, ComparedNearer
<1>5. CASE ComparatorRaises
  <2>1. Done(sort')
    BY <1>1, <1>5, RaiseSorts DEF ComparatorRaises
  <2> QED
    BY <2>1 DEF Sorts, Done
<1>6. CASE SetNext
  BY <1>1, <1>2, <1>6, SetStepKinds, KindsSort
<1>7. CASE LoopNext
  BY <1>2, <1>7, KindsSort DEF LoopNext
<1>8. CASE BeginAnew
  BY <1>8 DEF BeginAnew
<1>9. CASE UNCHANGED vars
  BY <1>9 DEF vars, sortingVars
<1> QED
  BY <1>3, <1>4, <1>5, <1>6, <1>7, <1>8, <1>9 DEF Next

(***************************************************************************)
(* Whatever the comparator answers, each answer brings a sort nearer to    *)
(* its end: mulle_qsort_pointers cannot go round in circles.               *)
(***************************************************************************)
THEOREM SortGoesForward == Spec => SortComesNearer
<1> DEFINE N == Sorts => \/ ~Sorts'
                         \/ /\ Unsettled(sort') \subseteq Unsettled(sort)
                            /\ Unsettled(sort') # Unsettled(sort)
                         \/ /\ sort'.todo = sort.todo
                            /\ sort'.j - sort'.i < sort.j - sort.i
<1>1. ContainerInv /\ [Next]_vars => [N]_sort
  BY NearerStep DEF Nearer, Fewer, Sorts
<1> QED
  BY <1>1, ContainerInvAlways, PTL DEF Spec, SortComesNearer
=============================================================================
