------------------------- MODULE SharedCachesProofs -------------------------
(***************************************************************************)
(* For any number of threads, buffers, lists and caches: the memory of a   *)
(* shared string is sound, the text of an ASCII string is always returned, *)
(* and both the text and the code lists are decided once.                  *)
(***************************************************************************)
EXTENDS SharedCaches, TLAPS

StringStep ==
  \/ \E t \in Threads: ReadShadow(t) \/ UTF8StringStep(t) \/ Release(t)
  \/ MakeString
ListStep == \E t \in Threads: QueryStep(t) \/ \E c \in Caches: AskFor(t, c)

\* Of the string or of the lists, one takes a step and the other does not.
LEMMA StepsApart ==
  ASSUME [Next]_vars
  PROVE  /\ (StringStep \/ UNCHANGED shadowVars)
         /\ (ListStep \/ UNCHANGED listVars)
         /\ (UNCHANGED shadowVars \/ UNCHANGED listVars)
<1>1. CASE UNCHANGED vars
  BY <1>1 DEF vars, shadowVars, listVars
<1>2. CASE MakeString /\ ListsStay
  BY <1>2 DEF StringStep, ListsStay, listVars
<1>3. ASSUME NEW t \in Threads, StringCall(t)
      PROVE  StringStep /\ UNCHANGED listVars
  BY <1>3 DEF StringCall, StringStep, ListsStay, listVars
<1>4. ASSUME NEW t \in Threads, ListCall(t)
      PROVE  ListStep /\ UNCHANGED shadowVars
  BY <1>4 DEF ListCall, ListStep
<1>. QED  BY <1>1, <1>2, <1>3, <1>4 DEF Next
-----------------------------------------------------------------------------
(* The string.                                                             *)

Pointers == Buffers \cup {NULL}
Answers == Pointers \cup {Unasked}
Places == {"outside", "test", "convert", "swap", "free", "return"}
Calls == [at : Places, shadow : Pointers, s : Pointers]

ShadowTypes ==
  /\ shadow \in Pointers
  /\ used \subseteq Buffers
  /\ owners \subseteq Threads
  /\ call \in [Threads -> Calls]
  /\ text \in [Threads -> Answers]

\* A buffer is allocated as long as the string or a call has it.
BuffersAreHeld ==
  \A b \in Buffers:
    b \in used <=> (b = shadow \/ \E t \in Threads: call[t].s = b)

\* Nobody has what another has.
BuffersAreApart ==
  \A t \in Threads: call[t].s # NULL =>
    /\ call[t].s # shadow
    /\ \A other \in Threads \ {t}: call[other].s # call[t].s

CallsAreInStep ==
  \A t \in Threads:
    /\ call[t].s # NULL <=> call[t].at \in {"swap", "free"}
    /\ call[t].at # "outside" => t \in owners
    /\ call[t].at \in {"free", "return"} => shadow # NULL
    /\ call[t].shadow \in {NULL, shadow}
    /\ call[t].at = "outside" => call[t].shadow = NULL

TextsAreTheShadow ==
  \A t \in Threads:
    text[t] # Unasked =>
      /\ t \in owners /\ shadow # NULL
      /\ text[t] = shadow \/ (Kind # "ASCII" /\ text[t] = NULL)

ShadowInv ==
  /\ ShadowTypes
  /\ BuffersAreHeld
  /\ BuffersAreApart
  /\ CallsAreInStep
  /\ TextsAreTheShadow

LEMMA ShadowStarts ==
  ASSUME ShadowInit
  PROVE  ShadowInv
BY NullAssumption
DEF ShadowInit, ShadowInv, ShadowTypes, BuffersAreHeld, BuffersAreApart,
    CallsAreInStep, TextsAreTheShadow, Pointers, Answers, Places, Calls, Outside

LEMMA ShadowStays ==
  ASSUME ShadowInv, StringStep \/ UNCHANGED shadowVars
  PROVE  ShadowInv'
<1>. USE NullAssumption
     DEF ShadowInv, ShadowTypes, BuffersAreHeld, BuffersAreApart,
         CallsAreInStep, TextsAreTheShadow, Pointers, Answers, Places, Calls
<1>1. ASSUME NEW t \in Threads, ReadShadow(t)  PROVE ShadowInv'
  BY <1>1 DEF ReadShadow
<1>2. ASSUME NEW t \in Threads, TestShadow(t)  PROVE ShadowInv'
  BY <1>2 DEF TestShadow, Goes
<1>3. ASSUME NEW t \in Threads, Convert(t)  PROVE ShadowInv'
  BY <1>3 DEF Convert
<1>4. ASSUME NEW t \in Threads, CompareAndSwap(t)  PROVE ShadowInv'
  BY <1>4, SMTT(30) DEF CompareAndSwap
<1>5. ASSUME NEW t \in Threads, FreeMine(t)  PROVE ShadowInv'
  BY <1>5 DEF FreeMine
<1>6. ASSUME NEW t \in Threads, ReturnText(t)  PROVE ShadowInv'
  BY <1>6 DEF ReturnText, Outside
<1>7. ASSUME NEW t \in Threads, Release(t)  PROVE ShadowInv'
  BY <1>7 DEF Release
<1>8. CASE MakeString
  BY <1>8 DEF MakeString
<1>9. CASE UNCHANGED shadowVars
  BY <1>9 DEF shadowVars
<1>. QED
  BY <1>1, <1>2, <1>3, <1>4, <1>5, <1>6, <1>7, <1>8, <1>9
  DEF StringStep, UTF8StringStep

\* At any time the memory of the string is sound, whatever its characters: a
\* buffer is freed once, by the thread that lost the race or by -dealloc.
THEOREM MemoryStaysSound == Spec => []MemoryIsSound
<1>1. ShadowInv => MemoryIsSound
  <2>. SUFFICES ASSUME ShadowInv  PROVE MemoryIsSound
    OBVIOUS
  <2>. USE NullAssumption
       DEF ShadowInv, ShadowTypes, BuffersAreHeld, BuffersAreApart,
           CallsAreInStep, TextsAreTheShadow, Pointers, Answers, Calls
  <2>1. used = ({shadow} \ {NULL}) \cup UNION {Mine(t) : t \in Threads}
    BY DEF Mine
  <2>2. ASSUME NEW t \in Threads
        PROVE  /\ shadow \notin Mine(t)
               /\ \A other \in Threads \ {t}: Mine(t) \cap Mine(other) = {}
               /\ text[t] \in used \cup {Unasked, NULL}
    BY DEF Mine
  <2>. QED  BY <2>1, <2>2 DEF MemoryIsSound
<1>2. Init => ShadowInv
  BY ShadowStarts DEF Init
<1>3. ShadowInv /\ [Next]_vars => ShadowInv'
  BY ShadowStays, StepsApart
<1>. QED  BY <1>1, <1>2, <1>3, PTL DEF Spec

\* -UTF8String of an ASCII string never returns NULL, whoever else is in it.
THEOREM TextStaysReturned ==
  ASSUME Kind = "ASCII"
  PROVE  Spec => []TextIsReturned
<1>1. ShadowInv => TextIsReturned
  BY NullAssumption DEF ShadowInv, TextsAreTheShadow, TextIsReturned
<1>2. Init => ShadowInv
  BY ShadowStarts DEF Init
<1>3. ShadowInv /\ [Next]_vars => ShadowInv'
  BY ShadowStays, StepsApart
<1>. QED  BY <1>1, <1>2, <1>3, PTL DEF Spec
-----------------------------------------------------------------------------
(* The lists.                                                              *)

Queries == [at : {"outside", "lock", "look", "unlock", "compute"},
            cache : Caches \cup {nil}, computed : Lists \cup {nil},
            codes : Lists \cup {nil}]

\* What a call has found is what the cache keeps.
ListInv ==
  /\ lists \in [Caches -> Lists \cup {nil}]
  /\ query \in [Threads -> Queries]
  /\ got \in [Caches -> [Threads -> Lists \cup {nil}]]
  /\ \A t \in Threads:
       /\ query[t].at = "outside" <=> query[t].cache = nil
       /\ query[t].at = "unlock" /\ query[t].codes # nil =>
            query[t].codes = lists[query[t].cache]

LEMMA ListsStart ==
  ASSUME ListInit
  PROVE  ListInv
BY NilAssumption DEF ListInit, ListInv, Queries, NoQuery

LEMMA ListsStayRight ==
  ASSUME ListInv, ListStep \/ UNCHANGED listVars
  PROVE  ListInv'
<1>. USE NilAssumption DEF ListInv, Queries
<1>1. ASSUME NEW t \in Threads, Lock(t)  PROVE ListInv'
  BY <1>1, ZenonT(60) DEF Lock
<1>2. ASSUME NEW t \in Threads, Look(t)  PROVE ListInv'
  <2>. DEFINE c == query[t].cache
  <2>1. c \in Caches /\ query[t] \in Queries /\ query[t].at = "look"
    BY <1>2 DEF Look
  <2>2. /\ lists' \in [Caches -> Lists \cup {nil}]
        /\ \A k \in Caches: lists[k] # nil => lists'[k] = lists[k]
    BY <1>2, <2>1 DEF Look
  <2>3. query' = [query EXCEPT ![t].at = "unlock", ![t].codes = lists'[c]]
    BY <1>2 DEF Look
  <2>4. query' \in [Threads -> Queries]
    BY <2>1, <2>2, <2>3
  <2>5. /\ query'[t].at = "unlock" /\ query'[t].cache = c
        /\ query'[t].codes = lists'[c]
        /\ \A other \in Threads \ {t}: query'[other] = query[other]
    BY <2>1, <2>3
  <2>6. got' = got
    BY <1>2 DEF Look
  <2>. QED  BY <2>1, <2>2, <2>4, <2>5, <2>6
<1>3. ASSUME NEW t \in Threads, Unlock(t)  PROVE ListInv'
  <2>1. CASE query[t].codes = nil
    <3>1. /\ query' = [query EXCEPT ![t].at = "compute"]
          /\ got' = got /\ lists' = lists /\ query[t].at = "unlock"
      BY <1>3, <2>1 DEF Unlock
    <3>2. /\ query'[t].at = "compute" /\ query'[t].cache = query[t].cache
          /\ query' \in [Threads -> Queries]
          /\ \A other \in Threads \ {t}: query'[other] = query[other]
      BY <3>1, ZenonT(60)
    <3>. QED  BY <3>1, <3>2
  <2>2. CASE query[t].codes # nil
    <3>1. /\ query[t].cache \in Caches /\ query[t].codes \in Lists
          /\ query' = [query EXCEPT ![t] = NoQuery] /\ lists' = lists
          /\ got' = [got EXCEPT ![query[t].cache][t] = query[t].codes]
      BY <1>3, <2>2 DEF Unlock
    <3>2. NoQuery \in Queries /\ NoQuery.at = "outside" /\ NoQuery.cache = nil
      BY DEF NoQuery
    <3>3. query' \in [Threads -> Queries] /\ query'[t] = NoQuery
      BY <3>1, <3>2
    <3>4. got' \in [Caches -> [Threads -> Lists \cup {nil}]]
      BY <3>1
    <3>. QED  BY <3>1, <3>2, <3>3, <3>4
  <2>. QED  BY <2>1, <2>2
<1>4. ASSUME NEW t \in Threads, Compute(t)  PROVE ListInv'
  <2>1. PICK computed \in Lists:
          query' = [query EXCEPT ![t].at = "lock", ![t].computed = computed]
    BY <1>4 DEF Compute
  <2>2. query[t].at = "compute" /\ lists' = lists /\ got' = got
    BY <1>4 DEF Compute
  <2>3. /\ query' \in [Threads -> Queries] /\ query'[t].at = "lock"
        /\ query'[t].cache = query[t].cache
        /\ \A other \in Threads \ {t}: query'[other] = query[other]
    BY <2>1, ZenonT(60)
  <2>. QED  BY <2>2, <2>3
<1>5. ASSUME NEW t \in Threads, NEW c \in Caches, AskFor(t, c)  PROVE ListInv'
  BY <1>5 DEF AskFor, NoQuery
<1>6. CASE UNCHANGED listVars
  BY <1>6 DEF listVars
<1>. QED  BY <1>1, <1>2, <1>3, <1>4, <1>5, <1>6 DEF ListStep, QueryStep
-----------------------------------------------------------------------------
(* Both are decided once.                                                  *)

LEMMA TextStarts ==
  ASSUME ShadowInit
  PROVE  Text!LInit
BY NullAssumption DEF ShadowInit, Text!LInit, Outside

LEMMA TextSteps ==
  ASSUME Kind = "ASCII", ShadowInv, StringStep \/ UNCHANGED shadowVars
  PROVE  [Text!LNext]_(Text!lazyVars)
<1>. USE NullAssumption
     DEF ShadowInv, ShadowTypes, CallsAreInStep, TextsAreTheShadow, Pointers,
         Answers, Calls, Text!lazyVars
<1>1. ASSUME NEW t \in Threads, ReadShadow(t)  PROVE Text!LNext
  <2>1. /\ call[t].at = "outside" /\ call'[t].at = "test"
        /\ \A other \in Threads \ {t}: call'[other] = call[other]
    BY <1>1 DEF ReadShadow
  <2>2. {x \in Threads: call'[x].at # "outside"}
          = {x \in Threads: call[x].at # "outside"} \cup {t}
    BY <2>1
  <2>3. Text!Ask(t, "text")
    BY <1>1, <2>1, <2>2, ZenonT(60) DEF ReadShadow, Text!Ask
  <2>. QED  BY <2>3 DEF Text!LNext
<1>2. ASSUME NEW t \in Threads, TestShadow(t)  PROVE UNCHANGED Text!lazyVars
  BY <1>2 DEF TestShadow, Goes
<1>3. ASSUME NEW t \in Threads, Convert(t)  PROVE UNCHANGED Text!lazyVars
  BY <1>3 DEF Convert
<1>4. ASSUME NEW t \in Threads, CompareAndSwap(t)
      PROVE  [Text!LNext]_(Text!lazyVars)
  <2>1. CASE shadow = NULL
    <3>1. Text!Decide("text", call[t].s) /\ call[t].s \in Buffers
      BY <1>4, <2>1 DEF CompareAndSwap, Text!Decide
    <3>. QED  BY <3>1 DEF Text!LNext
  <2>2. CASE shadow # NULL
    BY <1>4, <2>2 DEF CompareAndSwap
  <2>. QED  BY <2>1, <2>2
<1>5. ASSUME NEW t \in Threads, FreeMine(t)  PROVE UNCHANGED Text!lazyVars
  BY <1>5 DEF FreeMine
<1>6. ASSUME NEW t \in Threads, ReturnText(t)  PROVE Text!LNext
  <2>1. Text!Answer(t, "text")
    BY <1>6 DEF ReturnText, Text!Answer, Outside
  <2>. QED  BY <2>1 DEF Text!LNext
<1>7. ASSUME NEW t \in Threads, Release(t)  PROVE Text!LNext
  <2>1. Text!GiveBack(t, "text")
    BY <1>7 DEF Release, Text!GiveBack
  <2>. QED  BY <2>1 DEF Text!LNext
<1>8. CASE MakeString
  BY <1>8 DEF MakeString
<1>9. CASE UNCHANGED shadowVars
  BY <1>9 DEF shadowVars
<1>. QED
  BY <1>1, <1>2, <1>3, <1>4, <1>5, <1>6, <1>7, <1>8, <1>9
  DEF StringStep, UTF8StringStep

LEMMA CodesStart ==
  ASSUME ListInit
  PROVE  Codes!LInit
BY NilAssumption DEF ListInit, Codes!LInit, NoQuery, Asking

\* A thread that goes on in its call asks for the same.
LEMMA AskingStays ==
  ASSUME \A t \in Threads: query'[t].cache = query[t].cache
  PROVE  Asking' = Asking
BY DEF Asking

LEMMA AskingStarts ==
  ASSUME NEW t \in Threads, NEW c \in Caches, query[t].cache = nil,
         query'[t].cache = c,
         \A other \in Threads \ {t}: query'[other].cache = query[other].cache
  PROVE  t \notin Asking[c] /\ Asking' = [Asking EXCEPT ![c] = Asking[c] \cup {t}]
<1>1. Asking'[c] = Asking[c] \cup {t}
  BY DEF Asking
<1>2. \A k \in Caches \ {c}: Asking'[k] = Asking[k]
  BY NilAssumption DEF Asking
<1>. QED  BY <1>1, <1>2, NilAssumption DEF Asking

LEMMA AskingEnds ==
  ASSUME NEW t \in Threads, NEW c \in Caches, query[t].cache = c,
         query'[t].cache = nil,
         \A other \in Threads \ {t}: query'[other].cache = query[other].cache
  PROVE  t \in Asking[c] /\ Asking' = [Asking EXCEPT ![c] = Asking[c] \ {t}]
<1>1. Asking'[c] = Asking[c] \ {t}
  BY NilAssumption DEF Asking
<1>2. \A k \in Caches \ {c}: Asking'[k] = Asking[k]
  BY NilAssumption DEF Asking
<1>. QED  BY <1>1, <1>2 DEF Asking

LEMMA CodesStep ==
  ASSUME ListInv, ListStep \/ UNCHANGED listVars
  PROVE  [Codes!LNext]_(Codes!lazyVars)
<1>. USE DEF ListInv, Queries, Codes!lazyVars
<1>1. ASSUME NEW t \in Threads, Lock(t)  PROVE UNCHANGED Codes!lazyVars
  BY <1>1, AskingStays DEF Lock
<1>2. ASSUME NEW t \in Threads, Look(t)  PROVE [Codes!LNext]_(Codes!lazyVars)
  <2>. DEFINE c == query[t].cache
              v == query[t].computed
  <2>1. \A other \in Threads: query'[other].cache = query[other].cache
    BY <1>2 DEF Look
  <2>2. c \in Caches /\ got' = got /\ Asking' = Asking /\ Asking[c] # {}
    BY <1>2, <2>1, AskingStays DEF Look, Asking
  <2>3. CASE lists[c] = nil /\ v # nil
    <3>1. v \in Lists /\ lists' = [lists EXCEPT ![c] = v]
      BY <1>2, <2>3 DEF Look
    <3>2. Codes!Decide(c, v)
      BY <2>2, <2>3, <3>1 DEF Codes!Decide
    <3>. QED  BY <2>2, <3>1, <3>2 DEF Codes!LNext
  <2>4. CASE ~(lists[c] = nil /\ v # nil)
    <3>1. lists' = lists
      BY <1>2, <2>4 DEF Look
    <3>. QED  BY <2>2, <3>1
  <2>. QED  BY <2>3, <2>4
<1>3. ASSUME NEW t \in Threads, Unlock(t)
      PROVE  [Codes!LNext]_(Codes!lazyVars)
  <2>1. CASE query[t].codes = nil
    <3>1. lists' = lists /\ got' = got
      BY <1>3, <2>1 DEF Unlock
    <3>2. \A other \in Threads: query'[other].cache = query[other].cache
      BY <1>3, <2>1 DEF Unlock
    <3>. QED  BY <3>1, <3>2, AskingStays
  <2>2. CASE query[t].codes # nil
    <3>1. PICK c \in Caches:
            c = query[t].cache /\ lists[c] # nil /\ query[t].codes = lists[c]
      BY <1>3, <2>2 DEF Unlock
    <3>2. /\ query' = [query EXCEPT ![t] = NoQuery] /\ lists' = lists
          /\ got' = [got EXCEPT ![c][t] = lists[c]]
      BY <1>3, <2>2, <3>1 DEF Unlock
    <3>3. /\ query'[t].cache = nil
          /\ \A other \in Threads \ {t}: query'[other].cache = query[other].cache
      BY <3>2 DEF NoQuery
    <3>4. t \in Asking[c] /\ Asking' = [Asking EXCEPT ![c] = Asking[c] \ {t}]
      BY <3>1, <3>3, AskingEnds
    <3>5. Codes!Answer(t, c)
      BY <3>1, <3>2, <3>4 DEF Codes!Answer
    <3>6. Codes!LNext
      BY <3>1, <3>5 DEF Codes!LNext
    <3>. QED  BY <3>6
  <2>. QED  BY <2>1, <2>2
<1>4. ASSUME NEW t \in Threads, Compute(t)  PROVE UNCHANGED Codes!lazyVars
  <2>1. PICK computed \in Lists:
          query' = [query EXCEPT ![t].at = "lock", ![t].computed = computed]
    BY <1>4 DEF Compute
  <2>2. \A other \in Threads: query'[other].cache = query[other].cache
    BY <2>1
  <2>. QED  BY <1>4, <2>2, AskingStays DEF Compute
<1>5. ASSUME NEW t \in Threads, NEW c \in Caches, AskFor(t, c)
      PROVE  Codes!LNext
  <2>1. /\ query[t].cache = nil /\ query'[t].cache = c
        /\ \A other \in Threads \ {t}: query'[other].cache = query[other].cache
    BY <1>5 DEF AskFor, NoQuery
  <2>2. t \notin Asking[c] /\ Asking' = [Asking EXCEPT ![c] = Asking[c] \cup {t}]
    BY <2>1, AskingStarts
  <2>3. Codes!Ask(t, c)
    BY <1>5, <2>2 DEF AskFor, Codes!Ask
  <2>. QED  BY <2>3 DEF Codes!LNext
<1>6. CASE UNCHANGED listVars
  BY <1>6, AskingStays DEF listVars
<1>. QED  BY <1>1, <1>2, <1>3, <1>4, <1>5, <1>6 DEF ListStep, QueryStep

\* The text of the string and each code list are decided once, and everyone is
\* given what was decided.
THEOREM DecidedForAll ==
  ASSUME Kind = "ASCII"
  PROVE  Spec => DecidedOnce
<1>1. Init => ShadowInv /\ ListInv /\ Text!LInit /\ Codes!LInit
  BY ShadowStarts, ListsStart, TextStarts, CodesStart DEF Init
<1>2. ShadowInv /\ [Next]_vars => ShadowInv' /\ [Text!LNext]_(Text!lazyVars)
  BY ShadowStays, TextSteps, StepsApart
<1>3. ListInv /\ [Next]_vars => ListInv' /\ [Codes!LNext]_(Codes!lazyVars)
  BY ListsStayRight, CodesStep, StepsApart
<1>. QED
  BY <1>1, <1>2, <1>3, PTL DEF Spec, DecidedOnce, Text!LazySpec, Codes!LazySpec
=============================================================================
