---------------------- MODULE NotificationCenterProofs ----------------------
(***************************************************************************)
(* Proofs about the notification center, for any number of threads,        *)
(* observers, names and senders, and any bounds.                           *)
(***************************************************************************)
EXTENDS NotificationCenter, PointerQueueProofs

Frames == PostFrames \union OtherFrames

-----------------------------------------------------------------------------
(***************************************************************************)
(* Keys.  A key says which map and which entry, so no two registrations    *)
(* that differ in name or sender share one.                                *)
(***************************************************************************)
LEMMA KeyType ==
  ASSUME NEW n \in Names \union {Nil}, NEW s \in Senders \union {Nil}
  PROVE  Key(n, s) \in Keys
BY DEF Key, Keys, NameKey, SenderKey, PairKey

LEMMA KeyInjective ==
  ASSUME NEW n \in Names \union {Nil}, NEW s \in Senders \union {Nil},
         NEW m \in Names \union {Nil}, NEW u \in Senders \union {Nil},
         Key(n, s) = Key(m, u)
  PROVE  n = m /\ s = u
BY ConstantsAssumption DEF Key, NameKey, SenderKey, PairKey

LEMMA RouteType ==
  ASSUME NEW n \in Names, NEW s \in Senders \union {Nil}
  PROVE  /\ Route(n, s) \in Seq(Keys)
         /\ Route(n, s) # << >>
<1> DEFINE last2 == <<NameKey(n), SenderKey(Omniscient)>>
<1>1. last2 \in Seq(Keys) /\ Len(last2) = 2
  BY DEF Keys
<1>2. CASE s = Nil
  <2>1. Route(n, s) = << >> \o last2
    BY <1>2 DEF Route
  <2> QED
    BY <1>1, <2>1
<1>3. CASE s # Nil
  <2> DEFINE first2 == <<PairKey(n, s), SenderKey(s)>>
  <2>1. first2 \in Seq(Keys)
    BY <1>3 DEF Keys
  <2>2. Route(n, s) = first2 \o last2
    BY <1>3 DEF Route
  <2> HIDE DEF first2, last2
  <2>3. Route(n, s) \in Seq(Keys) /\ Len(Route(n, s)) = Len(first2) + 2
    BY <1>1, <2>1, <2>2, ConcatProperties
  <2> QED
    BY <2>1, <2>3
<1> QED
  BY <1>2, <1>3

-----------------------------------------------------------------------------
(***************************************************************************)
(* Stacks.  After a push, a pop or a change of the top frame f of t, every *)
(* frame is either f or the one that was at its place.                     *)
(***************************************************************************)
OnlyTopChanges(t, f) ==
  \A u \in Threads : \A d \in DOMAIN stack'[u] :
    \/ u = t /\ d = Len(stack'[t]) /\ stack'[u][d] = f
    \/ d \in DOMAIN stack[u] /\ stack'[u][d] = stack[u][d]

LEMMA PushFrame ==
  ASSUME NEW F, stack \in [Threads -> Seq(F)],
         NEW t \in Threads, NEW f \in F, Push(t, f)
  PROVE  /\ stack' \in [Threads -> Seq(F)]
         /\ OnlyTopChanges(t, f)
         /\ stack'[t] # << >> /\ Last(stack'[t]) = f
         /\ Len(stack'[t]) = Len(stack[t]) + 1
         /\ \A u \in Threads \ {t} : stack'[u] = stack[u]
<1>1. stack' = [stack EXCEPT ![t] = Append(stack[t], f)]
  BY DEF Push
<1>2. /\ stack[t] \in Seq(F)
      /\ Append(stack[t], f) \in Seq(F)
      /\ Len(Append(stack[t], f)) = Len(stack[t]) + 1
      /\ DOMAIN stack[t] = 1 .. Len(stack[t])
      /\ DOMAIN Append(stack[t], f) = 1 .. (Len(stack[t]) + 1)
      /\ \A d \in 1 .. Len(stack[t]) : Append(stack[t], f)[d] = stack[t][d]
      /\ Append(stack[t], f)[Len(stack[t]) + 1] = f
  OBVIOUS
<1>3. stack' \in [Threads -> Seq(F)] /\ stack'[t] = Append(stack[t], f)
  BY <1>1, <1>2
<1>4. \A u \in Threads \ {t} : stack'[u] = stack[u]
  BY <1>1
<1>5. OnlyTopChanges(t, f)
  <2> SUFFICES ASSUME NEW u \in Threads, NEW d \in DOMAIN stack'[u]
               PROVE  \/ u = t /\ d = Len(stack'[t]) /\ stack'[u][d] = f
                      \/ d \in DOMAIN stack[u] /\ stack'[u][d] = stack[u][d]
    BY DEF OnlyTopChanges
  <2>1. CASE u = t
    <3>1. d \in 1 .. (Len(stack[t]) + 1) /\ Len(stack'[t]) = Len(stack[t]) + 1
      BY <1>2, <1>3, <2>1
    <3>2. CASE d = Len(stack[t]) + 1
      BY <1>2, <1>3, <2>1, <3>1, <3>2
    <3>3. CASE d \in 1 .. Len(stack[t])
      BY <1>2, <1>3, <2>1, <3>3
    <3> QED
      BY <1>2, <3>1, <3>2, <3>3
  <2>2. CASE u # t
    BY <1>4, <2>2
  <2> QED
    BY <2>1, <2>2
<1> QED
  BY <1>2, <1>3, <1>4, <1>5 DEF Last

LEMMA BecomeFrame ==
  ASSUME NEW F, stack \in [Threads -> Seq(F)],
         NEW t \in Threads, stack[t] # << >>, NEW f \in F, Become(t, f)
  PROVE  /\ stack' \in [Threads -> Seq(F)]
         /\ OnlyTopChanges(t, f)
         /\ stack'[t] # << >> /\ Last(stack'[t]) = f
         /\ Len(stack'[t]) = Len(stack[t])
         /\ \A u \in Threads \ {t} : stack'[u] = stack[u]
<1> DEFINE q == [stack[t] EXCEPT ![Len(stack[t])] = f]
<1>1. stack' = [stack EXCEPT ![t] = q]
  BY DEF Become
<1>2. /\ stack[t] \in Seq(F)
      /\ Len(stack[t]) \in Nat /\ Len(stack[t]) >= 1
      /\ DOMAIN stack[t] = 1 .. Len(stack[t])
  OBVIOUS
<1>3. /\ q \in Seq(F)
      /\ Len(q) = Len(stack[t])
      /\ \A d \in 1 .. Len(stack[t]) : q[d] = IF d = Len(stack[t]) THEN f ELSE stack[t][d]
  BY <1>2, ExceptSeq
<1> HIDE DEF q
<1>4. stack' \in [Threads -> Seq(F)] /\ stack'[t] = q
  BY <1>1, <1>3
<1>5. \A u \in Threads \ {t} : stack'[u] = stack[u]
  BY <1>1
<1>6. DOMAIN q = 1 .. Len(q)
  BY <1>3
<1>7. OnlyTopChanges(t, f)
  BY <1>2, <1>3, <1>4, <1>5, <1>6 DEF OnlyTopChanges
<1>8. q[Len(q)] = f /\ q # << >>
  <2>1. Len(q) = Len(stack[t])
    BY <1>3
  <2>2. Len(stack[t]) \in 1 .. Len(stack[t])
    BY <1>2
  <2>3. q[Len(stack[t])] = f
    BY <1>3, <2>2
  <2>4. q # << >>
    BY <1>2, <2>1
  <2> QED
    BY <2>1, <2>3, <2>4
<1>9. Last(stack'[t]) = f /\ stack'[t] # << >>
  BY <1>4, <1>8 DEF Last
<1> QED
  BY <1>3, <1>4, <1>5, <1>7, <1>9

LEMMA PopFrame ==
  ASSUME NEW F, stack \in [Threads -> Seq(F)],
         NEW t \in Threads, stack[t] # << >>, Pop(t)
  PROVE  /\ stack' \in [Threads -> Seq(F)]
         /\ \A u \in Threads : \A d \in DOMAIN stack'[u] :
              d \in DOMAIN stack[u] /\ stack'[u][d] = stack[u][d]
         /\ Len(stack'[t]) = Len(stack[t]) - 1
         /\ stack'[t] # << >> => Last(stack'[t]) = stack[t][Len(stack[t]) - 1]
         /\ \A u \in Threads \ {t} : stack'[u] = stack[u]
<1>1. stack' = [stack EXCEPT ![t] = Front(stack[t])]
  BY DEF Pop
<1>2. /\ Front(stack[t]) \in Seq(F)
      /\ Len(Front(stack[t])) = Len(stack[t]) - 1
      /\ \A i \in 1 .. Len(Front(stack[t])) : Front(stack[t])[i] = stack[t][i]
  BY FrontProperties
<1>3. stack' \in [Threads -> Seq(F)] /\ stack'[t] = Front(stack[t])
  BY <1>1, <1>2
<1>4. \A u \in Threads \ {t} : stack'[u] = stack[u]
  BY <1>1
<1>5. ASSUME NEW u \in Threads, NEW d \in DOMAIN stack'[u]
      PROVE  d \in DOMAIN stack[u] /\ stack'[u][d] = stack[u][d]
  <2>1. CASE u # t
    BY <1>4, <1>5, <2>1
  <2>2. CASE u = t
    <3> DEFINE s == Front(stack[t])
    <3>1. s \in Seq(F) /\ stack[t] \in Seq(F)
      BY <1>2
    <3>2. d \in 1 .. Len(s) /\ d \in 1 .. Len(stack[t])
      BY <1>2, <1>3, <1>5, <2>2, <3>1
    <3>3. stack'[u][d] = stack[u][d]
      BY <1>2, <1>3, <2>2, <3>2
    <3> QED
      BY <2>2, <3>1, <3>2, <3>3
  <2> QED
    BY <2>1, <2>2
<1>6. stack'[t] # << >> => Last(stack'[t]) = stack[t][Len(stack[t]) - 1]
  BY <1>2, <1>3 DEF Last
<1> QED
  BY <1>2, <1>3, <1>4, <1>5, <1>6

-----------------------------------------------------------------------------
(***************************************************************************)
(* Frames.  The method of a frame says which fields it has.                *)
(***************************************************************************)
LEMMA TopType ==
  ASSUME TypeOK, NEW t \in Threads, stack[t] # << >>
  PROVE  /\ stack \in [Threads -> Seq(Frames)]
         /\ Top(t) \in Frames
         /\ Len(stack[t]) \in Nat \ {0}
<1>1. stack \in [Threads -> Seq(Frames)] /\ stack[t] \in Seq(Frames)
  BY DEF TypeOK, Frames
<1>2. Len(stack[t]) \in Nat \ {0}
  BY <1>1
<1>3. stack[t][Len(stack[t])] \in Frames
  BY <1>1, <1>2
<1> QED
  BY <1>1, <1>2, <1>3 DEF Top, Last

LEMMA PostFrameType ==
  ASSUME NEW f \in Frames, f.op = "post"
  PROVE  f \in PostFrames
BY DEF Frames, OtherFrames

LEMMA AddFrameType ==
  ASSUME NEW f \in Frames, f.op \in {"add", "remove"}
  PROVE  /\ f \in [op : {"add", "remove"}, pc : {"enter", "leave"}, observer : Observers,
                   name : Names \union {Nil}, sender : Senders \union {Nil}]
         /\ [f EXCEPT !.pc = "leave"] \in Frames
<1>1. f \in [op : {"add", "remove"}, pc : {"enter", "leave"}, observer : Observers,
             name : Names \union {Nil}, sender : Senders \union {Nil}]
  BY DEF Frames, OtherFrames, PostFrames
<1>2. [f EXCEPT !.pc = "leave"]
        \in [op : {"add", "remove"}, pc : {"enter", "leave"}, observer : Observers,
             name : Names \union {Nil}, sender : Senders \union {Nil}]
  BY <1>1
<1> QED
  BY <1>1, <1>2 DEF Frames, OtherFrames

LEMMA RemoveAllFrameType ==
  ASSUME NEW f \in Frames, f.op = "removeAll"
  PROVE  /\ f.observer \in Observers
         /\ [f EXCEPT !.pc = "leave"] \in Frames
<1>1. f \in [op : {"removeAll"}, pc : {"enter", "leave"}, observer : Observers]
  BY DEF Frames, OtherFrames, PostFrames
<1>2. [f EXCEPT !.pc = "leave"]
        \in [op : {"removeAll"}, pc : {"enter", "leave"}, observer : Observers]
  BY <1>1
<1> QED
  BY <1>1, <1>2 DEF Frames, OtherFrames

(***************************************************************************)
(* The changes a post makes to its frame.                                  *)
(***************************************************************************)
PostFrameFields ==
  [op : {"post"}, pc : {"copy", "copied", "next", "check", "present", "absent", "calling"},
   name : Names, sender : Senders \union {Nil},
   route : Seq(Keys), buf : Seq(Triplet), gen : Nat, start : Nat,
   called : Seq([key : Keys, reg : Nat])]

LEMMA PostFrameHas ==
  ASSUME NEW f \in PostFrames
  PROVE  /\ f \in PostFrameFields
         /\ f.route # << >>
         /\ f.pc \in {"check", "present", "absent", "calling"} => f.buf # << >>
         /\ Head(f.route) \in Keys
         /\ Tail(f.route) \in Seq(Keys)
         /\ Len(f.route) > 1 => Tail(f.route) # << >>
         /\ f.buf # << >> => Last(f.buf) \in Triplet /\ Front(f.buf) \in Seq(Triplet)
<1>1. /\ f \in PostFrameFields
      /\ f.route # << >>
      /\ f.pc \in {"check", "present", "absent", "calling"} => f.buf # << >>
  BY DEF PostFrames, PostFrameFields
<1>2. f.route \in Seq(Keys) /\ f.buf \in Seq(Triplet)
  BY <1>1 DEF PostFrameFields
<1>3. /\ Head(f.route) \in Keys
      /\ Tail(f.route) \in Seq(Keys)
      /\ Len(f.route) > 1 => Tail(f.route) # << >>
  BY <1>1, <1>2, HeadTailProperties, TailNotEmpty
<1>4. f.buf # << >> => Last(f.buf) \in Triplet /\ Front(f.buf) \in Seq(Triplet)
  BY <1>2, FrontProperties
<1> QED
  BY <1>1, <1>3, <1>4

LEMMA CopiedFrameType ==
  ASSUME NEW f \in PostFrames, NEW g \in Nat, NEW q \in Seq(Triplet)
  PROVE  [f EXCEPT !.pc = "copied", !.gen = g, !.buf = q] \in PostFrames
BY PostFrameHas DEF PostFrameFields, PostFrames

LEMMA PostFrameSteps ==
  ASSUME NEW f \in PostFrames
  PROVE  /\ [f EXCEPT !.pc = "next"] \in PostFrames
         /\ f.buf # << >> => /\ [f EXCEPT !.pc = "next", !.buf = Front(@)] \in PostFrames
                             /\ [f EXCEPT !.pc = "check"] \in PostFrames
                             /\ [f EXCEPT !.pc = "present"] \in PostFrames
                             /\ [f EXCEPT !.pc = "absent"] \in PostFrames
                             /\ Calling(f) \in PostFrames
         /\ Len(f.route) > 1 =>
              [f EXCEPT !.pc = "copy", !.gen = 0, !.route = Tail(@)] \in PostFrames
<1>1. /\ f \in PostFrameFields
      /\ f.route # << >>
      /\ Head(f.route) \in Keys
      /\ Tail(f.route) \in Seq(Keys)
      /\ Len(f.route) > 1 => Tail(f.route) # << >>
      /\ f.buf # << >> => Last(f.buf) \in Triplet /\ Front(f.buf) \in Seq(Triplet)
  BY PostFrameHas
<1>2. [f EXCEPT !.pc = "next"] \in PostFrames
  BY <1>1 DEF PostFrameFields, PostFrames
<1>3. ASSUME f.buf # << >>
      PROVE  /\ [f EXCEPT !.pc = "next", !.buf = Front(@)] \in PostFrames
             /\ [f EXCEPT !.pc = "check"] \in PostFrames
             /\ [f EXCEPT !.pc = "present"] \in PostFrames
             /\ [f EXCEPT !.pc = "absent"] \in PostFrames
  BY <1>1, <1>3 DEF PostFrameFields, PostFrames
<1>4. ASSUME f.buf # << >>
      PROVE  Calling(f) \in PostFrames
  <2> DEFINE x == [key |-> Head(f.route), reg |-> Last(f.buf).reg]
  <2>1. x \in [key : Keys, reg : Nat]
    BY <1>1, <1>4 DEF Triplet
  <2>2. f.called \in Seq([key : Keys, reg : Nat])
    BY <1>1 DEF PostFrameFields
  <2> HIDE DEF x
  <2>3. Append(f.called, x) \in Seq([key : Keys, reg : Nat])
    BY <2>1, <2>2
  <2>4. [f EXCEPT !.pc = "calling", !.called = Append(@, x)] \in PostFrames
    BY <1>1, <1>4, <2>3 DEF PostFrameFields, PostFrames
  <2> QED
    BY <2>4 DEF Calling, x
<1>5. ASSUME Len(f.route) > 1
      PROVE  [f EXCEPT !.pc = "copy", !.gen = 0, !.route = Tail(@)] \in PostFrames
  BY <1>1, <1>5 DEF PostFrameFields, PostFrames
<1> QED
  BY <1>2, <1>3, <1>4, <1>5

-----------------------------------------------------------------------------
(***************************************************************************)
(* Type correctness.                                                       *)
(***************************************************************************)
StackType == stack \in [Threads -> Seq(Frames)]

LEMMA FinalizeFrameType == FinalizeFrame \in Frames
BY DEF FinalizeFrame, Frames, OtherFrames

LEMMA NewPostFrameType ==
  ASSUME generation \in Nat, NEW n \in Names, NEW s \in Senders \union {Nil}
  PROVE  PostFrame(n, s) \in PostFrames /\ PostFrame(n, s) \in Frames
<1>1. Route(n, s) \in Seq(Keys) /\ Route(n, s) # << >>
  BY RouteType
<1>2. PostFrame(n, s) \in PostFrames
  BY <1>1 DEF PostFrame, PostFrames
<1> QED
  BY <1>2 DEF Frames

(***************************************************************************)
(* A remove leaves maps of the same type.                                  *)
(***************************************************************************)
LEMMA UnregisterType ==
  ASSUME TypeOK, NEW o \in Observers, NEW n, NEW s, Unregister(o, n, s)
  PROVE  /\ IsMap(triplets', Keys, Triplet)
         /\ IsMap(pairs', Observers, Pair)
         /\ generation' \in Nat
<1>1. CASE o \notin DOMAIN pairs
  BY <1>1 DEF Unregister, registries, TypeOK
<1>2. CASE o \in DOMAIN pairs
  <2>1. PICK ks, G, H : /\ triplets' = KeepFor(triplets, ks, G)
                        /\ pairs' = KeepFor(pairs, {o}, H)
                        /\ generation' = generation + 1
    BY <1>2 DEF Unregister
  <2>2. IsMap(triplets, Keys, Triplet) /\ IsMap(pairs, Observers, Pair) /\ generation \in Nat
    BY DEF TypeOK
  <2>3. IsMap(triplets', Keys, Triplet)
    BY <2>1, <2>2, KeepForProperties
  <2>4. IsMap(pairs', Observers, Pair)
    BY <2>1, <2>2, KeepForProperties
  <2> QED
    BY <2>1, <2>2, <2>3, <2>4
<1> QED
  BY <1>1, <1>2

LEMMA AddType ==
  ASSUME TypeOK, NEW t \in Threads, Add(t)
  PROVE  /\ IsMap(triplets', Keys, Triplet)
         /\ IsMap(pairs', Observers, Pair)
         /\ generation' \in Nat
<1> DEFINE f == Top(t)
<1>1. f \in Frames /\ f.op = "add"
  BY TopType DEF Add, At
<1>2. /\ f.observer \in Observers
      /\ f.name \in Names \union {Nil}
      /\ f.sender \in Senders \union {Nil}
  BY <1>1, AddFrameType
<1>3. /\ triplets' = Enqueue(triplets, Key(f.name, f.sender),
                             [observer |-> f.observer, reg |-> generation])
      /\ pairs' = Enqueue(pairs, f.observer,
                          [name |-> f.name, sender |-> f.sender, reg |-> generation])
      /\ generation' = generation + 1
  BY DEF Add
<1> HIDE DEF f
<1>4. IsMap(triplets, Keys, Triplet) /\ IsMap(pairs, Observers, Pair) /\ generation \in Nat
  BY DEF TypeOK
<1>5. /\ [observer |-> f.observer, reg |-> generation] \in Triplet
      /\ [name |-> f.name, sender |-> f.sender, reg |-> generation] \in Pair
      /\ Key(f.name, f.sender) \in Keys
  BY <1>2, <1>4, KeyType DEF Triplet, Pair
<1>6. IsMap(triplets', Keys, Triplet)
  BY <1>3, <1>4, <1>5, EnqueueProperties
<1>7. IsMap(pairs', Observers, Pair)
  BY <1>2, <1>3, <1>4, <1>5, EnqueueProperties
<1> QED
  BY <1>3, <1>4, <1>6, <1>7

(***************************************************************************)
(* A thread whose top frame is at a place of a method: what that frame is, *)
(* and what moving it keeps.                                               *)
(***************************************************************************)
LEMMA AtPost ==
  ASSUME TypeOK, NEW t \in Threads, NEW pc, At(t, "post", pc)
  PROVE  /\ stack[t] # << >> /\ StackType /\ generation \in Nat
         /\ Top(t) \in PostFrames /\ Top(t).pc = pc
<1>1. stack[t] # << >> /\ Top(t).op = "post" /\ Top(t).pc = pc
  BY DEF At
<1> QED
  BY <1>1, TopType, PostFrameType DEF StackType, TypeOK

LEMMA BecomeType ==
  ASSUME StackType, NEW t \in Threads, stack[t] # << >>, NEW f \in Frames, Become(t, f)
  PROVE  StackType'
BY BecomeFrame DEF StackType

LEMMA PushType ==
  ASSUME StackType, NEW t \in Threads, NEW f \in Frames, Push(t, f)
  PROVE  StackType'
BY PushFrame DEF StackType

LEMMA PopType ==
  ASSUME StackType, NEW t \in Threads, stack[t] # << >>, Pop(t)
  PROVE  StackType'
BY PopFrame DEF StackType

LEMMA CallStackType ==
  ASSUME TypeOK, NEW t \in Threads, Call(t)
  PROVE  StackType'
<1> StackType
  BY DEF TypeOK, StackType, Frames
<1>1. ASSUME NEW o \in Observers, NEW n \in Names \union {Nil}, NEW s \in Senders \union {Nil},
             CallAdd(t, o, n, s) \/ CallRemove(t, o, n, s)
      PROVE  StackType'
  <2>1. AddFrame(o, n, s) \in Frames /\ RemoveFrame(o, n, s) \in Frames
    BY DEF AddFrame, RemoveFrame, Frames, OtherFrames
  <2>2. Push(t, AddFrame(o, n, s)) \/ Push(t, RemoveFrame(o, n, s))
    BY <1>1 DEF CallAdd, CallRemove
  <2> QED
    BY <2>1, <2>2, PushType
<1>2. ASSUME NEW o \in Observers, CallRemoveAll(t, o)
      PROVE  StackType'
  <2>1. RemoveAllFrame(o) \in Frames
    BY DEF RemoveAllFrame, Frames, OtherFrames
  <2> QED
    BY <1>2, <2>1, PushType DEF CallRemoveAll
<1>3. ASSUME NEW n \in Names, NEW s \in Senders \union {Nil}, CallPost(t, n, s)
      PROVE  StackType'
  <2>1. generation \in Nat
    BY DEF TypeOK
  <2>2. PostFrame(n, s) \in Frames
    BY <2>1, NewPostFrameType
  <2> QED
    BY <1>3, <2>2, PushType DEF CallPost
<1>4. CASE CallWillFinalize(t)
  <2>1. WillFinalize \in Names /\ generation \in Nat
    BY ConstantsAssumption DEF TypeOK
  <2>2. PostFrame(WillFinalize, Nil) \in Frames
    BY <2>1, NewPostFrameType
  <2>3. <<FinalizeFrame, PostFrame(WillFinalize, Nil)>> \in Seq(Frames)
    BY <2>2, FinalizeFrameType
  <2> QED
    BY <1>4, <2>3 DEF CallWillFinalize, StackType
<1>5. CASE Ignored(t)
  BY <1>5 DEF Ignored, vars, StackType
<1> QED
  BY <1>1, <1>2, <1>3, <1>4, <1>5 DEF Call

LEMMA PostStackType ==
  ASSUME TypeOK, NEW t \in Threads,
         \/ Copy(t) \/ EndCopy(t) \/ CallUnchanged(t) \/ SeeChange(t) \/ Check(t)
         \/ CallPresent(t) \/ SkipAbsent(t) \/ Return(t) \/ NextKey(t)
  PROVE  StackType'
<1> DEFINE f == Top(t)
<1>1. ASSUME NEW pc, At(t, "post", pc), NEW g \in Frames, Become(t, g)
      PROVE  StackType'
  BY <1>1, AtPost, BecomeType
<1>2. ASSUME NEW g \in PostFrames
      PROVE  g \in Frames
  BY DEF Frames
<1>3. ASSUME NEW pc, At(t, "post", pc),
             pc \in {"check", "present", "absent", "calling"}
      PROVE  f.buf # << >>
  BY <1>3, AtPost, PostFrameHas
<1>4. CASE Copy(t)
  <2>1. f \in PostFrames /\ generation \in Nat
    BY <1>4, AtPost DEF Copy
  <2>2. QueueFor(triplets, Head(f.route)) \in Seq(Triplet)
    BY QueueForType DEF TypeOK
  <2>3. [f EXCEPT !.pc = "copied", !.gen = generation,
                  !.buf = QueueFor(triplets, Head(f.route))] \in Frames
    BY <1>2, <2>1, <2>2, CopiedFrameType
  <2> QED
    BY <1>1, <1>4, <2>3 DEF Copy
<1>5. CASE EndCopy(t)
  BY <1>1, <1>2, <1>5, AtPost, PostFrameSteps DEF EndCopy, Goto
<1>6. CASE CallUnchanged(t)
  BY <1>1, <1>2, <1>6, AtPost, PostFrameSteps DEF CallUnchanged
<1>7. CASE SeeChange(t)
  BY <1>1, <1>2, <1>7, AtPost, PostFrameSteps DEF SeeChange, Goto
<1>8. CASE Check(t)
  <2>1. f \in PostFrames /\ f.buf # << >>
    BY <1>3, <1>8, AtPost DEF Check
  <2>2. [f EXCEPT !.pc = "present"] \in Frames /\ [f EXCEPT !.pc = "absent"] \in Frames
    BY <1>2, <2>1, PostFrameSteps
  <2>3. At(t, "post", "check") /\ \/ Become(t, [f EXCEPT !.pc = "present"])
                                  \/ Become(t, [f EXCEPT !.pc = "absent"])
    BY <1>8 DEF Check, Goto
  <2> QED
    BY <1>1, <2>2, <2>3
<1>9. CASE CallPresent(t)
  BY <1>1, <1>2, <1>3, <1>9, AtPost, PostFrameSteps DEF CallPresent
<1>10. CASE SkipAbsent(t)
  BY <1>1, <1>2, <1>3, <1>10, AtPost, PostFrameSteps DEF SkipAbsent
<1>11. CASE Return(t)
  BY <1>1, <1>2, <1>3, <1>11, AtPost, PostFrameSteps DEF Return
<1>12. CASE NextKey(t)
  BY <1>1, <1>2, <1>12, AtPost, PostFrameSteps DEF NextKey
<1> QED
  BY <1>4, <1>5, <1>6, <1>7, <1>8, <1>9, <1>10, <1>11, <1>12

LEMMA LockStackType ==
  ASSUME TypeOK, NEW t \in Threads,
         Add(t) \/ RemoveAll(t) \/ Remove(t) \/ Leave(t)
  PROVE  StackType'
<1> StackType
  BY DEF TypeOK, StackType, Frames
<1>1. CASE Add(t) \/ Remove(t)
  <2>1. /\ stack[t] # << >> /\ Top(t).op \in {"add", "remove"}
        /\ Become(t, [Top(t) EXCEPT !.pc = "leave"])
    BY <1>1 DEF Add, Remove, At, Goto
  <2> QED
    BY <2>1, TopType, AddFrameType, BecomeType
<1>2. CASE RemoveAll(t)
  <2>1. /\ stack[t] # << >> /\ Top(t).op = "removeAll"
        /\ Become(t, [Top(t) EXCEPT !.pc = "leave"])
    BY <1>2 DEF RemoveAll, At, Goto
  <2> QED
    BY <2>1, TopType, RemoveAllFrameType, BecomeType
<1>3. CASE Leave(t)
  BY <1>3, PopType DEF Leave, At
<1> QED
  BY <1>1, <1>2, <1>3

(***************************************************************************)
(* Every variable keeps its type: in particular a post that is about to    *)
(* call or skip an observer has one left in its copy, and every stack      *)
(* holds only frames the methods of the center can have.                   *)
(***************************************************************************)
THEOREM TypeCorrect == Spec => []TypeOK
<1>1. Init => TypeOK
  <2> SUFFICES ASSUME Init
               PROVE  TypeOK
    OBVIOUS
  <2>1. IsMap(triplets, Keys, Triplet) /\ IsMap(pairs, Observers, Pair)
    BY DEF Init, IsMap
  <2>2. stack \in [Threads -> Seq(PostFrames \union OtherFrames)]
    BY DEF Init
  <2>3. generation \in Nat /\ notifying \in Int /\ lock \in Threads \union {Unlocked}
    BY DEF Init
  <2>4. finalizing \in BOOLEAN
    BY DEF Init
  <2> QED
    BY <2>1, <2>2, <2>3, <2>4 DEF TypeOK
<1>2. TypeOK /\ [Next]_vars => TypeOK'
  <2> SUFFICES ASSUME TypeOK, [Next]_vars
               PROVE  TypeOK'
    OBVIOUS
  <2> DEFINE RegistriesType == /\ IsMap(triplets, Keys, Triplet)
                               /\ IsMap(pairs, Observers, Pair)
                               /\ generation \in Nat
  <2> DEFINE RestType == /\ notifying \in Int
                         /\ finalizing \in BOOLEAN
                         /\ lock \in Threads \union {Unlocked}
  <2>1. RegistriesType /\ RestType /\ StackType
    BY DEF TypeOK, StackType, Frames
  <2>2. RegistriesType' /\ RestType' /\ StackType' => TypeOK'
    BY DEF TypeOK, StackType, Frames
  <2>3. UNCHANGED registries => RegistriesType'
    BY <2>1 DEF registries, IsMap
  <2> HIDE DEF RegistriesType
  <2>4. CASE UNCHANGED vars
    BY <2>1, <2>2, <2>3, <2>4 DEF vars, registries, StackType
  <2>5. ASSUME NEW t \in Threads, Call(t)
        PROVE  TypeOK'
    <3>1. UNCHANGED registries /\ RestType'
      BY <2>1, <2>5 DEF Call, CallAdd, CallRemove, CallRemoveAll, CallPost,
                        CallWillFinalize, Ignored, vars, registries
    <3>2. StackType'
      BY <2>5, CallStackType
    <3> QED
      BY <2>2, <2>3, <3>1, <3>2
  <2>6. ASSUME NEW t \in Threads, EnterLock(t)
        PROVE  TypeOK'
    <3>1. RestType'
      BY <2>1, <2>6 DEF EnterLock, Add, RemoveAll, Remove, Copy, Check, Acquire
    <3>2. StackType'
      BY <2>6, LockStackType, PostStackType DEF EnterLock
    <3>3. CASE Add(t)
      BY <2>2, <3>1, <3>2, <3>3, AddType DEF RegistriesType
    <3>4. CASE RemoveAll(t)
      <4>1. stack[t] # << >> /\ Top(t).op = "removeAll"
        BY <3>4 DEF RemoveAll, At
      <4>2. Top(t).observer \in Observers
        BY <4>1, TopType, RemoveAllFrameType
      <4>3. RegistriesType'
        BY <3>4, <4>2, UnregisterType DEF RemoveAll, RegistriesType
      <4> QED
        BY <2>2, <3>1, <3>2, <4>3
    <3>5. CASE Remove(t)
      <4>1. stack[t] # << >> /\ Top(t).op = "remove"
        BY <3>5 DEF Remove, At
      <4>2. Top(t).observer \in Observers
        BY <4>1, TopType, AddFrameType
      <4>3. RegistriesType'
        BY <3>5, <4>2, UnregisterType DEF Remove, RegistriesType
      <4> QED
        BY <2>2, <3>1, <3>2, <4>3
    <3>6. CASE Copy(t) \/ Check(t)
      <4>1. UNCHANGED registries
        BY <3>6 DEF Copy, Check
      <4> QED
        BY <2>2, <2>3, <3>1, <3>2, <4>1
    <3> QED
      BY <2>6, <3>3, <3>4, <3>5, <3>6 DEF EnterLock
  <2>7. ASSUME NEW t \in Threads, LeaveLock(t)
        PROVE  TypeOK'
    <3>1. UNCHANGED registries /\ RestType'
      BY <2>1, <2>7 DEF LeaveLock, Leave, EndCopy, CallPresent, SkipAbsent
    <3>2. StackType'
      BY <2>7, LockStackType, PostStackType DEF LeaveLock
    <3> QED
      BY <2>2, <2>3, <3>1, <3>2
  <2>8. ASSUME NEW t \in Threads, WithoutLock(t) \/ Return(t) \/ Raise(t)
        PROVE  TypeOK'
    <3>1. UNCHANGED registries /\ RestType'
      <4>1. UNCHANGED registries
        BY <2>8 DEF WithoutLock, CallUnchanged, SeeChange, NextKey, EndPost,
                    EndWillFinalize, Return, Raise,
                    AbandonPost, AbandonWillFinalize, registries
      <4>2. notifying' \in Int /\ lock' \in Threads \union {Unlocked}
        BY <2>1, <2>8 DEF WithoutLock, CallUnchanged, SeeChange, NextKey, EndPost,
                          EndWillFinalize, Return, Raise, AbandonPost, AbandonWillFinalize
      <4>3. finalizing' = finalizing \/ finalizing' = TRUE
        BY <2>8 DEF WithoutLock, CallUnchanged, SeeChange, NextKey, EndPost,
                    EndWillFinalize, Return, Raise, AbandonPost, AbandonWillFinalize
      <4>4. finalizing' \in BOOLEAN
        BY <2>1, <4>3
      <4> QED
        BY <4>1, <4>2, <4>4
    <3>2. CASE EndPost(t) \/ EndWillFinalize(t) \/ AbandonPost(t)
      <4>1. stack[t] # << >> /\ Pop(t)
        BY <3>2 DEF EndPost, EndWillFinalize, AbandonPost, At
      <4>2. StackType'
        BY <2>1, <4>1, PopType
      <4> QED
        BY <2>2, <2>3, <3>1, <4>2
    <3>3. CASE CallUnchanged(t) \/ SeeChange(t) \/ NextKey(t) \/ Return(t)
      <4>1. StackType'
        BY <3>3, PostStackType
      <4> QED
        BY <2>2, <2>3, <3>1, <4>1
    <3>4. CASE AbandonWillFinalize(t)
      <4>1. stack' = [stack EXCEPT ![t] = << >>]
        BY <3>4 DEF AbandonWillFinalize
      <4>2. StackType'
        BY <2>1, <4>1 DEF StackType
      <4> QED
        BY <2>2, <2>3, <3>1, <4>2
    <3> QED
      BY <2>8, <3>2, <3>3, <3>4 DEF WithoutLock, Raise
  <2> QED
    BY <2>4, <2>5, <2>6, <2>7, <2>8 DEF Next
<1> QED
  BY <1>1, <1>2, PTL DEF Spec

-----------------------------------------------------------------------------
(***************************************************************************)
(* The triplet queues and the pair queues are two indices over the same    *)
(* registrations, whatever is added and removed, and keep their order.     *)
(***************************************************************************)

(***************************************************************************)
(* Maps of queues, by what they hold.                                      *)
(***************************************************************************)
Holds(m, k, x) == k \in DOMAIN m /\ x \in Elements(m[k])

NoEmptyQueue(m) == \A k \in DOMAIN m : m[k] # << >>

LEMMA NoElements == Elements(<< >>) = {}
BY DEF Elements

(***************************************************************************)
(* A push adds one element to the queue of one key.                        *)
(***************************************************************************)
LEMMA EnqueueHolds ==
  ASSUME NEW K, NEW S, NEW m, IsMap(m, K, S), NEW key \in K, NEW x \in S
  PROVE  /\ \A k, y : Holds(Enqueue(m, key, x), k, y) <=> Holds(m, k, y) \/ (k = key /\ y = x)
         /\ NoEmptyQueue(m) => NoEmptyQueue(Enqueue(m, key, x))
<1> DEFINE e == Enqueue(m, key, x)
<1> DEFINE q == QueueFor(m, key)
<1>1. /\ DOMAIN e = DOMAIN m \union {key}
      /\ e[key] = Append(q, x)
      /\ \A k \in DOMAIN m \ {key} : e[k] = m[k]
  BY DEF Enqueue
<1>2. q \in Seq(S)
  BY QueueForType
<1>3. Elements(e[key]) = Elements(q) \union {x}
  BY <1>1, <1>2, AppendElements
<1>4. e[key] # << >>
  BY <1>3, NoElements
<1>5. \A y : y \in Elements(q) <=> Holds(m, key, y)
  BY NoElements DEF QueueFor, Holds
<1> HIDE DEF e, q
<1>6. ASSUME NEW k, NEW y
      PROVE  Holds(e, k, y) <=> Holds(m, k, y) \/ (k = key /\ y = x)
  <2>1. CASE k = key
    BY <1>1, <1>3, <1>5, <2>1 DEF Holds
  <2>2. CASE k # key
    BY <1>1, <2>2 DEF Holds
  <2> QED
    BY <2>1, <2>2
<1>7. NoEmptyQueue(m) => NoEmptyQueue(e)
  BY <1>1, <1>4 DEF NoEmptyQueue
<1> QED
  BY <1>6, <1>7 DEF e

(***************************************************************************)
(* Dequeueing takes what is not in G from the queues of keys.              *)
(***************************************************************************)
LEMMA KeepForHolds ==
  ASSUME NEW K, NEW S, NEW m, IsMap(m, K, S), NEW keys, NEW G
  PROVE  /\ \A k, y : Holds(KeepFor(m, keys, G), k, y) <=>
                        Holds(m, k, y) /\ (k \in keys => y \in G)
         /\ NoEmptyQueue(m) => NoEmptyQueue(KeepFor(m, keys, G))
<1> DEFINE e == KeepFor(m, keys, G)
<1>1. /\ \A k : k \in DOMAIN e <=> k \in DOMAIN m /\ (k \in keys => Keep(m[k], G) # << >>)
      /\ \A k \in DOMAIN e : e[k] = IF k \in keys THEN Keep(m[k], G) ELSE m[k]
  BY KeepForProperties
<1>2. \A k \in DOMAIN m : Elements(Keep(m[k], G)) = Elements(m[k]) \intersect G
  BY KeepElements DEF IsMap
<1> HIDE DEF e
<1>3. ASSUME NEW k, NEW y
      PROVE  Holds(e, k, y) <=> Holds(m, k, y) /\ (k \in keys => y \in G)
  <2>1. CASE k \notin DOMAIN m
    BY <1>1, <2>1 DEF Holds
  <2>2. CASE k \in DOMAIN m /\ k \notin keys
    BY <1>1, <2>2 DEF Holds
  <2>3. CASE k \in DOMAIN m /\ k \in keys
    <3>1. Elements(Keep(m[k], G)) = Elements(m[k]) \intersect G
      BY <1>2, <2>3
    <3>2. k \notin DOMAIN e => Elements(Keep(m[k], G)) = {}
      BY <1>1, <2>3, NoElements
    <3>3. k \in DOMAIN e => e[k] = Keep(m[k], G)
      BY <1>1, <2>3
    <3> QED
      BY <2>3, <3>1, <3>2, <3>3 DEF Holds
  <2> QED
    BY <2>1, <2>2, <2>3
<1>4. NoEmptyQueue(m) => NoEmptyQueue(e)
  BY <1>1 DEF NoEmptyQueue
<1> QED
  BY <1>3, <1>4 DEF e

-----------------------------------------------------------------------------
(***************************************************************************)
(* Registrations.                                                          *)
(***************************************************************************)
Registration(k, o, g) == [key |-> k, observer |-> o, reg |-> g]

TripletRegs(T) ==
  UNION { { Registration(k, x.observer, x.reg) : x \in Elements(T[k]) } : k \in DOMAIN T }

PairRegs(P) ==
  UNION { { Registration(Key(p.name, p.sender), o, p.reg) : p \in Elements(P[o]) } :
            o \in DOMAIN P }

LEMMA IndicesAreRegs ==
  /\ FromTriplets = TripletRegs(triplets)
  /\ FromTriplets' = TripletRegs(triplets')
  /\ FromPairs = PairRegs(pairs)
  /\ FromPairs' = PairRegs(pairs')
BY DEF FromTriplets, FromPairs, TripletRegs, PairRegs, Registration

InTriplets(T, k, o, g) == Holds(T, k, [observer |-> o, reg |-> g])

InPairs(P, n, s, o, g) == Holds(P, o, [name |-> n, sender |-> s, reg |-> g])

LEMMA HoldsType ==
  ASSUME NEW K, NEW S, NEW m, IsMap(m, K, S), NEW k, NEW x, Holds(m, k, x)
  PROVE  k \in K /\ x \in S
<1>1. k \in K /\ m[k] \in Seq(S)
  BY DEF IsMap, Holds
<1> QED
  BY <1>1, ElementsType DEF Holds

LEMMA InTripletRegs ==
  ASSUME NEW T, IsMap(T, Keys, Triplet), NEW r
  PROVE  r \in TripletRegs(T) <=>
           \E k \in Keys, o \in Observers, g \in Nat :
             r = Registration(k, o, g) /\ InTriplets(T, k, o, g)
<1>1. ASSUME NEW k \in DOMAIN T, NEW x \in Elements(T[k]), r = Registration(k, x.observer, x.reg)
      PROVE  \E l \in Keys, o \in Observers, g \in Nat :
               r = Registration(l, o, g) /\ InTriplets(T, l, o, g)
  <2>1. k \in Keys /\ x \in Triplet
    BY <1>1, HoldsType DEF Holds
  <2>2. /\ x.observer \in Observers /\ x.reg \in Nat
        /\ x = [observer |-> x.observer, reg |-> x.reg]
    BY <2>1 DEF Triplet
  <2>3. InTriplets(T, k, x.observer, x.reg)
    BY <2>2 DEF InTriplets, Holds
  <2> QED
    BY <1>1, <2>1, <2>2, <2>3
<1>2. ASSUME NEW k \in Keys, NEW o \in Observers, NEW g \in Nat,
             r = Registration(k, o, g), InTriplets(T, k, o, g)
      PROVE  r \in TripletRegs(T)
  <2> DEFINE x == [observer |-> o, reg |-> g]
  <2>1. k \in DOMAIN T /\ x \in Elements(T[k])
    BY <1>2 DEF InTriplets, Holds
  <2>2. r = Registration(k, x.observer, x.reg)
    BY <1>2
  <2> HIDE DEF x
  <2> QED
    BY <2>1, <2>2 DEF TripletRegs
<1>3. r \in TripletRegs(T) =>
        \E k \in DOMAIN T : \E x \in Elements(T[k]) : r = Registration(k, x.observer, x.reg)
  BY DEF TripletRegs
<1> QED
  BY <1>1, <1>2, <1>3

LEMMA InPairRegs ==
  ASSUME NEW P, IsMap(P, Observers, Pair), NEW r
  PROVE  r \in PairRegs(P) <=>
           \E n \in Names \union {Nil}, s \in Senders \union {Nil}, o \in Observers, g \in Nat :
             r = Registration(Key(n, s), o, g) /\ InPairs(P, n, s, o, g)
<1>1. ASSUME NEW o \in DOMAIN P, NEW p \in Elements(P[o]),
             r = Registration(Key(p.name, p.sender), o, p.reg)
      PROVE  \E n \in Names \union {Nil}, s \in Senders \union {Nil}, u \in Observers, g \in Nat :
               r = Registration(Key(n, s), u, g) /\ InPairs(P, n, s, u, g)
  <2>1. o \in Observers /\ p \in Pair
    BY <1>1, HoldsType DEF Holds
  <2>2. /\ p.name \in Names \union {Nil} /\ p.sender \in Senders \union {Nil} /\ p.reg \in Nat
        /\ p = [name |-> p.name, sender |-> p.sender, reg |-> p.reg]
    BY <2>1 DEF Pair
  <2>3. InPairs(P, p.name, p.sender, o, p.reg)
    BY <2>2 DEF InPairs, Holds
  <2> QED
    BY <1>1, <2>1, <2>2, <2>3
<1>2. ASSUME NEW n \in Names \union {Nil}, NEW s \in Senders \union {Nil},
             NEW o \in Observers, NEW g \in Nat,
             r = Registration(Key(n, s), o, g), InPairs(P, n, s, o, g)
      PROVE  r \in PairRegs(P)
  <2> DEFINE p == [name |-> n, sender |-> s, reg |-> g]
  <2>1. o \in DOMAIN P /\ p \in Elements(P[o])
    BY <1>2 DEF InPairs, Holds
  <2>2. r = Registration(Key(p.name, p.sender), o, p.reg)
    BY <1>2
  <2> HIDE DEF p
  <2> QED
    BY <2>1, <2>2 DEF PairRegs
<1>3. r \in PairRegs(P) =>
        \E o \in DOMAIN P : \E p \in Elements(P[o]) :
          r = Registration(Key(p.name, p.sender), o, p.reg)
  BY DEF PairRegs
<1> QED
  BY <1>1, <1>2, <1>3

-----------------------------------------------------------------------------
(***************************************************************************)
(* What a remove of o with the arguments n and s takes away.               *)
(***************************************************************************)
Covers(n, s, a, b) == (s = Nil \/ s = b) /\ (n = Nil \/ n = a)

Gone(r, o, n, s) ==
  /\ r.observer = o
  /\ \E a \in Names \union {Nil}, b \in Senders \union {Nil} :
       r.key = Key(a, b) /\ Covers(n, s, a, b)

(***************************************************************************)
(* A key is gone exactly when the arguments cover the pair it is made of.  *)
(***************************************************************************)
LEMMA GoneByKey ==
  ASSUME NEW a \in Names \union {Nil}, NEW b \in Senders \union {Nil},
         NEW u, NEW g, NEW o, NEW n, NEW s
  PROVE  Gone(Registration(Key(a, b), u, g), o, n, s) <=> u = o /\ Covers(n, s, a, b)
<1> DEFINE r == Registration(Key(a, b), u, g)
<1>1. r.key = Key(a, b) /\ r.observer = u
  BY DEF Registration
<1> HIDE DEF r
<1>2. ASSUME NEW c \in Names \union {Nil}, NEW d \in Senders \union {Nil}, r.key = Key(c, d)
      PROVE  c = a /\ d = b
  BY <1>1, <1>2, KeyInjective
<1>3. Gone(r, o, n, s) <=> u = o /\ Covers(n, s, a, b)
  BY <1>1, <1>2 DEF Gone
<1> QED
  BY <1>3 DEF r

LEMMA PairsAfterRemove ==
  ASSUME TypeOK, NEW o \in DOMAIN pairs, NEW n, NEW s,
         pairs' = KeepFor(pairs, {o}, Elements(pairs[o]) \ Selected(QueueFor(pairs, o), n, s))
  PROVE  /\ IsMap(pairs', Observers, Pair)
         /\ NoEmptyQueue(pairs) => NoEmptyQueue(pairs')
         /\ \A a, b, u, g : InPairs(pairs', a, b, u, g) <=>
                             InPairs(pairs, a, b, u, g) /\ ~ (u = o /\ Covers(n, s, a, b))
<1> DEFINE G == Elements(pairs[o]) \ Selected(QueueFor(pairs, o), n, s)
<1>1. IsMap(pairs, Observers, Pair)
  BY DEF TypeOK
<1>2. \A p : p \in Elements(pairs[o]) =>
              (p \in G <=> ~ Covers(n, s, p.name, p.sender))
  BY DEF QueueFor, Selected, Covers
<1>3. pairs' = KeepFor(pairs, {o}, G)
  OBVIOUS
<1> HIDE DEF G
<1>4. \A k, y : Holds(pairs', k, y) <=> Holds(pairs, k, y) /\ (k \in {o} => y \in G)
  BY <1>1, <1>3, KeepForHolds
<1>5. NoEmptyQueue(pairs) => NoEmptyQueue(pairs')
  BY <1>1, <1>3, KeepForHolds
<1>6. IsMap(pairs', Observers, Pair)
  BY <1>1, <1>3, KeepForProperties
<1>7. ASSUME NEW a, NEW b, NEW u, NEW g
      PROVE  InPairs(pairs', a, b, u, g) <=>
             InPairs(pairs, a, b, u, g) /\ ~ (u = o /\ Covers(n, s, a, b))
  <2> DEFINE p == [name |-> a, sender |-> b, reg |-> g]
  <2>1. p.name = a /\ p.sender = b
    OBVIOUS
  <2>2. InPairs(pairs', a, b, u, g) <=> Holds(pairs', u, p)
    BY DEF InPairs
  <2>3. InPairs(pairs, a, b, u, g) <=> Holds(pairs, u, p)
    BY DEF InPairs
  <2> HIDE DEF p
  <2>4. Holds(pairs', u, p) <=> Holds(pairs, u, p) /\ (u = o => p \in G)
    BY <1>4
  <2>5. Holds(pairs, u, p) /\ u = o => (p \in G <=> ~ Covers(n, s, a, b))
    BY <1>2, <2>1 DEF Holds
  <2> QED
    BY <2>2, <2>3, <2>4, <2>5
<1> QED
  BY <1>5, <1>6, <1>7

LEMMA TripletsAfterRemove ==
  ASSUME TypeOK, NEW o, NEW keys,
         triplets' = KeepFor(triplets, keys, TripletsOfOthers(o))
  PROVE  /\ IsMap(triplets', Keys, Triplet)
         /\ NoEmptyQueue(triplets) => NoEmptyQueue(triplets')
         /\ \A k, u, g : InTriplets(triplets', k, u, g) <=>
                          InTriplets(triplets, k, u, g) /\ ~ (u = o /\ k \in keys)
<1> DEFINE G == TripletsOfOthers(o)
<1>1. IsMap(triplets, Keys, Triplet)
  BY DEF TypeOK
<1>2. \A k, x : Holds(triplets, k, x) => (x \in G <=> x.observer # o)
  BY DEF TripletsOfOthers, Holds
<1>3. triplets' = KeepFor(triplets, keys, G)
  OBVIOUS
<1> HIDE DEF G
<1>4. \A k, y : Holds(triplets', k, y) <=> Holds(triplets, k, y) /\ (k \in keys => y \in G)
  BY <1>1, <1>3, KeepForHolds
<1>5. NoEmptyQueue(triplets) => NoEmptyQueue(triplets')
  BY <1>1, <1>3, KeepForHolds
<1>6. IsMap(triplets', Keys, Triplet)
  BY <1>1, <1>3, KeepForProperties
<1>7. ASSUME NEW k, NEW u, NEW g
      PROVE  InTriplets(triplets', k, u, g) <=>
             InTriplets(triplets, k, u, g) /\ ~ (u = o /\ k \in keys)
  <2> DEFINE x == [observer |-> u, reg |-> g]
  <2>1. x.observer = u
    OBVIOUS
  <2>2. InTriplets(triplets', k, u, g) <=> Holds(triplets', k, x)
    BY DEF InTriplets
  <2>3. InTriplets(triplets, k, u, g) <=> Holds(triplets, k, x)
    BY DEF InTriplets
  <2> HIDE DEF x
  <2>4. Holds(triplets', k, x) <=> Holds(triplets, k, x) /\ (k \in keys => x \in G)
    BY <1>4
  <2>5. Holds(triplets, k, x) => (x \in G <=> u # o)
    BY <1>2, <2>1
  <2> QED
    BY <2>2, <2>3, <2>4, <2>5
<1> QED
  BY <1>5, <1>6, <1>7

RegistryInv == TypeOK /\ RegistriesAgree

LEMMA Agreement ==
  ASSUME RegistryInv
  PROVE  /\ TripletRegs(triplets) = PairRegs(pairs)
         /\ NoEmptyQueue(triplets) /\ NoEmptyQueue(pairs)
         /\ IsMap(triplets, Keys, Triplet) /\ IsMap(pairs, Observers, Pair)
BY IndicesAreRegs DEF RegistryInv, RegistriesAgree, NoEmptyQueue, TypeOK

LEMMA AgreementAfter ==
  ASSUME TripletRegs(triplets') = PairRegs(pairs'), NoEmptyQueue(triplets'), NoEmptyQueue(pairs')
  PROVE  RegistriesAgree'
BY IndicesAreRegs DEF RegistriesAgree, NoEmptyQueue

(***************************************************************************)
(* A remove takes the same registrations out of both indices.              *)
(***************************************************************************)
LEMMA UnregisterRegs ==
  ASSUME RegistryInv, NEW o \in Observers,
         NEW n \in Names \union {Nil}, NEW s \in Senders \union {Nil}, Unregister(o, n, s)
  PROVE  /\ TripletRegs(triplets') = { r \in TripletRegs(triplets) : ~ Gone(r, o, n, s) }
         /\ RegistriesAgree'
<1> TypeOK
  BY DEF RegistryInv
<1>1. /\ TripletRegs(triplets) = PairRegs(pairs)
      /\ NoEmptyQueue(triplets) /\ NoEmptyQueue(pairs)
      /\ IsMap(triplets, Keys, Triplet) /\ IsMap(pairs, Observers, Pair)
  BY Agreement
<1>2. CASE o \notin DOMAIN pairs
  <2>1. triplets' = triplets /\ pairs' = pairs
    BY <1>2 DEF Unregister, registries
  <2>2. ASSUME NEW r \in TripletRegs(triplets)
        PROVE  r.observer # o
    <3>1. r \in PairRegs(pairs)
      BY <1>1
    <3>2. PICK a \in Names \union {Nil}, b \in Senders \union {Nil}, u \in Observers, g \in Nat :
            r = Registration(Key(a, b), u, g) /\ InPairs(pairs, a, b, u, g)
      BY <1>1, <3>1, InPairRegs
    <3>3. u # o
      BY <1>2, <3>2 DEF InPairs, Holds
    <3> QED
      BY <3>2, <3>3 DEF Registration
  <2>3. TripletRegs(triplets') = { r \in TripletRegs(triplets) : ~ Gone(r, o, n, s) }
    BY <2>1, <2>2 DEF Gone
  <2> QED
    BY <1>1, <2>1, <2>3, AgreementAfter
<1>3. CASE o \in DOMAIN pairs
  <2> DEFINE gone == Selected(QueueFor(pairs, o), n, s)
  <2> DEFINE keys == { Key(p.name, p.sender) : p \in gone }
  <2>1. /\ triplets' = KeepFor(triplets, keys, TripletsOfOthers(o))
        /\ pairs' = KeepFor(pairs, {o}, Elements(pairs[o]) \ Selected(QueueFor(pairs, o), n, s))
    BY <1>3 DEF Unregister
  <2>2. \A k : k \in keys <=> \E p \in gone : k = Key(p.name, p.sender)
    OBVIOUS
  <2>3. \A p : p \in gone <=> p \in Elements(pairs[o]) /\ Covers(n, s, p.name, p.sender)
    BY <1>3 DEF QueueFor, Selected, Covers
  <2> HIDE DEF keys, gone
  <2>4. /\ IsMap(pairs', Observers, Pair) /\ NoEmptyQueue(pairs')
        /\ \A a, b, u, g : InPairs(pairs', a, b, u, g) <=>
                            InPairs(pairs, a, b, u, g) /\ ~ (u = o /\ Covers(n, s, a, b))
    BY <1>1, <1>3, <2>1, PairsAfterRemove
  <2>5. /\ IsMap(triplets', Keys, Triplet) /\ NoEmptyQueue(triplets')
        /\ \A k, u, g : InTriplets(triplets', k, u, g) <=>
                         InTriplets(triplets, k, u, g) /\ ~ (u = o /\ k \in keys)
    BY <1>1, <2>1, TripletsAfterRemove
  \* A key that is emptied of the observer's triplets is covered, and conversely.
  <2>6. ASSUME NEW a \in Names \union {Nil}, NEW b \in Senders \union {Nil}, NEW g,
               InPairs(pairs, a, b, o, g)
        PROVE  Key(a, b) \in keys <=> Covers(n, s, a, b)
    <3> DEFINE q == [name |-> a, sender |-> b, reg |-> g]
    <3>1. q \in Elements(pairs[o]) /\ q.name = a /\ q.sender = b
      BY <2>6 DEF InPairs, Holds
    <3> HIDE DEF q
    <3>2. ASSUME Covers(n, s, a, b)
          PROVE  Key(a, b) \in keys
      BY <2>2, <2>3, <3>1, <3>2
    <3>3. ASSUME NEW p \in gone, Key(a, b) = Key(p.name, p.sender)
          PROVE  Covers(n, s, a, b)
      <4>1. p \in Pair /\ Covers(n, s, p.name, p.sender)
        BY <1>1, <1>3, <2>3, <3>3, HoldsType DEF Holds
      <4>2. p.name = a /\ p.sender = b
        BY <3>3, <4>1, KeyInjective DEF Pair
      <4> QED
        BY <4>1, <4>2
    <3> QED
      BY <2>2, <3>2, <3>3
  <2>7. ASSUME NEW r
        PROVE  r \in TripletRegs(triplets') <=> r \in TripletRegs(triplets) /\ ~ Gone(r, o, n, s)
    <3>1. ASSUME NEW k \in Keys, NEW u \in Observers, NEW g \in Nat,
                 r = Registration(k, u, g), InTriplets(triplets, k, u, g)
          PROVE  (u = o /\ k \in keys) <=> Gone(r, o, n, s)
      <4>1. r \in PairRegs(pairs)
        BY <1>1, <3>1, InTripletRegs
      <4>2. PICK a \in Names \union {Nil}, b \in Senders \union {Nil}, v \in Observers, h \in Nat :
              r = Registration(Key(a, b), v, h) /\ InPairs(pairs, a, b, v, h)
        BY <1>1, <4>1, InPairRegs
      <4>3. k = Key(a, b) /\ u = v
        BY <3>1, <4>2 DEF Registration
      <4>4. Gone(r, o, n, s) <=> v = o /\ Covers(n, s, a, b)
        BY <4>2, GoneByKey
      <4>5. v = o => (Key(a, b) \in keys <=> Covers(n, s, a, b))
        BY <2>6, <4>2
      <4> QED
        BY <4>3, <4>4, <4>5
    <3> QED
      BY <1>1, <2>5, <3>1, InTripletRegs
  <2>8. ASSUME NEW r
        PROVE  r \in PairRegs(pairs') <=> r \in PairRegs(pairs) /\ ~ Gone(r, o, n, s)
    <3>1. ASSUME NEW a \in Names \union {Nil}, NEW b \in Senders \union {Nil},
                 NEW u \in Observers, NEW g \in Nat, r = Registration(Key(a, b), u, g)
          PROVE  Gone(r, o, n, s) <=> u = o /\ Covers(n, s, a, b)
      BY <3>1, GoneByKey
    <3> QED
      BY <1>1, <2>4, <3>1, InPairRegs
  <2>9. TripletRegs(triplets') = { r \in TripletRegs(triplets) : ~ Gone(r, o, n, s) }
    BY <2>7
  <2>10. TripletRegs(triplets') = PairRegs(pairs')
    BY <1>1, <2>7, <2>8
  <2> QED
    BY <2>4, <2>5, <2>9, <2>10, AgreementAfter
<1> QED
  BY <1>2, <1>3

(***************************************************************************)
(* An add puts the same registration into both indices.                    *)
(***************************************************************************)
LEMMA AddRegs ==
  ASSUME RegistryInv, NEW t \in Threads, Add(t)
  PROVE  RegistriesAgree'
<1> DEFINE f == Top(t)
<1> DEFINE k == Key(f.name, f.sender)
<1> DEFINE x == [observer |-> f.observer, reg |-> generation]
<1> DEFINE p == [name |-> f.name, sender |-> f.sender, reg |-> generation]
<1> DEFINE new == Registration(k, f.observer, generation)
<1> TypeOK
  BY DEF RegistryInv
<1>1. /\ TripletRegs(triplets) = PairRegs(pairs)
      /\ NoEmptyQueue(triplets) /\ NoEmptyQueue(pairs)
      /\ IsMap(triplets, Keys, Triplet) /\ IsMap(pairs, Observers, Pair)
      /\ generation \in Nat
  BY Agreement DEF TypeOK
<1>2. f \in Frames /\ f.op = "add"
  BY TopType DEF Add, At
<1>3. /\ f.observer \in Observers
      /\ f.name \in Names \union {Nil}
      /\ f.sender \in Senders \union {Nil}
  BY <1>2, AddFrameType
<1>4. triplets' = Enqueue(triplets, k, x) /\ pairs' = Enqueue(pairs, f.observer, p)
  BY DEF Add
<1> HIDE DEF f
<1>5. k \in Keys /\ x \in Triplet /\ p \in Pair
  BY <1>1, <1>3, KeyType DEF Triplet, Pair
<1>6. IsMap(triplets', Keys, Triplet) /\ IsMap(pairs', Observers, Pair)
  BY AddType
<1>7. /\ NoEmptyQueue(triplets')
      /\ \A l, y : Holds(triplets', l, y) <=> Holds(triplets, l, y) \/ (l = k /\ y = x)
  <2> HIDE DEF k, x
  <2> QED
    BY <1>1, <1>4, <1>5, EnqueueHolds
<1>8. /\ NoEmptyQueue(pairs')
      /\ \A l, y : Holds(pairs', l, y) <=> Holds(pairs, l, y) \/ (l = f.observer /\ y = p)
  <2> HIDE DEF p
  <2> QED
    BY <1>1, <1>3, <1>4, <1>5, EnqueueHolds
<1>9. \A l, u, g : InTriplets(triplets', l, u, g) <=>
                     InTriplets(triplets, l, u, g) \/ (l = k /\ u = f.observer /\ g = generation)
  <2>1. \A u, g : [observer |-> u, reg |-> g] = x <=> u = f.observer /\ g = generation
    OBVIOUS
  <2> HIDE DEF k, x
  <2> QED
    BY <1>7, <2>1 DEF InTriplets
<1>10. \A a, b, u, g : InPairs(pairs', a, b, u, g) <=>
         \/ InPairs(pairs, a, b, u, g)
         \/ a = f.name /\ b = f.sender /\ u = f.observer /\ g = generation
  <2>1. \A a, b, g : [name |-> a, sender |-> b, reg |-> g] = p <=>
                       a = f.name /\ b = f.sender /\ g = generation
    OBVIOUS
  <2> HIDE DEF p
  <2> QED
    BY <1>8, <2>1 DEF InPairs
<1> HIDE DEF x, p
<1>11. ASSUME NEW r
       PROVE  r \in TripletRegs(triplets') <=> r \in TripletRegs(triplets) \/ r = new
  <2> HIDE DEF k
  <2> QED
    BY <1>1, <1>3, <1>5, <1>6, <1>9, InTripletRegs
<1>12. ASSUME NEW r
       PROVE  r \in PairRegs(pairs') <=> r \in PairRegs(pairs) \/ r = new
  <2>1. ASSUME r \in PairRegs(pairs')
        PROVE  r \in PairRegs(pairs) \/ r = new
    <3>1. PICK a \in Names \union {Nil}, b \in Senders \union {Nil}, u \in Observers, g \in Nat :
            r = Registration(Key(a, b), u, g) /\ InPairs(pairs', a, b, u, g)
      BY <1>6, <2>1, InPairRegs
    <3>2. CASE InPairs(pairs, a, b, u, g)
      BY <1>1, <3>1, <3>2, InPairRegs
    <3>3. CASE a = f.name /\ b = f.sender /\ u = f.observer /\ g = generation
      BY <3>1, <3>3
    <3> QED
      BY <1>10, <3>1, <3>2, <3>3
  <2>2. ASSUME r \in PairRegs(pairs)
        PROVE  r \in PairRegs(pairs')
    <3>1. PICK a \in Names \union {Nil}, b \in Senders \union {Nil}, u \in Observers, g \in Nat :
            r = Registration(Key(a, b), u, g) /\ InPairs(pairs, a, b, u, g)
      BY <1>1, <2>2, InPairRegs
    <3>2. InPairs(pairs', a, b, u, g)
      BY <1>10, <3>1
    <3> QED
      BY <1>6, <3>1, <3>2, InPairRegs
  <2>3. ASSUME r = new
        PROVE  r \in PairRegs(pairs')
    <3>1. InPairs(pairs', f.name, f.sender, f.observer, generation)
      BY <1>10
    <3> QED
      BY <1>1, <1>3, <1>6, <2>3, <3>1, InPairRegs
  <2> QED
    BY <2>1, <2>2, <2>3
<1>13. TripletRegs(triplets') = PairRegs(pairs')
  <2> HIDE DEF new
  <2> QED
    BY <1>1, <1>11, <1>12
<1> QED
  BY <1>7, <1>8, <1>13, AgreementAfter

(***************************************************************************)
(* The other steps leave the registries alone.                             *)
(***************************************************************************)
LEMMA RegistriesStand ==
  ASSUME NEW t \in Threads,
         \/ Call(t) \/ Copy(t) \/ Check(t) \/ LeaveLock(t) \/ WithoutLock(t)
         \/ Return(t) \/ Raise(t)
  PROVE  UNCHANGED registries
<1>1. CASE Call(t)
  BY <1>1 DEF Call, CallAdd, CallRemove, CallRemoveAll, CallPost, CallWillFinalize,
              Ignored, vars, registries
<1>2. CASE Copy(t) \/ Check(t)
  BY <1>2 DEF Copy, Check
<1>3. CASE LeaveLock(t)
  BY <1>3 DEF LeaveLock, Leave, EndCopy, CallPresent, SkipAbsent
<1>4. CASE WithoutLock(t)
  BY <1>4 DEF WithoutLock, CallUnchanged, SeeChange, NextKey, EndPost, EndWillFinalize
<1>5. CASE Return(t) \/ Raise(t)
  BY <1>5 DEF Return, Raise, AbandonPost, AbandonWillFinalize
<1> QED
  BY <1>1, <1>2, <1>3, <1>4, <1>5

LEMMA RemoveArguments ==
  ASSUME TypeOK, NEW t \in Threads
  PROVE  /\ Remove(t) => /\ Top(t).observer \in Observers
                         /\ Top(t).name \in Names \union {Nil}
                         /\ Top(t).sender \in Senders \union {Nil}
         /\ RemoveAll(t) => Top(t).observer \in Observers
BY TopType, AddFrameType, RemoveAllFrameType DEF Remove, RemoveAll, At

(***************************************************************************)
(* The queues a post looks observers up in and the queues a remove looks   *)
(* its keys up in hold the same registrations, and no map has an entry for *)
(* an empty queue: what removeObserver: relies on (702-781).               *)
(***************************************************************************)
THEOREM IndicesAgree == Spec => []RegistriesAgree
<1>1. Init => RegistriesAgree
  BY DEF Init, RegistriesAgree, FromTriplets, FromPairs
<1>2. TypeOK /\ RegistriesAgree /\ [Next]_vars => RegistriesAgree'
  <2> SUFFICES ASSUME RegistryInv, [Next]_vars
               PROVE  RegistriesAgree'
    BY DEF RegistryInv
  <2> TypeOK
    BY DEF RegistryInv
  <2>1. CASE UNCHANGED registries
    BY <2>1 DEF registries, RegistryInv, RegistriesAgree, FromTriplets, FromPairs
  <2>2. ASSUME NEW t \in Threads, Add(t)
        PROVE  RegistriesAgree'
    BY <2>2, AddRegs
  <2>3. ASSUME NEW t \in Threads, RemoveAll(t)
        PROVE  RegistriesAgree'
    BY <2>3, RemoveArguments, UnregisterRegs DEF RemoveAll
  <2>4. ASSUME NEW t \in Threads, Remove(t)
        PROVE  RegistriesAgree'
    BY <2>4, RemoveArguments, UnregisterRegs DEF Remove
  <2>5. CASE UNCHANGED vars
    BY <2>1, <2>5 DEF vars, registries
  <2> QED
    BY <2>1, <2>2, <2>3, <2>4, <2>5, RegistriesStand DEF Next, EnterLock
<1> QED
  BY <1>1, <1>2, TypeCorrect, PTL DEF Spec

(***************************************************************************)
(* A step of one thread does not touch the stack of another, and a thread  *)
(* about to enter a remove can do nothing else.                            *)
(***************************************************************************)
LEMMA OtherStacks ==
  ASSUME TypeOK, NEW t \in Threads, NEW u \in Threads, t # u,
         \/ Call(u) \/ EnterLock(u) \/ LeaveLock(u) \/ WithoutLock(u)
         \/ Return(u) \/ Raise(u)
  PROVE  stack'[t] = stack[t]
<1>1. DOMAIN stack = Threads
  BY DEF TypeOK
<1>2. \A s : stack' = [stack EXCEPT ![u] = s] => stack'[t] = stack[t]
  BY <1>1
<1>3. CASE Call(u)
  BY <1>2, <1>3 DEF Call, CallAdd, CallRemove, CallRemoveAll, CallPost, CallWillFinalize,
                    Ignored, Push, vars
<1>4. ASSUME NEW f, Become(u, f)
      PROVE  stack'[t] = stack[t]
  BY <1>1, <1>4 DEF Become
<1>5. CASE Pop(u)
  BY <1>1, <1>5 DEF Pop
<1>6. CASE EnterLock(u)
  BY <1>4, <1>6 DEF EnterLock, Add, RemoveAll, Remove, Copy, Check, Goto
<1>7. CASE LeaveLock(u)
  BY <1>4, <1>5, <1>7 DEF LeaveLock, Leave, EndCopy, CallPresent, SkipAbsent, Goto
<1>8. CASE WithoutLock(u)
  BY <1>4, <1>5, <1>8 DEF WithoutLock, CallUnchanged, SeeChange, NextKey, EndPost,
                          EndWillFinalize, Goto
<1>9. CASE Return(u) \/ Raise(u)
  BY <1>2, <1>4, <1>5, <1>9 DEF Return, Raise, AbandonPost, AbandonWillFinalize
<1> QED
  BY <1>3, <1>6, <1>7, <1>8, <1>9

LEMMA OnlyRemove ==
  ASSUME NEW t \in Threads, At(t, "remove", "enter"),
         \/ Call(t) \/ EnterLock(t) \/ LeaveLock(t) \/ WithoutLock(t)
         \/ Return(t) \/ Raise(t)
  PROVE  Remove(t)
<1>1. stack[t] # << >> /\ Top(t).op = "remove" /\ Top(t).pc = "enter"
  BY DEF At
<1>2. ~ Call(t)
  BY <1>1 DEF Call, CallAdd, CallRemove, CallRemoveAll, CallPost, CallWillFinalize, Ignored,
              MayCall, InUserCode, At
<1>3. ~ (Add(t) \/ RemoveAll(t) \/ Copy(t) \/ Check(t))
  BY <1>1 DEF Add, RemoveAll, Copy, Check, At
<1>4. ~ LeaveLock(t)
  BY <1>1 DEF LeaveLock, Leave, EndCopy, CallPresent, SkipAbsent, At
<1>5. ~ (WithoutLock(t) \/ Return(t) \/ Raise(t))
  BY <1>1 DEF WithoutLock, CallUnchanged, SeeChange, NextKey, EndPost, EndWillFinalize,
              Return, Raise, AbandonPost, AbandonWillFinalize, At
<1> QED
  BY <1>2, <1>3, <1>4, <1>5 DEF EnterLock

(***************************************************************************)
(* removeObserver:name:object: takes exactly the matching registrations    *)
(* out of the queues of a post, for every center.                          *)
(***************************************************************************)
THEOREM RemoveIsExact == Spec => RemovesExactly
<1> DEFINE A == \A t \in Threads :
                  At(t, "remove", "enter") /\ At(t, "remove", "leave")' =>
                    FromTriplets' = { r \in FromTriplets : ~ Matches(r, Top(t)) }
<1>1. TypeOK /\ RegistriesAgree /\ [Next]_vars => [A]_vars
  <2> SUFFICES ASSUME RegistryInv, Next,
                      NEW t \in Threads, At(t, "remove", "enter"), At(t, "remove", "leave")'
               PROVE  FromTriplets' = { r \in FromTriplets : ~ Matches(r, Top(t)) }
    BY DEF RegistryInv
  <2> TypeOK
    BY DEF RegistryInv
  <2>1. PICK u \in Threads : \/ Call(u) \/ EnterLock(u) \/ LeaveLock(u) \/ WithoutLock(u)
                             \/ Return(u) \/ Raise(u)
    BY DEF Next
  <2>2. stack'[t] # stack[t]
    BY DEF At, Top
  <2>3. u = t
    BY <2>1, <2>2, OtherStacks
  <2>4. Remove(t)
    BY <2>1, <2>3, OnlyRemove
  <2> DEFINE o == Top(t).observer
  <2> DEFINE n == Top(t).name
  <2> DEFINE s == Top(t).sender
  <2>5. o \in Observers /\ n \in Names \union {Nil} /\ s \in Senders \union {Nil}
    BY <2>4, RemoveArguments
  <2>6. Unregister(o, n, s)
    BY <2>4 DEF Remove
  <2>7. \A r : Matches(r, Top(t)) <=> Gone(r, o, n, s)
    BY DEF Matches, Gone, Covers
  <2> HIDE DEF o, n, s
  <2>8. TripletRegs(triplets') = { r \in TripletRegs(triplets) : ~ Gone(r, o, n, s) }
    BY <2>5, <2>6, UnregisterRegs
  <2> QED
    BY <2>7, <2>8, IndicesAreRegs
<1> QED
  BY <1>1, TypeCorrect, IndicesAgree, PTL DEF Spec, RemovesExactly

-----------------------------------------------------------------------------
(***************************************************************************)
(* The order of the queues.  It is inductive together with the fact that   *)
(* every registration is older than the next one will be.                  *)
(***************************************************************************)
Ordered(m, g) ==
  \A k \in DOMAIN m : Ascending(m[k]) /\ \A x \in Elements(m[k]) : x.reg < g

LEMMA YoungerStill ==
  ASSUME NEW g \in Nat, NEW E, \A y \in E : y.reg \in Nat /\ y.reg < g
  PROVE  \A y \in E : y.reg < g + 1
<1> SUFFICES ASSUME NEW y \in E
             PROVE  y.reg < g + 1
  OBVIOUS
<1>1. y.reg \in Nat /\ y.reg < g
  OBVIOUS
<1> DEFINE r == y.reg
<1>2. r \in Nat /\ r < g
  BY <1>1
<1> HIDE DEF r
<1>3. r < g + 1
  BY <1>2
<1> QED
  BY <1>3 DEF r

LEMMA AppendAscending ==
  ASSUME NEW S, \A y \in S : y.reg \in Nat, NEW g \in Nat,
         NEW q \in Seq(S), NEW x \in S, x.reg = g,
         Ascending(q), \A y \in Elements(q) : y.reg < g
  PROVE  /\ Ascending(Append(q, x))
         /\ \A y \in Elements(Append(q, x)) : y.reg < g + 1
<1> DEFINE n == Len(q)
<1> DEFINE r == Append(q, x)
<1>1. n \in Nat /\ DOMAIN q = 1 .. n /\ DOMAIN r = 1 .. (n + 1)
  OBVIOUS
<1>2. \A i \in 1 .. n : r[i] = q[i] /\ q[i] \in S /\ q[i].reg < g
  BY DEF Elements
<1>3. r[n + 1] = x
  OBVIOUS
<1>4. \A y \in Elements(r) : y \in S /\ (y \in Elements(q) \/ y = x)
  <2>1. Elements(r) = Elements(q) \union {x}
    BY AppendElements
  <2>2. Elements(q) \subseteq S
    BY ElementsType
  <2> QED
    BY <2>1, <2>2
<1> HIDE DEF n, r
<1>5. ASSUME NEW i \in 1 .. (n + 1), NEW j \in 1 .. (n + 1), i < j
      PROVE  r[i].reg < r[j].reg
  <2>1. i \in 1 .. n
    BY <1>1, <1>5
  <2>2. CASE j = n + 1
    BY <1>2, <1>3, <2>1, <2>2
  <2>3. CASE j # n + 1
    <3>1. j \in 1 .. n
      BY <1>1, <2>3
    <3>2. q[i].reg < q[j].reg
      BY <1>1, <1>5, <2>1, <3>1 DEF Ascending
    <3> QED
      BY <1>2, <2>1, <3>1, <3>2
  <2> QED
    BY <2>2, <2>3
<1>6. Ascending(r)
  BY <1>1, <1>5 DEF Ascending
<1>7. ASSUME NEW y \in Elements(r)
      PROVE  y.reg < g + 1
  <2>1. y.reg \in Nat /\ (y.reg < g \/ y.reg = g)
    BY <1>4, <1>7
  <2> QED
    BY <2>1
<1> QED
  BY <1>6, <1>7 DEF r

LEMMA KeepAscending ==
  ASSUME NEW S, NEW q \in Seq(S), NEW G, Ascending(q)
  PROVE  Ascending(Keep(q, G))
<1> DEFINE r == Keep(q, G)
<1> DEFINE n == Len(q)
<1>1. PICK e : Embeds(e, r, q, G, n)
  BY KeepEmbeds
<1>2. r \in Seq(S)
  BY KeepEmbeds
<1> HIDE DEF r
<1>3. DOMAIN r = 1 .. Len(r) /\ DOMAIN q = 1 .. n
  BY <1>2
<1> HIDE DEF n
<1>4. ASSUME NEW i \in DOMAIN r, NEW j \in DOMAIN r, i < j
      PROVE  r[i].reg < r[j].reg
  <2>1. /\ e[i] \in DOMAIN q /\ e[j] \in DOMAIN q /\ e[i] < e[j]
        /\ r[i] = q[e[i]] /\ r[j] = q[e[j]]
    BY <1>1, <1>3, <1>4 DEF Embeds
  <2> QED
    BY <2>1 DEF Ascending
<1>5. Ascending(r)
  BY <1>4 DEF Ascending
<1> QED
  BY <1>5 DEF r

LEMMA EnqueueOrdered ==
  ASSUME NEW K, NEW S, \A y \in S : y.reg \in Nat, NEW g \in Nat,
         NEW m, IsMap(m, K, S), Ordered(m, g), NEW key \in K, NEW x \in S, x.reg = g
  PROVE  Ordered(Enqueue(m, key, x), g + 1)
<1> DEFINE e == Enqueue(m, key, x)
<1> DEFINE q == QueueFor(m, key)
<1>1. /\ DOMAIN e = DOMAIN m \union {key}
      /\ e[key] = Append(q, x)
      /\ \A k \in DOMAIN m \ {key} : e[k] = m[k]
  BY DEF Enqueue
<1>2. q \in Seq(S)
  BY QueueForType
<1>3. Ascending(q) /\ \A y \in Elements(q) : y.reg < g
  BY NoElements DEF QueueFor, Ordered, Ascending
<1> HIDE DEF e, q
<1>4. Ascending(e[key]) /\ \A y \in Elements(e[key]) : y.reg < g + 1
  BY <1>1, <1>2, <1>3, AppendAscending
<1>5. ASSUME NEW k \in DOMAIN m \ {key}
      PROVE  Ascending(e[k]) /\ \A y \in Elements(e[k]) : y.reg < g + 1
  <2>1. Elements(m[k]) \subseteq S
    BY ElementsType DEF IsMap
  <2>2. \A y \in Elements(m[k]) : y.reg \in Nat /\ y.reg < g
    BY <2>1 DEF Ordered
  <2>3. \A y \in Elements(m[k]) : y.reg < g + 1
    BY <2>2, YoungerStill
  <2> QED
    BY <1>1, <2>3 DEF Ordered
<1>6. Ordered(e, g + 1)
  BY <1>1, <1>4, <1>5 DEF Ordered
<1> QED
  BY <1>6 DEF e

LEMMA KeepForOrdered ==
  ASSUME NEW K, NEW S, \A y \in S : y.reg \in Nat, NEW g \in Nat,
         NEW m, IsMap(m, K, S), Ordered(m, g), NEW keys, NEW G
  PROVE  Ordered(KeepFor(m, keys, G), g + 1)
<1> DEFINE e == KeepFor(m, keys, G)
<1>1. /\ \A k \in DOMAIN e : k \in DOMAIN m
      /\ \A k \in DOMAIN e : e[k] = IF k \in keys THEN Keep(m[k], G) ELSE m[k]
  BY KeepForProperties
<1> HIDE DEF e
<1>2. ASSUME NEW k \in DOMAIN e
      PROVE  Ascending(e[k]) /\ \A y \in Elements(e[k]) : y.reg < g + 1
  <2>1. m[k] \in Seq(S) /\ Ascending(m[k]) /\ \A y \in Elements(m[k]) : y.reg < g
    BY <1>1 DEF IsMap, Ordered
  <2>2. Ascending(Keep(m[k], G)) /\ Elements(Keep(m[k], G)) \subseteq Elements(m[k])
    BY <2>1, KeepAscending, KeepElements
  <2>3. Ascending(e[k]) /\ Elements(e[k]) \subseteq Elements(m[k])
    BY <1>1, <2>1, <2>2
  <2>4. Elements(m[k]) \subseteq S
    BY <2>1, ElementsType
  <2>5. \A y \in Elements(e[k]) : y.reg \in Nat /\ y.reg < g
    BY <2>1, <2>3, <2>4
  <2>6. \A y \in Elements(e[k]) : y.reg < g + 1
    BY <2>5, YoungerStill
  <2> QED
    BY <2>3, <2>6
<1>3. Ordered(e, g + 1)
  BY <1>2 DEF Ordered
<1> QED
  BY <1>3 DEF e

OrderInv == Ordered(triplets, generation) /\ Ordered(pairs, generation)

LEMMA RegsAreNatural ==
  (\A x \in Triplet : x.reg \in Nat) /\ (\A x \in Pair : x.reg \in Nat)
BY DEF Triplet, Pair

LEMMA UnregisterOrdered ==
  ASSUME TypeOK, OrderInv, NEW o, NEW n, NEW s, Unregister(o, n, s)
  PROVE  OrderInv'
<1>1. CASE o \notin DOMAIN pairs
  BY <1>1 DEF Unregister, registries, OrderInv, Ordered
<1>2. CASE o \in DOMAIN pairs
  <2>1. PICK ks, G, H : /\ triplets' = KeepFor(triplets, ks, G)
                        /\ pairs' = KeepFor(pairs, {o}, H)
                        /\ generation' = generation + 1
    BY <1>2 DEF Unregister
  <2>2. IsMap(triplets, Keys, Triplet) /\ IsMap(pairs, Observers, Pair) /\ generation \in Nat
    BY DEF TypeOK
  <2>3. Ordered(triplets', generation')
    BY <2>1, <2>2, RegsAreNatural, KeepForOrdered DEF OrderInv
  <2>4. Ordered(pairs', generation')
    BY <2>1, <2>2, RegsAreNatural, KeepForOrdered DEF OrderInv
  <2> QED
    BY <2>3, <2>4 DEF OrderInv
<1> QED
  BY <1>1, <1>2

LEMMA AddOrdered ==
  ASSUME TypeOK, OrderInv, NEW t \in Threads, Add(t)
  PROVE  OrderInv'
<1> DEFINE f == Top(t)
<1> DEFINE k == Key(f.name, f.sender)
<1> DEFINE x == [observer |-> f.observer, reg |-> generation]
<1> DEFINE p == [name |-> f.name, sender |-> f.sender, reg |-> generation]
<1>1. IsMap(triplets, Keys, Triplet) /\ IsMap(pairs, Observers, Pair) /\ generation \in Nat
  BY DEF TypeOK
<1>2. f \in Frames /\ f.op = "add"
  BY TopType DEF Add, At
<1>3. /\ f.observer \in Observers
      /\ f.name \in Names \union {Nil}
      /\ f.sender \in Senders \union {Nil}
  BY <1>2, AddFrameType
<1>4. /\ triplets' = Enqueue(triplets, k, x) /\ pairs' = Enqueue(pairs, f.observer, p)
      /\ generation' = generation + 1
  BY DEF Add
<1> HIDE DEF f
<1>5. k \in Keys /\ x \in Triplet /\ p \in Pair /\ x.reg = generation /\ p.reg = generation
  BY <1>1, <1>3, KeyType DEF Triplet, Pair
<1> HIDE DEF k, x, p
<1>6. Ordered(triplets', generation')
  BY <1>1, <1>4, <1>5, RegsAreNatural, EnqueueOrdered DEF OrderInv
<1>7. Ordered(pairs', generation')
  BY <1>1, <1>3, <1>4, <1>5, RegsAreNatural, EnqueueOrdered DEF OrderInv
<1> QED
  BY <1>6, <1>7 DEF OrderInv

(***************************************************************************)
(* What makes the order inductive: a queue is ascending and everything in  *)
(* it is older than the generation the next registration will get.         *)
(***************************************************************************)
LEMMA AlwaysOrdered == Spec => []OrderInv
<1>1. Init => OrderInv
  BY DEF Init, OrderInv, Ordered
<1>2. TypeOK /\ OrderInv /\ [Next]_vars => OrderInv'
  <2> SUFFICES ASSUME TypeOK, OrderInv, [Next]_vars
               PROVE  OrderInv'
    OBVIOUS
  <2>1. CASE UNCHANGED registries
    BY <2>1 DEF registries, OrderInv, Ordered
  <2>2. ASSUME NEW t \in Threads, Add(t)
        PROVE  OrderInv'
    BY <2>2, AddOrdered
  <2>3. ASSUME NEW t \in Threads, RemoveAll(t) \/ Remove(t)
        PROVE  OrderInv'
    BY <2>3, UnregisterOrdered DEF RemoveAll, Remove
  <2>4. CASE UNCHANGED vars
    BY <2>1, <2>4 DEF vars, registries
  <2> QED
    BY <2>1, <2>2, <2>3, <2>4, RegistriesStand DEF Next, EnterLock
<1> QED
  BY <1>1, <1>2, TypeCorrect, PTL DEF Spec

(***************************************************************************)
(* Every queue keeps its registrations in the order they were made, over   *)
(* any number of adds and of removes that pop and push back (645-697).     *)
(***************************************************************************)
THEOREM QueuesInOrder == Spec => []QueuesInRegistrationOrder
<1>1. OrderInv => QueuesInRegistrationOrder
  BY DEF OrderInv, Ordered, QueuesInRegistrationOrder
<1> QED
  BY <1>1, AlwaysOrdered, PTL

=============================================================================
