--------------------- MODULE NotificationDeliveryProofs ---------------------
(***************************************************************************)
(* The notification center implements NotificationDelivery: every step of  *)
(* it is a step of the promise, or one the promise does not see.           *)
(***************************************************************************)
EXTENDS NotificationThreadProofs, NotificationRefinement

-----------------------------------------------------------------------------
(***************************************************************************)
(* A post that has looked under the lock acts on what it saw before        *)
(* anybody else can change it, and its route is what is left of that of    *)
(* its notification.                                                       *)
(***************************************************************************)
PresentIn(m, k, o) == \E x \in Elements(QueueFor(m, k)) : x.observer = o

Saw(f, m) == PresentIn(m, Head(f.route), Last(f.buf).observer)

Looked(g, m) ==
  { f \in Frames :
      f.op = "post" => /\ f.pc = "present" => Saw(f, m)
                       /\ f.pc = "absent" => ~ Saw(f, m)
                       /\ f.start <= g
                       /\ Elements(f.route) \subseteq Elements(Route(f.name, f.sender)) }

LookedStacks == stack \in [Threads -> Seq(Looked(generation, triplets))]

LookedInv == LockInv /\ LookedStacks

(***************************************************************************)
(* What the steps of a post keep of its frame, and what they change.       *)
(***************************************************************************)
SamePost(h, f) ==
  h.op = "post" /\ h.name = f.name /\ h.sender = f.sender /\ h.start = f.start

LEMMA MovedFields ==
  ASSUME NEW f \in PostFrames, NEW pc
  PROVE  /\ SamePost(Moved(f, pc), f)
         /\ Moved(f, pc).pc = pc
         /\ Moved(f, pc).route = f.route /\ Moved(f, pc).buf = f.buf
         /\ Moved(f, pc).called = f.called
BY DEF PostFrames, Moved, SamePost

LEMMA CopiedFields ==
  ASSUME NEW f \in PostFrames
  PROVE  /\ SamePost(Copied(f), f)
         /\ Copied(f).pc = "copied"
         /\ Copied(f).route = f.route /\ Copied(f).buf = QueueFor(triplets, Head(f.route))
         /\ Copied(f).called = f.called
BY DEF PostFrames, Copied, SamePost

LEMMA DroppedFields ==
  ASSUME NEW f \in PostFrames
  PROVE  /\ SamePost(Dropped(f), f)
         /\ Dropped(f).pc = "next"
         /\ Dropped(f).route = f.route /\ Dropped(f).buf = Front(f.buf)
         /\ Dropped(f).called = f.called
BY DEF PostFrames, Dropped, SamePost

LEMMA OnwardFields ==
  ASSUME NEW f \in PostFrames
  PROVE  /\ SamePost(Onward(f), f)
         /\ Onward(f).pc = "copy"
         /\ Onward(f).route = Tail(f.route) /\ Onward(f).buf = f.buf
         /\ Onward(f).called = f.called
BY DEF PostFrames, Onward, SamePost

LEMMA CallingFields ==
  ASSUME NEW f \in PostFrames
  PROVE  /\ SamePost(Calling(f), f)
         /\ Calling(f).pc = "calling"
         /\ Calling(f).route = f.route /\ Calling(f).buf = f.buf
         /\ Calling(f).called =
              Append(f.called, [key |-> Head(f.route), reg |-> Last(f.buf).reg])
BY DEF PostFrames, Calling, SamePost

(***************************************************************************)
(* The frames a post becomes are frames of a post.                         *)
(***************************************************************************)
LEMMA StepTypes ==
  ASSUME TypeOK, NEW f \in PostFrames
  PROVE  /\ Copied(f) \in PostFrames
         /\ Moved(f, "next") \in PostFrames
         /\ f.buf # << >> => /\ Moved(f, "check") \in PostFrames
                             /\ Moved(f, "present") \in PostFrames
                             /\ Moved(f, "absent") \in PostFrames
                             /\ Dropped(f) \in PostFrames
                             /\ Calling(f) \in PostFrames
         /\ Len(f.route) > 1 => Onward(f) \in PostFrames
<1>1. QueueFor(triplets, Head(f.route)) \in Seq(Triplet) /\ generation \in Nat
  BY QueueForType DEF TypeOK
<1>2. Copied(f) \in PostFrames
  BY <1>1, CopiedFrameType DEF Copied
<1> QED
  BY <1>2, PostFrameSteps DEF Moved, Dropped, Onward

LEMMA LookedIsClosed ==
  ASSUME TypeOK
  PROVE  /\ PostClosed(Looked(generation, triplets))
         /\ CallClosed(Looked(generation, triplets))
<1> DEFINE F == Looked(generation, triplets)
<1>1. ASSUME NEW f \in F, f.op = "post"
      PROVE  /\ f \in PostFrames /\ f.start <= generation
             /\ Elements(f.route) \subseteq Elements(Route(f.name, f.sender))
             /\ f.pc \in {"check", "present", "absent", "calling"} => f.buf # << >>
             /\ f.route \in Seq(Keys) /\ f.route # << >>
  BY <1>1, PostFrameType, PostFrameHas, PostFields DEF Looked
<1>2. ASSUME NEW h \in PostFrames, NEW f \in F, f.op = "post",
             h.pc = "present" => Saw(h, triplets), h.pc = "absent" => ~ Saw(h, triplets),
             SamePost(h, f),
             Elements(h.route) \subseteq Elements(f.route)
      PROVE  h \in F
  <2>1. /\ f.start <= generation
        /\ Elements(f.route) \subseteq Elements(Route(f.name, f.sender))
    BY <1>1, <1>2
  <2>2. h \in Frames /\ h.start <= generation
        /\ Elements(h.route) \subseteq Elements(Route(h.name, h.sender))
    BY <1>2, <2>1 DEF Frames, SamePost
  <2> QED
    BY <1>2, <2>2 DEF Looked
<1>3. ASSUME NEW f \in F, f.op = "post", f.pc = "check"
      PROVE  IF StillPresent(Head(f.route), Last(f.buf).observer)
             THEN Moved(f, "present") \in F ELSE Moved(f, "absent") \in F
  <2>1. f \in PostFrames /\ f.buf # << >>
    BY <1>1, <1>3
  <2>2. Moved(f, "present") \in PostFrames /\ Moved(f, "absent") \in PostFrames
    BY <2>1, StepTypes
  <2> DEFINE Still == StillPresent(Head(f.route), Last(f.buf).observer)
  <2>3. ASSUME NEW pc \in {"present", "absent"}, pc = "present" <=> Still
        PROVE  Moved(f, pc) \in F
    <3> DEFINE h == Moved(f, pc)
    <3>1. h.pc = pc /\ h.route = f.route /\ h.buf = f.buf /\ SamePost(h, f)
      BY <2>1, MovedFields
    <3>2. h \in PostFrames
      BY <2>2
    <3> HIDE DEF h
    <3>3. Saw(h, triplets) <=> Still
      BY <3>1 DEF Saw, PresentIn, StillPresent
    <3>4. h \in F
      BY <1>2, <1>3, <2>3, <3>1, <3>2, <3>3
    <3> QED
      BY <3>4 DEF h
  <2> QED
    BY <2>3
<1>4. ASSUME NEW f \in F, f.op = "post", f.buf = << >>, Len(f.route) > 1
      PROVE  Onward(f) \in F
  <2>1. f \in PostFrames /\ f.route \in Seq(Keys) /\ f.route # << >>
    BY <1>1, <1>4
  <2>2. Elements(Tail(f.route)) \subseteq Elements(f.route)
    BY <2>1, TailElements
  <2> QED
    BY <1>2, <1>4, <2>1, <2>2, OnwardFields, StepTypes
<1>5. ASSUME NEW f \in F, f.op = "post"
      PROVE  /\ Moved(f, "next") \in F /\ Copied(f) \in F
             /\ f.buf # << >> => /\ Moved(f, "check") \in F
                                 /\ Calling(f) \in F /\ Dropped(f) \in F
  <2>1. f \in PostFrames
    BY <1>1, <1>5
  <2>2. ASSUME NEW h \in PostFrames, h.pc \notin {"present", "absent"},
               h.route = f.route, SamePost(h, f)
        PROVE  h \in F
    BY <1>2, <1>5, <2>2
  <2>3. Moved(f, "next") \in F
    BY <2>1, <2>2, MovedFields, StepTypes
  <2>4. Copied(f) \in F
    BY <2>1, <2>2, CopiedFields, StepTypes
  <2>5. f.buf # << >> => Moved(f, "check") \in F
    BY <2>1, <2>2, MovedFields, StepTypes
  <2>6. f.buf # << >> => Calling(f) \in F
    BY <2>1, <2>2, CallingFields, StepTypes
  <2>7. f.buf # << >> => Dropped(f) \in F
    BY <2>1, <2>2, DroppedFields, StepTypes
  <2> QED
    BY <2>3, <2>4, <2>5, <2>6, <2>7
<1>7. ASSUME NEW n \in Names, NEW s \in Senders \union {Nil}
      PROVE  PostFrame(n, s) \in F
  <2>1. generation \in Nat
    BY DEF TypeOK
  <2>2. /\ PostFrame(n, s) \in Frames
        /\ PostFrame(n, s).pc = "copy" /\ PostFrame(n, s).start = generation
        /\ PostFrame(n, s).route = Route(n, s)
        /\ PostFrame(n, s).name = n /\ PostFrame(n, s).sender = s
    BY <2>1, NewPostFrameType DEF PostFrame
  <2> QED
    BY <2>1, <2>2 DEF Looked
<1>8. \A f \in Frames : f.op # "post" => f \in F
  BY DEF Looked
<1> HIDE DEF F
<1>9. PostClosed(F)
  BY <1>1, <1>3, <1>4, <1>5 DEF PostClosed
<1>10. CallClosed(F)
  BY <1>7, <1>8 DEF CallClosed
<1> QED
  BY <1>9, <1>10 DEF F

(***************************************************************************)
(* Nobody is between its look and its call while the registries change:    *)
(* both happen under the lock.                                             *)
(***************************************************************************)
LEMMA ChangeKeepsLooked ==
  ASSUME LookedInv, NEW t \in Threads, Add(t) \/ RemoveAll(t) \/ Remove(t)
  PROVE  LookedStacks'
<1> DEFINE Old == Looked(generation, triplets)
<1> DEFINE Safe == { f \in Old : f.pc \notin {"present", "absent"} }
<1> DEFINE New == Looked(generation', triplets')
<1>1. TypeOK /\ CallersWait /\ LockDiscipline /\ stack \in [Threads -> Seq(Old)]
  BY DEF LookedInv, LockInv, LookedStacks
<1>2. generation \in Nat /\ generation' \in Nat /\ generation <= generation'
  BY <1>1, ChangeGrows DEF TypeOK
<1>3. \A u \in Threads : ~ InCriticalSection(u)
  <2>1. lock = Unlocked
    BY DEF Add, RemoveAll, Remove, Acquire
  <2> QED
    BY <1>1, <2>1, ConstantsAssumption DEF LockDiscipline
<1>4. ASSUME NEW u \in Threads, NEW d \in DOMAIN stack[u]
      PROVE  stack[u][d] \in Safe
  <2>1. stack[u] \in Seq(Old) /\ d \in 1 .. Len(stack[u]) /\ Len(stack[u]) \in Nat
    <3> HIDE DEF Old
    <3> QED
      BY <1>1, <1>4
  <2>2. stack[u][d] \in Old
    BY <2>1
  <2>3. CASE d < Len(stack[u])
    BY <1>1, <2>2, <2>3 DEF CallersWait
  <2>4. CASE d = Len(stack[u])
    <3>1. stack[u] # << >> /\ stack[u][d] = Top(u)
      BY <2>1, <2>4 DEF Top, Last
    <3> QED
      BY <1>3, <2>2, <3>1 DEF InCriticalSection
  <2> QED
    BY <2>1, <2>3, <2>4
<1>5. Safe \subseteq New
  <2> SUFFICES ASSUME NEW f \in Safe, f.op = "post"
               PROVE  f.start <= generation'
    BY DEF Looked
  <2>1. f.start \in Nat
    BY PostFields DEF Looked, PostFrames
  <2>2. f.start <= generation
    BY DEF Looked
  <2> QED
    BY <1>2, <2>1, <2>2
<1>6. stack \in [Threads -> Seq(New)]
  <2> HIDE DEF Old, New
  <2>1. \A u \in Threads : stack[u] \in Seq(Old)
    BY <1>1
  <2>2. \A u \in Threads : \A d \in DOMAIN stack[u] : stack[u][d] \in New
    BY <1>4, <1>5
  <2>3. ASSUME NEW u \in Threads
        PROVE  stack[u] \in Seq(New)
    BY <2>1, <2>2
  <2> QED
    BY <1>1, <2>3
<1> DEFINE h == [Top(t) EXCEPT !.pc = "leave"]
<1>7. /\ stack[t] # << >> /\ Top(t).op \in {"add", "remove", "removeAll"} /\ Become(t, h)
  BY DEF Add, RemoveAll, Remove, At, Goto
<1>8. Top(t) \in Frames
  BY <1>1, <1>7, TopType
<1>9. Top(t) \in OtherFrames
  BY <1>7, <1>8 DEF Frames, PostFrames
<1>10. h \in Frames
  BY <1>7, <1>8, AddFrameType, RemoveAllFrameType
<1>11. h.op # "post"
  BY <1>7, <1>9 DEF OtherFrames
<1>12. h \in New
  BY <1>10, <1>11 DEF Looked
<1> HIDE DEF New, h
<1>13. stack' \in [Threads -> Seq(New)]
  BY <1>6, <1>7, <1>12, BecomeFrame
<1> QED
  BY <1>13 DEF LookedStacks, New

LEMMA LookedInvNext ==
  ASSUME LookedInv, [Next]_vars
  PROVE  LookedStacks'
<1>1. TypeOK /\ stack \in [Threads -> Seq(Looked(generation, triplets))]
  BY DEF LookedInv, LockInv, LookedStacks
<1>2. ASSUME UNCHANGED registries, stack' \in [Threads -> Seq(Looked(generation, triplets))]
      PROVE  LookedStacks'
  BY <1>2 DEF registries, LookedStacks
<1>3. CASE UNCHANGED vars
  BY <1>1, <1>2, <1>3 DEF vars, registries
<1>4. ASSUME NEW t \in Threads, Call(t)
      PROVE  LookedStacks'
  BY <1>1, <1>2, <1>4, LookedIsClosed, ClosedCalls, RegistriesStand
<1>5. ASSUME NEW t \in Threads, EnterLock(t)
      PROVE  LookedStacks'
  <2>1. CASE Add(t) \/ RemoveAll(t) \/ Remove(t)
    BY <2>1, ChangeKeepsLooked
  <2>2. CASE Copy(t) \/ Check(t)
    BY <1>1, <1>2, <2>2, LookedIsClosed, ClosedPosts, RegistriesStand
  <2> QED
    BY <1>5, <2>1, <2>2 DEF EnterLock
<1>6. ASSUME NEW t \in Threads,
             Leave(t) \/ EndPost(t) \/ EndWillFinalize(t) \/ AbandonPost(t)
      PROVE  LookedStacks'
  <2>1. stack[t] # << >> /\ Pop(t) /\ UNCHANGED registries
    BY <1>6, RegistriesStand DEF Leave, EndPost, EndWillFinalize, Raise, AbandonPost, At
  <2> QED
    BY <1>1, <1>2, <2>1, PopFrame
<1>7. ASSUME NEW t \in Threads, LeaveLock(t) \/ WithoutLock(t) \/ Return(t)
      PROVE  LookedStacks'
  BY <1>1, <1>2, <1>6, <1>7, LookedIsClosed, ClosedPosts, RegistriesStand
     DEF LeaveLock, WithoutLock
<1>8. ASSUME NEW t \in Threads, AbandonWillFinalize(t)
      PROVE  LookedStacks'
  <2>1. stack' = [stack EXCEPT ![t] = << >>] /\ UNCHANGED registries
    BY <1>8, RegistriesStand DEF Raise, AbandonWillFinalize
  <2> QED
    BY <1>1, <1>2, <2>1
<1> QED
  BY <1>3, <1>4, <1>5, <1>6, <1>7, <1>8 DEF Next, Raise

(***************************************************************************)
(* The inductive invariant, always.                                        *)
(***************************************************************************)
LEMMA AlwaysLooked == Spec => []LookedStacks
<1>1. Init => LookedStacks
  BY DEF Init, LookedStacks
<1>2. TypeOK /\ CallersWait /\ LockDiscipline /\ LookedStacks /\ [Next]_vars => LookedStacks'
  BY LookedInvNext DEF LookedInv, LockInv
<1> QED
  BY <1>1, <1>2, TypeCorrect, AlwaysLocked, PTL DEF Spec

-----------------------------------------------------------------------------
(***************************************************************************)
(* The registrations in force, as the pair queues P know them, and what    *)
(* the promise sees of a post while the registrations R are in force.      *)
(***************************************************************************)
RegisteredIn(P) ==
  UNION { { [observer |-> o, name |-> p.name, sender |-> p.sender, reg |-> p.reg] :
              p \in Elements(P[o]) } : o \in DOMAIN P }

OwedIn(f, R) ==
  { r.reg : r \in { r \in R : /\ r.reg < f.start
                              /\ (r.name = Nil \/ r.name = f.name)
                              /\ (r.sender = Nil \/ r.sender = f.sender)
                              /\ Ahead(f, r) } }

View(f, R) ==
  [name |-> f.name, sender |-> f.sender,
   running |-> IF f.pc = "calling" THEN Last(f.buf).observer ELSE Nil,
   called |-> RegsOf(f.called), owed |-> OwedIn(f, R)]

Views(q, R) == [d \in DOMAIN PostsOf(q) |-> View(PostsOf(q)[d], R)]

LEMMA SeenPosts ==
  /\ Registered = RegisteredIn(pairs)
  /\ Registered' = RegisteredIn(pairs')
  /\ \A t : Posts(t) = Views(stack[t], RegisteredIn(pairs))
  /\ \A t : Posts(t)' = Views(stack'[t], RegisteredIn(pairs'))
<1>1. Registered = RegisteredIn(pairs) /\ Registered' = RegisteredIn(pairs')
  BY DEF Registered, RegisteredIn
<1>2. \A f : Abstract(f) = View(f, RegisteredIn(pairs))
  BY <1>1 DEF Abstract, View, Owed, OwedIn
<1>3. \A f : Abstract(f)' = View(f, RegisteredIn(pairs'))
  BY <1>1 DEF Abstract, View, Owed, OwedIn
<1>4. \A t : Posts(t) = Views(stack[t], RegisteredIn(pairs))
  BY <1>2 DEF Posts, Views
<1>5. \A t : Posts(t)' = Views(stack'[t], RegisteredIn(pairs'))
  BY <1>3 DEF Posts, Views
<1> QED
  BY <1>1, <1>4, <1>5

LEMMA InRegistered ==
  ASSUME NEW P, IsMap(P, Observers, Pair), NEW r
  PROVE  r \in RegisteredIn(P) <=>
           \E n \in Names \union {Nil}, s \in Senders \union {Nil}, o \in Observers, g \in Nat :
             /\ r = [observer |-> o, name |-> n, sender |-> s, reg |-> g]
             /\ InPairs(P, n, s, o, g)
<1>1. \A k, x : Holds(P, k, x) => k \in Observers /\ x \in Pair
  BY HoldsType
<1>2. \A p \in Pair : p = [name |-> p.name, sender |-> p.sender, reg |-> p.reg]
  BY DEF Pair
<1>3. ASSUME r \in RegisteredIn(P)
      PROVE  \E n \in Names \union {Nil}, s \in Senders \union {Nil}, o \in Observers, g \in Nat :
               /\ r = [observer |-> o, name |-> n, sender |-> s, reg |-> g]
               /\ InPairs(P, n, s, o, g)
  <2>1. PICK o \in DOMAIN P : \E p \in Elements(P[o]) :
               r = [observer |-> o, name |-> p.name, sender |-> p.sender, reg |-> p.reg]
    BY <1>3 DEF RegisteredIn
  <2>2. PICK p \in Elements(P[o]) :
               r = [observer |-> o, name |-> p.name, sender |-> p.sender, reg |-> p.reg]
    BY <2>1
  <2>3. Holds(P, o, p)
    BY DEF Holds
  <2>4. o \in Observers /\ p \in Pair
    BY <1>1, <2>3
  <2>5. /\ p.name \in Names \union {Nil} /\ p.sender \in Senders \union {Nil}
        /\ p.reg \in Nat
    BY <2>4 DEF Pair
  <2>6. InPairs(P, p.name, p.sender, o, p.reg)
    BY <1>2, <2>3, <2>4 DEF InPairs
  <2> QED
    BY <2>2, <2>4, <2>5, <2>6
<1>4. ASSUME NEW n, NEW s, NEW o, NEW g,
             r = [observer |-> o, name |-> n, sender |-> s, reg |-> g],
             InPairs(P, n, s, o, g)
      PROVE  r \in RegisteredIn(P)
  BY <1>4 DEF InPairs, Holds, RegisteredIn
<1> QED
  BY <1>3, <1>4

LEMMA RegistrationsAreHeld ==
  ASSUME RegistryInv, NEW r \in Registered
  PROVE  /\ r.observer \in Observers /\ r.reg \in Nat
         /\ r.name \in Names \union {Nil} /\ r.sender \in Senders \union {Nil}
         /\ r = [observer |-> r.observer, name |-> r.name, sender |-> r.sender, reg |-> r.reg]
         /\ Holds(triplets, Key(r.name, r.sender), [observer |-> r.observer, reg |-> r.reg])
<1>1. /\ IsMap(pairs, Observers, Pair) /\ IsMap(triplets, Keys, Triplet)
      /\ TripletRegs(triplets) = PairRegs(pairs)
  BY Agreement
<1>2. PICK n \in Names \union {Nil}, s \in Senders \union {Nil}, o \in Observers, g \in Nat :
        /\ r = [observer |-> o, name |-> n, sender |-> s, reg |-> g]
        /\ InPairs(pairs, n, s, o, g)
  BY <1>1, InRegistered, SeenPosts
<1>3. Registration(Key(n, s), o, g) \in TripletRegs(triplets)
  BY <1>1, <1>2, InPairRegs
<1>4. InTriplets(triplets, Key(n, s), o, g)
  <2>1. PICK k \in Keys, u \in Observers, h \in Nat :
          /\ Registration(Key(n, s), o, g) = Registration(k, u, h)
          /\ InTriplets(triplets, k, u, h)
    BY <1>1, <1>3, InTripletRegs
  <2>2. k = Key(n, s) /\ u = o /\ h = g
    BY <2>1 DEF Registration
  <2> QED
    BY <2>1, <2>2
<1>5. r.observer = o /\ r.name = n /\ r.sender = s /\ r.reg = g
  BY <1>2
<1> QED
  BY <1>2, <1>4, <1>5 DEF InTriplets

LEMMA HeldAreRegistrations ==
  ASSUME RegistryInv, NEW k, NEW x, Holds(triplets, k, x)
  PROVE  \E r \in Registered :
           Key(r.name, r.sender) = k /\ r.observer = x.observer /\ r.reg = x.reg
<1>1. /\ IsMap(pairs, Observers, Pair) /\ IsMap(triplets, Keys, Triplet)
      /\ TripletRegs(triplets) = PairRegs(pairs)
  BY Agreement
<1>2. k \in Keys /\ x \in Triplet
  BY <1>1, HoldsType
<1>3. Registration(k, x.observer, x.reg) \in PairRegs(pairs)
  BY <1>1 DEF Holds, TripletRegs
<1>4. PICK n \in Names \union {Nil}, s \in Senders \union {Nil}, o \in Observers, g \in Nat :
        /\ Registration(k, x.observer, x.reg) = Registration(Key(n, s), o, g)
        /\ InPairs(pairs, n, s, o, g)
  BY <1>1, <1>3, InPairRegs
<1> DEFINE r == [observer |-> o, name |-> n, sender |-> s, reg |-> g]
<1>5. r \in Registered
  BY <1>1, <1>4, InRegistered, SeenPosts
<1>6. k = Key(n, s) /\ x.observer = o /\ x.reg = g
  BY <1>4 DEF Registration
<1> QED
  BY <1>5, <1>6

(***************************************************************************)
(* A generation tells the registrations in force apart.                    *)
(***************************************************************************)
LEMMA OneRegistration ==
  ASSUME RegistryInv, OrderInv, RegsUnique,
         NEW r \in Registered, NEW q \in Registered, r.reg = q.reg
  PROVE  r = q
<1> DEFINE k == Key(r.name, r.sender)
<1> DEFINE l == Key(q.name, q.sender)
<1> DEFINE x == [observer |-> r.observer, reg |-> r.reg]
<1> DEFINE y == [observer |-> q.observer, reg |-> q.reg]
<1>1. Holds(triplets, k, x) /\ Holds(triplets, l, y)
  BY RegistrationsAreHeld
<1>2. x.reg = y.reg
  OBVIOUS
<1> HIDE DEF x, y, k, l
<1>3. k = l
  BY <1>1, <1>2 DEF Holds, RegsUnique, OnlyUnder
<1>4. triplets[k] \in Seq(Triplet) /\ Ascending(triplets[k])
  BY <1>1 DEF Holds, RegistryInv, TypeOK, IsMap, OrderInv, Ordered
<1>5. x = y
  BY <1>1, <1>2, <1>3, <1>4, OneTripletForAReg DEF Holds
<1>6. r.name = q.name /\ r.sender = q.sender
  <2>1. /\ r.name \in Names \union {Nil} /\ r.sender \in Senders \union {Nil}
        /\ q.name \in Names \union {Nil} /\ q.sender \in Senders \union {Nil}
    BY RegistrationsAreHeld
  <2>2. Key(r.name, r.sender) = Key(q.name, q.sender)
    BY <1>3 DEF k, l
  <2> QED
    BY <2>1, <2>2, KeyInjective
<1>7. r.observer = q.observer
  BY <1>5 DEF x, y
<1> QED
  BY <1>6, <1>7, RegistrationsAreHeld

LEMMA RegistrationsAreOld ==
  ASSUME RegistryInv, OrderInv, NEW r \in Registered
  PROVE  r.reg < generation
<1> DEFINE x == [observer |-> r.observer, reg |-> r.reg]
<1>1. Holds(triplets, Key(r.name, r.sender), x)
  BY RegistrationsAreHeld
<1>2. x.reg = r.reg
  OBVIOUS
<1> HIDE DEF x
<1> QED
  BY <1>1, <1>2 DEF Holds, OrderInv, Ordered

-----------------------------------------------------------------------------
(***************************************************************************)
(* What a change of the stack does to the posts that are seen.             *)
(***************************************************************************)
(***************************************************************************)
(* The posts of a stack are what Keep leaves of it.                        *)
(***************************************************************************)
LEMMA PostsAreKept ==
  ASSUME NEW S, NEW q \in Seq(S)
  PROVE  PostsOf(q) = Keep(q, { f \in Elements(q) : f.op = "post" })
<1> DEFINE G == { f \in Elements(q) : f.op = "post" }
<1> DEFINE Step(F) == [i \in 0 .. Len(q) |->
                         IF i = 0 THEN << >>
                         ELSE IF q[i].op = "post" THEN Append(F[i - 1], q[i]) ELSE F[i - 1]]
<1> DEFINE C == CHOOSE F : F = Step(F)
<1>1. \A i \in 1 .. Len(q) : q[i].op = "post" <=> q[i] \in G
  BY DEF Elements
<1> HIDE DEF G
<1>2. PICK F : F = [i \in 0 .. Len(q) |-> F[i]] /\ Collects(F, q, G, Len(q))
  BY CollectsExists
<1>3. F = Step(F)
  <2>1. \A i \in 0 .. Len(q) :
          F[i] = IF i = 0 THEN << >>
                 ELSE IF q[i].op = "post" THEN Append(F[i - 1], q[i]) ELSE F[i - 1]
    <3>1. F[0] = << >>
      BY <1>2 DEF Collects
    <3>2. ASSUME NEW i \in 1 .. Len(q)
          PROVE  F[i] = IF q[i].op = "post" THEN Append(F[i - 1], q[i]) ELSE F[i - 1]
      <4>1. F[i] = IF q[i] \in G THEN Append(F[i - 1], q[i]) ELSE F[i - 1]
        BY <1>2 DEF Collects
      <4> QED
        BY <1>1, <4>1
    <3>3. \A i \in 0 .. Len(q) : i = 0 \/ i \in 1 .. Len(q)
      OBVIOUS
    <3> QED
      BY <3>1, <3>2, <3>3
  <2>2. [i \in 0 .. Len(q) |-> F[i]] = Step(F)
    BY <2>1
  <2> QED
    BY <1>2, <2>2
<1>4. C = Step(C)
  BY <1>3
<1>5. ASSUME NEW H, H = Step(H)
      PROVE  Collects(H, q, G, Len(q))
  <2>1. DOMAIN H = 0 .. Len(q)
    BY <1>5
  <2>2. \A i \in 0 .. Len(q) : H[i] = Step(H)[i]
    BY <1>5
  <2>3. H[0] = << >>
    BY <2>2
  <2>4. \A i \in 1 .. Len(q) :
          H[i] = IF q[i] \in G THEN Append(H[i - 1], q[i]) ELSE H[i - 1]
    BY <1>1, <2>2
  <2> QED
    BY <2>1, <2>3, <2>4 DEF Collects
<1>6. Collects(C, q, G, Len(q))
  BY <1>4, <1>5
<1>7. PostsOf(q) = C[Len(q)]
  BY DEF PostsOf
<1>8. PICK K : Collects(K, q, G, Len(q)) /\ Keep(q, G) = K[Len(q)]
  BY KeepCollects
<1>9. C[Len(q)] = K[Len(q)]
  <2> HIDE DEF C
  <2>1. Len(q) \in Nat
    OBVIOUS
  <2> QED
    BY <1>6, <1>8, <2>1, CollectsAgree
<1> QED
  BY <1>7, <1>8, <1>9 DEF G

LEMMA PostsOfEmpty == PostsOf(<< >>) = << >>
<1>1. << >> \in Seq({})
  OBVIOUS
<1> QED
  BY <1>1, PostsAreKept, KeepEmpty

LEMMA PostsOfType ==
  ASSUME NEW S, NEW q \in Seq(S)
  PROVE  /\ PostsOf(q) \in Seq(S)
         /\ \A f \in Elements(PostsOf(q)) : f \in Elements(q) /\ f.op = "post"
<1> DEFINE G == { f \in Elements(q) : f.op = "post" }
<1>1. Keep(q, G) \in Seq(S) /\ Elements(Keep(q, G)) = Elements(q) \intersect G
  BY KeepElements
<1> QED
  BY <1>1, PostsAreKept

LEMMA PostsOfAppend ==
  ASSUME NEW S, NEW q \in Seq(S), NEW f \in S
  PROVE  PostsOf(Append(q, f)) =
           IF f.op = "post" THEN Append(PostsOf(q), f) ELSE PostsOf(q)
<1> DEFINE G == { h \in Elements(q) : h.op = "post" }
<1> DEFINE K == { h \in Elements(Append(q, f)) : h.op = "post" }
<1>1. Elements(Append(q, f)) = Elements(q) \union {f}
  BY AppendElements
<1>2. \A h \in Elements(q) : h \in G <=> h \in K
  BY <1>1
<1>3. f \in K <=> f.op = "post"
  BY <1>1
<1> HIDE DEF G, K
<1>4. Keep(Append(q, f), K) = IF f \in K THEN Append(Keep(q, G), f) ELSE Keep(q, G)
  BY <1>2, KeepAppend
<1>5. PostsOf(Append(q, f)) = Keep(Append(q, f), K) /\ PostsOf(q) = Keep(q, G)
  <2>1. Append(q, f) \in Seq(S)
    OBVIOUS
  <2> QED
    BY <2>1, PostsAreKept DEF G, K
<1> QED
  BY <1>3, <1>4, <1>5

LEMMA ViewsType ==
  ASSUME NEW S, NEW q \in Seq(S), NEW R
  PROVE  Views(q, R) \in Seq({ View(f, R) : f \in S })
<1> DEFINE p == PostsOf(q)
<1>1. p \in Seq(S)
  BY PostsOfType
<1> HIDE DEF p
<1> DEFINE W == { View(f, R) : f \in S }
<1>2. \A d \in 1 .. Len(p) : View(p[d], R) \in W
  BY <1>1
<1> HIDE DEF W
<1>3. [d \in 1 .. Len(p) |-> View(p[d], R)] \in Seq(W)
  BY <1>1, <1>2
<1> QED
  BY <1>1, <1>3 DEF Views, p, W

LEMMA ViewsAppend ==
  ASSUME NEW S, NEW q \in Seq(S), NEW f \in S, NEW R
  PROVE  Views(Append(q, f), R) =
           IF f.op = "post" THEN Append(Views(q, R), View(f, R)) ELSE Views(q, R)
<1>1. CASE f.op # "post"
  BY <1>1, PostsOfAppend DEF Views
<1>2. CASE f.op = "post"
  <2> DEFINE p == PostsOf(q)
  <2> DEFINE e == Append(p, f)
  <2> DEFINE V == Views(q, R)
  <2> DEFINE v == View(f, R)
  <2> DEFINE W == { View(h, R) : h \in S }
  <2>1. PostsOf(Append(q, f)) = e /\ p \in Seq(S)
    BY <1>2, PostsOfAppend, PostsOfType
  <2>2. V \in Seq(W) /\ v \in W
    BY ViewsType
  <2>3. V = [d \in DOMAIN p |-> View(p[d], R)]
    BY DEF Views
  <2>4. Views(Append(q, f), R) = [d \in DOMAIN e |-> View(e[d], R)]
    BY <2>1 DEF Views
  <2> HIDE DEF p, V, W
  <2>5. /\ e \in Seq(S) /\ Len(e) = Len(p) + 1 /\ Len(p) \in Nat
        /\ \A d \in 1 .. Len(p) : e[d] = p[d]
        /\ e[Len(p) + 1] = f
    BY <2>1
  <2>6. Len(V) = Len(p)
    BY <2>1, <2>2, <2>3
  <2> HIDE DEF e, v
  <2> DEFINE A == Append(V, v)
  <2>7. /\ A \in Seq(W) /\ Len(A) = Len(p) + 1
        /\ \A d \in 1 .. Len(p) : A[d] = V[d]
        /\ A[Len(p) + 1] = v
    BY <2>2, <2>5, <2>6
  <2> HIDE DEF A
  <2>8. A = [d \in DOMAIN e |-> View(e[d], R)]
    <3>1. DOMAIN A = 1 .. Len(p) + 1 /\ DOMAIN e = 1 .. Len(p) + 1 /\ DOMAIN p = 1 .. Len(p)
      BY <2>1, <2>5, <2>7
    <3>2. ASSUME NEW d \in 1 .. Len(p) + 1
          PROVE  A[d] = View(e[d], R)
      <4>1. CASE d \in 1 .. Len(p)
        BY <2>3, <2>5, <2>7, <3>1, <4>1
      <4>2. CASE d = Len(p) + 1
        BY <2>5, <2>7, <4>2 DEF v
      <4> QED
        BY <2>5, <4>1, <4>2
    <3>3. A = [d \in DOMAIN A |-> A[d]]
      BY <2>7
    <3> QED
      BY <3>1, <3>2, <3>3
  <2> QED
    BY <1>2, <2>4, <2>8 DEF A, V, v
<1> QED
  BY <1>1, <1>2

(***************************************************************************)
(* The posts are seen alike when each is.                                  *)
(***************************************************************************)
LEMMA ViewsAgree ==
  ASSUME NEW S, NEW q \in Seq(S), NEW R, NEW T,
         \A f \in S : f.op = "post" => View(f, R) = View(f, T)
  PROVE  Views(q, R) = Views(q, T)
<1> DEFINE p == PostsOf(q)
<1>1. p \in Seq(S) /\ \A f \in Elements(p) : f.op = "post"
  BY PostsOfType
<1> HIDE DEF p
<1>2. \A d \in DOMAIN p : p[d] \in S /\ p[d].op = "post"
  BY <1>1 DEF Elements
<1> QED
  BY <1>2 DEF Views, p

(***************************************************************************)
(* The posts of all threads, for the stacks q.                             *)
(***************************************************************************)
Seen(q, R) == [u \in Threads |-> Views(q[u], R)]

LEMMA FrontOfAppend ==
  ASSUME NEW S, NEW q \in Seq(S), NEW x \in S
  PROVE  /\ Append(q, x) # << >> /\ Append(q, x)[Len(Append(q, x))] = x
         /\ SubSeq(Append(q, x), 1, Len(Append(q, x)) - 1) = q
         /\ \A y \in S : [Append(q, x) EXCEPT ![Len(Append(q, x))] = y] = Append(q, y)
<1> DEFINE e == Append(q, x)
<1>1. /\ e \in Seq(S) /\ Len(e) = Len(q) + 1 /\ Len(q) \in Nat /\ e # << >>
      /\ \A i \in 1 .. Len(q) : e[i] = q[i]
      /\ e[Len(q) + 1] = x
  OBVIOUS
<1> HIDE DEF e
<1>2. /\ Front(e) \in Seq(S) /\ Len(Front(e)) = Len(q)
      /\ \A i \in 1 .. Len(q) : Front(e)[i] = e[i]
  BY <1>1, FrontProperties
<1>3. Front(e) = q
  BY <1>1, <1>2
<1>4. \A y : [e EXCEPT ![Len(e)] = y] = Append(q, y)
  BY <1>1, <1>3, FrontAndLast
<1>5. SubSeq(e, 1, Len(e) - 1) = q /\ e[Len(e)] = x
  BY <1>1, <1>3 DEF Front
<1> QED
  BY <1>1, <1>4, <1>5 DEF e

(***************************************************************************)
(* A stack whose top is a post.                                            *)
(***************************************************************************)
LEMMA SeenTop ==
  ASSUME NEW q \in Seq(Frames), q # << >>, NEW R
  PROVE  Views(q, R) = IF Last(q).op = "post"
                       THEN Append(Views(Front(q), R), View(Last(q), R))
                       ELSE Views(Front(q), R)
<1>1. q = Append(Front(q), Last(q)) /\ Front(q) \in Seq(Frames) /\ Last(q) \in Frames
  BY FrontAndLast, FrontProperties
<1> DEFINE p == Front(q)
<1> DEFINE f == Last(q)
<1> HIDE DEF p, f
<1>2. Views(Append(p, f), R) = IF f.op = "post" THEN Append(Views(p, R), View(f, R)) ELSE Views(p, R)
  BY <1>1, ViewsAppend DEF p, f
<1> QED
  BY <1>1, <1>2 DEF p, f

LEMMA SeenPush ==
  ASSUME stack \in [Threads -> Seq(Frames)], NEW t \in Threads, NEW f \in Frames,
         Push(t, f), NEW R
  PROVE  Seen(stack', R) =
           IF f.op = "post"
           THEN [Seen(stack, R) EXCEPT ![t] = Append(@, View(f, R))]
           ELSE Seen(stack, R)
<1>1. /\ stack'[t] = Append(stack[t], f) /\ stack[t] \in Seq(Frames)
      /\ \A u \in Threads \ {t} : stack'[u] = stack[u]
  BY DEF Push
<1>2. Views(stack'[t], R) =
        IF f.op = "post" THEN Append(Views(stack[t], R), View(f, R)) ELSE Views(stack[t], R)
  BY <1>1, ViewsAppend
<1>3. \A u \in Threads \ {t} : Views(stack'[u], R) = Views(stack[u], R)
  BY <1>1
<1> QED
  BY <1>2, <1>3 DEF Seen

LEMMA SeenPop ==
  ASSUME stack \in [Threads -> Seq(Frames)], NEW t \in Threads, stack[t] # << >>,
         Pop(t), NEW R
  PROVE  Seen(stack', R) =
           IF Top(t).op = "post"
           THEN [Seen(stack, R) EXCEPT ![t] = SubSeq(@, 1, Len(@) - 1)]
           ELSE Seen(stack, R)
<1>1. /\ stack'[t] = Front(stack[t]) /\ stack[t] \in Seq(Frames)
      /\ \A u \in Threads \ {t} : stack'[u] = stack[u]
  BY DEF Pop
<1> DEFINE p == Front(stack[t])
<1>2. Views(stack[t], R) =
        IF Top(t).op = "post" THEN Append(Views(p, R), View(Top(t), R)) ELSE Views(p, R)
  BY <1>1, SeenTop DEF Top
<1>3. p \in Seq(Frames) /\ Top(t) \in Frames
  BY <1>1, FrontProperties DEF Top
<1> DEFINE W == { View(f, R) : f \in Frames }
<1>4. Views(p, R) \in Seq(W) /\ View(Top(t), R) \in W
  BY <1>3, ViewsType
<1>5. \A u \in Threads \ {t} : Views(stack'[u], R) = Views(stack[u], R)
  BY <1>1
<1> HIDE DEF W
<1>6. Top(t).op = "post" =>
        SubSeq(Views(stack[t], R), 1, Len(Views(stack[t], R)) - 1) = Views(stack'[t], R)
  BY <1>1, <1>2, <1>4, FrontOfAppend
<1> HIDE DEF p
<1> QED
  BY <1>1, <1>2, <1>5, <1>6 DEF Seen, p

(***************************************************************************)
(* A sequence of two ends in its second and begins with its first.         *)
(***************************************************************************)
LEMMA FrontOfTwo ==
  ASSUME NEW F, NEW q \in Seq(F), Len(q) = 2
  PROVE  /\ q # << >> /\ Last(q) \in F
         /\ Front(q) \in Seq(F) /\ Len(Front(q)) = 1 /\ Front(q)[1] = q[1]
<1>1. q # << >>
  OBVIOUS
<1>2. /\ Last(q) \in F /\ Front(q) \in Seq(F) /\ Len(Front(q)) = Len(q) - 1
      /\ \A i \in 1 .. Len(Front(q)) : Front(q)[i] = q[i]
  BY <1>1, FrontProperties
<1> QED
  BY <1>1, <1>2

LEMMA FrontOfOne ==
  ASSUME NEW F, NEW q \in Seq(F), Len(q) = 1
  PROVE  q # << >> /\ Last(q) = q[1] /\ Front(q) = << >>
<1>1. q # << >> /\ Last(q) = q[1]
  BY DEF Last
<1>2. Front(q) \in Seq(F) /\ Len(Front(q)) = Len(q) - 1
  BY <1>1, FrontProperties
<1>3. \A p \in Seq(F) : Len(p) = 0 => p = << >>
  OBVIOUS
<1> QED
  BY <1>1, <1>2, <1>3

(***************************************************************************)
(* The post of +willFinalize is the only one of its thread.                *)
(***************************************************************************)
LEMMA SeenClear ==
  ASSUME stack \in [Threads -> Seq(Frames)], NEW t \in Threads, PostsForWillFinalize(t),
         Top(t).op = "post", stack' = [stack EXCEPT ![t] = << >>], NEW R
  PROVE  Seen(stack', R) = [Seen(stack, R) EXCEPT ![t] = SubSeq(@, 1, Len(@) - 1)]
<1> DEFINE q == stack[t]
<1> DEFINE p == Front(q)
<1>0. q \in Seq(Frames) /\ Len(q) = 2 /\ q[1].op = "willFinalize" /\ Top(t) = Last(q)
  BY DEF PostsForWillFinalize, Top
<1>1. stack'[t] = << >> /\ \A u \in Threads \ {t} : stack'[u] = stack[u]
  OBVIOUS
<1> HIDE DEF q
<1>3. /\ q # << >> /\ Top(t) \in Frames
      /\ p \in Seq(Frames) /\ Len(p) = 1 /\ p[1] = q[1]
  BY <1>0, FrontOfTwo
<1>2. Views(q, R) = Append(Views(p, R), View(Top(t), R))
  BY <1>0, <1>3, SeenTop
<1>4. Front(p) = << >> /\ Last(p).op = "willFinalize" /\ p # << >>
  <2> HIDE DEF p
  <2> QED
    BY <1>0, <1>3, FrontOfOne
<1> DEFINE W == { View(f, R) : f \in Frames }
<1>5. Views(p, R) \in Seq(W) /\ View(Top(t), R) \in W
  BY <1>3, ViewsType
<1>6. Views(p, R) = Views(Front(p), R)
  BY <1>3, <1>4, SeenTop
<1>7. Views(p, R) = Views(stack'[t], R)
  BY <1>1, <1>4, <1>6
<1>8. \A u \in Threads \ {t} : Views(stack'[u], R) = Views(stack[u], R)
  BY <1>1
<1> HIDE DEF W, p
<1>9. SubSeq(Views(q, R), 1, Len(Views(q, R)) - 1) = Views(stack'[t], R)
  BY <1>2, <1>5, <1>7, FrontOfAppend
<1> QED
  BY <1>8, <1>9 DEF Seen, q

LEMMA SeenBecome ==
  ASSUME stack \in [Threads -> Seq(Frames)], NEW t \in Threads, stack[t] # << >>,
         NEW f \in Frames, Become(t, f), NEW R, f.op = "post" <=> Top(t).op = "post"
  PROVE  Seen(stack', R) =
           IF f.op = "post"
           THEN [Seen(stack, R) EXCEPT ![t][Len(Seen(stack, R)[t])] = View(f, R)]
           ELSE Seen(stack, R)
<1>1. /\ stack'[t] = [stack[t] EXCEPT ![Len(stack[t])] = f]
      /\ stack[t] \in Seq(Frames)
      /\ \A u \in Threads \ {t} : stack'[u] = stack[u]
  BY DEF Become
<1> DEFINE p == Front(stack[t])
<1>2. stack'[t] = Append(p, f)
  BY <1>1, FrontAndLast
<1>3. p \in Seq(Frames) /\ Top(t) \in Frames
  BY <1>1, FrontProperties DEF Top
<1>4. Views(stack[t], R) =
        IF f.op = "post" THEN Append(Views(p, R), View(Top(t), R)) ELSE Views(p, R)
  BY <1>1, SeenTop DEF Top
<1>5. Views(stack'[t], R) =
        IF f.op = "post" THEN Append(Views(p, R), View(f, R)) ELSE Views(p, R)
  BY <1>2, <1>3, ViewsAppend
<1> DEFINE W == { View(h, R) : h \in Frames }
<1>6. Views(p, R) \in Seq(W) /\ View(Top(t), R) \in W /\ View(f, R) \in W
  BY <1>3, ViewsType
<1>7. \A u \in Threads \ {t} : Views(stack'[u], R) = Views(stack[u], R)
  BY <1>1
<1> HIDE DEF W, p
<1>8. f.op = "post" =>
        [Views(stack[t], R) EXCEPT ![Len(Views(stack[t], R))] = View(f, R)] = Views(stack'[t], R)
  BY <1>4, <1>5, <1>6, FrontOfAppend
<1> QED
  BY <1>4, <1>5, <1>7, <1>8 DEF Seen

(***************************************************************************)
(* The innermost post.                                                     *)
(***************************************************************************)
LEMMA SeenCurrent ==
  ASSUME stack \in [Threads -> Seq(Frames)], NEW t \in Threads, stack[t] # << >>,
         Top(t).op = "post", NEW R
  PROVE  /\ Seen(stack, R)[t] # << >>
         /\ Seen(stack, R)[t][Len(Seen(stack, R)[t])] = View(Top(t), R)
<1>1. stack[t] \in Seq(Frames)
  OBVIOUS
<1> DEFINE p == Front(stack[t])
<1>2. Views(stack[t], R) = Append(Views(p, R), View(Top(t), R))
  BY <1>1, SeenTop DEF Top
<1>3. p \in Seq(Frames) /\ Top(t) \in Frames
  BY <1>1, FrontProperties DEF Top
<1> DEFINE W == { View(f, R) : f \in Frames }
<1>4. Views(p, R) \in Seq(W) /\ View(Top(t), R) \in W
  BY <1>3, ViewsType
<1> HIDE DEF W, p
<1> QED
  BY <1>2, <1>4, FrontOfAppend DEF Seen

-----------------------------------------------------------------------------
(***************************************************************************)
(* How the view of a post changes with its frame.                          *)
(***************************************************************************)
LEMMA SameView ==
  ASSUME NEW f, NEW h, SamePost(h, f), h.called = f.called,
         h.pc # "calling", f.pc # "calling",
         NEW R, \A r \in R : Ahead(h, r) <=> Ahead(f, r)
  PROVE  View(h, R) = View(f, R)
<1>1. OwedIn(h, R) = OwedIn(f, R)
  BY DEF OwedIn, SamePost
<1> QED
  BY <1>1 DEF View, SamePost

(***************************************************************************)
(* The records of the promise.                                             *)
(***************************************************************************)
PostView(n, s, o, c, w) ==
  [name |-> n, sender |-> s, running |-> o, called |-> c, owed |-> w]

Delivers(v, u, g) ==
  [v EXCEPT !.running = u, !.called = @ \union {g}, !.owed = @ \ {g}]

Returns(v) == [v EXCEPT !.running = Nil]

Forgets(v, G) == [v EXCEPT !.owed = @ \ G]

LEMMA PostViewDelivers ==
  ASSUME NEW n, NEW s, NEW o, NEW c, NEW w, NEW u, NEW g
  PROVE  Delivers(PostView(n, s, o, c, w), u, g) = PostView(n, s, u, c \union {g}, w \ {g})
<1> DEFINE v == PostView(n, s, o, c, w)
<1>1. v = PostView(n, s, o, c, w) /\ v.called = c /\ v.owed = w
  BY DEF PostView
<1> HIDE DEF v
<1>2. [v EXCEPT !.running = u, !.called = c \union {g}, !.owed = w \ {g}]
        = [[[v EXCEPT !.running = u] EXCEPT !.called = c \union {g}] EXCEPT !.owed = w \ {g}]
  BY Zenon
<1>3. [v EXCEPT !.running = u] = PostView(n, s, u, c, w)
  BY <1>1 DEF PostView
<1>4. [PostView(n, s, u, c, w) EXCEPT !.called = c \union {g}]
        = PostView(n, s, u, c \union {g}, w)
  BY DEF PostView
<1>5. [PostView(n, s, u, c \union {g}, w) EXCEPT !.owed = w \ {g}]
        = PostView(n, s, u, c \union {g}, w \ {g})
  BY DEF PostView
<1>6. [v EXCEPT !.running = u, !.called = c \union {g}, !.owed = w \ {g}]
           = PostView(n, s, u, c \union {g}, w \ {g})
  BY <1>2, <1>3, <1>4, <1>5
<1>7. Delivers(v, u, g) = PostView(n, s, u, c \union {g}, w \ {g})
  BY <1>1, <1>6 DEF Delivers
<1> QED
  BY <1>7 DEF v

LEMMA PostViewReturns ==
  ASSUME NEW n, NEW s, NEW o, NEW c, NEW w
  PROVE  Returns(PostView(n, s, o, c, w)) = PostView(n, s, Nil, c, w)
BY DEF PostView, Returns

LEMMA PostViewForgets ==
  ASSUME NEW n, NEW s, NEW o, NEW c, NEW w, NEW G
  PROVE  Forgets(PostView(n, s, o, c, w), G) = PostView(n, s, o, c, w \ G)
BY DEF PostView, Forgets

LEMMA CopiedView ==
  ASSUME RegistryInv, NEW f \in PostFrames, f.pc = "copy"
  PROVE  View(Copied(f), Registered) = View(f, Registered)
<1> DEFINE h == Copied(f)
<1> DEFINE k == Head(f.route)
<1>1. /\ SamePost(h, f) /\ h.pc = "copied" /\ h.route = f.route
      /\ h.buf = QueueFor(triplets, k) /\ h.called = f.called
  BY CopiedFields
<1> HIDE DEF h
<1>2. ASSUME NEW r \in Registered, Key(r.name, r.sender) = k
      PROVE  r.reg \in RegsOf(h.buf)
  <2> DEFINE x == [observer |-> r.observer, reg |-> r.reg]
  <2>1. Holds(triplets, k, x)
    BY <1>2, RegistrationsAreHeld
  <2>2. x \in Elements(h.buf) /\ x.reg = r.reg
    BY <1>1, <2>1 DEF Holds, QueueFor
  <2> HIDE DEF x
  <2> QED
    BY <2>2 DEF RegsOf
<1>3. \A r \in Registered : Ahead(h, r) <=> Ahead(f, r)
  BY <1>1, <1>2 DEF Ahead, Pending
<1>4. View(h, Registered) = View(f, Registered)
  BY <1>1, <1>3, SameView
<1> QED
  BY <1>4 DEF h

LEMMA MovedView ==
  ASSUME NEW f \in PostFrames, f.pc \notin {"copy", "calling"},
         NEW pc, pc \notin {"copy", "calling"}, NEW R
  PROVE  View(Moved(f, pc), R) = View(f, R)
<1> DEFINE h == Moved(f, pc)
<1>1. /\ SamePost(h, f) /\ h.pc = pc /\ h.route = f.route
      /\ h.buf = f.buf /\ h.called = f.called
  BY MovedFields
<1> HIDE DEF h
<1>2. \A r \in R : Ahead(h, r) <=> Ahead(f, r)
  BY <1>1 DEF Ahead, Pending
<1>3. View(h, R) = View(f, R)
  BY <1>1, <1>2, SameView
<1> QED
  BY <1>3 DEF h

LEMMA LastAndFront ==
  ASSUME NEW q \in Seq(Triplet), q # << >>
  PROVE  RegsOf(q) = RegsOf(Front(q)) \union {Last(q).reg}
<1>1. Elements(q) = Elements(Front(q)) \union {Last(q)}
  <2>1. Front(q) \in Seq(Triplet) /\ Last(q) \in Triplet /\ q = Append(Front(q), Last(q))
    BY FrontProperties, FrontAndLast
  <2> DEFINE p == Front(q)
  <2> DEFINE x == Last(q)
  <2> HIDE DEF p, x
  <2>2. Elements(Append(p, x)) = Elements(p) \union {x}
    BY <2>1, AppendElements DEF p, x
  <2> QED
    BY <2>1, <2>2 DEF p, x
<1> QED
  BY <1>1 DEF RegsOf

(***************************************************************************)
(* The observer that was gone had no registration left under the key.      *)
(***************************************************************************)
LEMMA SkippedView ==
  ASSUME RegistryInv, NEW f \in Right(generation, triplets), f.op = "post",
         f.pc = "absent", ~ Saw(f, triplets)
  PROVE  View(Dropped(f), Registered) = View(f, Registered)
<1> DEFINE h == Dropped(f)
<1> DEFINE k == Head(f.route)
<1> DEFINE l == Last(f.buf)
<1>1. f \in PostFrames /\ f.buf \in Seq(Triplet) /\ f.buf # << >>
  BY PostFields, PostFrameHas DEF Right
<1>2. /\ SamePost(h, f) /\ h.pc = "next" /\ h.route = f.route
      /\ h.buf = Front(f.buf) /\ h.called = f.called
  BY <1>1, DroppedFields
<1>3. l \in Elements(f.buf) /\ OnlyAs(triplets, l)
  BY <1>1, FrontProperties DEF Right, CopyRight
<1> HIDE DEF h, l
<1>4. ASSUME NEW r \in Registered, Key(r.name, r.sender) = k
      PROVE  r.reg # l.reg
  <2> DEFINE x == [observer |-> r.observer, reg |-> r.reg]
  <2>1. Holds(triplets, k, x)
    BY <1>4, RegistrationsAreHeld
  <2>2. x.reg = r.reg
    OBVIOUS
  <2> HIDE DEF x
  <2>3. r.reg = l.reg => x = l
    BY <1>3, <2>1, <2>2 DEF OnlyAs, Holds
  <2>4. x # l
    BY <2>1 DEF Saw, PresentIn, Holds, QueueFor, l
  <2> QED
    BY <2>3, <2>4
<1>5. RegsOf(f.buf) = RegsOf(h.buf) \union {l.reg}
  BY <1>1, <1>2, LastAndFront DEF l
<1>6. \A r \in Registered : Ahead(h, r) <=> Ahead(f, r)
  BY <1>2, <1>4, <1>5 DEF Ahead, Pending
<1>7. View(h, Registered) = View(f, Registered)
  BY <1>2, <1>6, SameView
<1> QED
  BY <1>7 DEF h

LEMMA NothingPending ==
  ASSUME NEW f \in PostFrames, f.pc = "next", f.buf = << >>, NEW r
  PROVE  Ahead(f, r) <=> Key(r.name, r.sender) \in Elements(Tail(f.route))
BY NoElements DEF Ahead, Pending, RegsOf

LEMMA OnwardView ==
  ASSUME NEW f \in PostFrames, f.pc = "next", f.buf = << >>, Len(f.route) > 1, NEW R
  PROVE  View(Onward(f), R) = View(f, R)
<1> DEFINE h == Onward(f)
<1>1. /\ SamePost(h, f) /\ h.pc = "copy" /\ h.route = Tail(f.route)
      /\ h.called = f.called
  BY OnwardFields
<1>2. Tail(f.route) \in Seq(Keys) /\ Tail(f.route) # << >>
  BY PostFrameHas
<1> DEFINE q == Tail(f.route)
<1> HIDE DEF h, q
<1>3. Elements(q) = {Head(q)} \union Elements(Tail(q))
  BY <1>2, TailElements DEF q
<1>4. \A r \in R : Ahead(h, r) <=> Key(r.name, r.sender) \in Elements(q)
  BY <1>1, <1>3 DEF Ahead, q
<1>5. \A r \in R : Ahead(h, r) <=> Ahead(f, r)
  BY <1>4, NothingPending DEF q
<1>6. View(h, R) = View(f, R)
  BY <1>1, <1>5, SameView
<1> QED
  BY <1>6 DEF h

LEMMA EndedView ==
  ASSUME NEW f \in PostFrames, f.pc = "next", f.buf = << >>, Len(f.route) = 1, NEW R
  PROVE  View(f, R).owed = {} /\ View(f, R).running = Nil
<1>1. f.route \in Seq(Keys)
  BY DEF PostFrames
<1>2. Tail(f.route) = << >>
  <2> DEFINE q == f.route
  <2>1. Tail(q) \in Seq(Keys) /\ Len(Tail(q)) = 0
    BY <1>1, PostFrameHas, HeadTailProperties
  <2> QED
    BY <2>1, EmptySeq
<1>3. \A r \in R : ~ Ahead(f, r)
  BY <1>2, NothingPending, NoElements
<1>4. OwedIn(f, R) = {}
  BY <1>3 DEF OwedIn
<1> QED
  BY <1>4 DEF View

LEMMA ReturnedView ==
  ASSUME NEW f \in PostFrames, f.pc = "calling", NEW R
  PROVE  View(Dropped(f), R) = Returns(View(f, R))
<1> DEFINE h == Dropped(f)
<1>1. /\ SamePost(h, f) /\ h.pc = "next" /\ h.route = f.route
      /\ h.buf = Front(f.buf) /\ h.called = f.called
  BY DroppedFields
<1> HIDE DEF h
<1>2. \A r \in R : Ahead(h, r) <=> Ahead(f, r)
  BY <1>1 DEF Ahead, Pending
<1>3. OwedIn(h, R) = OwedIn(f, R)
  BY <1>1, <1>2 DEF OwedIn, SamePost
<1>4. View(h, R) = Returns(View(f, R))
  BY <1>1, <1>3 DEF View, SamePost, Returns
<1> QED
  BY <1>4 DEF h

(***************************************************************************)
(* A call takes the registration it calls out of what is owed, and only    *)
(* that one: no other key leads to it.                                     *)
(***************************************************************************)
LEMMA CallingView ==
  ASSUME RegistryInv, NEW f \in Right(generation, triplets), f.op = "post",
         f.pc \in {"next", "present"}, f.buf # << >>
  PROVE  View(Calling(f), Registered) =
           Delivers(View(f, Registered), Last(f.buf).observer, Last(f.buf).reg)
<1> DEFINE h == Calling(f)
<1> DEFINE k == Head(f.route)
<1> DEFINE l == Last(f.buf)
<1>1. /\ f \in PostFrames /\ f.buf \in Seq(Triplet)
      /\ f.route \in Seq(Keys) /\ f.route # << >>
      /\ f.called \in Seq([key : Keys, reg : Nat]) /\ k \in Keys
  BY PostFields, PostFrameHas DEF Right
<1>2. /\ SamePost(h, f) /\ h.pc = "calling" /\ h.route = f.route /\ h.buf = f.buf
      /\ h.called = Append(f.called, [key |-> k, reg |-> l.reg])
  BY <1>1, CallingFields
<1>3. /\ l \in Triplet /\ l \in Elements(f.buf)
      /\ \A x \in Elements(Front(f.buf)) : x.reg \in Nat /\ x.reg < l.reg
      /\ NoRepeats(f.route) /\ OnlyUnder(triplets, l.reg, k)
  BY <1>1, LastIsHighest, FrontProperties DEF Right, CopyRight
<1>4. l.reg \notin RegsOf(Front(f.buf))
  <2>1. l.reg \in Nat
    BY <1>3 DEF Triplet
  <2>2. ASSUME NEW a \in Nat, NEW b \in Nat, a < b
        PROVE  a # b
    BY <2>2
  <2> HIDE DEF l
  <2>3. \A x \in Elements(Front(f.buf)) : x.reg # l.reg
    BY <1>3, <2>1, <2>2
  <2> QED
    BY <2>3 DEF RegsOf
<1>5. k \notin Elements(Tail(f.route))
  BY <1>1, <1>3, RouteHeadTail
<1>6. ASSUME NEW r \in Registered, r.reg = l.reg
      PROVE  Key(r.name, r.sender) = k
  <2> DEFINE x == [observer |-> r.observer, reg |-> r.reg]
  <2>1. Holds(triplets, Key(r.name, r.sender), x) /\ x.reg = l.reg
    BY <1>6, RegistrationsAreHeld
  <2> HIDE DEF x, l
  <2> QED
    BY <1>3, <2>1 DEF OnlyUnder, Holds
<1>7. RegsOf(f.buf) = RegsOf(Front(f.buf)) \union {l.reg}
  BY <1>1, LastAndFront
<1>8. RegsOf(h.called) = RegsOf(f.called) \union {l.reg}
  <2> DEFINE c == [key |-> k, reg |-> l.reg]
  <2>1. c \in [key : Keys, reg : Nat] /\ c.reg = l.reg
    BY <1>1, <1>3 DEF Triplet
  <2> DEFINE S == [key : Keys, reg : Nat]
  <2> DEFINE q == f.called
  <2>4. q \in Seq(S) /\ c \in S
    BY <1>1, <2>1
  <2> HIDE DEF c, S, q
  <2>2. Elements(Append(q, c)) = Elements(q) \union {c}
    BY <2>4, AppendElements
  <2>3. h.called = Append(f.called, c)
    BY <1>2 DEF c
  <2> QED
    BY <2>1, <2>2, <2>3 DEF RegsOf, q
<1> HIDE DEF h, l
<1>9. \A r \in Registered : Ahead(h, r) <=> Ahead(f, r) /\ r.reg # l.reg
  <2>1. Pending(h) = Front(f.buf) /\ Pending(f) = f.buf
    BY <1>2 DEF Pending
  <2> QED
    BY <1>2, <1>4, <1>5, <1>6, <1>7, <2>1 DEF Ahead
<1>10. OwedIn(h, Registered) = OwedIn(f, Registered) \ {l.reg}
  BY <1>2, <1>9 DEF OwedIn, SamePost
<1> DEFINE R == Registered
<1>11. f.pc # "calling"
  OBVIOUS
<1> HIDE DEF R
<1>12. View(h, R) =
         Delivers(View(f, R), l.observer, l.reg)
  <2>1. View(h, R) = PostView(f.name, f.sender, l.observer,
                              RegsOf(f.called) \union {l.reg}, OwedIn(f, R) \ {l.reg})
    BY <1>2, <1>8, <1>10 DEF View, SamePost, PostView, l, R
  <2>2. View(f, R) = PostView(f.name, f.sender, Nil, RegsOf(f.called), OwedIn(f, R))
    BY <1>11 DEF View, PostView
  <2> QED
    BY <2>1, <2>2, PostViewDelivers
<1> QED
  BY <1>12 DEF h, l, R

(***************************************************************************)
(* A post that begins owes a call to every registration in force that      *)
(* covers its notification.                                                *)
(***************************************************************************)
LEMMA BegunView ==
  ASSUME RegistryInv, OrderInv, NEW n \in Names, NEW s \in Senders \union {Nil}
  PROVE  View(PostFrame(n, s), Registered) =
           [name |-> n, sender |-> s, running |-> Nil, called |-> {},
            owed |-> { r.reg : r \in { r \in Registered : /\ r.name \in {Nil, n}
                                                          /\ r.sender \in {Nil, s} } }]
<1> DEFINE f == PostFrame(n, s)
<1>1. /\ f.name = n /\ f.sender = s /\ f.pc = "copy" /\ f.route = Route(n, s)
      /\ f.start = generation /\ f.called = << >>
  BY DEF PostFrame
<1>2. Route(n, s) \in Seq(Keys) /\ Route(n, s) # << >>
  BY RouteType
<1> HIDE DEF f
<1>3. \A r \in Registered : Ahead(f, r) <=> Key(r.name, r.sender) \in Elements(Route(n, s))
  BY <1>1, <1>2, TailElements DEF Ahead
<1>4. \A r \in Registered :
        /\ r.name \in Names \union {Nil} /\ r.sender \in Senders \union {Nil}
        /\ r.reg < generation
  BY RegistrationsAreHeld, RegistrationsAreOld
<1>5. \A r \in Registered : Ahead(f, r) <=> r.name \in {Nil, n} /\ r.sender \in {Nil, s}
  BY <1>3, <1>4, RouteCovers
<1>6. OwedIn(f, Registered) =
        { r.reg : r \in { r \in Registered : r.name \in {Nil, n} /\ r.sender \in {Nil, s} } }
  BY <1>1, <1>4, <1>5 DEF OwedIn
<1>7. RegsOf(f.called) = {}
  BY <1>1, NoElements DEF RegsOf
<1> QED
  BY <1>1, <1>6, <1>7 DEF View, f

(***************************************************************************)
(* How the view of a post changes with the registrations in force.         *)
(***************************************************************************)
LEMMA AddedView ==
  ASSUME NEW f, NEW R, NEW r, ~ (r.reg < f.start)
  PROVE  View(f, R \union {r}) = View(f, R)
<1>1. OwedIn(f, R \union {r}) = OwedIn(f, R)
  BY DEF OwedIn
<1> QED
  BY <1>1 DEF View

LEMMA RemovedView ==
  ASSUME NEW f, NEW R, NEW gone \in SUBSET R,
         \A r, q \in R : r.reg = q.reg => r = q
  PROVE  View(f, R \ gone) = Forgets(View(f, R), { r.reg : r \in gone })
<1> DEFINE G == { r.reg : r \in gone }
<1> DEFINE o == IF f.pc = "calling" THEN Last(f.buf).observer ELSE Nil
<1>1. OwedIn(f, R \ gone) = OwedIn(f, R) \ G
  BY DEF OwedIn
<1>2. /\ View(f, R \ gone) =
           PostView(f.name, f.sender, o, RegsOf(f.called), OwedIn(f, R \ gone))
      /\ View(f, R) = PostView(f.name, f.sender, o, RegsOf(f.called), OwedIn(f, R))
  BY DEF View, PostView
<1> HIDE DEF o, G
<1>3. View(f, R \ gone) = Forgets(View(f, R), G)
  BY <1>1, <1>2, PostViewForgets
<1> QED
  BY <1>3 DEF G

-----------------------------------------------------------------------------
(***************************************************************************)
(* The steps.                                                              *)
(***************************************************************************)
DeliveryInv ==
  /\ RegistryInv
  /\ CallsInv
  /\ LookedStacks
  /\ CopyIsCurrent

(***************************************************************************)
(* The promise tells registrations apart by the generations they were made *)
(* in: there is a name in Regs for each one until now.                     *)
(***************************************************************************)
RegsSuffice == \A g \in Nat : g < generation => g \in Regs

LEMMA SeenIsAllPosts ==
  /\ AllPosts = Seen(stack, Registered)
  /\ AllPosts' = Seen(stack', Registered')
<1>1. AllPosts = [t \in Threads |-> Posts(t)] /\ AllPosts' = [t \in Threads |-> Posts(t)']
  BY DEF AllPosts
<1> QED
  BY <1>1, SeenPosts DEF Seen

LEMMA RegisteredStands ==
  ASSUME UNCHANGED registries
  PROVE  Registered' = Registered
<1>1. pairs' = pairs
  BY DEF registries
<1> QED
  BY <1>1, SeenPosts

LEMMA DeliveryTypes ==
  ASSUME DeliveryInv
  PROVE  /\ TypeOK /\ RegistryInv /\ OrderInv /\ RegsUnique /\ CallsInv
         /\ stack \in [Threads -> Seq(Frames)]
         /\ generation \in Nat
BY StackTypeOK DEF DeliveryInv, RegistryInv, CallsInv, TypeOK

LEMMA PostingTop ==
  ASSUME DeliveryInv, NEW t \in Threads, NEW pc, At(t, "post", pc)
  PROVE  /\ stack[t] # << >> /\ Top(t).op = "post" /\ Top(t).pc = pc
         /\ Top(t) \in PostFrames /\ Top(t) \in Frames
         /\ Top(t) \in Right(generation, triplets)
         /\ Top(t) \in Looked(generation, triplets)
         /\ pc \in {"check", "present", "absent", "calling"} => Top(t).buf # << >>
<1>1. /\ stack[t] # << >> /\ Top(t).op = "post" /\ Top(t).pc = pc
      /\ Top(t) \in PostFrames /\ Top(t) \in Frames
  BY DeliveryTypes, AtPost, TopType DEF At
<1>2. Top(t) \in Right(generation, triplets)
  BY <1>1, DeliveryTypes, RightFrames
<1>3. Top(t) \in Looked(generation, triplets)
  <2>1. stack[t] \in Seq(Looked(generation, triplets))
    BY DEF DeliveryInv, LookedStacks
  <2> QED
    BY <1>1, <2>1, FrontProperties DEF Top
<1> QED
  BY <1>1, <1>2, <1>3, PostFrameHas

(***************************************************************************)
(* A post whose frame becomes h.                                           *)
(***************************************************************************)
LEMMA PostBecomes ==
  ASSUME DeliveryInv, UNCHANGED registries,
         NEW t \in Threads, NEW pc, At(t, "post", pc),
         NEW h \in PostFrames, Become(t, h)
  PROVE  /\ Registered' = Registered
         /\ AllPosts[t] # << >>
         /\ AllPosts[t][Len(AllPosts[t])] = View(Top(t), Registered)
         /\ AllPosts' = [AllPosts EXCEPT ![t][Len(AllPosts[t])] = View(h, Registered)]
         /\ View(h, Registered) = View(Top(t), Registered) => AllPosts' = AllPosts
<1> DEFINE R == Registered
<1>1. h \in Frames /\ h.op = "post"
  BY DEF Frames, PostFrames
<1>2. /\ stack \in [Threads -> Seq(Frames)] /\ stack[t] # << >>
      /\ Top(t).op = "post" /\ Top(t) \in Frames
  BY DeliveryTypes, PostingTop
<1>3. R' = R /\ AllPosts = Seen(stack, R) /\ AllPosts' = Seen(stack', R)
  BY RegisteredStands, SeenIsAllPosts
<1> HIDE DEF R
<1>4. AllPosts' = [AllPosts EXCEPT ![t][Len(AllPosts[t])] = View(h, R)]
  BY <1>1, <1>2, <1>3, SeenBecome
<1>5. AllPosts[t] # << >> /\ AllPosts[t][Len(AllPosts[t])] = View(Top(t), R)
  BY <1>2, <1>3, SeenCurrent
<1>6. ASSUME View(h, R) = View(Top(t), R)
      PROVE  AllPosts' = AllPosts
  <2>1. AllPosts = [u \in Threads |-> AllPosts[u]]
    BY <1>3 DEF Seen
  <2>2. AllPosts[t] \in Seq({ View(f, R) : f \in Frames })
    BY <1>2, <1>3, ViewsType DEF Seen
  <2> DEFINE A == AllPosts[t]
  <2>3. [A EXCEPT ![Len(A)] = A[Len(A)]] = A
    BY <2>2
  <2> QED
    BY <1>4, <1>5, <1>6, <2>1, <2>3
<1> QED
  BY <1>3, <1>4, <1>5, <1>6 DEF R

(***************************************************************************)
(* A step that the promise does not see.                                   *)
(***************************************************************************)
Unseen == Registered' = Registered /\ finalizing' = finalizing /\ AllPosts' = AllPosts

LEMMA ReturnIsFinished ==
  ASSUME DeliveryInv, NEW t \in Threads, Return(t)
  PROVE  Delivery!Finished(t)
<1> DEFINE f == Top(t)
<1> DEFINE R == Registered
<1> DEFINE v == View(f, R)
<1>1. /\ At(t, "post", "calling") /\ Become(t, Dropped(f))
      /\ finalizing' = finalizing /\ UNCHANGED registries
  BY DEF Return, Dropped
<1>2. f \in PostFrames /\ f.pc = "calling" /\ f.buf # << >>
  BY <1>1, PostingTop
<1>3. Dropped(f) \in PostFrames /\ Last(f.buf).observer # Nil
  BY <1>2, StepTypes, DeliveryTypes, PostFrameHas, ConstantsAssumption DEF Triplet
<1>4. View(Dropped(f), R) = Returns(v) /\ v.running # Nil
  BY <1>2, <1>3, ReturnedView DEF View
<1>5. /\ R' = R /\ AllPosts[t] # << >> /\ AllPosts[t][Len(AllPosts[t])] = v
      /\ AllPosts' = [AllPosts EXCEPT ![t][Len(AllPosts[t])] = View(Dropped(f), R)]
  BY <1>1, <1>3, PostBecomes
<1> HIDE DEF v
<1>6. Delivery!Current(t) = v
  BY <1>5 DEF Delivery!Current
<1>7. AllPosts' = [AllPosts EXCEPT ![t][Len(AllPosts[t])] = Returns(v)]
  BY <1>4, <1>5
<1>8. AllPosts' = [AllPosts EXCEPT ![t][Len(AllPosts[t])].running = Nil]
  BY <1>5, <1>7 DEF Returns
<1> QED
  BY <1>1, <1>4, <1>5, <1>6, <1>8 DEF Delivery!Finished

LEMMA PostStepsUnseen ==
  ASSUME DeliveryInv, NEW t \in Threads,
         Copy(t) \/ EndCopy(t) \/ SeeChange(t) \/ Check(t) \/ SkipAbsent(t) \/ NextKey(t)
  PROVE  Unseen
<1> DEFINE f == Top(t)
<1> DEFINE R == Registered
<1>1. TypeOK /\ RegistryInv
  BY DeliveryTypes
<1>2. ASSUME NEW pc, At(t, "post", pc), NEW h \in PostFrames, Become(t, h),
             View(h, R) = View(f, R), UNCHANGED registries, finalizing' = finalizing
      PROVE  Unseen
  BY <1>2, PostBecomes DEF Unseen
<1>3. CASE Copy(t)
  <2>1. /\ At(t, "post", "copy") /\ Become(t, Copied(f))
        /\ UNCHANGED registries /\ finalizing' = finalizing
    BY <1>3 DEF Copy, Copied
  <2>2. f \in PostFrames /\ f.pc = "copy"
    BY <2>1, PostingTop
  <2>3. Copied(f) \in PostFrames /\ View(Copied(f), R) = View(f, R)
    BY <1>1, <2>2, StepTypes, CopiedView
  <2> QED
    BY <1>2, <2>1, <2>3
<1>4. ASSUME NEW pc \in {"copied", "next", "check"}, At(t, "post", pc),
             NEW qc \in {"next", "check", "present", "absent"}, Become(t, Moved(f, qc)),
             qc = "next" \/ f.buf # << >>,
             UNCHANGED registries, finalizing' = finalizing
      PROVE  Unseen
  <2>1. f \in PostFrames /\ f.pc = pc
    BY <1>4, PostingTop
  <2>2. Moved(f, qc) \in PostFrames /\ View(Moved(f, qc), R) = View(f, R)
    BY <1>1, <1>4, <2>1, StepTypes, MovedView
  <2> QED
    BY <1>2, <1>4, <2>2
<1>5. CASE EndCopy(t)
  <2>1. /\ At(t, "post", "copied") /\ Become(t, Moved(f, "next"))
        /\ UNCHANGED registries /\ finalizing' = finalizing
    BY <1>5 DEF EndCopy, Goto, Moved
  <2> QED
    BY <1>4, <2>1
<1>6. CASE SeeChange(t)
  <2>1. /\ At(t, "post", "next") /\ Become(t, Moved(f, "check")) /\ f.buf # << >>
        /\ UNCHANGED registries /\ finalizing' = finalizing
    BY <1>6 DEF SeeChange, Goto, Moved
  <2> QED
    BY <1>4, <2>1
<1>7. CASE Check(t)
  <2>1. PICK qc \in {"present", "absent"} :
          /\ At(t, "post", "check") /\ Become(t, Moved(f, qc))
          /\ UNCHANGED registries /\ finalizing' = finalizing
    BY <1>7 DEF Check, Goto, Moved
  <2>2. f.buf # << >>
    BY <2>1, PostingTop
  <2> QED
    BY <1>4, <2>1, <2>2
<1>8. CASE SkipAbsent(t)
  <2>1. /\ At(t, "post", "absent") /\ Become(t, Dropped(f))
        /\ UNCHANGED registries /\ finalizing' = finalizing
    BY <1>8 DEF SkipAbsent, Dropped
  <2>2. /\ f \in PostFrames /\ f.pc = "absent" /\ f.op = "post" /\ f.buf # << >>
        /\ f \in Right(generation, triplets) /\ ~ Saw(f, triplets)
    BY <2>1, PostingTop DEF Looked
  <2>3. Dropped(f) \in PostFrames /\ View(Dropped(f), R) = View(f, R)
    BY <1>1, <2>2, StepTypes, SkippedView
  <2> QED
    BY <1>2, <2>1, <2>3
<1>9. CASE NextKey(t)
  <2>1. /\ At(t, "post", "next") /\ Become(t, Onward(f))
        /\ f.buf = << >> /\ Len(f.route) > 1
        /\ UNCHANGED registries /\ finalizing' = finalizing
    BY <1>9 DEF NextKey, Onward
  <2>2. f \in PostFrames /\ f.pc = "next"
    BY <2>1, PostingTop
  <2>3. Onward(f) \in PostFrames /\ View(Onward(f), R) = View(f, R)
    BY <1>1, <2>1, <2>2, StepTypes, OnwardView
  <2> QED
    BY <1>2, <2>1, <2>3
<1> QED
  BY <1>3, <1>5, <1>6, <1>7, <1>8, <1>9

(***************************************************************************)
(* A post calls an observer only while a registration of that observer     *)
(* covers its notification: the copy is a prefix of the queue of now, or   *)
(* the post has looked under the lock that it still holds.                 *)
(***************************************************************************)
LEMMA CalledIsRegistered ==
  ASSUME DeliveryInv, NEW t \in Threads, CallUnchanged(t) \/ CallPresent(t)
  PROVE  \E r \in Registered :
           /\ r.observer = Last(Top(t).buf).observer
           /\ r.name \in {Nil, Top(t).name} /\ r.sender \in {Nil, Top(t).sender}
<1> DEFINE f == Top(t)
<1> DEFINE k == Head(f.route)
<1> DEFINE l == Last(f.buf)
<1>1. PICK pc \in {"next", "present"} :
        At(t, "post", pc) /\ (pc = "next" => f.buf # << >> /\ f.gen = generation)
                          /\ (pc = "next" <=> CallUnchanged(t))
  <2>1. CASE CallUnchanged(t)
    BY <2>1 DEF CallUnchanged
  <2>2. CASE ~ CallUnchanged(t)
    BY <2>2 DEF CallPresent
  <2> QED
    BY <2>1, <2>2
<1>2. /\ f \in PostFrames /\ f.pc = pc /\ f.op = "post" /\ stack[t] # << >>
      /\ f \in Looked(generation, triplets) /\ f.buf # << >>
  BY <1>1, PostingTop
<1>3. /\ f.buf \in Seq(Triplet) /\ f.route \in Seq(Keys) /\ f.route # << >>
      /\ f.name \in Names /\ f.sender \in Senders \union {Nil}
  BY <1>2, PostFrameHas DEF PostFrames
<1>4. PresentIn(triplets, k, l.observer)
  <2>1. CASE pc = "present"
    BY <1>2, <2>1 DEF Looked, Saw
  <2>2. CASE pc = "next"
    <3>1. stack[t] \in Seq(Frames) /\ Len(stack[t]) \in 1 .. Len(stack[t])
      BY <1>2, DeliveryTypes, TopType
    <3>2. Current(f, generation, triplets)
      BY <3>1, CopyIsCurrentByFrame DEF DeliveryInv, Top, Last
    <3>3. IsPrefixOf(f.buf, QueueFor(triplets, k))
      BY <1>1, <1>2, <2>2, <3>2 DEF Current
    <3>4. QueueFor(triplets, k) \in Seq(Triplet)
      BY DeliveryTypes, QueueForType DEF TypeOK
    <3>5. l \in Elements(QueueFor(triplets, k))
      <4> DEFINE q == QueueFor(triplets, k)
      <4>1. Len(f.buf) \in 1 .. Len(q) /\ l = q[Len(f.buf)] /\ DOMAIN q = 1 .. Len(q)
        BY <1>2, <1>3, <3>3, <3>4 DEF IsPrefixOf, Last
      <4> QED
        BY <4>1 DEF Elements
    <3> QED
      BY <3>5 DEF PresentIn
  <2> QED
    BY <2>1, <2>2
<1>5. PICK x : Holds(triplets, k, x) /\ x.observer = l.observer
  BY <1>4, NoElements DEF PresentIn, QueueFor, Holds
<1>6. PICK r \in Registered : Key(r.name, r.sender) = k /\ r.observer = l.observer
  BY <1>5, DeliveryTypes, HeldAreRegistrations
<1>7. k \in Elements(Route(f.name, f.sender))
  <2>1. k \in Elements(f.route)
    BY <1>3, TailElements
  <2> QED
    BY <1>2, <2>1 DEF Looked
<1>8. r.name \in Names \union {Nil} /\ r.sender \in Senders \union {Nil}
  BY DeliveryTypes, RegistrationsAreHeld
<1>9. r.name \in {Nil, f.name} /\ r.sender \in {Nil, f.sender}
  <2>1. Key(r.name, r.sender) \in Elements(Route(f.name, f.sender))
    BY <1>6, <1>7
  <2> DEFINE n == f.name
  <2> DEFINE s == f.sender
  <2>2. n \in Names /\ s \in Senders \union {Nil}
    BY <1>3
  <2> HIDE DEF n, s
  <2>3. Key(r.name, r.sender) \in Elements(Route(n, s))
    BY <2>1 DEF n, s
  <2>4. r.name \in {Nil, n} /\ r.sender \in {Nil, s}
    BY <1>8, <2>2, <2>3, RouteCovers
  <2> QED
    BY <2>4 DEF n, s
<1> QED
  BY <1>6, <1>9

LEMMA CallIsDelivery ==
  ASSUME DeliveryInv, RegsSuffice, NEW t \in Threads, CallUnchanged(t) \/ CallPresent(t)
  PROVE  Delivery!IsPosting(t) /\ \E o \in Observers, reg \in Regs : Delivery!Deliver(t, o, reg)
<1> DEFINE f == Top(t)
<1> DEFINE R == Registered
<1> DEFINE v == View(f, R)
<1> DEFINE l == Last(f.buf)
<1>1. PICK pc \in {"next", "present"} : At(t, "post", pc) /\ (pc = "next" => f.buf # << >>)
  BY DEF CallUnchanged, CallPresent
<1>2. Become(t, Calling(f)) /\ finalizing' = finalizing /\ UNCHANGED registries
  BY DEF CallUnchanged, CallPresent
<1>3. /\ f \in PostFrames /\ f.pc = pc /\ f.op = "post" /\ f.buf # << >>
      /\ f \in Right(generation, triplets)
  BY <1>1, PostingTop
<1>4. /\ Calling(f) \in PostFrames /\ l \in Triplet
      /\ f.called \in Seq([key : Keys, reg : Nat]) /\ f.buf \in Seq(Triplet)
  BY <1>3, StepTypes, DeliveryTypes, PostFrameHas DEF PostFrames
<1>5. l.observer \in Observers /\ l.reg \in Regs
  <2>1. l \in Elements(f.buf) /\ l.observer \in Observers /\ l.reg \in Nat
    BY <1>3, <1>4, FrontProperties DEF Triplet
  <2>2. l.reg < generation
    BY <1>3, <2>1 DEF Right, CopyRight
  <2> QED
    BY <2>1, <2>2, DeliveryTypes DEF RegsSuffice
<1>6. View(Calling(f), R) = Delivers(v, l.observer, l.reg)
  BY <1>3, DeliveryTypes, CallingView
<1>7. /\ R' = R /\ AllPosts[t] # << >> /\ AllPosts[t][Len(AllPosts[t])] = v
      /\ AllPosts' = [AllPosts EXCEPT ![t][Len(AllPosts[t])] = View(Calling(f), R)]
  BY <1>1, <1>2, <1>4, PostBecomes
<1>8. v.running = Nil /\ v.name = f.name /\ v.sender = f.sender /\ v.called = RegsOf(f.called)
  BY <1>3 DEF View
<1>9. l.reg \notin RegsOf(f.called)
  <2>1. l \in Elements(f.buf) /\ Pending(f) = f.buf
    BY <1>3, <1>4, FrontProperties DEF Pending
  <2>2. \A c \in Elements(f.called) : c.reg # l.reg
    BY <1>3, <2>1 DEF Right, CallRight
  <2> QED
    BY <2>2 DEF RegsOf
<1>10. \E r \in R : /\ r.observer = l.observer
                    /\ r.name \in {Nil, f.name} /\ r.sender \in {Nil, f.sender}
  BY CalledIsRegistered
<1> HIDE DEF v, R, l
<1>11. Delivery!Current(t) = v
  BY <1>7 DEF Delivery!Current
<1>12. Delivery!IsPosting(t)
  BY <1>7, <1>8, <1>11 DEF Delivery!IsPosting
<1>13. AllPosts' = [AllPosts EXCEPT ![t][Len(AllPosts[t])] =
         [Delivery!Current(t) EXCEPT !.running = l.observer, !.called = @ \union {l.reg},
                                     !.owed = @ \ {l.reg}]]
  BY <1>6, <1>7, <1>11 DEF Delivers
<1>14. \E r \in Registered :
         r.observer = l.observer /\ Delivery!Covers(r, Delivery!Current(t).name, Delivery!Current(t).sender)
  BY <1>8, <1>10, <1>11 DEF Delivery!Covers, R
<1>15. Delivery!Deliver(t, l.observer, l.reg)
  BY <1>2, <1>7, <1>8, <1>9, <1>11, <1>12, <1>13, <1>14 DEF Delivery!Deliver, R
<1> QED
  BY <1>5, <1>12, <1>15

(***************************************************************************)
(* A frame that is not a post comes or goes.                               *)
(***************************************************************************)
LEMMA OtherPushUnseen ==
  ASSUME DeliveryInv, UNCHANGED registries, finalizing' = finalizing,
         NEW t \in Threads, NEW f \in Frames, f.op # "post", Push(t, f)
  PROVE  Unseen
BY DeliveryTypes, RegisteredStands, SeenIsAllPosts, SeenPush DEF Unseen

LEMMA CallsUnseen ==
  ASSUME DeliveryInv, NEW t \in Threads,
         \/ \E o \in Observers, n \in Names \union {Nil}, s \in Senders \union {Nil} :
              CallAdd(t, o, n, s) \/ CallRemove(t, o, n, s)
         \/ \E o \in Observers : CallRemoveAll(t, o)
         \/ Ignored(t)
  PROVE  Unseen
<1>1. ASSUME NEW o \in Observers, NEW n \in Names \union {Nil}, NEW s \in Senders \union {Nil}
      PROVE  /\ AddFrame(o, n, s) \in Frames /\ AddFrame(o, n, s).op # "post"
             /\ RemoveFrame(o, n, s) \in Frames /\ RemoveFrame(o, n, s).op # "post"
             /\ RemoveAllFrame(o) \in Frames /\ RemoveAllFrame(o).op # "post"
  BY DEF AddFrame, RemoveFrame, RemoveAllFrame, Frames, OtherFrames
<1>2. CASE \E o \in Observers, n \in Names \union {Nil}, s \in Senders \union {Nil} :
             CallAdd(t, o, n, s) \/ CallRemove(t, o, n, s)
  <2>1. PICK o \in Observers, n \in Names \union {Nil}, s \in Senders \union {Nil} :
          CallAdd(t, o, n, s) \/ CallRemove(t, o, n, s)
    BY <1>2
  <2>2. /\ Push(t, AddFrame(o, n, s)) \/ Push(t, RemoveFrame(o, n, s))
        /\ UNCHANGED registries /\ finalizing' = finalizing
    BY <2>1 DEF CallAdd, CallRemove
  <2> QED
    BY <1>1, <2>2, OtherPushUnseen
<1>3. CASE \E o \in Observers : CallRemoveAll(t, o)
  <2>1. PICK o \in Observers : CallRemoveAll(t, o)
    BY <1>3
  <2>2. RemoveAllFrame(o) \in Frames /\ RemoveAllFrame(o).op # "post"
    BY DEF RemoveAllFrame, Frames, OtherFrames
  <2> QED
    BY <2>1, <2>2, OtherPushUnseen DEF CallRemoveAll
<1>4. CASE Ignored(t)
  BY <1>4, SeenIsAllPosts, RegisteredStands DEF Ignored, vars, registries, Unseen
<1> QED
  BY <1>2, <1>3, <1>4

LEMMA OtherPopUnseen ==
  ASSUME DeliveryInv, UNCHANGED registries, NEW t \in Threads, stack[t] # << >>,
         Top(t).op # "post", Pop(t)
  PROVE  Registered' = Registered /\ AllPosts' = AllPosts
BY DeliveryTypes, RegisteredStands, SeenIsAllPosts, SeenPop

LEMMA LeaveUnseen ==
  ASSUME DeliveryInv, NEW t \in Threads, Leave(t)
  PROVE  Unseen
<1>1. /\ stack[t] # << >> /\ Top(t).op # "post" /\ Pop(t)
      /\ UNCHANGED registries /\ finalizing' = finalizing
  BY DEF Leave, At
<1> QED
  BY <1>1, OtherPopUnseen DEF Unseen

LEMMA FinalizeIsClose ==
  ASSUME DeliveryInv, NEW t \in Threads, EndWillFinalize(t)
  PROVE  Delivery!Close
<1>1. /\ stack[t] # << >> /\ Top(t).op # "post" /\ Pop(t)
      /\ UNCHANGED registries /\ finalizing' = TRUE
  BY DEF EndWillFinalize, At
<1>2. Registered' = Registered /\ AllPosts' = AllPosts
  BY <1>1, OtherPopUnseen
<1> QED
  BY <1>1, <1>2 DEF Delivery!Close

(***************************************************************************)
(* A post ends: it owes nothing, or the observer it was calling raised.    *)
(***************************************************************************)
LEMMA EndIsEndPost ==
  ASSUME DeliveryInv, NEW t \in Threads, EndPost(t) \/ Raise(t)
  PROVE  Delivery!EndPost(t)
<1> DEFINE f == Top(t)
<1> DEFINE R == Registered
<1> DEFINE v == View(f, R)
<1>1. PICK pc \in {"next", "calling"} :
        /\ At(t, "post", pc)
        /\ pc = "next" => f.buf = << >> /\ Len(f.route) = 1
  BY DEF EndPost, Raise, AbandonPost, AbandonWillFinalize
<1>2. /\ Pop(t) \/ (PostsForWillFinalize(t) /\ stack' = [stack EXCEPT ![t] = << >>])
      /\ finalizing' = finalizing /\ UNCHANGED registries
  BY DEF EndPost, Raise, AbandonPost, AbandonWillFinalize
<1>3. pc = "calling" => f.buf # << >>
  BY <1>1, PostingTop
<1>4. f \in PostFrames /\ f.op = "post" /\ stack[t] # << >> /\ f.pc = pc
  BY <1>1, PostingTop
<1>5. stack \in [Threads -> Seq(Frames)] /\ R' = R
      /\ AllPosts = Seen(stack, R) /\ AllPosts' = Seen(stack', R)
  BY <1>2, DeliveryTypes, RegisteredStands, SeenIsAllPosts
<1>6. v.running = Nil => v.owed = {}
  <2>1. CASE pc = "next"
    BY <1>1, <1>4, <2>1, EndedView
  <2>2. CASE pc = "calling"
    <3>1. Last(f.buf).observer # Nil
      BY <1>3, <1>4, <2>2, PostFrameHas, ConstantsAssumption DEF Triplet
    <3>2. v.running = Last(f.buf).observer
      BY <1>4, <2>2 DEF View
    <3> QED
      BY <3>1, <3>2
  <2> QED
    BY <2>1, <2>2
<1> HIDE DEF R
<1>7. AllPosts[t] # << >> /\ AllPosts[t][Len(AllPosts[t])] = v
  BY <1>4, <1>5, SeenCurrent
<1>8. AllPosts' = [AllPosts EXCEPT ![t] = SubSeq(@, 1, Len(@) - 1)]
  BY <1>2, <1>4, <1>5, SeenPop, SeenClear
<1> HIDE DEF v
<1>9. Delivery!Current(t) = v
  BY <1>7 DEF Delivery!Current
<1> QED
  BY <1>2, <1>5, <1>6, <1>7, <1>8, <1>9 DEF Delivery!EndPost, R

(***************************************************************************)
(* A post begins in user code only: the thread has no post, or its         *)
(* innermost one is calling an observer.                                   *)
(***************************************************************************)
LEMMA UserCodeIsNotPosting ==
  ASSUME DeliveryInv, NEW t \in Threads, InUserCode(t)
  PROVE  ~ Delivery!IsPosting(t)
<1>1. stack \in [Threads -> Seq(Frames)] /\ AllPosts = Seen(stack, Registered)
  BY DeliveryTypes, SeenIsAllPosts
<1>2. CASE stack[t] = << >>
  <2>1. AllPosts[t] = Views(<< >>, Registered)
    BY <1>1, <1>2 DEF Seen
  <2>2. PostsOf(<< >>) = << >>
    BY PostsOfEmpty
  <2>3. AllPosts[t] = << >>
    BY <2>1, <2>2 DEF Views
  <2> QED
    BY <2>3 DEF Delivery!IsPosting
<1>3. CASE At(t, "post", "calling")
  <2> DEFINE f == Top(t)
  <2> DEFINE v == View(f, Registered)
  <2>1. f \in PostFrames /\ f.pc = "calling" /\ f.op = "post" /\ stack[t] # << >> /\ f.buf # << >>
    BY <1>3, PostingTop
  <2>2. v.running # Nil
    <3>1. Last(f.buf).observer # Nil
      BY <2>1, PostFrameHas, ConstantsAssumption DEF Triplet
    <3> QED
      BY <2>1, <3>1 DEF View
  <2>3. AllPosts[t][Len(AllPosts[t])] = v
    BY <1>1, <2>1, SeenCurrent
  <2> HIDE DEF v
  <2> QED
    BY <2>2, <2>3 DEF Delivery!IsPosting, Delivery!Current
<1> QED
  BY <1>2, <1>3 DEF InUserCode

LEMMA PostBegins ==
  ASSUME DeliveryInv, UNCHANGED registries, finalizing' = finalizing, ~ finalizing,
         NEW t \in Threads, InUserCode(t),
         NEW n \in Names, NEW s \in Senders \union {Nil},
         AllPosts' = [AllPosts EXCEPT ![t] = Append(@, View(PostFrame(n, s), Registered))]
  PROVE  Delivery!BeginPost(t, n, s)
<1> DEFINE R == Registered
<1>1. View(PostFrame(n, s), R) =
        [name |-> n, sender |-> s, running |-> Nil, called |-> {},
         owed |-> Delivery!RegsOf({ r \in R : Delivery!Covers(r, n, s) })]
  BY DeliveryTypes, BegunView DEF Delivery!RegsOf, Delivery!Covers
<1>2. ~ Delivery!IsPosting(t) /\ R' = R
  BY UserCodeIsNotPosting, RegisteredStands
<1> QED
  BY <1>1, <1>2 DEF Delivery!BeginPost

LEMMA CallPostIsBeginPost ==
  ASSUME DeliveryInv, NEW t \in Threads, NEW n \in Names, NEW s \in Senders \union {Nil},
         CallPost(t, n, s)
  PROVE  Delivery!BeginPost(t, n, s)
<1> DEFINE f == PostFrame(n, s)
<1> DEFINE R == Registered
<1>1. /\ Push(t, f) /\ UNCHANGED registries /\ finalizing' = finalizing /\ ~ finalizing
      /\ InUserCode(t)
  BY DEF CallPost, MayCall
<1>2. f \in Frames /\ f.op = "post"
  BY DeliveryTypes, NewPostFrameType DEF PostFrame
<1>3. /\ stack \in [Threads -> Seq(Frames)]
      /\ AllPosts = Seen(stack, R) /\ AllPosts' = Seen(stack', R)
  BY <1>1, DeliveryTypes, RegisteredStands, SeenIsAllPosts
<1> HIDE DEF f, R
<1>4. AllPosts' = [AllPosts EXCEPT ![t] = Append(@, View(f, R))]
  BY <1>1, <1>2, <1>3, SeenPush
<1> QED
  BY <1>1, <1>4, PostBegins DEF f, R

(***************************************************************************)
(* willFinalize is no post of its own, the one it makes is.                *)
(***************************************************************************)
LEMMA CallWillFinalizeIsBeginPost ==
  ASSUME DeliveryInv, NEW t \in Threads, CallWillFinalize(t)
  PROVE  Delivery!BeginPost(t, WillFinalize, Nil)
<1> DEFINE f == PostFrame(WillFinalize, Nil)
<1> DEFINE R == Registered
<1>1. /\ stack' = [stack EXCEPT ![t] = <<FinalizeFrame, f>>] /\ stack[t] = << >>
      /\ UNCHANGED registries /\ finalizing' = finalizing /\ ~ finalizing
      /\ InUserCode(t)
  BY DEF CallWillFinalize, InUserCode
<1>2. WillFinalize \in Names /\ Nil \in Senders \union {Nil}
  BY ConstantsAssumption
<1>3. f \in Frames /\ f.op = "post"
  BY <1>2, DeliveryTypes, NewPostFrameType DEF PostFrame
<1>4. FinalizeFrame \in Frames /\ FinalizeFrame.op # "post"
  BY FinalizeFrameType DEF FinalizeFrame
<1>5. /\ stack \in [Threads -> Seq(Frames)]
      /\ AllPosts = Seen(stack, R) /\ AllPosts' = Seen(stack', R)
  BY <1>1, DeliveryTypes, RegisteredStands, SeenIsAllPosts
<1> DEFINE e == FinalizeFrame
<1> HIDE DEF f, R, e
<1>6. Views(<<e>>, R) = Views(<< >>, R)
  <2>1. << >> \in Seq(Frames) /\ e \in Frames /\ ~ (e.op = "post")
    BY <1>4 DEF e
  <2>2. Views(Append(<< >>, e), R) = Views(<< >>, R)
    BY <2>1, ViewsAppend
  <2>3. Append(<< >>, e) = <<e>>
    OBVIOUS
  <2> QED
    BY <2>2, <2>3
<1>7. Views(<<e, f>>, R) = Append(Views(<< >>, R), View(f, R))
  <2>1. e \in Frames /\ <<e>> \in Seq(Frames)
    BY <1>4 DEF e
  <2>2. Views(Append(<<e>>, f), R) = Append(Views(<<e>>, R), View(f, R))
    BY <1>3, <2>1, ViewsAppend
  <2>3. Append(<<e>>, f) = <<e, f>>
    <3> DEFINE p == <<e>>
    <3> DEFINE q == <<e, f>>
    <3>1. /\ p \in Seq(Frames) /\ Len(p) = 1 /\ p[1] = e
          /\ q \in Seq(Frames) /\ Len(q) = 2 /\ q[1] = e /\ q[2] = f
      BY <1>3, <2>1
    <3> HIDE DEF p, q
    <3> DEFINE r == Append(p, f)
    <3>2. r \in Seq(Frames) /\ Len(r) = 2 /\ r[1] = e /\ r[2] = f
      <4>1. f \in Frames
        BY <1>3
      <4>2. /\ r \in Seq(Frames) /\ Len(r) = Len(p) + 1
            /\ \A i \in 1 .. Len(p) : r[i] = p[i]
            /\ r[Len(p) + 1] = f
        <5>1. p \in Seq(Frames)
          BY <3>1
        <5> QED
          BY <4>1, <5>1, AppendProperties
      <4> HIDE DEF r
      <4>3. Len(p) + 1 = 2 /\ 1 \in 1 .. Len(p)
        BY <3>1
      <4> QED
        BY <3>1, <4>2, <4>3
    <3> HIDE DEF r
    <3>3. \A i \in 1 .. 2 : r[i] = q[i]
      BY <3>1, <3>2
    <3>4. r = q
      BY <3>1, <3>2, <3>3, SeqEqual
    <3> QED
      BY <3>4 DEF p, q, r
  <2> QED
    BY <1>6, <2>2, <2>3
<1>8. AllPosts' = [AllPosts EXCEPT ![t] = Append(@, View(f, R))]
  <2>1. Views(stack'[t], R) = Append(Views(stack[t], R), View(f, R))
    BY <1>1, <1>5, <1>7 DEF e
  <2>2. \A u \in Threads \ {t} : stack'[u] = stack[u]
    BY <1>1, <1>5
  <2> QED
    BY <1>5, <2>1, <2>2 DEF Seen
<1> QED
  BY <1>1, <1>2, <1>8, PostBegins DEF f, R

(***************************************************************************)
(* An add or a remove: the registrations change, and its frame is no post. *)
(***************************************************************************)
LEMMA ChangerIsNoPost ==
  ASSUME DeliveryInv, NEW t \in Threads, Add(t) \/ RemoveAll(t) \/ Remove(t)
  PROVE  AllPosts' = Seen(stack, Registered')
<1> DEFINE h == [Top(t) EXCEPT !.pc = "leave"]
<1>1. /\ stack[t] # << >> /\ Top(t).op \in {"add", "remove", "removeAll"} /\ Become(t, h)
  BY DEF Add, RemoveAll, Remove, At, Goto
<1>2. stack \in [Threads -> Seq(Frames)] /\ Top(t) \in Frames
  BY <1>1, DeliveryTypes, TopType
<1>3. Top(t) \in OtherFrames
  BY <1>1, <1>2 DEF Frames, PostFrames
<1>4. h \in Frames
  BY <1>1, <1>2, AddFrameType, RemoveAllFrameType
<1>5. h.op # "post" /\ Top(t).op # "post"
  BY <1>1, <1>3 DEF OtherFrames
<1> HIDE DEF h
<1> DEFINE R == Registered'
<1>6. AllPosts' = Seen(stack', R)
  BY SeenIsAllPosts
<1> HIDE DEF R
<1>7. Seen(stack', R) = Seen(stack, R)
  BY <1>1, <1>2, <1>4, <1>5, SeenBecome
<1> QED
  BY <1>6, <1>7 DEF R

LEMMA RegisteredAfterAdd ==
  ASSUME DeliveryInv, NEW t \in Threads, Add(t)
  PROVE  \E o \in Observers, n \in Names \union {Nil}, s \in Senders \union {Nil} :
           Registered' = Registered
             \union {[observer |-> o, name |-> n, sender |-> s, reg |-> generation]}
<1> DEFINE f == Top(t)
<1>1. f \in Frames /\ f.op = "add"
  BY DeliveryTypes, TopType DEF Add, At
<1>2. f.observer \in Observers /\ f.name \in Names \union {Nil} /\ f.sender \in Senders \union {Nil}
  BY <1>1, AddFrameType
<1> DEFINE o == f.observer
<1> DEFINE x == [name |-> f.name, sender |-> f.sender, reg |-> generation]
<1>3. IsMap(pairs, Observers, Pair) /\ IsMap(pairs', Observers, Pair) /\ generation \in Nat
  BY DeliveryTypes, AddType DEF TypeOK
<1>4. pairs' = Enqueue(pairs, o, x)
  BY DEF Add
<1>5. x \in Pair
  BY <1>2, <1>3 DEF Pair
<1> HIDE DEF x
<1>6. \A k, y : Holds(pairs', k, y) <=> Holds(pairs, k, y) \/ (k = o /\ y = x)
  BY <1>2, <1>3, <1>4, <1>5, EnqueueHolds
<1> DEFINE r == [observer |-> o, name |-> f.name, sender |-> f.sender, reg |-> generation]
<1>7. ASSUME NEW q
      PROVE  q \in RegisteredIn(pairs') <=> q \in RegisteredIn(pairs) \/ q = r
  <2>1. ASSUME NEW n \in Names \union {Nil}, NEW s \in Senders \union {Nil},
               NEW u \in Observers, NEW g \in Nat
        PROVE  InPairs(pairs', n, s, u, g) <=>
                 \/ InPairs(pairs, n, s, u, g)
                 \/ u = o /\ n = f.name /\ s = f.sender /\ g = generation
    BY <1>6 DEF InPairs, x
  <2>2. q \in RegisteredIn(pairs') <=>
           \E n \in Names \union {Nil}, s \in Senders \union {Nil}, u \in Observers, g \in Nat :
             /\ q = [observer |-> u, name |-> n, sender |-> s, reg |-> g]
             /\ InPairs(pairs', n, s, u, g)
    BY <1>3, InRegistered
  <2>3. q \in RegisteredIn(pairs) <=>
           \E n \in Names \union {Nil}, s \in Senders \union {Nil}, u \in Observers, g \in Nat :
             /\ q = [observer |-> u, name |-> n, sender |-> s, reg |-> g]
             /\ InPairs(pairs, n, s, u, g)
    BY <1>3, InRegistered
  <2>4. q = r => q \in RegisteredIn(pairs')
    <3>1. InPairs(pairs', f.name, f.sender, o, generation)
      BY <1>2, <1>3, <2>1
    <3> QED
      BY <1>2, <1>3, <2>2, <3>1
  <2>5. q \in RegisteredIn(pairs) => q \in RegisteredIn(pairs')
    BY <2>1, <2>2, <2>3
  <2>6. q \in RegisteredIn(pairs') => q \in RegisteredIn(pairs) \/ q = r
    BY <2>1, <2>2, <2>3
  <2> QED
    BY <2>4, <2>5, <2>6
<1>8. Registered' = Registered \union {r}
  BY <1>7, SeenPosts
<1> QED
  BY <1>2, <1>8

LEMMA AddIsRegister ==
  ASSUME DeliveryInv, RegsSuffice', NEW t \in Threads, Add(t)
  PROVE  Registered' # Registered /\ \E r \in Delivery!Registration : Delivery!Register(r)
<1> DEFINE R == Registered
<1>1. PICK o \in Observers, n \in Names \union {Nil}, s \in Senders \union {Nil} :
        R' = R \union {[observer |-> o, name |-> n, sender |-> s, reg |-> generation]}
  BY RegisteredAfterAdd
<1> DEFINE r == [observer |-> o, name |-> n, sender |-> s, reg |-> generation]
<1>2. generation \in Nat
  BY DeliveryTypes
<1>3. \A q \in R : q.reg \in Nat /\ q.reg < generation
  BY DeliveryTypes, RegistrationsAreHeld, RegistrationsAreOld
<1>4. r \in Delivery!Registration /\ r.reg = generation
  <2>1. generation' = generation + 1
    BY DEF Add
  <2>2. generation \in Regs
    BY <1>2, <2>1 DEF RegsSuffice
  <2> QED
    BY <2>2 DEF Delivery!Registration
<1> HIDE DEF r
<1>5. \A q \in R : q.reg # r.reg
  <2>1. ASSUME NEW a \in Nat, a < generation
        PROVE  a # generation
    BY <1>2, <2>1
  <2> QED
    BY <1>3, <1>4, <2>1
<1>6. Seen(stack, R \union {r}) = Seen(stack, R)
  <2> DEFINE L == Looked(generation, triplets)
  <2>1. stack \in [Threads -> Seq(L)]
    BY DEF DeliveryInv, LookedStacks
  <2>2. ASSUME NEW f \in L, f.op = "post"
        PROVE  View(f, R) = View(f, R \union {r})
    <3>1. f.start \in Nat /\ f.start <= generation
      BY <2>2, PostFields DEF Looked, PostFrames
    <3>2. ~ (r.reg < f.start)
      BY <1>2, <1>4, <3>1
    <3> QED
      BY <3>2, AddedView
  <2> DEFINE T == R \union {r}
  <2>4. \A f \in L : f.op = "post" => View(f, R) = View(f, T)
    BY <2>2
  <2> HIDE DEF L, R, T
  <2>3. ASSUME NEW u \in Threads
        PROVE  Views(stack[u], R) = Views(stack[u], T)
    <3>1. stack[u] \in Seq(L)
      BY <2>1
    <3> QED
      BY <2>4, <3>1, ViewsAgree
  <2> QED
    BY <2>3 DEF Seen, T
<1>7. AllPosts' = AllPosts
  <2>1. R' = R \union {r}
    BY <1>1 DEF r
  <2>2. AllPosts' = Seen(stack, R')
    BY ChangerIsNoPost
  <2>3. AllPosts = Seen(stack, R)
    BY SeenIsAllPosts
  <2> QED
    BY <1>6, <2>1, <2>2, <2>3
<1>8. finalizing' = finalizing
  BY DEF Add
<1>9. Delivery!Register(r)
  <2>1. r.reg \notin Delivery!RegsOf(Registered)
    BY <1>5 DEF Delivery!RegsOf
  <2> QED
    BY <1>1, <1>7, <1>8, <2>1 DEF Delivery!Register, r
<1> QED
  BY <1>1, <1>4, <1>5, <1>9 DEF r

(***************************************************************************)
(* A remove takes exactly the registrations that its arguments cover, and  *)
(* no post owes a call to them any more.                                   *)
(***************************************************************************)
Taken(o, n, s) ==
  { r \in Registered : /\ r.observer = o
                       /\ n \in {Nil, r.name} /\ s \in {Nil, r.sender} }

LEMMA RegisteredAfterRemove ==
  ASSUME RegistryInv, NEW o \in Observers,
         NEW n \in Names \union {Nil}, NEW s \in Senders \union {Nil}, Unregister(o, n, s)
  PROVE  Registered' = Registered \ Taken(o, n, s)
<1>1. IsMap(pairs, Observers, Pair) /\ TypeOK
  BY DEF RegistryInv, TypeOK
<1>2. CASE o \notin DOMAIN pairs
  <2>1. pairs' = pairs
    BY <1>2 DEF Unregister, registries
  <2>2. ASSUME NEW r \in Registered
        PROVE  r.observer # o
    <3>1. PICK a \in Names \union {Nil}, b \in Senders \union {Nil}, u \in Observers, g \in Nat :
            /\ r = [observer |-> u, name |-> a, sender |-> b, reg |-> g]
            /\ InPairs(pairs, a, b, u, g)
      BY <1>1, InRegistered, SeenPosts
    <3>2. r.observer = u /\ u \in DOMAIN pairs
      BY <3>1 DEF InPairs, Holds
    <3> QED
      BY <1>2, <3>2
  <2> QED
    BY <2>1, <2>2, SeenPosts DEF Taken
<1>3. CASE o \in DOMAIN pairs
  <2>1. pairs' = KeepFor(pairs, {o}, Elements(pairs[o]) \ Selected(QueueFor(pairs, o), n, s))
    BY <1>3 DEF Unregister
  <2>2. /\ IsMap(pairs', Observers, Pair)
        /\ \A a, b, u, g : InPairs(pairs', a, b, u, g) <=>
                            InPairs(pairs, a, b, u, g) /\ ~ (u = o /\ Covers(n, s, a, b))
    BY <1>1, <1>3, <2>1, PairsAfterRemove
  <2>3. ASSUME NEW a, NEW b, NEW u, NEW g,
               NEW r, r = [observer |-> u, name |-> a, sender |-> b, reg |-> g],
               r \in Registered
        PROVE  r \in Taken(o, n, s) <=> u = o /\ Covers(n, s, a, b)
    <3>1. r.observer = u /\ r.name = a /\ r.sender = b
      BY <2>3
    <3> QED
      BY <2>3, <3>1 DEF Taken, Covers
  <2>4. ASSUME NEW r
        PROVE  r \in RegisteredIn(pairs') <=> r \in Registered /\ r \notin Taken(o, n, s)
    <3>1. r \in RegisteredIn(pairs') <=>
            \E a \in Names \union {Nil}, b \in Senders \union {Nil}, u \in Observers, g \in Nat :
              /\ r = [observer |-> u, name |-> a, sender |-> b, reg |-> g]
              /\ InPairs(pairs', a, b, u, g)
      <4>1. IsMap(pairs', Observers, Pair)
        BY <2>2
      <4> QED
        BY <4>1, InRegistered
    <3>2. r \in Registered <=>
            \E a \in Names \union {Nil}, b \in Senders \union {Nil}, u \in Observers, g \in Nat :
              /\ r = [observer |-> u, name |-> a, sender |-> b, reg |-> g]
              /\ InPairs(pairs, a, b, u, g)
      BY <1>1, InRegistered, SeenPosts
    <3>3. ASSUME r \in RegisteredIn(pairs')
          PROVE  r \in Registered /\ r \notin Taken(o, n, s)
      <4>1. PICK a \in Names \union {Nil}, b \in Senders \union {Nil}, u \in Observers, g \in Nat :
              /\ r = [observer |-> u, name |-> a, sender |-> b, reg |-> g]
              /\ InPairs(pairs', a, b, u, g)
        BY <3>1, <3>3
      <4>2. InPairs(pairs, a, b, u, g) /\ ~ (u = o /\ Covers(n, s, a, b))
        BY <2>2, <4>1
      <4>3. r \in Registered
        BY <3>2, <4>1, <4>2
      <4> QED
        BY <2>3, <4>1, <4>2, <4>3
    <3>4. ASSUME r \in Registered, r \notin Taken(o, n, s)
          PROVE  r \in RegisteredIn(pairs')
      <4>1. PICK a \in Names \union {Nil}, b \in Senders \union {Nil}, u \in Observers, g \in Nat :
              /\ r = [observer |-> u, name |-> a, sender |-> b, reg |-> g]
              /\ InPairs(pairs, a, b, u, g)
        BY <3>2, <3>4
      <4>2. ~ (u = o /\ Covers(n, s, a, b))
        BY <2>3, <3>4, <4>1
      <4>3. InPairs(pairs', a, b, u, g)
        BY <2>2, <4>1, <4>2
      <4> QED
        BY <3>1, <4>1, <4>3
    <3> QED
      BY <3>3, <3>4
  <2> QED
    BY <2>4, SeenPosts
<1> QED
  BY <1>2, <1>3

AllForget(V, G) == [d \in DOMAIN V |-> Forgets(V[d], G)]

LEMMA ViewsForget ==
  ASSUME NEW S, NEW q \in Seq(S), NEW R, NEW gone \in SUBSET R,
         \A r, p \in R : r.reg = p.reg => r = p
  PROVE  Views(q, R \ gone) = AllForget(Views(q, R), { r.reg : r \in gone })
<1> DEFINE p == PostsOf(q)
<1> DEFINE T == R \ gone
<1> DEFINE G == { r.reg : r \in gone }
<1>1. \A f : View(f, T) = Forgets(View(f, R), G)
  BY RemovedView
<1> HIDE DEF p, T, G
<1>2. Views(q, T) = [d \in DOMAIN p |-> View(p[d], T)]
  BY DEF Views, p
<1>3. Views(q, R) = [d \in DOMAIN p |-> View(p[d], R)]
  BY DEF Views, p
<1>4. Views(q, T) = [d \in DOMAIN Views(q, R) |-> Forgets(Views(q, R)[d], G)]
  BY <1>1, <1>2, <1>3
<1> QED
  BY <1>4 DEF T, G, AllForget

LEMMA RemoveIsUnregister ==
  ASSUME DeliveryInv, NEW t \in Threads, RemoveAll(t) \/ Remove(t)
  PROVE  \E o \in Observers, n \in Names \union {Nil}, s \in Senders \union {Nil} :
           /\ Delivery!Unregister(o, n, s)
           /\ Registered' = Registered => AllPosts' = AllPosts
<1>1. PICK o \in Observers, n \in Names \union {Nil}, s \in Senders \union {Nil} : Unregister(o, n, s)
  <2>1. TypeOK
    BY DeliveryTypes
  <2>2. CASE Remove(t)
    BY <2>1, <2>2, RemoveArguments DEF Remove
  <2>3. CASE RemoveAll(t)
    BY <2>1, <2>3, RemoveArguments DEF RemoveAll
  <2> QED
    BY <2>2, <2>3
<1> DEFINE R == Registered
<1> DEFINE gone == Taken(o, n, s)
<1>2. R' = R \ gone
  BY <1>1, DeliveryTypes, RegisteredAfterRemove
<1>3. \A r, p \in R : r.reg = p.reg => r = p
  BY DeliveryTypes, OneRegistration
<1>4. gone \subseteq R
  BY DEF Taken
<1>5. /\ stack \in [Threads -> Seq(Frames)]
      /\ AllPosts = Seen(stack, R) /\ AllPosts' = Seen(stack, R')
  BY DeliveryTypes, SeenIsAllPosts, ChangerIsNoPost
<1> DEFINE G == { r.reg : r \in gone }
<1> HIDE DEF R, gone
<1>6. ASSUME NEW u \in Threads
      PROVE  Views(stack[u], R \ gone) = AllForget(Views(stack[u], R), G)
  <2>1. stack[u] \in Seq(Frames)
    BY <1>5
  <2> QED
    BY <1>3, <1>4, <2>1, ViewsForget
<1>7. AllPosts' = [u \in Threads |-> [d \in DOMAIN AllPosts[u] |-> Forgets(AllPosts[u][d], G)]]
  BY <1>2, <1>5, <1>6 DEF Seen, AllForget
<1>8. finalizing' = finalizing
  BY DEF Remove, RemoveAll
<1>9. Delivery!Unregister(o, n, s)
  <2>1. gone = { r \in Registered : /\ r.observer = o
                                    /\ n \in {Nil, r.name} /\ s \in {Nil, r.sender} }
    BY DEF gone, Taken
  <2>2. Registered' = Registered \ gone
    BY <1>2 DEF R
  <2>3. AllPosts' = [u \in Threads |-> [d \in DOMAIN AllPosts[u] |->
                       [AllPosts[u][d] EXCEPT !.owed = @ \ Delivery!RegsOf(gone)]]]
    BY <1>7 DEF Forgets, Delivery!RegsOf
  <2> QED
    BY <1>8, <2>1, <2>2, <2>3 DEF Delivery!Unregister
<1>10. R' = R => AllPosts' = AllPosts
  BY <1>5
<1> QED
  BY <1>9, <1>10 DEF R

-----------------------------------------------------------------------------
LEMMA DeliveryStep ==
  ASSUME DeliveryInv, RegsSuffice, RegsSuffice', [Next]_vars
  PROVE  [Delivery!DNext]_(Delivery!dvars)
<1>1. ASSUME Unseen
      PROVE  UNCHANGED Delivery!dvars
  BY <1>1 DEF Unseen, Delivery!dvars
<1>2. ASSUME NEW t \in Threads, Delivery!Proceed(t), Registered' = Registered, finalizing' = finalizing
      PROVE  [Delivery!DNext]_(Delivery!dvars)
  <2>1. CASE AllPosts' = AllPosts
    BY <1>2, <2>1 DEF Delivery!dvars
  <2>2. CASE AllPosts' # AllPosts
    BY <1>2, <2>2 DEF Delivery!DNext
  <2> QED
    BY <2>1, <2>2
<1>3. CASE UNCHANGED vars
  <2>1. UNCHANGED registries /\ finalizing' = finalizing /\ stack' = stack
    BY <1>3 DEF vars, registries
  <2>2. Unseen
    BY <2>1, RegisteredStands, SeenIsAllPosts DEF Unseen
  <2> QED
    BY <1>1, <2>2
<1>4. ASSUME NEW t \in Threads, Call(t)
      PROVE  [Delivery!DNext]_(Delivery!dvars)
  <2>1. CASE \/ \E o \in Observers, n \in Names \union {Nil}, s \in Senders \union {Nil} :
                  CallAdd(t, o, n, s) \/ CallRemove(t, o, n, s)
             \/ \E o \in Observers : CallRemoveAll(t, o)
             \/ Ignored(t)
    BY <1>1, <2>1, CallsUnseen
  <2>2. ASSUME NEW n \in Names, NEW s \in Senders \union {Nil}, CallPost(t, n, s)
        PROVE  [Delivery!DNext]_(Delivery!dvars)
    <3>1. Delivery!BeginPost(t, n, s)
      BY <2>2, CallPostIsBeginPost
    <3> QED
      BY <1>2, <3>1 DEF Delivery!BeginPost, Delivery!Proceed
  <2>3. CASE CallWillFinalize(t)
    <3>1. Delivery!BeginPost(t, WillFinalize, Nil)
      BY <2>3, CallWillFinalizeIsBeginPost
    <3>2. WillFinalize \in Names /\ Nil \in Senders \union {Nil}
      BY ConstantsAssumption
    <3> QED
      BY <1>2, <3>1, <3>2 DEF Delivery!BeginPost, Delivery!Proceed
  <2> QED
    BY <1>4, <2>1, <2>2, <2>3 DEF Call
<1>5. ASSUME NEW t \in Threads, Add(t)
      PROVE  Delivery!DNext
  BY <1>5, AddIsRegister DEF Delivery!DNext, Delivery!Change
<1>6. ASSUME NEW t \in Threads, RemoveAll(t) \/ Remove(t)
      PROVE  [Delivery!DNext]_(Delivery!dvars)
  <2>1. PICK o \in Observers, n \in Names \union {Nil}, s \in Senders \union {Nil} :
          Delivery!Unregister(o, n, s) /\ (Registered' = Registered => AllPosts' = AllPosts)
    BY <1>6, RemoveIsUnregister
  <2>2. CASE Registered' = Registered
    BY <2>1, <2>2 DEF Delivery!Unregister, Delivery!dvars
  <2>3. CASE Registered' # Registered
    BY <2>1, <2>3 DEF Delivery!DNext, Delivery!Change
  <2> QED
    BY <2>2, <2>3
<1>7. ASSUME NEW t \in Threads, CallUnchanged(t) \/ CallPresent(t)
      PROVE  [Delivery!DNext]_(Delivery!dvars)
  <2>1. Delivery!IsPosting(t) /\ \E o \in Observers, reg \in Regs : Delivery!Deliver(t, o, reg)
    BY <1>7, CallIsDelivery
  <2>2. Delivery!Proceed(t)
    BY <2>1 DEF Delivery!Proceed
  <2>3. Registered' = Registered /\ finalizing' = finalizing
    BY <2>1 DEF Delivery!Deliver
  <2> QED
    BY <1>2, <2>2, <2>3
<1>8. ASSUME NEW t \in Threads, Return(t) \/ EndPost(t) \/ Raise(t)
      PROVE  [Delivery!DNext]_(Delivery!dvars)
  <2>1. CASE Return(t)
    BY <1>2, <2>1, ReturnIsFinished DEF Delivery!Finished, Delivery!Proceed
  <2>2. CASE EndPost(t) \/ Raise(t)
    BY <1>2, <2>2, EndIsEndPost DEF Delivery!EndPost, Delivery!Proceed
  <2> QED
    BY <1>8, <2>1, <2>2
<1>9. ASSUME NEW t \in Threads, EndWillFinalize(t)
      PROVE  Delivery!DNext
  BY <1>9, FinalizeIsClose DEF Delivery!DNext
<1>10. ASSUME NEW t \in Threads,
              \/ Copy(t) \/ EndCopy(t) \/ SeeChange(t) \/ Check(t) \/ SkipAbsent(t)
              \/ NextKey(t) \/ Leave(t)
       PROVE  UNCHANGED Delivery!dvars
  BY <1>1, <1>10, PostStepsUnseen, LeaveUnseen
<1> QED
  BY <1>3, <1>4, <1>5, <1>6, <1>7, <1>8, <1>9, <1>10
     DEF Next, EnterLock, LeaveLock, WithoutLock

LEMMA DeliveryBegins ==
  ASSUME Init
  PROVE  Delivery!DInit
<1>1. DOMAIN pairs = {} /\ stack = [t \in Threads |-> << >>] /\ finalizing = FALSE
  BY DEF Init
<1>2. Registered = {}
  BY <1>1 DEF Registered
<1>3. \A t \in Threads : PostsOf(stack[t]) = << >>
  BY <1>1, PostsOfEmpty
<1>4. AllPosts = [t \in Threads |-> << >>]
  BY <1>3 DEF AllPosts, Posts
<1> QED
  BY <1>1, <1>2, <1>4 DEF Delivery!DInit

(***************************************************************************)
(* The notification center keeps the promise of NotificationDelivery: a    *)
(* post calls an observer only while a registration of it covers the       *)
(* notification, once for each, and does not end before it has called      *)
(* every one that was there from its beginning on (830-1010).  Generations *)
(* tell the registrations of the promise apart, as long as Regs has them.  *)
(***************************************************************************)
THEOREM CenterKeepsItsPromise ==
  Spec /\ []RegsSuffice => ImplementsDelivery
<1>1. Init => Delivery!DInit
  BY DeliveryBegins
<1>2. /\ TypeOK /\ RegistriesAgree /\ OrderInv /\ RegsUnique /\ RightStacks
      /\ LookedStacks /\ CopyIsCurrent /\ RegsSuffice /\ RegsSuffice' /\ [Next]_vars
      => [Delivery!DNext]_(Delivery!dvars)
  BY DeliveryStep DEF DeliveryInv, RegistryInv, CallsInv, RightStacks
<1> QED
  BY <1>1, <1>2, TypeCorrect, IndicesAgree, AlwaysOrdered, AlwaysRight, AlwaysLooked,
     CopiesAreCurrent, PTL DEF Spec, ImplementsDelivery, Delivery!DSpec

(***************************************************************************)
(* With a name for every generation it keeps the promise for ever.         *)
(***************************************************************************)
THEOREM CenterKeepsItsPromiseForEver ==
  ASSUME Nat \subseteq Regs
  PROVE  Spec => ImplementsDelivery
<1>1. RegsSuffice
  BY DEF RegsSuffice
<1> QED
  BY <1>1, CenterKeepsItsPromise, PTL

=============================================================================
