---------------------- MODULE NotificationThreadProofs ----------------------
(***************************************************************************)
(* What threads that post, add and remove at the same time may rely on:    *)
(* who holds the lock, what a copy that a post works on has to do with the *)
(* queues of now, and whom a post calls in which order.                    *)
(***************************************************************************)
EXTENDS NotificationCenterProofs, NotificationRefinement

-----------------------------------------------------------------------------
(***************************************************************************)
(* _lock is held by the thread inside a critical section and by nobody     *)
(* else.  LockDiscipline alone is not inductive: a return has to know that *)
(* the caller below is not inside a critical section either.               *)
(***************************************************************************)

(***************************************************************************)
(* A method that is not the innermost of its thread waits for an observer, *)
(* or for the post of +willFinalize.                                       *)
(***************************************************************************)
CallersWait ==
  \A t \in Threads : \A d \in DOMAIN stack[t] :
    d < Len(stack[t]) => stack[t][d].pc \in {"calling", "posting"}

LockInv == TypeOK /\ CallersWait /\ LockDiscipline

Critical == {"leave", "copied", "present", "absent"}

LEMMA StackTypeOK ==
  ASSUME TypeOK
  PROVE  stack \in [Threads -> Seq(Frames)] /\ \A t \in Threads : Len(stack[t]) \in Nat
<1>1. stack \in [Threads -> Seq(Frames)]
  BY DEF TypeOK, Frames
<1> QED
  BY <1>1

-----------------------------------------------------------------------------
(***************************************************************************)
(* What a push, a change of the top frame and a pop do to CallersWait and  *)
(* to the critical section of the thread.                                  *)
(***************************************************************************)
LEMMA PushShape ==
  ASSUME TypeOK, CallersWait, NEW t \in Threads, InUserCode(t),
         NEW f \in Frames, Push(t, f)
  PROVE  /\ CallersWait'
         /\ InCriticalSection(t)' <=> f.pc \in Critical
         /\ \A u \in Threads \ {t} : stack'[u] = stack[u]
<1>1. /\ stack' \in [Threads -> Seq(Frames)]
      /\ OnlyTopChanges(t, f)
      /\ stack'[t] # << >> /\ Last(stack'[t]) = f
      /\ Len(stack'[t]) = Len(stack[t]) + 1
      /\ \A u \in Threads \ {t} : stack'[u] = stack[u]
  BY StackTypeOK, PushFrame
<1>2. InCriticalSection(t)' <=> f.pc \in Critical
  BY <1>1 DEF InCriticalSection, Critical, Top
<1>3. ASSUME NEW u \in Threads, NEW d \in DOMAIN stack'[u], d < Len(stack'[u])
      PROVE  stack'[u][d].pc \in {"calling", "posting"}
  <2>1. d \in DOMAIN stack[u] /\ stack'[u][d] = stack[u][d]
    BY <1>1, <1>3 DEF OnlyTopChanges
  <2>2. CASE u = t
    <3>1. stack[t] \in Seq(Frames) /\ d \in 1 .. Len(stack[t])
      BY <2>1, <2>2, StackTypeOK
    <3>2. CASE d = Len(stack[t])
      <4>1. stack[t] # << >>
        BY <3>1
      <4>2. Top(t).pc = "calling"
        BY <4>1 DEF InUserCode, At
      <4> QED
        BY <2>1, <2>2, <3>2, <4>2 DEF Top, Last
    <3>3. CASE d # Len(stack[t])
      <4>1. Len(stack[t]) \in Nat /\ d < Len(stack[t])
        BY <3>1, <3>3
      <4> QED
        BY <2>1, <2>2, <4>1 DEF CallersWait
    <3> QED
      BY <3>2, <3>3
  <2>3. CASE u # t
    BY <1>1, <1>3, <2>1, <2>3 DEF CallersWait
  <2> QED
    BY <2>2, <2>3
<1>4. CallersWait'
  BY <1>3 DEF CallersWait
<1> QED
  BY <1>1, <1>2, <1>4

LEMMA BecomeShape ==
  ASSUME TypeOK, CallersWait, NEW t \in Threads, stack[t] # << >>,
         NEW f \in Frames, Become(t, f)
  PROVE  /\ CallersWait'
         /\ InCriticalSection(t)' <=> f.pc \in Critical
         /\ \A u \in Threads \ {t} : stack'[u] = stack[u]
<1>1. /\ stack' \in [Threads -> Seq(Frames)]
      /\ OnlyTopChanges(t, f)
      /\ stack'[t] # << >> /\ Last(stack'[t]) = f
      /\ Len(stack'[t]) = Len(stack[t])
      /\ \A u \in Threads \ {t} : stack'[u] = stack[u]
  BY StackTypeOK, BecomeFrame
<1>2. InCriticalSection(t)' <=> f.pc \in Critical
  BY <1>1 DEF InCriticalSection, Critical, Top
<1>3. ASSUME NEW u \in Threads, NEW d \in DOMAIN stack'[u], d < Len(stack'[u])
      PROVE  stack'[u][d].pc \in {"calling", "posting"}
  <2>1. d \in DOMAIN stack[u] /\ stack'[u][d] = stack[u][d]
    BY <1>1, <1>3 DEF OnlyTopChanges
  <2>2. Len(stack'[u]) = Len(stack[u])
    BY <1>1
  <2> QED
    BY <1>3, <2>1, <2>2 DEF CallersWait
<1>4. CallersWait'
  BY <1>3 DEF CallersWait
<1> QED
  BY <1>1, <1>2, <1>4

LEMMA PopShape ==
  ASSUME TypeOK, CallersWait, NEW t \in Threads, stack[t] # << >>, Pop(t)
  PROVE  /\ CallersWait'
         /\ ~ InCriticalSection(t)'
         /\ \A u \in Threads \ {t} : stack'[u] = stack[u]
<1>1. /\ stack' \in [Threads -> Seq(Frames)]
      /\ \A u \in Threads : \A d \in DOMAIN stack'[u] :
           d \in DOMAIN stack[u] /\ stack'[u][d] = stack[u][d]
      /\ Len(stack'[t]) = Len(stack[t]) - 1
      /\ stack'[t] # << >> => Last(stack'[t]) = stack[t][Len(stack[t]) - 1]
      /\ \A u \in Threads \ {t} : stack'[u] = stack[u]
  BY StackTypeOK, PopFrame
<1>2. ASSUME NEW u \in Threads, NEW d \in DOMAIN stack'[u], d < Len(stack'[u])
      PROVE  stack'[u][d].pc \in {"calling", "posting"}
  <2>1. d \in DOMAIN stack[u] /\ stack'[u][d] = stack[u][d]
    BY <1>1
  <2>2. Len(stack'[t]) < Len(stack[t]) /\ Len(stack[t]) \in Nat
    BY <1>1, StackTypeOK
  <2>3. d \in Int /\ Len(stack[u]) \in Nat /\ Len(stack'[u]) \in Nat
    BY <1>1, StackTypeOK
  <2>4. d < Len(stack[u])
    BY <1>1, <1>2, <2>2, <2>3
  <2> QED
    BY <2>1, <2>4 DEF CallersWait
<1>3. CallersWait'
  BY <1>2 DEF CallersWait
<1>4. ASSUME stack'[t] # << >>
      PROVE  Top(t)'.pc \in {"calling", "posting"}
  <2>1. stack[t] \in Seq(Frames) /\ stack'[t] \in Seq(Frames)
    BY <1>1, StackTypeOK
  <2>2. /\ Len(stack'[t]) # 0 /\ Len(stack'[t]) \in Nat
        /\ Len(stack[t]) \in Nat /\ Len(stack'[t]) = Len(stack[t]) - 1
    BY <1>1, <1>4, <2>1
  <2>3. Len(stack[t]) - 1 \in 1 .. Len(stack[t]) /\ Len(stack[t]) - 1 < Len(stack[t])
    <3> DEFINE m == Len(stack'[t])
    <3> DEFINE n == Len(stack[t])
    <3>1. m # 0 /\ m \in Nat /\ n \in Nat /\ m = n - 1
      BY <2>2
    <3> HIDE DEF m, n
    <3>2. n - 1 \in 1 .. n /\ n - 1 < n
      BY <3>1
    <3> QED
      BY <3>2 DEF n
  <2>4. DOMAIN stack[t] = 1 .. Len(stack[t])
    BY <2>1
  <2>5. stack[t][Len(stack[t]) - 1].pc \in {"calling", "posting"}
    BY <2>3, <2>4 DEF CallersWait
  <2> QED
    BY <1>1, <1>4, <2>5 DEF Top
<1>5. ~ InCriticalSection(t)'
  BY <1>4 DEF InCriticalSection
<1> QED
  BY <1>1, <1>3, <1>5

LEMMA ClearShape ==
  ASSUME TypeOK, CallersWait, NEW t \in Threads, stack' = [stack EXCEPT ![t] = << >>]
  PROVE  /\ CallersWait'
         /\ ~ InCriticalSection(t)'
         /\ \A u \in Threads \ {t} : stack'[u] = stack[u]
<1>1. stack'[t] = << >> /\ \A u \in Threads \ {t} : stack'[u] = stack[u]
  BY StackTypeOK
<1>2. ~ InCriticalSection(t)'
  BY <1>1 DEF InCriticalSection
<1>3. CallersWait'
  BY <1>1 DEF CallersWait
<1> QED
  BY <1>1, <1>2, <1>3

-----------------------------------------------------------------------------
(***************************************************************************)
(* The three things a step of t can do to the lock: nothing, outside of a  *)
(* critical section; take it; release it.                                  *)
(***************************************************************************)
LEMMA LockStep ==
  ASSUME LockDiscipline, NEW t \in Threads,
         \A u \in Threads \ {t} : stack'[u] = stack[u],
         \/ lock' = lock /\ ~ InCriticalSection(t) /\ ~ InCriticalSection(t)'
         \/ Acquire(t) /\ InCriticalSection(t)'
         \/ InCriticalSection(t) /\ lock' = Unlocked /\ ~ InCriticalSection(t)'
  PROVE  LockDiscipline'
<1>1. \A u \in Threads \ {t} : InCriticalSection(u)' <=> InCriticalSection(u)
  BY DEF InCriticalSection, Top
<1>2. Unlocked \notin Threads
  BY ConstantsAssumption
<1>3. CASE lock' = lock /\ ~ InCriticalSection(t) /\ ~ InCriticalSection(t)'
  BY <1>1, <1>3 DEF LockDiscipline
<1>4. CASE Acquire(t) /\ InCriticalSection(t)'
  BY <1>1, <1>2, <1>4 DEF LockDiscipline, Acquire
<1>5. CASE InCriticalSection(t) /\ lock' = Unlocked /\ ~ InCriticalSection(t)'
  BY <1>1, <1>2, <1>5 DEF LockDiscipline
<1> QED
  BY <1>3, <1>4, <1>5

LEMMA UserCodeIsUnlocked ==
  ASSUME NEW t \in Threads, InUserCode(t)
  PROVE  ~ InCriticalSection(t)
BY DEF InUserCode, InCriticalSection, At

LEMMA CallKeepsLockInv ==
  ASSUME LockInv, NEW t \in Threads, Call(t)
  PROVE  CallersWait' /\ LockDiscipline'
<1> TypeOK /\ CallersWait /\ LockDiscipline /\ generation \in Nat
  BY DEF LockInv, TypeOK
<1>1. ASSUME InUserCode(t), lock' = lock, NEW f \in Frames, Push(t, f), f.pc \notin Critical
      PROVE  CallersWait' /\ LockDiscipline'
  BY <1>1, PushShape, UserCodeIsUnlocked, LockStep
<1>2. ASSUME NEW o \in Observers, NEW n \in Names \union {Nil}, NEW s \in Senders \union {Nil},
             CallAdd(t, o, n, s) \/ CallRemove(t, o, n, s)
      PROVE  CallersWait' /\ LockDiscipline'
  <2>1. /\ AddFrame(o, n, s) \in Frames /\ AddFrame(o, n, s).pc = "enter"
        /\ RemoveFrame(o, n, s) \in Frames /\ RemoveFrame(o, n, s).pc = "enter"
    BY DEF AddFrame, RemoveFrame, Frames, OtherFrames
  <2>2. /\ InUserCode(t) /\ lock' = lock
        /\ Push(t, AddFrame(o, n, s)) \/ Push(t, RemoveFrame(o, n, s))
    BY <1>2 DEF CallAdd, CallRemove, MayCall
  <2> QED
    BY <1>1, <2>1, <2>2 DEF Critical
<1>3. ASSUME NEW o \in Observers, CallRemoveAll(t, o)
      PROVE  CallersWait' /\ LockDiscipline'
  <2>1. RemoveAllFrame(o) \in Frames /\ RemoveAllFrame(o).pc = "enter"
    BY DEF RemoveAllFrame, Frames, OtherFrames
  <2>2. InUserCode(t) /\ lock' = lock /\ Push(t, RemoveAllFrame(o))
    BY <1>3 DEF CallRemoveAll, MayCall
  <2> QED
    BY <1>1, <2>1, <2>2 DEF Critical
<1>4. ASSUME NEW n \in Names, NEW s \in Senders \union {Nil}, CallPost(t, n, s)
      PROVE  CallersWait' /\ LockDiscipline'
  <2>1. PostFrame(n, s) \in Frames /\ PostFrame(n, s).pc = "copy"
    BY NewPostFrameType DEF PostFrame
  <2>2. InUserCode(t) /\ lock' = lock /\ Push(t, PostFrame(n, s))
    BY <1>4 DEF CallPost, MayCall
  <2> QED
    BY <1>1, <2>1, <2>2 DEF Critical
<1>5. CASE CallWillFinalize(t)
  <2> DEFINE f == PostFrame(WillFinalize, Nil)
  <2>1. /\ stack[t] = << >> /\ lock' = lock
        /\ stack' = [stack EXCEPT ![t] = <<FinalizeFrame, f>>]
    BY <1>5 DEF CallWillFinalize
  <2>2. f.pc = "copy" /\ FinalizeFrame.pc = "posting"
    BY DEF PostFrame, FinalizeFrame
  <2> HIDE DEF f
  <2>3. stack'[t] = <<FinalizeFrame, f>> /\ \A u \in Threads \ {t} : stack'[u] = stack[u]
    BY <2>1, StackTypeOK
  <2>4. CallersWait'
    <3> SUFFICES ASSUME NEW u \in Threads, NEW d \in DOMAIN stack'[u], d < Len(stack'[u])
                 PROVE  stack'[u][d].pc \in {"calling", "posting"}
      BY DEF CallersWait
    <3>1. CASE u = t
      <4> DEFINE q == <<FinalizeFrame, f>>
      <4>1. Len(q) = 2 /\ DOMAIN q = 1 .. 2 /\ q[1] = FinalizeFrame
        OBVIOUS
      <4>2. stack'[u] = q
        BY <2>3, <3>1
      <4> HIDE DEF q
      <4>3. d \in 1 .. 2 /\ d < Len(q)
        BY <4>1, <4>2
      <4>4. d = 1
        BY ONLY <4>1, <4>3
      <4> QED
        BY <2>2, <4>1, <4>2, <4>4
    <3>2. CASE u # t
      BY <2>3, <3>2 DEF CallersWait
    <3> QED
      BY <3>1, <3>2
  <2>5. ~ InCriticalSection(t)'
    BY <2>2, <2>3 DEF InCriticalSection, Top, Last
  <2>6. ~ InCriticalSection(t)
    BY <2>1 DEF InCriticalSection
  <2> QED
    BY <2>1, <2>3, <2>4, <2>5, <2>6, LockStep
<1>6. CASE Ignored(t)
  BY <1>6 DEF Ignored, vars, CallersWait, LockDiscipline, InCriticalSection, Top
<1> QED
  BY <1>2, <1>3, <1>4, <1>5, <1>6 DEF Call

LEMMA EnterKeepsLockInv ==
  ASSUME LockInv, NEW t \in Threads, EnterLock(t)
  PROVE  CallersWait' /\ LockDiscipline'
<1> TypeOK /\ CallersWait /\ LockDiscipline /\ generation \in Nat
  BY DEF LockInv, TypeOK
<1> DEFINE f == Top(t)
<1>1. ASSUME stack[t] # << >>, Acquire(t),
             NEW g \in Frames, Become(t, g), g.pc \in Critical
      PROVE  CallersWait' /\ LockDiscipline'
  BY <1>1, BecomeShape, LockStep
<1>2. CASE Add(t) \/ Remove(t)
  <2>1. /\ stack[t] # << >> /\ Acquire(t) /\ f.op \in {"add", "remove"}
        /\ Become(t, [f EXCEPT !.pc = "leave"])
    BY <1>2 DEF Add, Remove, At, Goto
  <2>2. f \in Frames
    BY <2>1, TopType
  <2>3. [f EXCEPT !.pc = "leave"] \in Frames /\ [f EXCEPT !.pc = "leave"].pc = "leave"
    BY <2>1, <2>2, AddFrameType
  <2> QED
    BY <1>1, <2>1, <2>3 DEF Critical
<1>3. CASE RemoveAll(t)
  <2>1. /\ stack[t] # << >> /\ Acquire(t) /\ f.op = "removeAll"
        /\ Become(t, [f EXCEPT !.pc = "leave"])
    BY <1>3 DEF RemoveAll, At, Goto
  <2>2. f \in Frames
    BY <2>1, TopType
  <2>3. [f EXCEPT !.pc = "leave"] \in Frames
    BY <2>1, <2>2, RemoveAllFrameType
  <2>4. f \in [op : {"removeAll"}, pc : {"enter", "leave"}, observer : Observers]
    BY <2>1, <2>2 DEF Frames, OtherFrames, PostFrames
  <2>5. [f EXCEPT !.pc = "leave"].pc = "leave"
    BY <2>4
  <2> QED
    BY <1>1, <2>1, <2>3, <2>5 DEF Critical
<1>4. CASE Copy(t)
  <2> DEFINE q == QueueFor(triplets, Head(f.route))
  <2> DEFINE g == [f EXCEPT !.pc = "copied", !.gen = generation, !.buf = q]
  <2>1. stack[t] # << >> /\ f \in PostFrames /\ Acquire(t) /\ Become(t, g)
    BY <1>4, AtPost DEF Copy
  <2>2. q \in Seq(Triplet)
    BY QueueForType DEF TypeOK
  <2>3. g \in Frames
    BY <2>1, <2>2, CopiedFrameType DEF Frames
  <2>4. g.pc = "copied"
    BY <2>1 DEF PostFrames
  <2> QED
    BY <1>1, <2>1, <2>3, <2>4 DEF Critical
<1>5. CASE Check(t)
  <2>1. /\ stack[t] # << >> /\ f \in PostFrames /\ f.buf # << >> /\ Acquire(t)
        /\ Become(t, [f EXCEPT !.pc = "present"]) \/ Become(t, [f EXCEPT !.pc = "absent"])
    BY <1>5, AtPost, PostFrameHas DEF Check, Goto
  <2>2. [f EXCEPT !.pc = "present"] \in Frames /\ [f EXCEPT !.pc = "absent"] \in Frames
    BY <2>1, PostFrameSteps DEF Frames
  <2>3. [f EXCEPT !.pc = "present"].pc = "present" /\ [f EXCEPT !.pc = "absent"].pc = "absent"
    BY <2>1 DEF PostFrames
  <2> QED
    BY <1>1, <2>1, <2>2, <2>3 DEF Critical
<1> QED
  BY <1>2, <1>3, <1>4, <1>5 DEF EnterLock

LEMMA LeaveKeepsLockInv ==
  ASSUME LockInv, NEW t \in Threads, LeaveLock(t)
  PROVE  CallersWait' /\ LockDiscipline'
<1> TypeOK /\ CallersWait /\ LockDiscipline
  BY DEF LockInv
<1> DEFINE f == Top(t)
<1>1. CASE Leave(t)
  <2>1. stack[t] # << >> /\ f.pc = "leave" /\ lock' = Unlocked /\ Pop(t)
    BY <1>1 DEF Leave, At
  <2>2. InCriticalSection(t)
    BY <2>1 DEF InCriticalSection
  <2> QED
    BY <2>1, <2>2, PopShape, LockStep
<1>2. ASSUME NEW pc \in {"copied", "present", "absent"}, At(t, "post", pc),
             lock' = Unlocked, NEW g \in PostFrames, Become(t, g), g.pc \notin Critical
      PROVE  CallersWait' /\ LockDiscipline'
  <2>1. stack[t] # << >> /\ InCriticalSection(t)
    BY <1>2 DEF At, InCriticalSection
  <2>2. g \in Frames
    BY DEF Frames
  <2> QED
    BY <1>2, <2>1, <2>2, BecomeShape, LockStep
<1>3. CASE EndCopy(t)
  <2>1. At(t, "post", "copied") /\ lock' = Unlocked /\ Become(t, [f EXCEPT !.pc = "next"])
    BY <1>3 DEF EndCopy, Goto
  <2>2. f \in PostFrames
    BY <2>1, AtPost
  <2>3. [f EXCEPT !.pc = "next"] \in PostFrames
    BY <2>2, PostFrameSteps
  <2>4. [f EXCEPT !.pc = "next"].pc = "next"
    BY <2>2 DEF PostFrames
  <2> QED
    BY <1>2, <2>1, <2>3, <2>4 DEF Critical
<1>4. CASE CallPresent(t)
  <2>1. At(t, "post", "present") /\ lock' = Unlocked /\ Become(t, Calling(f))
    BY <1>4 DEF CallPresent
  <2>2. f \in PostFrames /\ f.buf # << >>
    BY <2>1, AtPost, PostFrameHas
  <2>3. Calling(f) \in PostFrames
    BY <2>2, PostFrameSteps
  <2>4. Calling(f).pc = "calling"
    BY <2>2 DEF Calling, PostFrames
  <2> QED
    BY <1>2, <2>1, <2>3, <2>4 DEF Critical
<1>5. CASE SkipAbsent(t)
  <2> DEFINE g == [f EXCEPT !.pc = "next", !.buf = Front(@)]
  <2>1. At(t, "post", "absent") /\ lock' = Unlocked /\ Become(t, g)
    BY <1>5 DEF SkipAbsent
  <2>2. f \in PostFrames /\ f.buf # << >>
    BY <2>1, AtPost, PostFrameHas
  <2>3. g \in PostFrames
    BY <2>2, PostFrameSteps
  <2>4. g.pc = "next"
    BY <2>2 DEF PostFrames
  <2> QED
    BY <1>2, <2>1, <2>3, <2>4 DEF Critical
<1> QED
  BY <1>1, <1>3, <1>4, <1>5 DEF LeaveLock

LEMMA RestKeepsLockInv ==
  ASSUME LockInv, NEW t \in Threads, WithoutLock(t) \/ Return(t) \/ Raise(t)
  PROVE  CallersWait' /\ LockDiscipline'
<1> TypeOK /\ CallersWait /\ LockDiscipline
  BY DEF LockInv
<1> DEFINE f == Top(t)
<1>1. ASSUME NEW op, NEW pc \in {"next", "calling", "posting"}, At(t, op, pc)
      PROVE  stack[t] # << >> /\ ~ InCriticalSection(t)
  BY <1>1 DEF At, InCriticalSection
<1>2. ASSUME NEW pc \in {"next", "calling"}, At(t, "post", pc), lock' = lock,
             NEW g \in PostFrames, Become(t, g), g.pc \notin Critical
      PROVE  CallersWait' /\ LockDiscipline'
  <2>1. g \in Frames
    BY DEF Frames
  <2> QED
    BY <1>1, <1>2, <2>1, BecomeShape, LockStep
<1>3. CASE CallUnchanged(t)
  <2>1. At(t, "post", "next") /\ f.buf # << >> /\ lock' = lock /\ Become(t, Calling(f))
    BY <1>3 DEF CallUnchanged
  <2>2. f \in PostFrames
    BY <2>1, AtPost
  <2>3. Calling(f) \in PostFrames
    BY <2>1, <2>2, PostFrameSteps
  <2>4. Calling(f).pc = "calling"
    BY <2>2 DEF Calling, PostFrames
  <2> QED
    BY <1>2, <2>1, <2>3, <2>4 DEF Critical
<1>4. CASE SeeChange(t)
  <2>1. /\ At(t, "post", "next") /\ f.buf # << >> /\ lock' = lock
        /\ Become(t, [f EXCEPT !.pc = "check"])
    BY <1>4 DEF SeeChange, Goto
  <2>2. f \in PostFrames
    BY <2>1, AtPost
  <2>3. [f EXCEPT !.pc = "check"] \in PostFrames
    BY <2>1, <2>2, PostFrameSteps
  <2>4. [f EXCEPT !.pc = "check"].pc = "check"
    BY <2>2 DEF PostFrames
  <2> QED
    BY <1>2, <2>1, <2>3, <2>4 DEF Critical
<1>5. CASE NextKey(t)
  <2> DEFINE g == [f EXCEPT !.pc = "copy", !.gen = 0, !.route = Tail(@)]
  <2>1. At(t, "post", "next") /\ Len(f.route) > 1 /\ lock' = lock /\ Become(t, g)
    BY <1>5 DEF NextKey
  <2>2. f \in PostFrames
    BY <2>1, AtPost
  <2>3. g \in PostFrames
    BY <2>1, <2>2, PostFrameSteps
  <2>4. g.pc = "copy"
    BY <2>2 DEF PostFrames
  <2> QED
    BY <1>2, <2>1, <2>3, <2>4 DEF Critical
<1>6. CASE Return(t)
  <2> DEFINE g == [f EXCEPT !.pc = "next", !.buf = Front(@)]
  <2>1. At(t, "post", "calling") /\ lock' = lock /\ Become(t, g)
    BY <1>6 DEF Return
  <2>2. f \in PostFrames /\ f.buf # << >>
    BY <2>1, AtPost, PostFrameHas
  <2>3. g \in PostFrames
    BY <2>2, PostFrameSteps
  <2>4. g.pc = "next"
    BY <2>2 DEF PostFrames
  <2> QED
    BY <1>2, <2>1, <2>3, <2>4 DEF Critical
<1>7. CASE EndPost(t) \/ EndWillFinalize(t) \/ AbandonPost(t)
  <2>1. /\ At(t, "post", "next") \/ At(t, "willFinalize", "posting") \/ At(t, "post", "calling")
        /\ lock' = lock /\ Pop(t)
    BY <1>7 DEF EndPost, EndWillFinalize, AbandonPost
  <2> QED
    BY <1>1, <2>1, PopShape, LockStep
<1>8. CASE AbandonWillFinalize(t)
  <2>1. /\ At(t, "post", "calling") /\ lock' = lock
        /\ stack' = [stack EXCEPT ![t] = << >>]
    BY <1>8 DEF AbandonWillFinalize
  <2> QED
    BY <1>1, <2>1, ClearShape, LockStep
<1> QED
  BY <1>3, <1>4, <1>5, <1>6, <1>7, <1>8 DEF WithoutLock, Raise

(***************************************************************************)
(* The inductive invariant, always.                                        *)
(***************************************************************************)
LEMMA AlwaysLocked == Spec => [](CallersWait /\ LockDiscipline)
<1>1. Init => CallersWait /\ LockDiscipline
  <2> SUFFICES ASSUME Init
               PROVE  CallersWait /\ LockDiscipline
    OBVIOUS
  <2>1. \A t \in Threads : stack[t] = << >>
    BY DEF Init
  <2>2. \A t \in Threads : lock # t
    BY ConstantsAssumption DEF Init
  <2> QED
    BY <2>1, <2>2 DEF CallersWait, LockDiscipline, InCriticalSection
<1>2. TypeOK /\ CallersWait /\ LockDiscipline /\ [Next]_vars => CallersWait' /\ LockDiscipline'
  <2> SUFFICES ASSUME LockInv, [Next]_vars
               PROVE  CallersWait' /\ LockDiscipline'
    BY DEF LockInv
  <2>1. CASE UNCHANGED vars
    BY <2>1 DEF vars, LockInv, CallersWait, LockDiscipline, InCriticalSection, Top
  <2>2. CASE Next
    BY <2>2, CallKeepsLockInv, EnterKeepsLockInv, LeaveKeepsLockInv, RestKeepsLockInv
       DEF Next
  <2> QED
    BY <2>1, <2>2
<1> QED
  BY <1>1, <1>2, TypeCorrect, PTL DEF Spec

(***************************************************************************)
(* The mutex of the center is held by exactly the thread that is between a *)
(* lock and an unlock, and never while an observer's method runs: a        *)
(* callback can enter the center although the mutex is not recursive.      *)
(***************************************************************************)
THEOREM LockDisciplined == Spec => []LockDiscipline
BY AlwaysLocked, PTL

-----------------------------------------------------------------------------
(***************************************************************************)
(* The copy a post works on is a prefix of the queue it was taken from     *)
(* until the generation moves: for every frame, at every depth.            *)
(***************************************************************************)

(***************************************************************************)
(* CopyIsCurrent for one frame, at generation g and with the triplets m.   *)
(***************************************************************************)
Current(f, g, m) ==
  f.op = "post" /\ f.pc # "copy" =>
    /\ f.gen <= g
    /\ f.gen = g => IsPrefixOf(f.buf, QueueFor(m, Head(f.route)))

CopyInv == TypeOK /\ CopyIsCurrent

LEMMA CopyIsCurrentByFrame ==
  /\ CopyIsCurrent <=>
       \A t \in Threads : \A d \in DOMAIN stack[t] : Current(stack[t][d], generation, triplets)
  /\ CopyIsCurrent' <=>
       \A t \in Threads : \A d \in DOMAIN stack'[t] : Current(stack'[t][d], generation', triplets')
BY DEF CopyIsCurrent, Current

(***************************************************************************)
(* The registries only change together with the generation.                *)
(***************************************************************************)
RegistriesStep == UNCHANGED registries \/ generation' = generation + 1

LEMMA RegistriesMoveOn ==
  ASSUME [Next]_vars
  PROVE  RegistriesStep
<1>1. CASE UNCHANGED vars
  BY <1>1 DEF vars, registries, RegistriesStep
<1>2. ASSUME NEW t \in Threads, Call(t)
      PROVE  RegistriesStep
  BY <1>2 DEF Call, CallAdd, CallRemove, CallRemoveAll, CallPost, CallWillFinalize,
              Ignored, vars, registries, RegistriesStep
<1>3. ASSUME NEW t \in Threads, EnterLock(t)
      PROVE  RegistriesStep
  BY <1>3 DEF EnterLock, Add, RemoveAll, Remove, Unregister, Copy, Check, RegistriesStep
<1>4. ASSUME NEW t \in Threads, LeaveLock(t) \/ WithoutLock(t) \/ Return(t) \/ Raise(t)
      PROVE  RegistriesStep
  BY <1>4 DEF LeaveLock, Leave, EndCopy, CallPresent, SkipAbsent, WithoutLock,
              CallUnchanged, SeeChange, NextKey, EndPost, EndWillFinalize, Return, Raise,
              AbandonPost, AbandonWillFinalize, RegistriesStep
<1> QED
  BY <1>1, <1>2, <1>3, <1>4 DEF Next

LEMMA CurrentStays ==
  ASSUME TypeOK, RegistriesStep, NEW f \in Frames, Current(f, generation, triplets)
  PROVE  Current(f, generation', triplets')
<1>1. CASE UNCHANGED registries
  BY <1>1 DEF registries
<1>2. CASE generation' = generation + 1
  <2> SUFFICES ASSUME f.op = "post", f.pc # "copy"
               PROVE  f.gen <= generation' /\ f.gen # generation'
    BY DEF Current
  <2>1. f.gen \in Nat /\ generation \in Nat
    BY PostFrameType DEF PostFrames, TypeOK
  <2>2. f.gen <= generation
    BY DEF Current
  <2> QED
    BY <1>2, <2>1, <2>2
<1> QED
  BY <1>1, <1>2 DEF RegistriesStep

(***************************************************************************)
(* It is enough to look at the frame a step writes.                        *)
(***************************************************************************)
LEMMA OldFrame ==
  ASSUME CopyInv, RegistriesStep, NEW u \in Threads, NEW d \in DOMAIN stack[u]
  PROVE  Current(stack[u][d], generation', triplets')
<1>1. stack \in [Threads -> Seq(Frames)]
  BY DEF CopyInv, TypeOK, Frames
<1>2. stack[u][d] \in Frames
  BY <1>1
<1>3. Current(stack[u][d], generation, triplets)
  BY CopyIsCurrentByFrame DEF CopyInv
<1> QED
  BY <1>2, <1>3, CurrentStays DEF CopyInv

LEMMA WrittenFrameIsEnough ==
  ASSUME CopyInv, RegistriesStep, NEW t \in Threads, NEW f,
         Current(f, generation', triplets'), OnlyTopChanges(t, f)
  PROVE  CopyIsCurrent'
<1>1. ASSUME NEW u \in Threads, NEW d \in DOMAIN stack'[u]
      PROVE  Current(stack'[u][d], generation', triplets')
  BY OldFrame DEF OnlyTopChanges
<1> QED
  BY <1>1, CopyIsCurrentByFrame

LEMMA PopIsEnough ==
  ASSUME CopyInv, RegistriesStep, NEW t \in Threads, stack[t] # << >>, Pop(t)
  PROVE  CopyIsCurrent'
<1>1. stack \in [Threads -> Seq(Frames)]
  BY DEF CopyInv, TypeOK, Frames
<1>2. \A u \in Threads : \A d \in DOMAIN stack'[u] :
        d \in DOMAIN stack[u] /\ stack'[u][d] = stack[u][d]
  BY <1>1, PopFrame
<1>3. ASSUME NEW u \in Threads, NEW d \in DOMAIN stack'[u]
      PROVE  Current(stack'[u][d], generation', triplets')
  BY <1>2, OldFrame
<1> QED
  BY <1>3, CopyIsCurrentByFrame

LEMMA ClearIsEnough ==
  ASSUME CopyInv, RegistriesStep, NEW t \in Threads, stack' = [stack EXCEPT ![t] = << >>]
  PROVE  CopyIsCurrent'
<1>1. stack \in [Threads -> Seq(Frames)]
  BY DEF CopyInv, TypeOK, Frames
<1>2. \A u \in Threads : \A d \in DOMAIN stack'[u] :
        d \in DOMAIN stack[u] /\ stack'[u][d] = stack[u][d]
  BY <1>1
<1>3. ASSUME NEW u \in Threads, NEW d \in DOMAIN stack'[u]
      PROVE  Current(stack'[u][d], generation', triplets')
  BY <1>2, OldFrame
<1> QED
  BY <1>3, CopyIsCurrentByFrame

LEMMA PushIsEnough ==
  ASSUME CopyInv, RegistriesStep, NEW t \in Threads, NEW f \in Frames, Push(t, f),
         f.op # "post" \/ f.pc = "copy"
  PROVE  CopyIsCurrent'
<1>1. stack \in [Threads -> Seq(Frames)]
  BY DEF CopyInv, TypeOK, Frames
<1>2. OnlyTopChanges(t, f)
  BY <1>1, PushFrame
<1>3. Current(f, generation', triplets')
  BY DEF Current
<1> QED
  BY <1>2, <1>3, WrittenFrameIsEnough

LEMMA BecomeIsEnough ==
  ASSUME CopyInv, RegistriesStep, NEW t \in Threads, stack[t] # << >>,
         NEW f \in Frames, Become(t, f), Current(f, generation', triplets')
  PROVE  CopyIsCurrent'
<1>1. stack \in [Threads -> Seq(Frames)]
  BY DEF CopyInv, TypeOK, Frames
<1>2. OnlyTopChanges(t, f)
  BY <1>1, BecomeFrame
<1> QED
  BY <1>2, WrittenFrameIsEnough

-----------------------------------------------------------------------------
(***************************************************************************)
(* The steps of a post.                                                    *)
(***************************************************************************)
LEMMA FrontIsPrefix ==
  ASSUME NEW S, NEW p \in Seq(S), p # << >>, NEW q, Len(q) \in Nat, IsPrefixOf(p, q)
  PROVE  IsPrefixOf(Front(p), q)
<1>1. /\ Len(Front(p)) = Len(p) - 1
      /\ \A i \in 1 .. Len(Front(p)) : Front(p)[i] = p[i]
  BY FrontProperties
<1>2. Len(p) <= Len(q) /\ \A i \in 1 .. Len(p) : p[i] = q[i]
  BY DEF IsPrefixOf
<1>3. Len(p) \in Nat
  OBVIOUS
<1> DEFINE r == Front(p)
<1> HIDE DEF r
<1>4. Len(r) = Len(p) - 1 /\ \A i \in 1 .. Len(r) : r[i] = p[i]
  BY <1>1 DEF r
<1>5. Len(r) <= Len(q)
  BY <1>2, <1>3, <1>4
<1>6. \A i \in 1 .. Len(r) : r[i] = q[i]
  BY <1>2, <1>3, <1>4
<1>7. IsPrefixOf(r, q)
  BY <1>5, <1>6 DEF IsPrefixOf
<1> QED
  BY <1>7 DEF r

(***************************************************************************)
(* A step that keeps gen and route of the top frame and does not lengthen  *)
(* its buf.                                                                *)
(***************************************************************************)
LEMMA SameCopy ==
  ASSUME CopyInv, UNCHANGED registries, NEW t \in Threads,
         NEW pc, At(t, "post", pc), pc # "copy",
         NEW g \in PostFrames, Become(t, g),
         g.gen = Top(t).gen, g.route = Top(t).route,
         \/ g.buf = Top(t).buf
         \/ Top(t).buf # << >> /\ g.buf = Front(Top(t).buf)
  PROVE  CopyIsCurrent'
<1> TypeOK
  BY DEF CopyInv
<1> DEFINE f == Top(t)
<1> DEFINE q == QueueFor(triplets, Head(f.route))
<1>1. f \in PostFrames /\ f.pc = pc /\ f.op = "post" /\ stack[t] # << >>
  BY AtPost DEF At
<1>2. Len(stack[t]) \in DOMAIN stack[t]
  BY <1>1, TopType
<1>3. Current(f, generation, triplets)
  BY <1>2, CopyIsCurrentByFrame DEF CopyInv, Top, Last
<1>4. f.gen <= generation /\ (f.gen = generation => IsPrefixOf(f.buf, q))
  BY <1>1, <1>3 DEF Current
<1>5. f.buf \in Seq(Triplet)
  BY <1>1 DEF PostFrames
<1>6. Len(q) \in Nat
  <2>1. q \in Seq(Triplet)
    BY QueueForType DEF TypeOK
  <2> QED
    BY <2>1
<1>7. f.gen = generation => IsPrefixOf(g.buf, q)
  BY <1>4, <1>5, <1>6, FrontIsPrefix
<1>8. Current(g, generation, triplets)
  BY <1>4, <1>7 DEF Current
<1>9. Current(g, generation', triplets') /\ RegistriesStep /\ g \in Frames
  BY <1>8 DEF registries, RegistriesStep, Frames
<1> QED
  BY <1>1, <1>9, BecomeIsEnough

LEMMA SameCopySteps ==
  ASSUME CopyInv, NEW t \in Threads,
         \/ EndCopy(t) \/ CallUnchanged(t) \/ SeeChange(t) \/ Check(t)
         \/ CallPresent(t) \/ SkipAbsent(t) \/ Return(t)
  PROVE  CopyIsCurrent'
<1> TypeOK
  BY DEF CopyInv
<1> DEFINE f == Top(t)
<1> DEFINE Moved(pc) == [f EXCEPT !.pc = pc]
<1> DEFINE Shorter == [f EXCEPT !.pc = "next", !.buf = Front(@)]
<1>1. ASSUME f \in PostFrames, f.buf # << >>
      PROVE  /\ Shorter \in PostFrames
             /\ Shorter.gen = f.gen /\ Shorter.route = f.route
             /\ Shorter.buf = Front(f.buf)
  <2>1. Shorter \in PostFrames
    BY <1>1, PostFrameSteps
  <2>2. f \in PostFrameFields
    BY <1>1, PostFrameHas
  <2>3. Shorter.gen = f.gen /\ Shorter.route = f.route /\ Shorter.buf = Front(f.buf)
    BY <2>2 DEF PostFrameFields
  <2> QED
    BY <2>1, <2>3
<1>2. ASSUME f \in PostFrames, f.buf # << >>
      PROVE  /\ Calling(f) \in PostFrames
             /\ Calling(f).gen = f.gen /\ Calling(f).route = f.route
             /\ Calling(f).buf = f.buf
  <2>1. Calling(f) \in PostFrames
    BY <1>2, PostFrameSteps
  <2>2. f \in PostFrameFields
    BY <1>2, PostFrameHas
  <2>3. Calling(f).gen = f.gen /\ Calling(f).route = f.route /\ Calling(f).buf = f.buf
    BY <2>2 DEF PostFrameFields, Calling
  <2> QED
    BY <2>1, <2>3
<1>3. ASSUME f \in PostFrames, NEW pc, Moved(pc) \in PostFrames
      PROVE  Moved(pc).gen = f.gen /\ Moved(pc).route = f.route /\ Moved(pc).buf = f.buf
  BY <1>3 DEF PostFrames
<1>4. CASE EndCopy(t)
  <2>1. At(t, "post", "copied") /\ UNCHANGED registries /\ Become(t, Moved("next"))
    BY <1>4 DEF EndCopy, Goto
  <2>2. f \in PostFrames
    BY <2>1, AtPost
  <2>3. Moved("next") \in PostFrames
    BY <2>2, PostFrameSteps
  <2> HIDE DEF Moved
  <2> QED
    BY <1>3, <2>1, <2>2, <2>3, SameCopy
<1>5. CASE CallUnchanged(t)
  <2>1. /\ At(t, "post", "next") /\ f.buf # << >> /\ UNCHANGED registries
        /\ Become(t, Calling(f))
    BY <1>5 DEF CallUnchanged
  <2> QED
    BY <1>2, <2>1, AtPost, SameCopy
<1>6. CASE SeeChange(t)
  <2>1. /\ At(t, "post", "next") /\ f.buf # << >> /\ UNCHANGED registries
        /\ Become(t, Moved("check"))
    BY <1>6 DEF SeeChange, Goto
  <2>2. f \in PostFrames
    BY <2>1, AtPost
  <2>3. Moved("check") \in PostFrames
    BY <2>1, <2>2, PostFrameSteps
  <2> HIDE DEF Moved
  <2> QED
    BY <1>3, <2>1, <2>2, <2>3, SameCopy
<1>7. CASE Check(t)
  <2>1. /\ At(t, "post", "check") /\ UNCHANGED registries
        /\ Become(t, Moved("present")) \/ Become(t, Moved("absent"))
    BY <1>7 DEF Check, Goto
  <2>2. f \in PostFrames /\ f.buf # << >>
    BY <2>1, AtPost, PostFrameHas
  <2>3. Moved("present") \in PostFrames /\ Moved("absent") \in PostFrames
    BY <2>2, PostFrameSteps
  <2> HIDE DEF Moved
  <2> QED
    BY <1>3, <2>1, <2>2, <2>3, SameCopy
<1>8. CASE CallPresent(t)
  <2>1. At(t, "post", "present") /\ UNCHANGED registries /\ Become(t, Calling(f))
    BY <1>8 DEF CallPresent
  <2>2. f \in PostFrames /\ f.buf # << >>
    BY <2>1, AtPost, PostFrameHas
  <2> QED
    BY <1>2, <2>1, <2>2, SameCopy
<1>9. CASE SkipAbsent(t) \/ Return(t)
  <2>1. PICK pc \in {"absent", "calling"} :
          At(t, "post", pc) /\ UNCHANGED registries /\ Become(t, Shorter)
    BY <1>9 DEF SkipAbsent, Return
  <2>2. f \in PostFrames /\ f.buf # << >>
    BY <2>1, AtPost, PostFrameHas
  <2> HIDE DEF Shorter
  <2> QED
    BY <1>1, <2>1, <2>2, SameCopy
<1> QED
  BY <1>4, <1>5, <1>6, <1>7, <1>8, <1>9

LEMMA CallKeepsCopies ==
  ASSUME CopyInv, RegistriesStep, NEW t \in Threads, Call(t)
  PROVE  CopyIsCurrent'
<1> TypeOK /\ generation \in Nat
  BY DEF CopyInv, TypeOK
<1>1. ASSUME NEW o \in Observers, NEW n \in Names \union {Nil}, NEW s \in Senders \union {Nil},
             CallAdd(t, o, n, s) \/ CallRemove(t, o, n, s)
      PROVE  CopyIsCurrent'
  <2>1. /\ AddFrame(o, n, s) \in Frames /\ AddFrame(o, n, s).op # "post"
        /\ RemoveFrame(o, n, s) \in Frames /\ RemoveFrame(o, n, s).op # "post"
    BY DEF AddFrame, RemoveFrame, Frames, OtherFrames
  <2>2. Push(t, AddFrame(o, n, s)) \/ Push(t, RemoveFrame(o, n, s))
    BY <1>1 DEF CallAdd, CallRemove
  <2> QED
    BY <2>1, <2>2, PushIsEnough
<1>2. ASSUME NEW o \in Observers, CallRemoveAll(t, o)
      PROVE  CopyIsCurrent'
  <2>1. RemoveAllFrame(o) \in Frames /\ RemoveAllFrame(o).op # "post"
    BY DEF RemoveAllFrame, Frames, OtherFrames
  <2> QED
    BY <1>2, <2>1, PushIsEnough DEF CallRemoveAll
<1>3. ASSUME NEW n \in Names, NEW s \in Senders \union {Nil}, CallPost(t, n, s)
      PROVE  CopyIsCurrent'
  <2>1. PostFrame(n, s) \in Frames /\ PostFrame(n, s).pc = "copy"
    BY NewPostFrameType DEF PostFrame
  <2> QED
    BY <1>3, <2>1, PushIsEnough DEF CallPost
<1>4. CASE CallWillFinalize(t)
  <2> DEFINE f == PostFrame(WillFinalize, Nil)
  <2> DEFINE q == <<FinalizeFrame, f>>
  <2>1. stack' = [stack EXCEPT ![t] = q]
    BY <1>4 DEF CallWillFinalize
  <2>2. Current(f, generation', triplets') /\ Current(FinalizeFrame, generation', triplets')
    BY DEF PostFrame, FinalizeFrame, Current
  <2>3. \A d \in DOMAIN q : q[d] = f \/ q[d] = FinalizeFrame
    OBVIOUS
  <2> HIDE DEF q, f
  <2>4. stack \in [Threads -> Seq(Frames)]
    BY DEF TypeOK, Frames
  <2>5. stack'[t] = q /\ \A u \in Threads \ {t} : stack'[u] = stack[u]
    BY <2>1, <2>4
  <2>6. ASSUME NEW u \in Threads, NEW d \in DOMAIN stack'[u]
        PROVE  Current(stack'[u][d], generation', triplets')
    <3>1. CASE u = t
      BY <2>2, <2>3, <2>5, <3>1
    <3>2. CASE u # t
      BY <2>5, <3>2, OldFrame
    <3> QED
      BY <3>1, <3>2
  <2> QED
    BY <2>6, CopyIsCurrentByFrame
<1>5. CASE Ignored(t)
  BY <1>5, CopyIsCurrentByFrame DEF Ignored, vars, CopyInv
<1> QED
  BY <1>1, <1>2, <1>3, <1>4, <1>5 DEF Call

LEMMA CopyTakesACopy ==
  ASSUME CopyInv, NEW t \in Threads, Copy(t)
  PROVE  CopyIsCurrent'
<1> TypeOK
  BY DEF CopyInv
<1> DEFINE f == Top(t)
<1> DEFINE q == QueueFor(triplets, Head(f.route))
<1> DEFINE g == [f EXCEPT !.pc = "copied", !.gen = generation, !.buf = q]
<1>1. /\ stack[t] # << >> /\ f \in PostFrames /\ generation \in Nat
      /\ UNCHANGED registries /\ Become(t, g)
  BY AtPost DEF Copy
<1>2. q \in Seq(Triplet)
  BY QueueForType DEF TypeOK
<1>3. g \in Frames
  BY <1>1, <1>2, CopiedFrameType DEF Frames
<1>4. g.gen = generation /\ g.buf = q /\ g.route = f.route
  BY <1>1 DEF PostFrames
<1>5. IsPrefixOf(q, q)
  <2>1. Len(q) \in Nat
    BY <1>2
  <2> QED
    BY <2>1 DEF IsPrefixOf
<1>6. Current(g, generation, triplets)
  BY <1>1, <1>4, <1>5 DEF Current
<1>7. Current(g, generation', triplets') /\ RegistriesStep
  BY <1>1, <1>6 DEF registries, RegistriesStep
<1> QED
  BY <1>1, <1>3, <1>7, BecomeIsEnough

LEMMA ChangeKeepsCopies ==
  ASSUME CopyInv, RegistriesStep, NEW t \in Threads, Add(t) \/ RemoveAll(t) \/ Remove(t)
  PROVE  CopyIsCurrent'
<1> TypeOK
  BY DEF CopyInv
<1> DEFINE g == [Top(t) EXCEPT !.pc = "leave"]
<1>1. /\ stack[t] # << >> /\ Top(t).op \in {"add", "remove", "removeAll"} /\ Become(t, g)
  BY DEF Add, RemoveAll, Remove, At, Goto
<1>2. Top(t) \in Frames
  BY <1>1, TopType
<1>3. Top(t) \in OtherFrames
  BY <1>1, <1>2 DEF Frames, PostFrames
<1>4. g \in Frames
  BY <1>1, <1>2, AddFrameType, RemoveAllFrameType
<1>5. g.op # "post"
  BY <1>1, <1>3 DEF OtherFrames
<1>6. Current(g, generation', triplets')
  BY <1>5 DEF Current
<1> QED
  BY <1>1, <1>4, <1>6, BecomeIsEnough

LEMMA NextKeyKeepsCopies ==
  ASSUME CopyInv, RegistriesStep, NEW t \in Threads, NextKey(t)
  PROVE  CopyIsCurrent'
<1> TypeOK
  BY DEF CopyInv
<1> DEFINE f == Top(t)
<1> DEFINE g == [f EXCEPT !.pc = "copy", !.gen = 0, !.route = Tail(@)]
<1>1. At(t, "post", "next") /\ Len(f.route) > 1 /\ Become(t, g)
  BY DEF NextKey
<1>2. f \in PostFrames /\ stack[t] # << >>
  BY <1>1, AtPost
<1>3. g \in Frames
  BY <1>1, <1>2, PostFrameSteps DEF Frames
<1>4. g.pc = "copy"
  BY <1>2 DEF PostFrames
<1>5. Current(g, generation', triplets')
  BY <1>4 DEF Current
<1> QED
  BY <1>1, <1>2, <1>3, <1>5, BecomeIsEnough

(***************************************************************************)
(* For as long as the generation has not moved since a post copied a       *)
(* queue, what is left of the copy is a prefix of that queue: calling an   *)
(* observer without looking under the lock calls a registered one.         *)
(***************************************************************************)
THEOREM CopiesAreCurrent == Spec => []CopyIsCurrent
<1>1. Init => CopyIsCurrent
  <2> SUFFICES ASSUME Init
               PROVE  CopyIsCurrent
    OBVIOUS
  <2>1. \A t \in Threads : DOMAIN stack[t] = {}
    BY DEF Init
  <2> QED
    BY <2>1 DEF CopyIsCurrent
<1>2. TypeOK /\ CopyIsCurrent /\ [Next]_vars => CopyIsCurrent'
  <2> SUFFICES ASSUME CopyInv, [Next]_vars
               PROVE  CopyIsCurrent'
    BY DEF CopyInv
  <2>1. RegistriesStep
    BY RegistriesMoveOn
  <2>2. CASE UNCHANGED vars
    BY <2>2, CopyIsCurrentByFrame DEF vars, CopyInv
  <2>3. ASSUME NEW t \in Threads, Call(t)
        PROVE  CopyIsCurrent'
    BY <2>1, <2>3, CallKeepsCopies
  <2>4. ASSUME NEW t \in Threads, EnterLock(t)
        PROVE  CopyIsCurrent'
    BY <2>1, <2>4, ChangeKeepsCopies, CopyTakesACopy, SameCopySteps DEF EnterLock
  <2>5. ASSUME NEW t \in Threads,
               Leave(t) \/ EndPost(t) \/ EndWillFinalize(t) \/ AbandonPost(t)
        PROVE  CopyIsCurrent'
    BY <2>1, <2>5, PopIsEnough DEF Leave, EndPost, EndWillFinalize, AbandonPost, At
  <2>6. ASSUME NEW t \in Threads, LeaveLock(t) \/ WithoutLock(t) \/ Return(t)
        PROVE  CopyIsCurrent'
    BY <2>1, <2>5, <2>6, SameCopySteps, NextKeyKeepsCopies DEF LeaveLock, WithoutLock
  <2>7. ASSUME NEW t \in Threads, AbandonWillFinalize(t)
        PROVE  CopyIsCurrent'
    BY <2>1, <2>7, ClearIsEnough DEF AbandonWillFinalize
  <2> QED
    BY <2>2, <2>3, <2>4, <2>5, <2>6, <2>7 DEF Next, Raise
<1> QED
  BY <1>1, <1>2, TypeCorrect, PTL DEF Spec

-----------------------------------------------------------------------------
(***************************************************************************)
(* A post calls nobody twice for one registration, and the observers of    *)
(* one key in the reverse of their order.  The copies a post takes are     *)
(* read long after the lock is released, so the invariant has to say of    *)
(* every frame what its copy has to do with the registries of now: a       *)
(* registration that was copied or called can still only be found under    *)
(* the key it was copied from.                                             *)
(***************************************************************************)

(***************************************************************************)
(* In the map m registration r can only be found under key k.              *)
(***************************************************************************)
OnlyUnder(m, r, k) ==
  \A l \in DOMAIN m : \A y \in Elements(m[l]) : y.reg = r => l = k

(***************************************************************************)
(* A queue of m that holds the registration of triplet x holds x.          *)
(***************************************************************************)
OnlyAs(m, x) ==
  \A l \in DOMAIN m : \A y \in Elements(m[l]) : y.reg = x.reg => y = x

RegsUnique ==
  \A k \in DOMAIN triplets : \A x \in Elements(triplets[k]) :
    OnlyUnder(triplets, x.reg, k)

NoRepeats(q) == \A i, j \in DOMAIN q : q[i] = q[j] => i = j

CopyRight(f, g, m) ==
  /\ NoRepeats(f.route)
  /\ f.pc = "copy" => f.buf = << >>
  /\ Ascending(f.buf)
  /\ \A x \in Elements(f.buf) :
       x.reg < g /\ OnlyUnder(m, x.reg, Head(f.route)) /\ OnlyAs(m, x)

(***************************************************************************)
(* What is known of a call c that post f has made.                         *)
(***************************************************************************)
CallRight(f, c, g, m) ==
  /\ c.reg < g
  /\ OnlyUnder(m, c.reg, c.key)
  /\ c.key \notin Elements(Tail(f.route))
  /\ f.pc = "copy" => c.key # Head(f.route)
  /\ \A x \in Elements(Pending(f)) :
       c.reg # x.reg /\ (c.key = Head(f.route) => c.reg > x.reg)

OnceInReverse(c) ==
  \A i, j \in DOMAIN c : i < j =>
    c[i].reg # c[j].reg /\ (c[i].key = c[j].key => c[i].reg > c[j].reg)

(***************************************************************************)
(* The frames that are right at generation g and with the triplets m.      *)
(***************************************************************************)
Right(g, m) ==
  { f \in Frames :
      f.op = "post" => /\ CopyRight(f, g, m)
                       /\ \A c \in Elements(f.called) : CallRight(f, c, g, m)
                       /\ OnceInReverse(f.called) }

CallsInv ==
  /\ TypeOK
  /\ OrderInv
  /\ RegsUnique
  /\ stack \in [Threads -> Seq(Right(generation, triplets))]

-----------------------------------------------------------------------------
(***************************************************************************)
(* A change of the registries.  What the queues hold afterwards is what    *)
(* they held, or a registration of the generation that ends, in the queue  *)
(* of one key.                                                             *)
(***************************************************************************)
Grows(m, n, g) ==
  \E key : \A k \in DOMAIN n : \A y \in Elements(n[k]) :
    \/ k \in DOMAIN m /\ y \in Elements(m[k])
    \/ k = key /\ y.reg = g

LEMMA FoundBefore ==
  ASSUME NEW m, NEW n, NEW g \in Nat, Grows(m, n, g), NEW r \in Nat, r < g
  PROVE  /\ \A k : OnlyUnder(m, r, k) => OnlyUnder(n, r, k)
         /\ \A x : x.reg = r /\ OnlyAs(m, x) => OnlyAs(n, x)
<1>1. r # g
  OBVIOUS
<1> QED
  BY <1>1 DEF Grows, OnlyUnder, OnlyAs

LEMMA PostFields ==
  ASSUME NEW f \in Frames, f.op = "post"
  PROVE  /\ f \in PostFrames
         /\ f.route \in Seq(Keys) /\ f.route # << >>
         /\ f.buf \in Seq(Triplet)
         /\ f.called \in Seq([key : Keys, reg : Nat])
         /\ Elements(f.buf) \subseteq Triplet
         /\ Elements(f.called) \subseteq [key : Keys, reg : Nat]
<1>1. f \in PostFrames
  BY PostFrameType
<1>2. /\ f.route \in Seq(Keys) /\ f.route # << >>
      /\ f.buf \in Seq(Triplet)
      /\ f.called \in Seq([key : Keys, reg : Nat])
  BY <1>1 DEF PostFrames
<1> QED
  BY <1>1, <1>2, ElementsType

LEMMA RightStays ==
  ASSUME NEW m, NEW n, NEW g \in Nat, NEW h \in Nat, g <= h, Grows(m, n, g),
         NEW f \in Right(g, m)
  PROVE  f \in Right(h, n)
<1> SUFFICES ASSUME f.op = "post"
             PROVE  /\ CopyRight(f, h, n)
                    /\ \A c \in Elements(f.called) : CallRight(f, c, h, n)
                    /\ OnceInReverse(f.called)
  BY DEF Right
<1>1. /\ CopyRight(f, g, m)
      /\ \A c \in Elements(f.called) : CallRight(f, c, g, m)
      /\ OnceInReverse(f.called)
      /\ f \in Frames
  BY DEF Right
<1>2. \A x \in Elements(f.buf) : x.reg \in Nat
  BY <1>1, PostFields DEF Triplet
<1>3. \A c \in Elements(f.called) : c.reg \in Nat
  BY <1>1, PostFields
<1>4. ASSUME NEW r \in Nat, r < g
      PROVE  r < h
  BY <1>4
<1>5. CopyRight(f, h, n)
  BY <1>1, <1>2, <1>4, FoundBefore DEF CopyRight
<1>6. ASSUME NEW c \in Elements(f.called)
      PROVE  CallRight(f, c, h, n)
  BY <1>1, <1>3, <1>4, FoundBefore DEF CallRight
<1> QED
  BY <1>1, <1>5, <1>6

-----------------------------------------------------------------------------
(***************************************************************************)
(* The frames a post becomes.                                              *)
(***************************************************************************)
LEMMA LastIsHighest ==
  ASSUME NEW q \in Seq(Triplet), q # << >>, Ascending(q)
  PROVE  /\ Last(q) \in Elements(q)
         /\ Ascending(Front(q))
         /\ Elements(Front(q)) \subseteq Elements(q)
         /\ \A x \in Elements(Front(q)) : x.reg \in Nat /\ x.reg < Last(q).reg
<1> DEFINE p == Front(q)
<1>1. /\ p \in Seq(Triplet) /\ Len(p) = Len(q) - 1
      /\ \A i \in 1 .. Len(p) : p[i] = q[i]
      /\ Last(q) \in Elements(q)
  BY FrontProperties
<1> HIDE DEF p
<1>2. DOMAIN p = 1 .. Len(p) /\ DOMAIN q = 1 .. Len(q) /\ Len(q) \in Nat /\ Len(p) \in Nat
  BY <1>1
<1>3. \A i \in DOMAIN p : i \in DOMAIN q /\ p[i] = q[i] /\ i < Len(q)
  BY <1>1, <1>2
<1>4. Len(q) \in DOMAIN q
  BY <1>1, <1>2
<1>5. Ascending(p)
  BY <1>3 DEF Ascending
<1>6. \A x \in Elements(p) : x \in Elements(q) /\ x.reg < Last(q).reg
  BY <1>3, <1>4 DEF Elements, Ascending, Last
<1>7. \A x \in Elements(q) : x.reg \in Nat
  BY ElementsType DEF Triplet
<1> QED
  BY <1>1, <1>5, <1>6, <1>7 DEF p

LEMMA RouteHeadTail ==
  ASSUME NEW q \in Seq(Keys), q # << >>, NoRepeats(q)
  PROVE  /\ Head(q) \notin Elements(Tail(q))
         /\ NoRepeats(Tail(q))
         /\ Tail(q) # << >> => /\ Head(Tail(q)) \in Elements(Tail(q))
                               /\ Elements(Tail(Tail(q))) \subseteq Elements(Tail(q))
<1>1. \A p \in Seq(Keys) : p # << >> =>
        /\ Tail(p) \in Seq(Keys)
        /\ Len(Tail(p)) = Len(p) - 1 /\ Len(p) \in Nat /\ Len(p) >= 1
        /\ \A i \in 1 .. Len(Tail(p)) : Tail(p)[i] = p[i + 1]
        /\ Head(p) = p[1]
  BY HeadTailProperties
<1> DEFINE p == Tail(q)
<1>2. /\ p \in Seq(Keys) /\ Len(p) = Len(q) - 1 /\ Len(q) \in Nat /\ Len(q) >= 1
      /\ \A i \in 1 .. Len(p) : p[i] = q[i + 1]
      /\ Head(q) = q[1]
  BY <1>1
<1> HIDE DEF p
<1>3. DOMAIN p = 1 .. Len(p) /\ DOMAIN q = 1 .. Len(q) /\ Len(p) \in Nat
  BY <1>2
<1>4. \A i \in DOMAIN p : i + 1 \in DOMAIN q /\ i + 1 # 1 /\ p[i] = q[i + 1]
  BY <1>2, <1>3
<1>5. 1 \in DOMAIN q
  BY <1>2, <1>3
<1>6. Head(q) \notin Elements(p)
  BY <1>2, <1>4, <1>5 DEF Elements, NoRepeats
<1>7. NoRepeats(p)
  <2> SUFFICES ASSUME NEW i \in DOMAIN p, NEW j \in DOMAIN p, p[i] = p[j]
               PROVE  i = j
    BY DEF NoRepeats
  <2>1. i + 1 = j + 1
    BY <1>4 DEF NoRepeats
  <2>2. i \in Nat /\ j \in Nat
    BY <1>3
  <2> QED
    BY <2>1, <2>2
<1>8. ASSUME p # << >>
      PROVE  Head(p) \in Elements(p) /\ Elements(Tail(p)) \subseteq Elements(p)
  <2> DEFINE r == Tail(p)
  <2>1. /\ r \in Seq(Keys) /\ Len(r) = Len(p) - 1 /\ Len(p) >= 1
        /\ \A i \in 1 .. Len(r) : r[i] = p[i + 1]
        /\ Head(p) = p[1]
    BY <1>1, <1>2, <1>8
  <2> HIDE DEF r
  <2>2. DOMAIN r = 1 .. Len(r) /\ Len(r) \in Nat
    BY <2>1
  <2>3. \A i \in DOMAIN r : i + 1 \in DOMAIN p /\ r[i] = p[i + 1]
    BY <1>3, <2>1, <2>2
  <2>4. 1 \in DOMAIN p
    BY <1>3, <2>1
  <2>5. Elements(r) \subseteq Elements(p) /\ Head(p) \in Elements(p)
    BY <2>1, <2>3, <2>4 DEF Elements
  <2> QED
    BY <2>5 DEF r
<1> QED
  BY <1>6, <1>7, <1>8 DEF p

(***************************************************************************)
(* An ascending queue holds no registration twice.                         *)
(***************************************************************************)
LEMMA OneTripletForAReg ==
  ASSUME NEW q \in Seq(Triplet), Ascending(q),
         NEW x \in Elements(q), NEW y \in Elements(q), x.reg = y.reg
  PROVE  x = y
<1>1. PICK i \in DOMAIN q : x = q[i]
  BY DEF Elements
<1>2. PICK j \in DOMAIN q : y = q[j]
  BY DEF Elements
<1>3. DOMAIN q = 1 .. Len(q) /\ q[i] \in Triplet /\ q[j] \in Triplet
  OBVIOUS
<1>4. i \in Nat /\ j \in Nat /\ q[i].reg \in Nat /\ q[j].reg = q[i].reg
  BY <1>1, <1>2, <1>3 DEF Triplet
<1>5. ~ (q[i].reg < q[j].reg) /\ ~ (q[j].reg < q[i].reg)
  <2> DEFINE r == q[i].reg
  <2>1. r \in Nat /\ q[j].reg = r
    BY <1>4
  <2> HIDE DEF r
  <2>2. ~ (r < r)
    BY <2>1
  <2> QED
    BY <2>1, <2>2 DEF r
<1>6. ~ (i < j) /\ ~ (j < i)
  BY <1>5 DEF Ascending
<1> QED
  BY <1>1, <1>2, <1>4, <1>6

(***************************************************************************)
(* A frame that moves on with the same route and calls, and with no more   *)
(* pending than before.                                                    *)
(***************************************************************************)
LEMMA FewerPending ==
  ASSUME NEW g, NEW m, NEW f \in Right(g, m), f.op = "post",
         NEW h \in PostFrames, h.pc # "copy",
         h.route = f.route, h.called = f.called,
         Ascending(h.buf), Elements(h.buf) \subseteq Elements(f.buf),
         Elements(Pending(h)) \subseteq Elements(Pending(f))
  PROVE  h \in Right(g, m)
<1>1. /\ CopyRight(f, g, m)
      /\ \A c \in Elements(f.called) : CallRight(f, c, g, m)
      /\ OnceInReverse(f.called)
  BY DEF Right
<1>2. CopyRight(h, g, m)
  BY <1>1 DEF CopyRight
<1>3. \A c \in Elements(h.called) : CallRight(h, c, g, m)
  BY <1>1 DEF CallRight
<1>4. OnceInReverse(h.called) /\ h \in Frames
  BY <1>1 DEF Frames
<1> QED
  BY <1>2, <1>3, <1>4 DEF Right

LEMMA MovesRight ==
  ASSUME NEW g, NEW m, NEW f \in Right(g, m), f.op = "post",
         f.pc \notin {"copy", "calling"},
         NEW pc \in {"next", "check", "present", "absent"},
         [f EXCEPT !.pc = pc] \in PostFrames
  PROVE  [f EXCEPT !.pc = pc] \in Right(g, m)
<1> DEFINE h == [f EXCEPT !.pc = pc]
<1>1. f \in PostFrames
  BY PostFrameType DEF Right
<1>2. h.pc = pc /\ h.route = f.route /\ h.called = f.called /\ h.buf = f.buf
  BY <1>1 DEF PostFrames
<1>3. Ascending(f.buf)
  BY DEF Right, CopyRight
<1> HIDE DEF h
<1>4. Pending(h) = Pending(f)
  BY <1>2 DEF Pending
<1>5. h \in PostFrames
  BY DEF h
<1>6. h \in Right(g, m)
  BY <1>2, <1>3, <1>4, <1>5, FewerPending
<1> QED
  BY <1>6 DEF h

(***************************************************************************)
(* The last of the copy was called or skipped.                             *)
(***************************************************************************)
LEMMA DropsRight ==
  ASSUME NEW g, NEW m, NEW f \in Right(g, m), f.op = "post", f.buf # << >>,
         f.pc # "copy",
         [f EXCEPT !.pc = "next", !.buf = Front(@)] \in PostFrames
  PROVE  [f EXCEPT !.pc = "next", !.buf = Front(@)] \in Right(g, m)
<1> DEFINE h == [f EXCEPT !.pc = "next", !.buf = Front(@)]
<1>1. f \in PostFrames
  BY PostFrameType DEF Right
<1>2. h.pc = "next" /\ h.route = f.route /\ h.called = f.called /\ h.buf = Front(f.buf)
  BY <1>1 DEF PostFrames
<1>3. Ascending(f.buf) /\ f.buf \in Seq(Triplet)
  BY <1>1 DEF Right, CopyRight, PostFrames
<1>4. Ascending(Front(f.buf)) /\ Elements(Front(f.buf)) \subseteq Elements(f.buf)
  BY <1>3, LastIsHighest
<1>5. h \in PostFrames
  OBVIOUS
<1> HIDE DEF h
<1>6. Elements(Pending(h)) \subseteq Elements(Pending(f))
  BY <1>2, <1>4 DEF Pending
<1>7. h \in Right(g, m)
  BY <1>2, <1>4, <1>5, <1>6, FewerPending
<1> QED
  BY <1>7 DEF h

(***************************************************************************)
(* The last of the copy is being called.                                   *)
(***************************************************************************)
LEMMA CallsRight ==
  ASSUME NEW g, NEW m, NEW f \in Right(g, m), f.op = "post", f.buf # << >>,
         f.pc \in {"next", "present"}, Calling(f) \in PostFrames
  PROVE  Calling(f) \in Right(g, m)
<1> DEFINE h == Calling(f)
<1> DEFINE x == Last(f.buf)
<1> DEFINE k == Head(f.route)
<1> DEFINE new == [key |-> k, reg |-> x.reg]
<1>1. f \in PostFrames /\ f \in Frames
  BY PostFrameType DEF Right
<1>2. /\ h.pc = "calling" /\ h.route = f.route /\ h.buf = f.buf
      /\ h.called = Append(f.called, new)
  BY <1>1 DEF Calling, PostFrames
<1>3. /\ f.route \in Seq(Keys) /\ f.route # << >> /\ f.buf \in Seq(Triplet)
      /\ f.called \in Seq([key : Keys, reg : Nat])
      /\ k \in Keys
  BY <1>1, PostFields, PostFrameHas
<1>4. /\ CopyRight(f, g, m)
      /\ \A c \in Elements(f.called) : CallRight(f, c, g, m)
      /\ OnceInReverse(f.called)
  BY DEF Right
<1>5. /\ x \in Elements(f.buf)
      /\ Elements(Front(f.buf)) \subseteq Elements(f.buf)
      /\ \A y \in Elements(Front(f.buf)) : y.reg \in Nat /\ y.reg < x.reg
  BY <1>3, <1>4, LastIsHighest DEF CopyRight
<1>6. x \in Triplet
  BY <1>3, <1>5, ElementsType
<1>7. x.reg \in Nat /\ new \in [key : Keys, reg : Nat]
  BY <1>3, <1>6 DEF Triplet
<1>8. Pending(f) = f.buf /\ Pending(h) = Front(f.buf)
  BY <1>2 DEF Pending
<1>9. /\ \A y \in Elements(f.buf) : y.reg < g /\ OnlyUnder(m, y.reg, k) /\ OnlyAs(m, y)
      /\ NoRepeats(f.route) /\ Ascending(f.buf)
  BY <1>4 DEF CopyRight
<1>10. k \notin Elements(Tail(f.route))
  BY <1>3, <1>9, RouteHeadTail
<1>11. new.key = k /\ new.reg = x.reg
  OBVIOUS
<1> HIDE DEF new, x, k, h
<1>12. h.pc # "copy"
  BY <1>2
<1>13. CopyRight(h, g, m)
  BY <1>2, <1>9, <1>12 DEF CopyRight, k
<1>14. \A c \in Elements(f.called) : CallRight(h, c, g, m)
  BY <1>2, <1>4, <1>5, <1>8, <1>12 DEF CallRight
<1>15. CallRight(h, new, g, m)
  <2>1. ASSUME NEW a \in Nat, NEW b \in Nat, b < a
        PROVE  a # b /\ a > b
    BY <2>1
  <2>2. \A y \in Elements(Front(f.buf)) : x.reg # y.reg /\ x.reg > y.reg
    BY <1>5, <1>7, <2>1
  <2> QED
    BY <1>2, <1>5, <1>8, <1>9, <1>10, <1>11, <1>12, <2>2 DEF CallRight
<1>16. Elements(h.called) = Elements(f.called) \union {new}
  <2> DEFINE S == [key : Keys, reg : Nat]
  <2>1. f.called \in Seq(S) /\ new \in S
    BY <1>3, <1>7
  <2> HIDE DEF S
  <2>2. Elements(Append(f.called, new)) = Elements(f.called) \union {new}
    BY <2>1, AppendElements
  <2> QED
    BY <1>2, <2>2
<1>17. OnceInReverse(h.called)
  <2> DEFINE c == f.called
  <2> DEFINE d == h.called
  <2> DEFINE n == Len(c)
  <2>1. /\ DOMAIN c = 1 .. n /\ DOMAIN d = 1 .. (n + 1) /\ n \in Nat
        /\ \A i \in 1 .. n : d[i] = c[i] /\ c[i] \in Elements(c)
        /\ d[n + 1] = new
    BY <1>2, <1>3, <1>7 DEF Elements
  <2>2. \A e \in Elements(c) : e.reg # x.reg /\ (e.key = k => e.reg > x.reg)
    BY <1>4, <1>5, <1>8 DEF CallRight, k
  <2> SUFFICES ASSUME NEW i \in DOMAIN d, NEW j \in DOMAIN d, i < j
               PROVE  d[i].reg # d[j].reg /\ (d[i].key = d[j].key => d[i].reg > d[j].reg)
    BY DEF OnceInReverse
  <2> HIDE DEF c, d, n
  <2>3. i \in 1 .. n
    BY <2>1
  <2>4. CASE j = n + 1
    BY <1>11, <2>1, <2>2, <2>3, <2>4
  <2>5. CASE j # n + 1
    <3>1. j \in 1 .. n
      BY <2>1, <2>5
    <3>2. c[i].reg # c[j].reg /\ (c[i].key = c[j].key => c[i].reg > c[j].reg)
      BY <1>4, <2>1, <2>3, <3>1 DEF OnceInReverse, c
    <3> QED
      BY <2>1, <2>3, <3>1, <3>2
  <2> QED
    BY <2>4, <2>5
<1>18. h \in Frames
  BY DEF Frames, h
<1>19. h \in Right(g, m)
  BY <1>13, <1>14, <1>15, <1>16, <1>17, <1>18 DEF Right
<1> QED
  BY <1>19 DEF h

(***************************************************************************)
(* The next key of the route.                                              *)
(***************************************************************************)
LEMMA NextKeyRight ==
  ASSUME NEW g, NEW m, NEW f \in Right(g, m), f.op = "post",
         f.buf = << >>, Len(f.route) > 1,
         [f EXCEPT !.pc = "copy", !.gen = 0, !.route = Tail(@)] \in PostFrames
  PROVE  [f EXCEPT !.pc = "copy", !.gen = 0, !.route = Tail(@)] \in Right(g, m)
<1> DEFINE h == [f EXCEPT !.pc = "copy", !.gen = 0, !.route = Tail(@)]
<1>1. f \in PostFrames /\ f \in Frames
  BY PostFrameType DEF Right
<1>2. h.pc = "copy" /\ h.route = Tail(f.route) /\ h.buf = << >> /\ h.called = f.called
  BY <1>1 DEF PostFrames
<1>3. /\ CopyRight(f, g, m)
      /\ \A c \in Elements(f.called) : CallRight(f, c, g, m)
      /\ OnceInReverse(f.called)
  BY DEF Right
<1>4. /\ NoRepeats(Tail(f.route))
      /\ Head(Tail(f.route)) \in Elements(Tail(f.route))
      /\ Elements(Tail(Tail(f.route))) \subseteq Elements(Tail(f.route))
  <2>1. f.route \in Seq(Keys) /\ f.route # << >> /\ NoRepeats(f.route)
    BY <1>1, <1>3, PostFields DEF CopyRight
  <2>2. Tail(f.route) # << >>
    BY <2>1, TailNotEmpty
  <2> QED
    BY <2>1, <2>2, RouteHeadTail
<1>5. h \in Frames
  BY DEF Frames
<1> HIDE DEF h
<1>6. Elements(h.buf) = {} /\ Pending(h) = h.buf /\ Ascending(h.buf)
  BY <1>2, NoElements DEF Pending, Ascending
<1>7. CopyRight(h, g, m)
  BY <1>2, <1>4, <1>6 DEF CopyRight
<1>8. \A c \in Elements(h.called) : CallRight(h, c, g, m)
  BY <1>2, <1>3, <1>4, <1>6 DEF CallRight
<1>9. h \in Right(g, m)
  BY <1>2, <1>3, <1>5, <1>7, <1>8 DEF Right
<1> QED
  BY <1>9 DEF h

(***************************************************************************)
(* A new copy: the queue of the current key, of which nobody was called.   *)
(***************************************************************************)
LEMMA CopiesRight ==
  ASSUME TypeOK, OrderInv, RegsUnique,
         NEW f \in Right(generation, triplets), f.op = "post", f.pc = "copy"
  PROVE  [f EXCEPT !.pc = "copied", !.gen = generation,
                   !.buf = QueueFor(triplets, Head(f.route))] \in Right(generation, triplets)
<1> DEFINE k == Head(f.route)
<1> DEFINE q == QueueFor(triplets, k)
<1> DEFINE h == [f EXCEPT !.pc = "copied", !.gen = generation, !.buf = q]
<1>1. f \in PostFrames /\ f \in Frames
  BY PostFrameType DEF Right
<1>2. q \in Seq(Triplet) /\ generation \in Nat
  BY QueueForType DEF TypeOK
<1>3. h \in PostFrames
  BY <1>1, <1>2, CopiedFrameType
<1>4. h.pc = "copied" /\ h.route = f.route /\ h.buf = q /\ h.called = f.called
  BY <1>1 DEF PostFrames
<1>5. /\ CopyRight(f, generation, triplets)
      /\ \A c \in Elements(f.called) : CallRight(f, c, generation, triplets)
      /\ OnceInReverse(f.called)
  BY DEF Right
<1>6. /\ Ascending(q)
      /\ \A x \in Elements(q) : /\ x.reg < generation
                                /\ OnlyUnder(triplets, x.reg, k)
                                /\ k \in DOMAIN triplets /\ x \in Elements(triplets[k])
  BY NoElements DEF QueueFor, OrderInv, Ordered, Ascending, RegsUnique
<1>7. ASSUME NEW x \in Elements(q)
      PROVE  OnlyAs(triplets, x)
  <2> SUFFICES ASSUME NEW l \in DOMAIN triplets, NEW y \in Elements(triplets[l]),
                      y.reg = x.reg
               PROVE  y = x
    BY DEF OnlyAs
  <2>1. l = k /\ k \in DOMAIN triplets
    BY <1>6, <1>7 DEF OnlyUnder
  <2>2. q = triplets[k]
    BY <2>1 DEF QueueFor
  <2> QED
    BY <1>2, <1>6, <1>7, <2>1, <2>2, OneTripletForAReg
<1> HIDE DEF h, q
<1>8. CopyRight(h, generation, triplets)
  BY <1>4, <1>5, <1>6, <1>7 DEF CopyRight
<1>9. ASSUME NEW c \in Elements(f.called)
      PROVE  CallRight(h, c, generation, triplets)
  <2>1. CallRight(f, c, generation, triplets)
    BY <1>5
  <2>2. c.key # k
    BY <2>1 DEF CallRight
  <2>3. \A x \in Elements(q) : c.reg # x.reg
    BY <1>6, <2>1, <2>2 DEF CallRight, OnlyUnder
  <2>4. Pending(h) = q
    BY <1>4 DEF Pending
  <2> QED
    BY <1>4, <2>1, <2>2, <2>3, <2>4 DEF CallRight
<1>10. h \in Right(generation, triplets)
  BY <1>3, <1>4, <1>5, <1>8, <1>9 DEF Right, Frames
<1> QED
  BY <1>10 DEF h, q

(***************************************************************************)
(* A post that begins: its keys are pairwise different.                    *)
(***************************************************************************)
LEMMA RouteKeys ==
  ASSUME NEW n \in Names, NEW s \in Senders \union {Nil}
  PROVE  /\ s = Nil => /\ DOMAIN Route(n, s) = {1, 2}
                       /\ Route(n, s)[1] = Key(n, Nil) /\ Route(n, s)[2] = Key(Nil, Nil)
         /\ s # Nil => /\ DOMAIN Route(n, s) = {1, 2, 3, 4}
                       /\ Route(n, s)[1] = Key(n, s) /\ Route(n, s)[2] = Key(Nil, s)
                       /\ Route(n, s)[3] = Key(n, Nil) /\ Route(n, s)[4] = Key(Nil, Nil)
<1>1. n # Nil
  BY ConstantsAssumption
<1>2. CASE s = Nil
  <2>1. Route(n, s) = <<NameKey(n), SenderKey(Omniscient)>>
    BY <1>2 DEF Route
  <2> QED
    BY <1>1, <1>2, <2>1 DEF Key
<1>3. CASE s # Nil
  <2> DEFINE p == <<PairKey(n, s), SenderKey(s)>>
  <2> DEFINE q == <<NameKey(n), SenderKey(Omniscient)>>
  <2> DEFINE r == Route(n, s)
  <2>1. r = p \o q
    BY <1>3 DEF Route
  <2>2. /\ p \in Seq(Keys) /\ Len(p) = 2 /\ p[1] = Key(n, s) /\ p[2] = Key(Nil, s)
        /\ q \in Seq(Keys) /\ Len(q) = 2 /\ q[1] = Key(n, Nil)
        /\ q[2] = Key(Nil, Nil)
    BY <1>1, <1>3 DEF Keys, Key
  <2> HIDE DEF p, q
  <2>3. /\ r \in Seq(Keys) /\ Len(r) = 4
        /\ r[1] = p[1] /\ r[2] = p[2] /\ r[3] = q[1] /\ r[4] = q[2]
    BY <2>1, <2>2, ConcatProperties
  <2> HIDE DEF r
  <2>4. DOMAIN r = {1, 2, 3, 4}
    BY <2>3
  <2> QED
    BY <1>3, <2>2, <2>3, <2>4 DEF r
<1> QED
  BY <1>2, <1>3

(***************************************************************************)
(* The keys of a route are those of the registrations that cover the       *)
(* notification, each once.                                                *)
(***************************************************************************)
LEMMA RouteCovers ==
  ASSUME NEW n \in Names, NEW s \in Senders \union {Nil},
         NEW a \in Names \union {Nil}, NEW b \in Senders \union {Nil}
  PROVE  Key(a, b) \in Elements(Route(n, s)) <=> a \in {Nil, n} /\ b \in {Nil, s}
<1>1. Nil \in Names \union {Nil} /\ Nil \in Senders \union {Nil} /\ n \in Names \union {Nil}
  OBVIOUS
<1>2. ASSUME NEW c \in {Nil, n}, NEW d \in {Nil, s}
      PROVE  Key(a, b) = Key(c, d) <=> a = c /\ b = d
  BY KeyInjective
<1>3. Elements(Route(n, s)) = { Key(c, d) : c \in {Nil, n}, d \in {Nil, s} }
  <2>1. CASE s = Nil
    <3>1. Elements(Route(n, s)) = {Key(n, Nil), Key(Nil, Nil)}
      BY <2>1, RouteKeys DEF Elements
    <3> QED
      BY <2>1, <3>1
  <2>2. CASE s # Nil
    <3>1. Elements(Route(n, s)) = {Key(n, s), Key(Nil, s), Key(n, Nil), Key(Nil, Nil)}
      BY <2>2, RouteKeys DEF Elements
    <3> QED
      BY <3>1
  <2> QED
    BY <2>1, <2>2
<1> QED
  BY <1>2, <1>3

LEMMA RouteHasNoRepeats ==
  ASSUME NEW n \in Names, NEW s \in Senders \union {Nil}
  PROVE  NoRepeats(Route(n, s))
<1>1. n # Nil /\ n \in Names \union {Nil} /\ Nil \in Names \union {Nil}
  BY ConstantsAssumption
<1>2. ASSUME NEW a \in {Nil, n}, NEW b \in {Nil, s}, NEW c \in {Nil, n}, NEW d \in {Nil, s},
             Key(a, b) = Key(c, d)
      PROVE  a = c /\ b = d
  BY <1>2, KeyInjective
<1> DEFINE r == Route(n, s)
<1>3. CASE s = Nil
  <2>1. /\ DOMAIN r = {1, 2}
        /\ r[1] = Key(n, Nil) /\ r[2] = Key(Nil, Nil)
    BY <1>3, RouteKeys
  <2>2. Key(n, Nil) # Key(Nil, Nil)
    BY <1>1, <1>2
  <2> HIDE DEF r
  <2>3. NoRepeats(r)
    BY <2>1, <2>2 DEF NoRepeats
  <2> QED
    BY <2>3 DEF r
<1>4. CASE s # Nil
  <2>1. /\ DOMAIN r = {1, 2, 3, 4}
        /\ r[1] = Key(n, s) /\ r[2] = Key(Nil, s) /\ r[3] = Key(n, Nil)
        /\ r[4] = Key(Nil, Nil)
    BY <1>4, RouteKeys
  <2>2. /\ Key(n, s) # Key(Nil, s) /\ Key(n, s) # Key(n, Nil) /\ Key(n, s) # Key(Nil, Nil)
        /\ Key(Nil, s) # Key(n, Nil) /\ Key(Nil, s) # Key(Nil, Nil)
        /\ Key(n, Nil) # Key(Nil, Nil)
    BY <1>1, <1>2, <1>4
  <2> HIDE DEF r
  <2>3. NoRepeats(r)
    BY <2>1, <2>2 DEF NoRepeats
  <2> QED
    BY <2>3 DEF r
<1> QED
  BY <1>3, <1>4

LEMMA BeginsRight ==
  ASSUME NEW g, NEW m, generation \in Nat, NEW n \in Names, NEW s \in Senders \union {Nil}
  PROVE  PostFrame(n, s) \in Right(g, m)
<1> DEFINE f == PostFrame(n, s)
<1>1. f \in Frames
  BY NewPostFrameType
<1>2. f.pc = "copy" /\ f.route = Route(n, s) /\ f.buf = << >> /\ f.called = << >>
  BY DEF PostFrame
<1>3. NoRepeats(f.route)
  BY <1>2, RouteHasNoRepeats
<1> HIDE DEF f
<1>4. Elements(f.buf) = {} /\ Elements(f.called) = {} /\ Ascending(f.buf)
  BY <1>2, NoElements DEF Ascending
<1>5. CopyRight(f, g, m)
  BY <1>2, <1>3, <1>4 DEF CopyRight
<1>6. OnceInReverse(f.called)
  BY <1>2 DEF OnceInReverse
<1>7. f \in Right(g, m)
  BY <1>1, <1>4, <1>5, <1>6 DEF Right
<1> QED
  BY <1>7 DEF f

-----------------------------------------------------------------------------
(***************************************************************************)
(* The registries.                                                         *)
(***************************************************************************)
LEMMA ChangeGrows ==
  ASSUME TypeOK, NEW t \in Threads, Add(t) \/ RemoveAll(t) \/ Remove(t)
  PROVE  /\ Grows(triplets, triplets', generation)
         /\ generation' \in Nat /\ generation <= generation'
<1>1. IsMap(triplets, Keys, Triplet) /\ generation \in Nat
  BY DEF TypeOK
<1>2. CASE Add(t)
  <2> DEFINE f == Top(t)
  <2> DEFINE key == Key(f.name, f.sender)
  <2> DEFINE x == [observer |-> f.observer, reg |-> generation]
  <2>1. f \in Frames /\ f.op = "add"
    BY <1>2, TopType DEF Add, At
  <2>2. /\ f.observer \in Observers
        /\ f.name \in Names \union {Nil}
        /\ f.sender \in Senders \union {Nil}
    BY <2>1, AddFrameType
  <2>3. triplets' = Enqueue(triplets, key, x) /\ generation' = generation + 1
    BY <1>2 DEF Add
  <2> HIDE DEF f
  <2>4. key \in Keys /\ x \in Triplet /\ x.reg = generation
    BY <1>1, <2>2, KeyType DEF Triplet
  <2> HIDE DEF key, x
  <2> DEFINE e == Enqueue(triplets, key, x)
  <2>5. /\ DOMAIN e = DOMAIN triplets \union {key}
        /\ e[key] = Append(QueueFor(triplets, key), x)
        /\ \A k \in DOMAIN triplets \ {key} : e[k] = triplets[k]
    BY DEF Enqueue
  <2> HIDE DEF e
  <2>6. Elements(e[key]) = Elements(QueueFor(triplets, key)) \union {x}
    BY <1>1, <2>4, <2>5, QueueForType, AppendElements
  <2>7. \A y \in Elements(QueueFor(triplets, key)) :
          key \in DOMAIN triplets /\ y \in Elements(triplets[key])
    BY NoElements DEF QueueFor
  <2>8. \A k \in DOMAIN e : \A y \in Elements(e[k]) :
          \/ k \in DOMAIN triplets /\ y \in Elements(triplets[k])
          \/ k = key /\ y.reg = generation
    BY <2>4, <2>5, <2>6, <2>7
  <2> QED
    BY <1>1, <2>3, <2>8 DEF Grows, e
<1>3. ASSUME NEW o, NEW n, NEW s, Unregister(o, n, s)
      PROVE  /\ Grows(triplets, triplets', generation)
             /\ generation' \in Nat /\ generation <= generation'
  <2>1. CASE o \notin DOMAIN pairs
    BY <1>1, <1>3, <2>1 DEF Unregister, registries, Grows
  <2>2. CASE o \in DOMAIN pairs
    <3>1. PICK ks, G : triplets' = KeepFor(triplets, ks, G) /\ generation' = generation + 1
      BY <1>3, <2>2 DEF Unregister
    <3>2. \A k \in DOMAIN triplets' :
            /\ k \in DOMAIN triplets
            /\ triplets'[k] = IF k \in ks THEN Keep(triplets[k], G) ELSE triplets[k]
      BY <1>1, <3>1, KeepForProperties
    <3>3. \A k \in DOMAIN triplets : Elements(Keep(triplets[k], G)) \subseteq Elements(triplets[k])
      <4>1. \A k \in DOMAIN triplets : triplets[k] \in Seq(Triplet)
        BY <1>1 DEF IsMap
      <4> QED
        BY <4>1, KeepElements
    <3>4. \A k \in DOMAIN triplets' : \A y \in Elements(triplets'[k]) :
            k \in DOMAIN triplets /\ y \in Elements(triplets[k])
      BY <3>2, <3>3
    <3> QED
      BY <1>1, <3>1, <3>4 DEF Grows
  <2> QED
    BY <2>1, <2>2
<1> QED
  BY <1>2, <1>3 DEF RemoveAll, Remove

LEMMA UniqueStays ==
  ASSUME TypeOK, OrderInv, RegsUnique, Grows(triplets, triplets', generation)
  PROVE  RegsUnique'
<1>1. generation \in Nat /\ \A k \in DOMAIN triplets : \A x \in Elements(triplets[k]) : x.reg < generation
  BY DEF TypeOK, OrderInv, Ordered
<1>2. \A k \in DOMAIN triplets : \A x \in Elements(triplets[k]) : x.reg # generation
  <2>1. \A k \in DOMAIN triplets : \A x \in Elements(triplets[k]) : x \in Triplet
    BY ElementsType DEF TypeOK, IsMap
  <2>2. ASSUME NEW a \in Nat, a < generation
        PROVE  a # generation
    BY <1>1, <2>2
  <2> QED
    BY <1>1, <2>1, <2>2 DEF Triplet
<1> QED
  BY <1>2 DEF Grows, RegsUnique, OnlyUnder

-----------------------------------------------------------------------------
(***************************************************************************)
(* The steps.                                                              *)
(***************************************************************************)
RightStacks == stack \in [Threads -> Seq(Right(generation, triplets))]

LEMMA RightFrames ==
  ASSUME CallsInv
  PROVE  /\ RightStacks /\ TypeOK /\ generation \in Nat
         /\ \A t \in Threads : stack[t] # << >> => Top(t) \in Right(generation, triplets)
<1>1. RightStacks /\ TypeOK /\ generation \in Nat
  BY DEF CallsInv, RightStacks, TypeOK
<1>2. ASSUME NEW t \in Threads, stack[t] # << >>
      PROVE  Top(t) \in Right(generation, triplets)
  <2>1. stack[t] \in Seq(Right(generation, triplets))
    BY <1>1 DEF RightStacks
  <2> QED
    BY <1>2, <2>1, FrontProperties DEF Top
<1> QED
  BY <1>1, <1>2

(***************************************************************************)
(* A frame that is not a post needs no more than its type.                 *)
(***************************************************************************)
LEMMA OtherFramesRight ==
  ASSUME NEW f \in Frames, f.op # "post", NEW g, NEW m
  PROVE  f \in Right(g, m)
BY DEF Right

(***************************************************************************)
(* A set F of frames is closed when a post of it stays in it, whichever    *)
(* step it takes, and every other frame and every post that begins is in   *)
(* it.                                                                     *)
(***************************************************************************)
Copied(f) ==
  [f EXCEPT !.pc = "copied", !.gen = generation,
            !.buf = QueueFor(triplets, Head(f.route))]

Moved(f, pc) == [f EXCEPT !.pc = pc]

Dropped(f) == [f EXCEPT !.pc = "next", !.buf = Front(@)]

Onward(f) == [f EXCEPT !.pc = "copy", !.gen = 0, !.route = Tail(@)]

PostClosed(F) ==
  \A f \in F : f.op = "post" =>
    /\ f.pc = "copy" => Copied(f) \in F
    /\ f.pc = "copied" => Moved(f, "next") \in F
    /\ f.pc = "next" /\ f.buf # << >> => Moved(f, "check") \in F /\ Calling(f) \in F
    /\ f.pc = "next" /\ f.buf = << >> /\ Len(f.route) > 1 => Onward(f) \in F
    /\ f.pc = "check" =>
         IF StillPresent(Head(f.route), Last(f.buf).observer)
         THEN Moved(f, "present") \in F ELSE Moved(f, "absent") \in F
    /\ f.pc = "present" => Calling(f) \in F
    /\ f.pc \in {"absent", "calling"} => Dropped(f) \in F

CallClosed(F) ==
  /\ \A f \in Frames : f.op # "post" => f \in F
  /\ \A n \in Names, s \in Senders \union {Nil} : PostFrame(n, s) \in F

LEMMA ClosedCalls ==
  ASSUME NEW F, CallClosed(F), stack \in [Threads -> Seq(F)],
         NEW t \in Threads, Call(t)
  PROVE  stack' \in [Threads -> Seq(F)]
<1>1. /\ \A f \in Frames : f.op # "post" => f \in F
      /\ \A n \in Names, s \in Senders \union {Nil} : PostFrame(n, s) \in F
  BY DEF CallClosed
<1>2. ASSUME NEW f \in F, Push(t, f)
      PROVE  stack' \in [Threads -> Seq(F)]
  BY <1>2, PushFrame
<1>3. ASSUME NEW o \in Observers, NEW n \in Names \union {Nil}, NEW s \in Senders \union {Nil},
             CallAdd(t, o, n, s) \/ CallRemove(t, o, n, s)
      PROVE  stack' \in [Threads -> Seq(F)]
  <2>1. /\ AddFrame(o, n, s) \in Frames /\ AddFrame(o, n, s).op # "post"
        /\ RemoveFrame(o, n, s) \in Frames /\ RemoveFrame(o, n, s).op # "post"
    BY DEF AddFrame, RemoveFrame, Frames, OtherFrames
  <2>2. Push(t, AddFrame(o, n, s)) \/ Push(t, RemoveFrame(o, n, s))
    BY <1>3 DEF CallAdd, CallRemove
  <2> QED
    BY <1>1, <1>2, <2>1, <2>2
<1>4. ASSUME NEW o \in Observers, CallRemoveAll(t, o)
      PROVE  stack' \in [Threads -> Seq(F)]
  <2>1. RemoveAllFrame(o) \in Frames /\ RemoveAllFrame(o).op # "post"
    BY DEF RemoveAllFrame, Frames, OtherFrames
  <2> QED
    BY <1>1, <1>2, <1>4, <2>1 DEF CallRemoveAll
<1>5. ASSUME NEW n \in Names, NEW s \in Senders \union {Nil}, CallPost(t, n, s)
      PROVE  stack' \in [Threads -> Seq(F)]
  BY <1>1, <1>2, <1>5 DEF CallPost
<1>6. CASE CallWillFinalize(t)
  <2>1. FinalizeFrame \in F
    <3>1. FinalizeFrame.op # "post"
      BY DEF FinalizeFrame
    <3> QED
      BY <1>1, <3>1, FinalizeFrameType
  <2>2. <<FinalizeFrame, PostFrame(WillFinalize, Nil)>> \in Seq(F)
    BY <1>1, <2>1, ConstantsAssumption
  <2> QED
    BY <1>6, <2>2 DEF CallWillFinalize
<1>7. CASE Ignored(t)
  BY <1>7 DEF Ignored, vars
<1> QED
  BY <1>3, <1>4, <1>5, <1>6, <1>7 DEF Call

LEMMA ClosedPosts ==
  ASSUME NEW F, PostClosed(F), stack \in [Threads -> Seq(F)],
         NEW t \in Threads,
         \/ Copy(t) \/ EndCopy(t) \/ CallUnchanged(t) \/ SeeChange(t) \/ Check(t)
         \/ CallPresent(t) \/ SkipAbsent(t) \/ Return(t) \/ NextKey(t)
  PROVE  stack' \in [Threads -> Seq(F)]
<1> DEFINE f == Top(t)
<1>1. ASSUME NEW pc, At(t, "post", pc)
      PROVE  stack[t] # << >> /\ f \in F /\ f.op = "post" /\ f.pc = pc
  <2>1. stack[t] \in Seq(F) /\ stack[t] # << >>
    BY <1>1 DEF At
  <2> QED
    BY <1>1, <2>1, FrontProperties DEF At, Top
<1>2. ASSUME NEW pc, At(t, "post", pc), NEW g \in F, Become(t, g)
      PROVE  stack' \in [Threads -> Seq(F)]
  BY <1>1, <1>2, BecomeFrame
<1>3. CASE Copy(t)
  <2>1. At(t, "post", "copy") /\ Become(t, Copied(f))
    BY <1>3 DEF Copy, Copied
  <2> QED
    BY <1>1, <1>2, <2>1 DEF PostClosed
<1>4. CASE EndCopy(t)
  <2>1. At(t, "post", "copied") /\ Become(t, Moved(f, "next"))
    BY <1>4 DEF EndCopy, Goto, Moved
  <2> QED
    BY <1>1, <1>2, <2>1 DEF PostClosed
<1>5. CASE SeeChange(t)
  <2>1. At(t, "post", "next") /\ f.buf # << >> /\ Become(t, Moved(f, "check"))
    BY <1>5 DEF SeeChange, Goto, Moved
  <2> QED
    BY <1>1, <1>2, <2>1 DEF PostClosed
<1>6. CASE Check(t)
  <2> DEFINE Still == StillPresent(Head(f.route), Last(f.buf).observer)
  <2>1. /\ At(t, "post", "check")
        /\ Still => Become(t, Moved(f, "present"))
        /\ ~ Still => Become(t, Moved(f, "absent"))
    BY <1>6 DEF Check, Goto, Moved
  <2> QED
    BY <1>1, <1>2, <2>1 DEF PostClosed
<1>7. CASE CallUnchanged(t)
  <2>1. At(t, "post", "next") /\ f.buf # << >> /\ Become(t, Calling(f))
    BY <1>7 DEF CallUnchanged
  <2> QED
    BY <1>1, <1>2, <2>1 DEF PostClosed
<1>8. CASE CallPresent(t)
  <2>1. At(t, "post", "present") /\ Become(t, Calling(f))
    BY <1>8 DEF CallPresent
  <2> QED
    BY <1>1, <1>2, <2>1 DEF PostClosed
<1>9. CASE SkipAbsent(t) \/ Return(t)
  <2>1. PICK pc \in {"absent", "calling"} : At(t, "post", pc) /\ Become(t, Dropped(f))
    BY <1>9 DEF SkipAbsent, Return, Dropped
  <2> QED
    BY <1>1, <1>2, <2>1 DEF PostClosed
<1>10. CASE NextKey(t)
  <2>1. /\ At(t, "post", "next") /\ f.buf = << >> /\ Len(f.route) > 1
        /\ Become(t, Onward(f))
    BY <1>10 DEF NextKey, Onward
  <2> QED
    BY <1>1, <1>2, <2>1 DEF PostClosed
<1> QED
  BY <1>3, <1>4, <1>5, <1>6, <1>7, <1>8, <1>9, <1>10

LEMMA RightIsClosed ==
  ASSUME CallsInv
  PROVE  /\ PostClosed(Right(generation, triplets))
         /\ CallClosed(Right(generation, triplets))
<1> DEFINE F == Right(generation, triplets)
<1>1. TypeOK /\ OrderInv /\ RegsUnique /\ generation \in Nat
  BY DEF CallsInv, TypeOK
<1>2. ASSUME NEW f \in F, f.op = "post"
      PROVE  /\ f \in PostFrames
             /\ f.pc \in {"check", "present", "absent", "calling"} => f.buf # << >>
  BY <1>2, PostFrameType, PostFrameHas DEF Right
<1>3. ASSUME NEW f \in F, f.op = "post", f.pc \in {"copied", "next", "check"},
             NEW pc \in {"next", "check", "present", "absent"},
             pc = "next" \/ f.buf # << >>
      PROVE  Moved(f, pc) \in F
  <2>1. Moved(f, pc) \in PostFrames
    BY <1>2, <1>3, PostFrameSteps DEF Moved
  <2> QED
    BY <1>3, <2>1, MovesRight DEF Moved
<1>4. ASSUME NEW f \in F, f.op = "post", f.pc \in {"next", "present"}, f.buf # << >>
      PROVE  Calling(f) \in F
  BY <1>2, <1>4, PostFrameSteps, CallsRight
<1>5. ASSUME NEW f \in F, f.op = "post", f.pc \in {"absent", "calling"}
      PROVE  Dropped(f) \in F
  <2>1. f.buf # << >> /\ Dropped(f) \in PostFrames /\ f.pc # "copy"
    BY <1>2, <1>5, PostFrameSteps DEF Dropped
  <2> QED
    BY <1>5, <2>1, DropsRight DEF Dropped
<1>6. ASSUME NEW f \in F, f.op = "post", f.buf = << >>, Len(f.route) > 1
      PROVE  Onward(f) \in F
  <2>1. Onward(f) \in PostFrames
    BY <1>2, <1>6, PostFrameSteps DEF Onward
  <2> QED
    BY <1>6, <2>1, NextKeyRight DEF Onward
<1>7. ASSUME NEW f \in F, f.op = "post", f.pc = "copy"
      PROVE  Copied(f) \in F
  BY <1>1, <1>7, CopiesRight DEF Copied
<1> HIDE DEF F
<1>8. PostClosed(F)
  BY <1>2, <1>3, <1>4, <1>5, <1>6, <1>7 DEF PostClosed
<1>9. CallClosed(F)
  BY <1>1, OtherFramesRight, BeginsRight DEF CallClosed, F
<1> QED
  BY <1>8, <1>9 DEF F

LEMMA PopKeepsRight ==
  ASSUME CallsInv, NEW t \in Threads, stack[t] # << >>, Pop(t)
  PROVE  stack' \in [Threads -> Seq(Right(generation, triplets))]
<1>1. stack \in [Threads -> Seq(Right(generation, triplets))]
  BY DEF CallsInv
<1> QED
  BY <1>1, PopFrame

LEMMA ChangeKeepsRight ==
  ASSUME CallsInv, NEW t \in Threads, Add(t) \/ RemoveAll(t) \/ Remove(t)
  PROVE  RegsUnique' /\ RightStacks'
<1> DEFINE F == Right(generation', triplets')
<1>1. TypeOK /\ OrderInv /\ RegsUnique /\ RightStacks /\ generation \in Nat
  BY RightFrames DEF CallsInv
<1>2. /\ Grows(triplets, triplets', generation)
      /\ generation' \in Nat /\ generation <= generation'
  BY <1>1, ChangeGrows
<1>3. RegsUnique'
  BY <1>1, <1>2, UniqueStays
<1>4. Right(generation, triplets) \subseteq F
  BY <1>1, <1>2, RightStays
<1>5. stack \in [Threads -> Seq(F)]
  <2> HIDE DEF F
  <2>1. \A q \in Seq(Right(generation, triplets)) : q \in Seq(F)
    BY <1>4
  <2> QED
    BY <1>1, <2>1 DEF RightStacks
<1> DEFINE h == [Top(t) EXCEPT !.pc = "leave"]
<1>6. /\ stack[t] # << >> /\ Top(t).op \in {"add", "remove", "removeAll"} /\ Become(t, h)
  BY DEF Add, RemoveAll, Remove, At, Goto
<1>7. Top(t) \in Frames
  BY <1>1, <1>6, TopType
<1>8. Top(t) \in OtherFrames
  BY <1>6, <1>7 DEF Frames, PostFrames
<1>9. h \in Frames
  BY <1>6, <1>7, AddFrameType, RemoveAllFrameType
<1>10. h.op # "post"
  BY <1>6, <1>8 DEF OtherFrames
<1>11. h \in F
  BY <1>9, <1>10, OtherFramesRight
<1> HIDE DEF F, h
<1>12. stack' \in [Threads -> Seq(F)]
  BY <1>5, <1>6, <1>11, BecomeFrame
<1> QED
  BY <1>3, <1>12 DEF RightStacks, F

LEMMA CallsInvNext ==
  ASSUME CallsInv, [Next]_vars
  PROVE  RegsUnique' /\ RightStacks'
<1>1. TypeOK /\ RegsUnique /\ RightStacks
  BY RightFrames DEF CallsInv
<1>2. ASSUME UNCHANGED registries, stack' \in [Threads -> Seq(Right(generation, triplets))]
      PROVE  RegsUnique' /\ RightStacks'
  BY <1>1, <1>2 DEF registries, RegsUnique, OnlyUnder, RightStacks
<1>3. CASE UNCHANGED vars
  BY <1>1, <1>2, <1>3 DEF vars, registries, RightStacks
<1>4. ASSUME NEW t \in Threads, Call(t)
      PROVE  RegsUnique' /\ RightStacks'
  BY <1>1, <1>2, <1>4, RightIsClosed, ClosedCalls, RegistriesStand DEF RightStacks
<1>5. ASSUME NEW t \in Threads, EnterLock(t)
      PROVE  RegsUnique' /\ RightStacks'
  <2>1. CASE Add(t) \/ RemoveAll(t) \/ Remove(t)
    BY <2>1, ChangeKeepsRight
  <2>2. CASE Copy(t) \/ Check(t)
    BY <1>1, <1>2, <2>2, RightIsClosed, ClosedPosts, RegistriesStand DEF RightStacks
  <2> QED
    BY <1>5, <2>1, <2>2 DEF EnterLock
<1>6. ASSUME NEW t \in Threads,
             Leave(t) \/ EndPost(t) \/ EndWillFinalize(t) \/ AbandonPost(t)
      PROVE  RegsUnique' /\ RightStacks'
  <2>1. stack[t] # << >> /\ Pop(t) /\ UNCHANGED registries
    BY <1>6, RegistriesStand DEF Leave, EndPost, EndWillFinalize, Raise, AbandonPost, At
  <2> QED
    BY <1>2, <2>1, PopKeepsRight
<1>7. ASSUME NEW t \in Threads, LeaveLock(t) \/ WithoutLock(t) \/ Return(t)
      PROVE  RegsUnique' /\ RightStacks'
  BY <1>1, <1>2, <1>6, <1>7, RightIsClosed, ClosedPosts, RegistriesStand
     DEF RightStacks, LeaveLock, WithoutLock
<1>8. ASSUME NEW t \in Threads, AbandonWillFinalize(t)
      PROVE  RegsUnique' /\ RightStacks'
  <2>1. stack' = [stack EXCEPT ![t] = << >>] /\ UNCHANGED registries
    BY <1>8, RegistriesStand DEF Raise, AbandonWillFinalize
  <2> QED
    BY <1>1, <1>2, <2>1 DEF RightStacks
<1> QED
  BY <1>3, <1>4, <1>5, <1>6, <1>7, <1>8 DEF Next, Raise

(***************************************************************************)
(* The inductive invariant of the calls, always.                           *)
(***************************************************************************)
LEMMA AlwaysRight == Spec => [](RegsUnique /\ RightStacks)
<1>1. Init => RegsUnique /\ RightStacks
  <2> SUFFICES ASSUME Init
               PROVE  RegsUnique /\ RightStacks
    OBVIOUS
  <2>1. RightStacks
    BY DEF Init, RightStacks
  <2> QED
    BY <2>1 DEF Init, RegsUnique
<1>2. /\ TypeOK /\ OrderInv /\ RegsUnique /\ RightStacks /\ [Next]_vars
      => RegsUnique' /\ RightStacks'
  BY CallsInvNext DEF CallsInv, RightStacks
<1> QED
  BY <1>1, <1>2, TypeCorrect, AlwaysOrdered, PTL DEF Spec

(***************************************************************************)
(* A post calls nobody twice for one registration, and the observers of    *)
(* one key in the reverse of their order of registration, whatever other   *)
(* threads and the observers themselves add and remove while it runs       *)
(* (839-900).                                                              *)
(***************************************************************************)
THEOREM CallsAreOnceInReverse == Spec => []CalledOnceInReverse
<1>1. RightStacks => CalledOnceInReverse
  <2> SUFFICES ASSUME RightStacks, NEW t \in Threads, NEW d \in DOMAIN stack[t],
                      stack[t][d].op = "post"
               PROVE  OnceInReverse(stack[t][d].called)
    BY DEF CalledOnceInReverse, OnceInReverse
  <2>1. stack[t] \in Seq(Right(generation, triplets))
    BY DEF RightStacks
  <2>2. stack[t][d] \in Right(generation, triplets)
    BY <2>1
  <2> QED
    BY <2>2 DEF Right
<1> QED
  BY <1>1, AlwaysRight, PTL

=============================================================================
