------------------------- MODULE NotificationCenter -------------------------
(***************************************************************************)
(* NSNotificationCenter.m, at the granularity its threads can observe.     *)
(*                                                                         *)
(* Every thread has a call stack of the center's methods.  A frame is      *)
(* either about to enter or about to leave the critical section of _lock,  *)
(* or outside of it; a post whose pc is "calling" runs the method of an    *)
(* observer, which may call the center again and so push another frame.    *)
(*                                                                         *)
(* A critical section is one action.  Nothing it touches is read without   *)
(* _lock, except _generationCount, which it writes once, as the last thing *)
(* it does.  _lock itself is kept as a variable, because the mutex is not  *)
(* recursive and callbacks re-enter the center.                            *)
(*                                                                         *)
(* Names stand for the text of a string and senders and observers for      *)
(* object pointers.  A registration is told apart by reg, the generation   *)
(* in which it was added; it stands for the selector and the imp of the    *)
(* triplet, and no guard reads it.                                         *)
(***************************************************************************)
EXTENDS PointerQueue

CONSTANTS
  Threads,
  Observers,
  Names,
  Senders,
  Nil,            \* no name, no sender
  Omniscient,     \* the key &Self._OmniscientObserver
  WillFinalize,   \* MulleObjCUniverseWillFinalizeNotification
  Unlocked,       \* owner of _lock while nobody holds it
  MaxGeneration,  \* bound: changes of the registries
  MaxDepth,       \* bound: nesting of calls on one thread
  MaxNotifying    \* bound: no exception with a higher _isNotifying (it is not taken back)

ASSUME ConstantsAssumption ==
  /\ WillFinalize \in Names
  /\ Nil \notin Names /\ Nil \notin Senders /\ Nil \notin Observers
  /\ Omniscient \notin Senders /\ Omniscient # Nil
  /\ Unlocked \notin Threads
  /\ MaxGeneration \in Nat /\ MaxDepth \in Nat /\ MaxNotifying \in Nat

VARIABLES
  triplets,    \* _pairRegistry, _nameRegistry and _senderRegistry
  pairs,       \* _observerRegistry
  generation,  \* _generationCount
  notifying,   \* _isNotifying
  finalizing,  \* Self._isFinalizing
  lock,        \* the owner of _lock
  stack        \* the calls in progress of every thread

vars == <<triplets, pairs, generation, notifying, finalizing, lock, stack>>

registries == <<triplets, pairs, generation>>

-----------------------------------------------------------------------------
(***************************************************************************)
(* The key of a registration: which of the three maps, and where in it.    *)
(***************************************************************************)
NameKey(n) == <<"name", n, Nil>>

SenderKey(s) == <<"sender", Nil, s>>

PairKey(n, s) == <<"pair", n, s>>

Key(n, s) ==
  IF n = Nil
  THEN SenderKey(IF s = Nil THEN Omniscient ELSE s)
  ELSE IF s = Nil THEN NameKey(n) ELSE PairKey(n, s)

Keys ==
  { NameKey(n) : n \in Names }
    \union { SenderKey(s) : s \in Senders \union {Omniscient} }
    \union { PairKey(n, s) : n \in Names, s \in Senders }

(***************************************************************************)
(* The keys a notification is posted to, in order.                         *)
(***************************************************************************)
Route(n, s) ==
  (IF s = Nil THEN << >> ELSE <<PairKey(n, s), SenderKey(s)>>)
    \o <<NameKey(n), SenderKey(Omniscient)>>

-----------------------------------------------------------------------------
(***************************************************************************)
(* Frames.  op is the method, pc where it stands in it.                    *)
(***************************************************************************)
AddFrame(o, n, s) ==
  [op |-> "add", pc |-> "enter", observer |-> o, name |-> n, sender |-> s]

RemoveFrame(o, n, s) ==
  [op |-> "remove", pc |-> "enter", observer |-> o, name |-> n, sender |-> s]

RemoveAllFrame(o) == [op |-> "removeAll", pc |-> "enter", observer |-> o]

FinalizeFrame == [op |-> "willFinalize", pc |-> "posting"]

(***************************************************************************)
(* route: the keys still to visit, the current one first.  buf: the copied *)
(* triplets not called yet, called from the end.  gen: the generation the  *)
(* copy was taken in.  start and called are history: the generation the    *)
(* post began in, and whom it called with which key.                       *)
(***************************************************************************)
PostFrame(n, s) ==
  [op |-> "post", pc |-> "copy", name |-> n, sender |-> s,
   route |-> Route(n, s), buf |-> << >>, gen |-> 0,
   start |-> generation, called |-> << >>]

Top(t) == Last(stack[t])

At(t, op, pc) == stack[t] # << >> /\ Top(t).op = op /\ Top(t).pc = pc

Push(t, frame) == stack' = [stack EXCEPT ![t] = Append(@, frame)]

Pop(t) == stack' = [stack EXCEPT ![t] = Front(@)]

Become(t, frame) == stack' = [stack EXCEPT ![t][Len(stack[t])] = frame]

Goto(t, pc) == Become(t, [Top(t) EXCEPT !.pc = pc])

(***************************************************************************)
(* The thread runs code outside of the center: its own, or an observer's.  *)
(***************************************************************************)
InUserCode(t) == stack[t] = << >> \/ At(t, "post", "calling")

MayCall(t) == InUserCode(t) /\ Len(stack[t]) < MaxDepth

Acquire(t) == lock = Unlocked /\ lock' = t

-----------------------------------------------------------------------------
(***************************************************************************)
(* -addObserver:selector:name:object:                                      *)
(***************************************************************************)
CallAdd(t, o, n, s) ==
  /\ MayCall(t)
  /\ ~finalizing
  /\ generation < MaxGeneration
  /\ Push(t, AddFrame(o, n, s))
  /\ UNCHANGED <<registries, notifying, finalizing, lock>>

Add(t) ==
  LET f == Top(t) IN
  /\ At(t, "add", "enter")
  /\ Acquire(t)
  /\ triplets' = Enqueue(triplets, Key(f.name, f.sender),
                         [observer |-> f.observer, reg |-> generation])
  /\ pairs' = Enqueue(pairs, f.observer,
                      [name |-> f.name, sender |-> f.sender, reg |-> generation])
  /\ generation' = generation + 1
  /\ Goto(t, "leave")
  /\ UNCHANGED <<notifying, finalizing>>

-----------------------------------------------------------------------------
(***************************************************************************)
(* -removeObserver: and -removeObserver:name:object:.  A pair is selected  *)
(* when it equals the arguments that are not nil.  The triplets of the     *)
(* observer leave the queue of every selected pair, whole queues at a      *)
(* time; dequeueing the key of a second equal pair finds nothing.          *)
(***************************************************************************)
\* Mutant: one matching argument is enough.
SelectedByEither(q, n, s) ==
  { p \in Elements(q) : (s = Nil \/ s = p.sender) \/ (n = Nil \/ n = p.name) }

Selected(q, n, s) ==
  { p \in Elements(q) : (s = Nil \/ s = p.sender) /\ (n = Nil \/ n = p.name) }

TripletsOfOthers(o) ==
  { x \in UNION { Elements(triplets[k]) : k \in DOMAIN triplets } : x.observer # o }

\* Mutant: the generation is not counted up.
UnregisterSilently(o, n, s) ==
  LET gone == Selected(QueueFor(pairs, o), n, s) IN
  IF o \notin DOMAIN pairs
  THEN UNCHANGED registries
  ELSE /\ triplets' = KeepFor(triplets, { Key(p.name, p.sender) : p \in gone },
                              TripletsOfOthers(o))
       /\ pairs' = KeepFor(pairs, {o}, Elements(pairs[o]) \ gone)
       /\ UNCHANGED generation

\* Mutant: dequeues the key of the arguments, not those of the pairs.
UnregisterByArguments(o, n, s) ==
  LET gone == Selected(QueueFor(pairs, o), n, s) IN
  IF o \notin DOMAIN pairs
  THEN UNCHANGED registries
  ELSE /\ triplets' = KeepFor(triplets, {Key(n, s)}, TripletsOfOthers(o))
       /\ pairs' = KeepFor(pairs, {o}, Elements(pairs[o]) \ gone)
       /\ generation' = generation + 1

Unregister(o, n, s) ==
  LET gone == Selected(QueueFor(pairs, o), n, s) IN
  IF o \notin DOMAIN pairs
  THEN UNCHANGED registries
  ELSE /\ triplets' = KeepFor(triplets, { Key(p.name, p.sender) : p \in gone },
                              TripletsOfOthers(o))
       /\ pairs' = KeepFor(pairs, {o}, Elements(pairs[o]) \ gone)
       /\ generation' = generation + 1

CallRemoveAll(t, o) ==
  /\ MayCall(t)
  /\ generation < MaxGeneration
  /\ Push(t, RemoveAllFrame(o))
  /\ UNCHANGED <<registries, notifying, finalizing, lock>>

RemoveAll(t) ==
  /\ At(t, "removeAll", "enter")
  /\ Acquire(t)
  /\ Unregister(Top(t).observer, Nil, Nil)
  /\ Goto(t, "leave")
  /\ UNCHANGED <<notifying, finalizing>>

CallRemove(t, o, n, s) ==
  /\ MayCall(t)
  /\ generation < MaxGeneration
  /\ Push(t, RemoveFrame(o, n, s))
  /\ UNCHANGED <<registries, notifying, finalizing, lock>>

Remove(t) ==
  /\ At(t, "remove", "enter")
  /\ Acquire(t)
  /\ Unregister(Top(t).observer, Top(t).name, Top(t).sender)
  /\ Goto(t, "leave")
  /\ UNCHANGED <<notifying, finalizing>>

(***************************************************************************)
(* The end of an add or a remove: unlock and return.                       *)
(***************************************************************************)
Leave(t) ==
  /\ \E op \in {"add", "remove", "removeAll"} : At(t, op, "leave")
  /\ lock' = Unlocked
  /\ Pop(t)
  /\ UNCHANGED <<registries, notifying, finalizing>>

-----------------------------------------------------------------------------
(***************************************************************************)
(* Posting.  The route is followed key by key: copy the queue under the    *)
(* lock, then call it from the end without the lock.                       *)
(***************************************************************************)
CallPost(t, n, s) ==
  /\ MayCall(t)
  /\ ~finalizing
  /\ notifying' = notifying + 1
  /\ Push(t, PostFrame(n, s))
  /\ UNCHANGED <<registries, finalizing, lock>>

Copy(t) ==
  /\ At(t, "post", "copy")
  /\ Acquire(t)
  /\ Become(t, [Top(t) EXCEPT !.pc = "copied", !.gen = generation,
                              !.buf = QueueFor(triplets, Head(Top(t).route))])
  /\ UNCHANGED <<registries, notifying, finalizing>>

EndCopy(t) ==
  /\ At(t, "post", "copied")
  /\ lock' = Unlocked
  /\ Goto(t, "next")
  /\ UNCHANGED <<registries, notifying, finalizing>>

(***************************************************************************)
(* The frame f once the last triplet of buf is being called.               *)
(***************************************************************************)
Calling(f) ==
  [f EXCEPT !.pc = "calling",
            !.called = Append(@, [key |-> Head(f.route), reg |-> Last(f.buf).reg])]

\* Mutant: calls without comparing the generations.
CallWithoutLooking(t) ==
  /\ At(t, "post", "next")
  /\ Top(t).buf # << >>
  /\ Become(t, Calling(Top(t)))
  /\ UNCHANGED <<registries, notifying, finalizing, lock>>

(***************************************************************************)
(* Nothing was added or removed since the copy: no need to look.           *)
(***************************************************************************)
CallUnchanged(t) ==
  /\ At(t, "post", "next")
  /\ Top(t).buf # << >>
  /\ Top(t).gen = generation
  /\ Become(t, Calling(Top(t)))
  /\ UNCHANGED <<registries, notifying, finalizing, lock>>

\* Mutant: looks even when the copy is used up.
SeeChangeInEmptyCopy(t) ==
  /\ At(t, "post", "next")
  /\ Top(t).gen # generation
  /\ Goto(t, "check")
  /\ UNCHANGED <<registries, notifying, finalizing, lock>>

\* Mutant: starts over with a new copy.
SeeChangeAndCopyAgain(t) ==
  /\ At(t, "post", "next")
  /\ Top(t).buf # << >>
  /\ Top(t).gen # generation
  /\ Become(t, [Top(t) EXCEPT !.pc = "copy", !.gen = 0, !.buf = << >>])
  /\ UNCHANGED <<registries, notifying, finalizing, lock>>

SeeChange(t) ==
  /\ At(t, "post", "next")
  /\ Top(t).buf # << >>
  /\ Top(t).gen # generation
  /\ Goto(t, "check")
  /\ UNCHANGED <<registries, notifying, finalizing, lock>>

StillPresent(key, o) ==
  \E x \in Elements(QueueFor(triplets, key)) : x.observer = o

Check(t) ==
  /\ At(t, "post", "check")
  /\ Acquire(t)
  /\ Goto(t, IF StillPresent(Head(Top(t).route), Last(Top(t).buf).observer)
             THEN "present" ELSE "absent")
  /\ UNCHANGED <<registries, notifying, finalizing>>

CallPresent(t) ==
  /\ At(t, "post", "present")
  /\ lock' = Unlocked
  /\ Become(t, Calling(Top(t)))
  /\ UNCHANGED <<registries, notifying, finalizing>>

\* Mutant: forgets to unlock.
SkipAbsentLocked(t) ==
  /\ At(t, "post", "absent")
  /\ Become(t, [Top(t) EXCEPT !.pc = "next", !.buf = Front(@)])
  /\ UNCHANGED <<registries, notifying, finalizing, lock>>

\* Mutant: looks at the same triplet again.
SkipAbsentAgain(t) ==
  /\ At(t, "post", "absent")
  /\ lock' = Unlocked
  /\ Goto(t, "next")
  /\ UNCHANGED <<registries, notifying, finalizing>>

SkipAbsent(t) ==
  /\ At(t, "post", "absent")
  /\ lock' = Unlocked
  /\ Become(t, [Top(t) EXCEPT !.pc = "next", !.buf = Front(@)])
  /\ UNCHANGED <<registries, notifying, finalizing>>

Return(t) ==
  /\ At(t, "post", "calling")
  /\ Become(t, [Top(t) EXCEPT !.pc = "next", !.buf = Front(@)])
  /\ UNCHANGED <<registries, notifying, finalizing, lock>>

(***************************************************************************)
(* The observer's method raises.  Nothing in the center catches: the post  *)
(* is abandoned as it stands, and an enclosing observer may catch.  With   *)
(* the post of +willFinalize that method is abandoned too, before it has   *)
(* shut the center.                                                        *)
(***************************************************************************)
PostsForWillFinalize(t) == Len(stack[t]) = 2 /\ stack[t][1].op = "willFinalize"

AbandonPost(t) ==
  /\ At(t, "post", "calling")
  /\ notifying <= MaxNotifying
  /\ ~ PostsForWillFinalize(t)
  /\ Pop(t)
  /\ UNCHANGED <<registries, notifying, finalizing, lock>>

AbandonWillFinalize(t) ==
  /\ At(t, "post", "calling")
  /\ notifying <= MaxNotifying
  /\ PostsForWillFinalize(t)
  /\ stack' = [stack EXCEPT ![t] = << >>]
  /\ UNCHANGED <<registries, notifying, finalizing, lock>>

Raise(t) == AbandonPost(t) \/ AbandonWillFinalize(t)

NextKey(t) ==
  /\ At(t, "post", "next")
  /\ Top(t).buf = << >>
  /\ Len(Top(t).route) > 1
  /\ Become(t, [Top(t) EXCEPT !.pc = "copy", !.gen = 0, !.route = Tail(@)])
  /\ UNCHANGED <<registries, notifying, finalizing, lock>>

EndPost(t) ==
  /\ At(t, "post", "next")
  /\ Top(t).buf = << >>
  /\ Len(Top(t).route) = 1
  /\ notifying' = notifying - 1
  /\ Pop(t)
  /\ UNCHANGED <<registries, finalizing, lock>>

-----------------------------------------------------------------------------
(***************************************************************************)
(* +willFinalize, called by the runtime: post, then shut the center.       *)
(***************************************************************************)
CallWillFinalize(t) ==
  /\ stack[t] = << >>
  /\ MaxDepth > 1
  /\ ~finalizing
  /\ \A u \in Threads : \A d \in DOMAIN stack[u] : stack[u][d].op # "willFinalize"
  /\ notifying' = notifying + 1
  /\ stack' = [stack EXCEPT ![t] = <<FinalizeFrame, PostFrame(WillFinalize, Nil)>>]
  /\ UNCHANGED <<registries, finalizing, lock>>

EndWillFinalize(t) ==
  /\ At(t, "willFinalize", "posting")
  /\ finalizing' = TRUE
  /\ Pop(t)
  /\ UNCHANGED <<registries, notifying, lock>>

(***************************************************************************)
(* An add or a post that finds the center finalizing does nothing.         *)
(***************************************************************************)
Ignored(t) ==
  /\ MayCall(t)
  /\ finalizing
  /\ UNCHANGED vars

-----------------------------------------------------------------------------
Init ==
  /\ triplets = << >>
  /\ pairs = << >>
  /\ generation = 0
  /\ notifying = 0
  /\ finalizing = FALSE
  /\ lock = Unlocked
  /\ stack = [t \in Threads |-> << >>]

(***************************************************************************)
(* What user code decides to do, and what follows from it.                 *)
(***************************************************************************)
Call(t) ==
  \/ \E o \in Observers, n \in Names \union {Nil}, s \in Senders \union {Nil} :
       CallAdd(t, o, n, s) \/ CallRemove(t, o, n, s)
  \/ \E o \in Observers : CallRemoveAll(t, o)
  \/ \E n \in Names, s \in Senders \union {Nil} : CallPost(t, n, s)
  \/ CallWillFinalize(t)
  \/ Ignored(t)

EnterLock(t) == Add(t) \/ RemoveAll(t) \/ Remove(t) \/ Copy(t) \/ Check(t)

LeaveLock(t) == Leave(t) \/ EndCopy(t) \/ CallPresent(t) \/ SkipAbsent(t)

WithoutLock(t) ==
  \/ CallUnchanged(t)
  \/ SeeChange(t)
  \/ NextKey(t)
  \/ EndPost(t)
  \/ EndWillFinalize(t)

Next ==
  \E t \in Threads :
    Call(t) \/ EnterLock(t) \/ LeaveLock(t) \/ WithoutLock(t) \/ Return(t) \/ Raise(t)

Spec == Init /\ [][Next]_vars

-----------------------------------------------------------------------------
(***************************************************************************)
(* Properties.                                                             *)
(***************************************************************************)
Triplet == [observer : Observers, reg : Nat]

Pair == [name : Names \union {Nil}, sender : Senders \union {Nil}, reg : Nat]

(***************************************************************************)
(* A post always has a key to visit, and while it is about to call or skip *)
(* an observer, or calls one, that observer ends buf.                      *)
(***************************************************************************)
PostFrames ==
  { f \in [op : {"post"},
           pc : {"copy", "copied", "next", "check", "present", "absent", "calling"},
           name : Names, sender : Senders \union {Nil},
           route : Seq(Keys), buf : Seq(Triplet), gen : Nat, start : Nat,
           called : Seq([key : Keys, reg : Nat])] :
      /\ f.route # << >>
      /\ f.pc \in {"check", "present", "absent", "calling"} => f.buf # << >> }

OtherFrames ==
  [op : {"add", "remove"}, pc : {"enter", "leave"}, observer : Observers,
   name : Names \union {Nil}, sender : Senders \union {Nil}]
  \union [op : {"removeAll"}, pc : {"enter", "leave"}, observer : Observers]
  \union [op : {"willFinalize"}, pc : {"posting"}]

(***************************************************************************)
(* The type invariant.                                                     *)
(***************************************************************************)
TypeOK ==
  /\ IsMap(triplets, Keys, Triplet)
  /\ IsMap(pairs, Observers, Pair)
  /\ generation \in Nat
  /\ notifying \in Int
  /\ finalizing \in BOOLEAN
  /\ lock \in Threads \union {Unlocked}
  /\ stack \in [Threads -> Seq(PostFrames \union OtherFrames)]

(***************************************************************************)
(* The registrations the triplet queues hold, and those the pair queues    *)
(* hold.                                                                   *)
(***************************************************************************)
FromTriplets ==
  UNION { { [key |-> k, observer |-> x.observer, reg |-> x.reg] :
              x \in Elements(triplets[k]) } : k \in DOMAIN triplets }

FromPairs ==
  UNION { { [key |-> Key(p.name, p.sender), observer |-> o, reg |-> p.reg] :
              p \in Elements(pairs[o]) } : o \in DOMAIN pairs }

(***************************************************************************)
(* The two indices over the registrations agree: what a post can find is   *)
(* what a remove can find, and no map keeps an entry for an empty queue.   *)
(* removeObserver: walks the pair queue of the observer and trusts it to   *)
(* name every queue that holds one of its triplets.                        *)
(***************************************************************************)
RegistriesAgree ==
  /\ FromTriplets = FromPairs
  /\ \A k \in DOMAIN triplets : triplets[k] # << >>
  /\ \A o \in DOMAIN pairs : pairs[o] # << >>

(***************************************************************************)
(* -removeObserver:name:object: takes exactly the registrations of the     *)
(* observer that match its arguments out of the queues a post would find   *)
(* them in, although it dequeues by key and observer and not by pair.      *)
(***************************************************************************)
Matches(r, f) ==
  /\ r.observer = f.observer
  /\ \E n \in Names \union {Nil}, s \in Senders \union {Nil} :
       r.key = Key(n, s) /\ f.name \in {Nil, n} /\ f.sender \in {Nil, s}

RemovesExactly ==
  [][\A t \in Threads :
       At(t, "remove", "enter") /\ At(t, "remove", "leave")' =>
         FromTriplets' = { r \in FromTriplets : ~ Matches(r, Top(t)) }]_vars

(***************************************************************************)
(* Every queue holds its registrations in the order they were made,        *)
(* whatever was removed from it in between.                                *)
(***************************************************************************)
Ascending(q) == \A i, j \in DOMAIN q : i < j => q[i].reg < q[j].reg

QueuesInRegistrationOrder ==
  /\ \A k \in DOMAIN triplets : Ascending(triplets[k])
  /\ \A o \in DOMAIN pairs : Ascending(pairs[o])

(***************************************************************************)
(* _lock is held exactly by a thread that is between a lock and an unlock  *)
(* of the source; in particular user code, where a callback may enter the  *)
(* center again, never runs under it.                                      *)
(***************************************************************************)
InCriticalSection(t) ==
  /\ stack[t] # << >>
  /\ Top(t).pc \in {"leave", "copied", "present", "absent"}

LockDiscipline == \A t \in Threads : InCriticalSection(t) <=> lock = t

(***************************************************************************)
(* What is left of the copied queue is a prefix of the queue itself for as *)
(* long as the generation has not moved.  This is what lets a post call an *)
(* observer without looking again under the lock.                          *)
(***************************************************************************)
IsPrefixOf(p, q) == Len(p) <= Len(q) /\ \A i \in 1 .. Len(p) : p[i] = q[i]

CopyIsCurrent ==
  \A t \in Threads : \A d \in DOMAIN stack[t] :
    LET f == stack[t][d] IN
    f.op = "post" /\ f.pc # "copy" =>
      /\ f.gen <= generation
      /\ f.gen = generation => IsPrefixOf(f.buf, QueueFor(triplets, Head(f.route)))

(***************************************************************************)
(* A post calls nobody twice for one registration, and the observers of    *)
(* one key in the reverse of the order in which they registered, whatever  *)
(* is added and removed while it runs.                                     *)
(***************************************************************************)
CalledOnceInReverse ==
  \A t \in Threads : \A d \in DOMAIN stack[t] :
    stack[t][d].op = "post" =>
      LET c == stack[t][d].called IN
      \A i, j \in DOMAIN c : i < j =>
        /\ c[i].reg # c[j].reg
        /\ c[i].key = c[j].key => c[i].reg > c[j].reg

(***************************************************************************)
(* The comment above the posting functions: observers registered in the    *)
(* order a, b, c are messaged in the order c, b, a.  Read over a whole     *)
(* post, and not over one of its up to four keys.                          *)
(***************************************************************************)
PostInReverse ==
  \A t \in Threads : \A d \in DOMAIN stack[t] :
    stack[t][d].op = "post" =>
      LET c == stack[t][d].called IN
      \A i, j \in DOMAIN c : i < j => c[i].reg > c[j].reg

(***************************************************************************)
(* Fairness.  A thread inside the center keeps running; the mutex starves  *)
(* nobody; no method of an observer calls the center for ever, at whatever *)
(* depth it runs.                                                          *)
(***************************************************************************)
Fairness ==
  \A t \in Threads :
    /\ WF_vars(LeaveLock(t) \/ WithoutLock(t))
    /\ SF_vars(EnterLock(t))
    /\ \A d \in 1 .. MaxDepth : SF_vars(Len(stack[t]) = d /\ Return(t))

FairSpec == Spec /\ Fairness

(***************************************************************************)
(* Every call of the center returns.                                       *)
(***************************************************************************)
CallsReturn == \A t \in Threads : stack[t] # << >> ~> stack[t] = << >>

=============================================================================
