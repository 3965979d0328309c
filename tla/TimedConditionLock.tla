------------------------- MODULE TimedConditionLock -------------------------
(***************************************************************************)
(* NSCondition+NSDate.m and NSConditionLock+NSDate.m: waiting on a         *)
(* condition with a limit, and taking a lock when its condition has a      *)
(* value.                                                                  *)
(*                                                                         *)
(* Threads share one NSConditionLock: a mutex, a condition variable and    *)
(* the value.  The mutex, the condition variable and the methods of the    *)
(* base classes (-tryLock, -lock, -unlock, -unlockWithCondition:) are      *)
(* external.  A wait gives the mutex up and sleeps in one step, may wake   *)
(* for nothing, times out only when the calendar has reached its limit,    *)
(* and takes the mutex again before it returns, timed out or not.          *)
(*                                                                         *)
(* There are two clocks.  Dates are compared with the calendar, which can  *)
(* be set; timeouts are measured with the monotonic clock.                 *)
(***************************************************************************)
EXTENDS Integers

CONSTANTS
  Threads,
  Values,          \* of the condition
  AnyValue,        \* no condition asked for: mulleLockWithTimeout: and the like
  Free,            \* owner of the mutex while nobody has it
  Forever,         \* an infinite date
  Methods,         \* the methods the threads call
  Limits,          \* the dates they pass
  Timeouts,        \* the timeouts they pass
  MaxTime,         \* bound: no timeout ends later than this
  MaxAdjustments   \* bound: how often the calendar is set

ASSUME ConstantsAssumption ==
  /\ AnyValue \notin Values
  /\ Free \notin Threads
  /\ Forever \notin Int
  /\ Methods \subseteq {"timeout", "before", "until", "wait", "waitTimeout"}
  /\ Limits \subseteq Int \union {Forever}
  /\ Timeouts \subseteq Int
  /\ MaxTime \in Nat /\ MaxAdjustments \in Nat

VARIABLES
  calendar,     \* _NSTimeIntervalNow()
  monotonic,    \* mulle_absolutetime_now()
  adjustments,  \* how often the calendar was set
  mutex,        \* the owner of _lock
  isLocked,     \* _mulleIsLocked
  condition,    \* _currentCondition
  call          \* of every thread, the method it is in

vars == <<calendar, monotonic, adjustments, mutex, isLocked, condition, call>>

clocks == <<calendar, monotonic, adjustments>>

-----------------------------------------------------------------------------
(***************************************************************************)
(* A call.  want: the value asked for.  deadline: when a timeout ends, on  *)
(* the monotonic clock.  seconds: what is left of it, and start: when the  *)
(* wait for that began.  until: when the present loop or wait ends, on the *)
(* monotonic clock in the loop of a timeout, on the calendar elsewhere.    *)
(***************************************************************************)
NoCall ==
  [pc |-> "idle", method |-> "none", want |-> AnyValue,
   deadline |-> 0, seconds |-> 0, start |-> 0, until |-> 0]

At(t, pc) == call[t].pc = pc

Become(t, f) == call' = [call EXCEPT ![t] = f]

Goto(t, pc) == Become(t, [call[t] EXCEPT !.pc = pc])

ReturnYes(t) == Become(t, [NoCall EXCEPT !.pc = "holding", !.want = call[t].want])

ReturnNo(t) == Become(t, NoCall)

Passed(clock, date) == date # Forever /\ clock >= date

Timed(f) == f.method \in {"timeout", "waitTimeout"}

-----------------------------------------------------------------------------
(***************************************************************************)
(* The calls.  A lock is asked for by a thread that does not hold it, a    *)
(* wait is begun by the thread that does.                                  *)
(***************************************************************************)
CallTimeout(t, want, timeout) ==
  /\ "timeout" \in Methods
  /\ At(t, "idle")
  /\ timeout > 0 => monotonic + timeout <= MaxTime
  /\ Become(t, [NoCall EXCEPT !.pc = "try", !.method = "timeout", !.want = want,
                              !.deadline = monotonic + timeout, !.seconds = timeout])
  /\ UNCHANGED <<clocks, mutex, isLocked, condition>>

CallBefore(t, want, limit) ==
  /\ "before" \in Methods
  /\ At(t, "idle")
  /\ Become(t, [NoCall EXCEPT !.pc = "try", !.method = "before", !.want = want,
                              !.until = limit])
  /\ UNCHANGED <<clocks, mutex, isLocked, condition>>

CallUntil(t, value, limit) ==
  /\ "until" \in Methods
  /\ At(t, "idle")
  /\ Become(t, [NoCall EXCEPT !.pc = "lock", !.method = "until", !.want = value,
                              !.until = limit])
  /\ UNCHANGED <<clocks, mutex, isLocked, condition>>

CallWait(t, limit) ==
  /\ "wait" \in Methods
  /\ At(t, "holding")
  /\ Become(t, [NoCall EXCEPT !.pc = "wait", !.method = "wait", !.until = limit])
  /\ UNCHANGED <<clocks, mutex, isLocked, condition>>

CallWaitTimeout(t, timeout) ==
  /\ "waitTimeout" \in Methods
  /\ At(t, "holding")
  /\ timeout > 0 => monotonic + timeout <= MaxTime
  /\ Become(t, [NoCall EXCEPT !.pc = "wait", !.method = "waitTimeout",
                              !.deadline = monotonic + timeout, !.seconds = timeout])
  /\ UNCHANGED <<clocks, mutex, isLocked, condition>>

-----------------------------------------------------------------------------
(***************************************************************************)
(* The loop of tryLock.  A timeout that is negative from the start is      *)
(* handed back by the first attempt, and taken for a failure by the        *)
(* caller.                                                                 *)
(***************************************************************************)
TryLock(t) ==
  /\ At(t, "try") \/ At(t, "spin")
  /\ mutex = Free
  /\ mutex' = t
  /\ isLocked' = TRUE
  /\ IF Timed(call[t]) /\ At(t, "try") /\ call[t].seconds < 0
     THEN ReturnNo(t)
     ELSE Goto(t, "test")
  /\ UNCHANGED <<clocks, condition>>

\* The limit of the loop is counted from its first failure.
Spin(t) ==
  /\ At(t, "try")
  /\ Timed(call[t])
  /\ mutex # Free
  /\ call[t].seconds > 0
  /\ Become(t, [call[t] EXCEPT !.pc = "spin", !.until = monotonic + call[t].seconds])
  /\ UNCHANGED <<clocks, mutex, isLocked, condition>>

GiveUp(t) ==
  /\ At(t, "try") \/ At(t, "spin")
  /\ mutex # Free
  /\ IF Timed(call[t])
     THEN IF At(t, "try") THEN call[t].seconds <= 0 ELSE monotonic >= call[t].until
     ELSE Passed(calendar, call[t].until)
  /\ ReturnNo(t)
  /\ UNCHANGED <<clocks, mutex, isLocked, condition>>

Lock(t) ==
  /\ At(t, "lock")
  /\ mutex = Free
  /\ mutex' = t
  /\ isLocked' = TRUE
  /\ Goto(t, "test")
  /\ UNCHANGED <<clocks, condition>>

-----------------------------------------------------------------------------
(***************************************************************************)
(* With the mutex: is the condition right, and if not, is there time left  *)
(* to wait for it?                                                         *)
(***************************************************************************)
\* Mutant: does not look at the condition.
GrantUntested(t) ==
  /\ At(t, "test")
  /\ ReturnYes(t)
  /\ UNCHANGED <<clocks, mutex, isLocked, condition>>

Grant(t) ==
  /\ At(t, "test")
  /\ call[t].want \in {AnyValue, condition}
  /\ ReturnYes(t)
  /\ UNCHANGED <<clocks, mutex, isLocked, condition>>

\* Mutant: does not unlock.
TooLateLocked(t) ==
  /\ At(t, "test")
  /\ call[t].want \notin {AnyValue, condition}
  /\ Timed(call[t])
  /\ call[t].deadline <= monotonic
  /\ ReturnNo(t)
  /\ UNCHANGED <<clocks, mutex, isLocked, condition>>

TooLate(t) ==
  /\ At(t, "test")
  /\ call[t].want \notin {AnyValue, condition}
  /\ Timed(call[t])
  /\ call[t].deadline <= monotonic
  /\ mutex' = Free
  /\ isLocked' = FALSE
  /\ ReturnNo(t)
  /\ UNCHANGED <<clocks, condition>>

WaitForCondition(t) ==
  /\ At(t, "test")
  /\ call[t].want \notin {AnyValue, condition}
  /\ IF Timed(call[t])
     THEN /\ call[t].deadline > monotonic
          /\ Become(t, [call[t] EXCEPT !.pc = "wait", !.seconds = call[t].deadline - monotonic])
     ELSE Goto(t, "wait")
  /\ UNCHANGED <<clocks, mutex, isLocked, condition>>

-----------------------------------------------------------------------------
(***************************************************************************)
(* Waiting: -mulleWaitUntilTimeInterval:, and -mulleWaitWithTimeout:       *)
(* around it, which waits again ("rewait") when it was not long enough.    *)
(***************************************************************************)
\* Mutant: takes every limit for an infinite one.
AsleepForever(t) == [call[t] EXCEPT !.pc = "asleep", !.until = Forever]

Asleep(t) ==
  IF Timed(call[t])
  THEN [call[t] EXCEPT !.pc = "asleep",
                       !.start = IF At(t, "wait") THEN monotonic ELSE @,
                       !.until = calendar + call[t].seconds]
  ELSE [call[t] EXCEPT !.pc = "asleep"]

\* Mutant: leaves _mulleIsLocked as it is.
SleepFlagged(t) ==
  /\ At(t, "wait") \/ At(t, "rewait")
  /\ mutex = t
  /\ mutex' = Free
  /\ Become(t, Asleep(t))
  /\ UNCHANGED <<clocks, isLocked, condition>>

Sleep(t) ==
  /\ At(t, "wait") \/ At(t, "rewait")
  /\ mutex = t
  /\ mutex' = Free
  /\ isLocked' = FALSE
  /\ Become(t, Asleep(t))
  /\ UNCHANGED <<clocks, condition>>

(***************************************************************************)
(* A wait with a mutex that the thread does not own is undefined.  It may  *)
(* set the mutex free, whoever owns it, or refuse with another error than  *)
(* ETIMEDOUT.                                                              *)
(***************************************************************************)
SleepWithoutMutex(t) ==
  /\ At(t, "wait") \/ At(t, "rewait")
  /\ mutex # t
  /\ \/ /\ mutex' = Free
        /\ isLocked' = FALSE
        /\ Become(t, Asleep(t))
     \/ /\ isLocked' = TRUE
        /\ Goto(t, "test")
        /\ UNCHANGED mutex
  /\ UNCHANGED <<clocks, condition>>

\* Signalled by somebody, or awake for nothing.
Wake(t) ==
  /\ At(t, "asleep")
  /\ Goto(t, "woken")
  /\ UNCHANGED <<clocks, mutex, isLocked, condition>>

Expire(t) ==
  /\ At(t, "asleep")
  /\ Passed(calendar, call[t].until)
  /\ Goto(t, "expired")
  /\ UNCHANGED <<clocks, mutex, isLocked, condition>>

\* Mutant: tests the condition once, not in a loop.
ReacquireAndReturn(t) ==
  /\ At(t, "woken")
  /\ mutex = Free
  /\ mutex' = t
  /\ isLocked' = TRUE
  /\ ReturnYes(t)
  /\ UNCHANGED <<clocks, condition>>

Reacquire(t) ==
  /\ At(t, "woken")
  /\ mutex = Free
  /\ mutex' = t
  /\ isLocked' = TRUE
  /\ Goto(t, "test")
  /\ UNCHANGED <<clocks, condition>>

ReacquireLate(t) ==
  /\ At(t, "expired")
  /\ mutex = Free
  /\ mutex' = t
  /\ Goto(t, "late")
  /\ UNCHANGED <<clocks, isLocked, condition>>

UnlockLate(t) ==
  /\ At(t, "late")
  /\ mutex' = Free
  /\ IF Timed(call[t]) THEN Goto(t, "timedOut") ELSE ReturnNo(t)
  /\ UNCHANGED <<clocks, isLocked, condition>>

WaitAgain(t) ==
  /\ At(t, "timedOut")
  /\ monotonic - call[t].start < call[t].seconds
  /\ Goto(t, "rewait")
  /\ UNCHANGED <<clocks, mutex, isLocked, condition>>

\* Mutant: does not measure the wait.
EndWaitAtOnce(t) ==
  /\ At(t, "timedOut")
  /\ ReturnNo(t)
  /\ UNCHANGED <<clocks, mutex, isLocked, condition>>

EndWait(t) ==
  /\ At(t, "timedOut")
  /\ monotonic - call[t].start >= call[t].seconds
  /\ ReturnNo(t)
  /\ UNCHANGED <<clocks, mutex, isLocked, condition>>

-----------------------------------------------------------------------------
(***************************************************************************)
(* The holder.  -unlockWithCondition: wakes who sleeps.                    *)
(***************************************************************************)
Unlock(t) ==
  /\ At(t, "holding")
  /\ mutex' = Free
  /\ isLocked' = FALSE
  /\ ReturnNo(t)
  /\ UNCHANGED <<clocks, condition>>

\* Mutant: sets the value the lock was asked for, not the new one.
UnlockWithOldCondition(t, value) ==
  /\ At(t, "holding")
  /\ condition' = call[t].want
  /\ mutex' = Free
  /\ isLocked' = FALSE
  /\ ReturnNo(t)
  /\ UNCHANGED clocks

UnlockWithCondition(t, value) ==
  /\ At(t, "holding")
  /\ condition' = value
  /\ mutex' = Free
  /\ isLocked' = FALSE
  /\ call' = [u \in Threads |->
                IF u = t THEN NoCall
                ELSE IF At(u, "asleep") THEN [call[u] EXCEPT !.pc = "woken"]
                ELSE call[u]]
  /\ UNCHANGED clocks

-----------------------------------------------------------------------------
(***************************************************************************)
(* Time passes on both clocks; the calendar may also be set.  After        *)
(* MaxTime it only passes for those who still sleep until a given time.    *)
(***************************************************************************)
Tick ==
  /\ \/ calendar < MaxTime \/ monotonic < MaxTime
     \/ \E t \in Threads :
          At(t, "asleep") /\ call[t].until # Forever /\ calendar < call[t].until
  /\ calendar' = calendar + 1
  /\ monotonic' = monotonic + 1
  /\ UNCHANGED <<adjustments, mutex, isLocked, condition, call>>

SetCalendar ==
  /\ adjustments < MaxAdjustments
  /\ adjustments' = adjustments + 1
  /\ calendar' \in 0 .. MaxTime
  /\ UNCHANGED <<monotonic, mutex, isLocked, condition, call>>

-----------------------------------------------------------------------------
Init ==
  /\ calendar = 0
  /\ monotonic = 0
  /\ adjustments = 0
  /\ mutex = Free
  /\ isLocked = FALSE
  /\ condition \in Values
  /\ call = [t \in Threads |-> NoCall]

Call(t) ==
  \/ \E want \in Values \union {AnyValue} :
       \/ \E timeout \in Timeouts : CallTimeout(t, want, timeout)
       \/ \E limit \in Limits : CallBefore(t, want, limit)
  \/ \E value \in Values, limit \in Limits : CallUntil(t, value, limit)
  \/ \E limit \in Limits : CallWait(t, limit)
  \/ \E timeout \in Timeouts : CallWaitTimeout(t, timeout)

Contend(t) == TryLock(t) \/ Lock(t) \/ Reacquire(t) \/ ReacquireLate(t)

Proceed(t) ==
  \/ Spin(t) \/ GiveUp(t)
  \/ Grant(t) \/ TooLate(t) \/ WaitForCondition(t)
  \/ Sleep(t) \/ SleepWithoutMutex(t)
  \/ UnlockLate(t) \/ WaitAgain(t) \/ EndWait(t)

LetGo(t) == Unlock(t) \/ \E value \in Values : UnlockWithCondition(t, value)

Next ==
  \/ Tick
  \/ SetCalendar
  \/ \E t \in Threads :
       Call(t) \/ Contend(t) \/ Proceed(t) \/ Wake(t) \/ Expire(t) \/ LetGo(t)

Spec == Init /\ [][Next]_vars

-----------------------------------------------------------------------------
(***************************************************************************)
(* Properties.                                                             *)
(***************************************************************************)
Pcs ==
  {"idle", "holding", "try", "spin", "lock", "test", "wait", "rewait", "asleep",
   "woken", "expired", "late", "timedOut"}

(***************************************************************************)
(* The type invariant.                                                     *)
(***************************************************************************)
TypeOK ==
  /\ calendar \in Nat
  /\ monotonic \in Nat
  /\ adjustments \in 0 .. MaxAdjustments
  /\ mutex \in Threads \union {Free}
  /\ isLocked \in BOOLEAN
  /\ condition \in Values
  /\ call \in [Threads ->
       [pc : Pcs, method : Methods \union {"none"}, want : Values \union {AnyValue},
        deadline : Int, seconds : Int, start : Int, until : Int \union {Forever}]]

(***************************************************************************)
(* Nobody has set the calendar, or nobody passes a timeout.  After that    *)
(* -mulleWaitWithTimeout: may have waited again with a mutex that was not  *)
(* its own, and then nothing is said of the mutex any more.                *)
(***************************************************************************)
Calm == adjustments = 0 \/ Timeouts = {}

(***************************************************************************)
(* A thread owns the mutex exactly while the code takes it for granted: it *)
(* has been told YES and not let go, or tests the condition, or is about   *)
(* to wait, or wakes up late.  Each way to NO unlocks once: the locks that *)
(* are too late themselves, and for them a wait that has timed out         *)
(* (NSConditionLock+NSDate.m:187).  A wait of the client's does the same,  *)
(* though NSCondition+NSDate.h:52 leaves the unlocking to the client.      *)
(***************************************************************************)
TakesMutexForGranted(t) ==
  call[t].pc \in {"holding", "test", "wait", "rewait", "late"}

OwnsWhatItTakesForGranted ==
  Calm => \A t \in Threads : mutex = t <=> TakesMutexForGranted(t)

(***************************************************************************)
(* A lock that was granted for a value of the condition is held with that  *)
(* value, whoever unlocked in between.                                     *)
(***************************************************************************)
GrantedOnCondition ==
  Calm =>
    \A t \in Threads : At(t, "holding") => call[t].want \in {AnyValue, condition}

(***************************************************************************)
(* _mulleIsLocked says that the mutex has an owner, whatever the order in  *)
(* which threads wait, wake up and are too late; only a thread that wakes  *)
(* too late holds the mutex without saying so.  A write of the flag is one *)
(* step with the lock or unlock next to it.                                *)
(***************************************************************************)
FlagFollowsMutex ==
  Calm =>
    (isLocked <=> mutex # Free /\ \A t \in Threads : mutex = t => ~ At(t, "late"))

(***************************************************************************)
(* The condition lock keeps its promise: it is granted to one thread at a  *)
(* time, with the condition asked for, and only its holder changes the     *)
(* condition.  It keeps it until the calendar is set.                      *)
(***************************************************************************)
Holder == IF \E t \in Threads : At(t, "holding")
          THEN CHOOSE t \in Threads : At(t, "holding") ELSE Free

Asked == [t \in Threads |->
            IF call[t].pc \in {"idle", "holding"} THEN "nothing" ELSE call[t].want]

Promise ==
  INSTANCE ConditionLock WITH
    Nobody <- Free, Nothing <- "nothing", holder <- Holder, asked <- Asked

ImplementsConditionLock ==
  Promise!Init /\ [][Calm' => Promise!Next]_<<Holder, condition, Asked>>

(***************************************************************************)
(* A method that is given a timeout does not say NO before it is over by   *)
(* the monotonic clock, whatever happens to the calendar.                  *)
(***************************************************************************)
GivesUpInTime ==
  [][\A t \in Threads :
       Timed(call[t]) /\ call'[t].pc = "idle" => monotonic >= call[t].deadline]_vars

(***************************************************************************)
(* Enter in a locked state: who waits owns the mutex.                      *)
(***************************************************************************)
WaitsWithMutex == \A t \in Threads : At(t, "wait") \/ At(t, "rewait") => mutex = t

(***************************************************************************)
(* On NO the lock is not held.                                             *)
(***************************************************************************)
RefusedWithoutMutex == \A t \in Threads : At(t, "idle") => mutex # t

(***************************************************************************)
(* Fairness.  Time passes; a thread in the code keeps running; the mutex   *)
(* and the condition variable starve nobody.                               *)
(***************************************************************************)
Fairness ==
  /\ WF_vars(Tick)
  /\ \A t \in Threads :
       WF_vars(Proceed(t)) /\ SF_vars(Contend(t)) /\ SF_vars(Expire(t))

FairSpec == Spec /\ Fairness

(***************************************************************************)
(* Moreover, who holds the lock lets go of it.                             *)
(***************************************************************************)
LettingGoSpec == FairSpec /\ \A t \in Threads : WF_vars(At(t, "holding") /\ LetGo(t))

(***************************************************************************)
(* Every call with a limit returns, unless the calendar was set: a wait    *)
(* with the mutex of another may be refused over and over.                 *)
(***************************************************************************)
Pending(t) ==
  /\ call[t].pc \notin {"idle", "holding"}
  /\ Timed(call[t]) \/ call[t].until # Forever

CallsReturn == \A t \in Threads : Pending(t) ~> ~ Pending(t) \/ ~ Calm

=============================================================================
