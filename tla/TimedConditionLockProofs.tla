---------------------- MODULE TimedConditionLockProofs ----------------------
(***************************************************************************)
(* The condition lock keeps its promise, if no timeout is negative, until  *)
(* the calendar is set; if only dates are passed it always does.           *)
(***************************************************************************)
EXTENDS TimedConditionLock, TLAPS

NoneIsOverdue == Timeouts \subseteq Nat

CallRecord ==
  [pc : Pcs, method : Methods \union {"none"}, want : Values \union {AnyValue},
   deadline : Int, seconds : Int, start : Int, until : Int \union {Forever}]

-----------------------------------------------------------------------------
(***************************************************************************)
(* The inductive invariant.  It is the second part that makes the first    *)
(* inductive: with one clock, a wait for a timeout never ends before the   *)
(* timeout is over, so that nobody waits again without the mutex.          *)
(***************************************************************************)
GrantedPcs == {"holding", "test", "wait", "rewait", "late"}

TimesAgree(f, now) ==
  /\ f.pc # "rewait"
  /\ f.pc = "timedOut" => f.method \in {"timeout", "waitTimeout"}
  /\ f.method \in {"timeout", "waitTimeout"} =>
       /\ Timeouts # {}
       /\ f.pc = "try" => f.seconds >= 0
       /\ f.pc = "asleep" => f.until = f.start + f.seconds
       /\ f.pc \in {"expired", "late", "timedOut"} => f.start + f.seconds <= now

OneClock == Timeouts # {} => calendar = monotonic

WaitsEndInTime == \A t \in Threads : TimesAgree(call[t], monotonic)

OwnershipIsRight == \A t \in Threads : mutex = t <=> TakesMutexForGranted(t)

GrantIsRight ==
  \A t \in Threads : At(t, "holding") => call[t].want \in {AnyValue, condition}

FlagIsSet ==
  isLocked <=> mutex # Free /\ \A t \in Threads : mutex = t => ~ At(t, "late")

IInv ==
  /\ TypeOK
  /\ OwnershipIsRight
  /\ GrantIsRight
  /\ FlagIsSet
  /\ OneClock
  /\ WaitsEndInTime

-----------------------------------------------------------------------------
(***************************************************************************)
(* Changing the call of one thread.                                        *)
(***************************************************************************)
LEMMA BecomeCall ==
  ASSUME TypeOK, NEW t \in Threads, NEW f \in CallRecord, Become(t, f)
  PROVE  /\ call' \in [Threads -> CallRecord]
         /\ call'[t] = f
         /\ \A u \in Threads \ {t} : call'[u] = call[u]
BY DEF TypeOK, CallRecord, Become

LEMMA CallType ==
  ASSUME TypeOK, NEW t \in Threads
  PROVE  /\ call[t] \in CallRecord
         /\ call \in [Threads -> CallRecord]
BY DEF TypeOK, CallRecord

LEMMA NoCallType == NoCall \in CallRecord
BY DEF NoCall, CallRecord, Pcs

LEMMA RecordType ==
  ASSUME NEW f \in CallRecord, NEW pc \in Pcs
  PROVE  /\ [f EXCEPT !.pc = pc] \in CallRecord
         /\ [f EXCEPT !.pc = pc].pc = pc
BY DEF CallRecord

(***************************************************************************)
(* _mulleIsLocked after a step of t to pc: it follows the mutex if the     *)
(* step takes the mutex or lets it go, and else stays as it is.            *)
(***************************************************************************)
FlagStep(t, pc) ==
  IF mutex' = t THEN isLocked' <=> pc # "late"
  ELSE IF mutex = t THEN ~ isLocked'
  ELSE isLocked' = isLocked

(***************************************************************************)
(* A step of one thread that leaves the clocks and the condition alone     *)
(* keeps the invariant, if its new call is right.                          *)
(***************************************************************************)
LEMMA ThreadStep ==
  ASSUME IInv, NEW t \in Threads, NEW f \in CallRecord, Become(t, f),
         UNCHANGED <<clocks, condition>>,
         mutex' \in Threads \union {Free}, isLocked' \in BOOLEAN,
         TimesAgree(f, monotonic),
         mutex' = t <=> f.pc \in GrantedPcs,
         \A u \in Threads \ {t} : mutex' = u <=> mutex = u,
         f.pc = "holding" => f.want \in {AnyValue, condition},
         FlagStep(t, f.pc)
  PROVE  IInv'
<1>1. /\ call' \in [Threads -> CallRecord]
      /\ call'[t] = f
      /\ \A u \in Threads \ {t} : call'[u] = call[u]
  BY BecomeCall DEF IInv
<1>2. UNCHANGED <<calendar, monotonic, adjustments, condition>>
  BY DEF clocks
<1>3. TypeOK'
  BY <1>1, <1>2 DEF IInv, TypeOK, CallRecord
<1>4. OwnershipIsRight'
  BY <1>1 DEF IInv, OwnershipIsRight, TakesMutexForGranted, GrantedPcs
<1>5. GrantIsRight'
  BY <1>1, <1>2 DEF IInv, GrantIsRight, At
<1>6. OneClock'
  BY <1>2 DEF IInv, OneClock
<1>7. WaitsEndInTime'
  BY <1>1, <1>2 DEF IInv, WaitsEndInTime
<1>8. FlagIsSet'
  <2> USE <1>1, ConstantsAssumption DEF At
  <2>1. CASE mutex' = t
    BY <2>1 DEF FlagIsSet, FlagStep
  <2>2. CASE mutex' # t /\ mutex = t
    <3>1. mutex' = Free
      BY <2>2
    <3> QED
      BY <2>2, <3>1 DEF FlagIsSet, FlagStep
  <2>3. CASE mutex' # t /\ mutex # t
    <3>1. isLocked' = isLocked /\ mutex' = mutex
      <4>1. mutex \in Threads \union {Free}
        BY DEF IInv, TypeOK
      <4> QED
        BY <2>3, <4>1 DEF FlagStep
    <3> QED
      BY <2>3, <3>1 DEF IInv, FlagIsSet
  <2> QED
    BY <2>1, <2>2, <2>3
<1> QED
  BY <1>3, <1>4, <1>5, <1>6, <1>7, <1>8 DEF IInv

(***************************************************************************)
(* The calls.                                                              *)
(***************************************************************************)
NewCall(t, f) ==
  /\ Become(t, f)
  /\ UNCHANGED <<clocks, mutex, isLocked, condition>>
  /\ TimesAgree(f, monotonic)
  /\ \/ At(t, "idle") /\ f.pc \in {"try", "lock"} /\ mutex # t
     \/ At(t, "holding") /\ f.pc = "wait" /\ f.want = AnyValue /\ mutex = t

LEMMA CallsAreNew ==
  ASSUME IInv, NoneIsOverdue, NEW t \in Threads, Call(t)
  PROVE  \E f \in CallRecord : NewCall(t, f)
<1> USE ConstantsAssumption
<1>t. TypeOK /\ OwnershipIsRight
  BY DEF IInv
<1>0. /\ mutex \in Threads \union {Free}
      /\ isLocked \in BOOLEAN
      /\ monotonic \in Int
  BY <1>t DEF TypeOK
<1>1. ASSUME NEW want \in Values \union {AnyValue}, NEW timeout \in Timeouts,
             CallTimeout(t, want, timeout)
      PROVE  \E f \in CallRecord : NewCall(t, f)
  <2>0. "timeout" \in Methods /\ timeout \in Int
    BY <1>1 DEF CallTimeout
  <2> DEFINE end == monotonic + timeout
  <2>e. end \in Int
    BY <2>0, <1>0
  <2> HIDE DEF end
  <2> DEFINE f == [NoCall EXCEPT !.pc = "try", !.method = "timeout", !.want = want,
                                 !.deadline = end, !.seconds = timeout]
  <2>1. f \in CallRecord
    BY <2>0, <2>e, NoCallType DEF CallRecord, Pcs
  <2>2. Become(t, f) /\ UNCHANGED <<clocks, mutex, isLocked, condition>>
    BY <1>1 DEF CallTimeout, end
  <2>3. f.pc = "try" /\ f.seconds = timeout
    BY DEF NoCall
  <2>4. timeout >= 0
    BY DEF NoneIsOverdue
  <2>5. mutex # t /\ At(t, "idle")
    BY <1>1, <1>t DEF CallTimeout, At, OwnershipIsRight, TakesMutexForGranted
  <2> HIDE DEF f
  <2>6. TimesAgree(f, monotonic)
    BY <2>3, <2>4 DEF TimesAgree
  <2> QED
    BY <2>1, <2>2, <2>3, <2>5, <2>6 DEF NewCall
<1>2. ASSUME NEW want \in Values \union {AnyValue}, NEW limit \in Limits,
             CallBefore(t, want, limit)
      PROVE  \E f \in CallRecord : NewCall(t, f)
  <2> DEFINE f == [NoCall EXCEPT !.pc = "try", !.method = "before", !.want = want,
                                 !.until = limit]
  <2>0. "before" \in Methods /\ limit \in Int \union {Forever}
    BY <1>2 DEF CallBefore
  <2>1. f \in CallRecord
    BY <2>0, NoCallType DEF CallRecord, Pcs
  <2>2. Become(t, f) /\ UNCHANGED <<clocks, mutex, isLocked, condition>>
    BY <1>2 DEF CallBefore
  <2>3. f.pc = "try" /\ f.method = "before"
    BY DEF NoCall
  <2>5. mutex # t /\ At(t, "idle")
    BY <1>2, <1>t DEF CallBefore, At, OwnershipIsRight, TakesMutexForGranted
  <2> HIDE DEF f
  <2>6. TimesAgree(f, monotonic)
    BY <2>3 DEF TimesAgree
  <2> QED
    BY <2>1, <2>2, <2>3, <2>5, <2>6 DEF NewCall
<1>3. ASSUME NEW value \in Values, NEW limit \in Limits, CallUntil(t, value, limit)
      PROVE  \E f \in CallRecord : NewCall(t, f)
  <2> DEFINE f == [NoCall EXCEPT !.pc = "lock", !.method = "until", !.want = value,
                                 !.until = limit]
  <2>0. "until" \in Methods /\ limit \in Int \union {Forever}
    BY <1>3 DEF CallUntil
  <2>1. f \in CallRecord
    BY <2>0, NoCallType DEF CallRecord, Pcs
  <2>2. Become(t, f) /\ UNCHANGED <<clocks, mutex, isLocked, condition>>
    BY <1>3 DEF CallUntil
  <2>3. f.pc = "lock" /\ f.method = "until"
    BY DEF NoCall
  <2>5. mutex # t /\ At(t, "idle")
    BY <1>3, <1>t DEF CallUntil, At, OwnershipIsRight, TakesMutexForGranted
  <2> HIDE DEF f
  <2>6. TimesAgree(f, monotonic)
    BY <2>3 DEF TimesAgree
  <2> QED
    BY <2>1, <2>2, <2>3, <2>5, <2>6 DEF NewCall
<1>4. ASSUME NEW limit \in Limits, CallWait(t, limit)
      PROVE  \E f \in CallRecord : NewCall(t, f)
  <2> DEFINE f == [NoCall EXCEPT !.pc = "wait", !.method = "wait", !.until = limit]
  <2>0. "wait" \in Methods /\ limit \in Int \union {Forever}
    BY <1>4 DEF CallWait
  <2>1. f \in CallRecord
    BY <2>0, NoCallType DEF CallRecord, Pcs
  <2>2. Become(t, f) /\ UNCHANGED <<clocks, mutex, isLocked, condition>>
    BY <1>4 DEF CallWait
  <2>3. f.pc = "wait" /\ f.want = AnyValue /\ f.method = "wait"
    BY DEF NoCall
  <2>5. mutex = t /\ At(t, "holding")
    BY <1>4, <1>t DEF CallWait, At, OwnershipIsRight, TakesMutexForGranted
  <2> HIDE DEF f
  <2>6. TimesAgree(f, monotonic)
    BY <2>3 DEF TimesAgree
  <2> QED
    BY <2>1, <2>2, <2>3, <2>5, <2>6 DEF NewCall
<1>5. ASSUME NEW timeout \in Timeouts, CallWaitTimeout(t, timeout)
      PROVE  \E f \in CallRecord : NewCall(t, f)
  <2>0. "waitTimeout" \in Methods /\ timeout \in Int
    BY <1>5 DEF CallWaitTimeout
  <2> DEFINE end == monotonic + timeout
  <2>e. end \in Int
    BY <2>0, <1>0
  <2> HIDE DEF end
  <2> DEFINE f == [NoCall EXCEPT !.pc = "wait", !.method = "waitTimeout",
                                 !.deadline = end, !.seconds = timeout]
  <2>1. f \in CallRecord
    BY <2>0, <2>e, NoCallType DEF CallRecord, Pcs
  <2>2. Become(t, f) /\ UNCHANGED <<clocks, mutex, isLocked, condition>>
    BY <1>5 DEF CallWaitTimeout, end
  <2>3. f.pc = "wait" /\ f.want = AnyValue
    BY DEF NoCall
  <2>5. mutex = t /\ At(t, "holding")
    BY <1>5, <1>t DEF CallWaitTimeout, At, OwnershipIsRight, TakesMutexForGranted
  <2> HIDE DEF f
  <2>6. TimesAgree(f, monotonic)
    BY <2>3 DEF TimesAgree
  <2> QED
    BY <2>1, <2>2, <2>3, <2>5, <2>6 DEF NewCall
<1> QED
  BY <1>1, <1>2, <1>3, <1>4, <1>5 DEF Call

-----------------------------------------------------------------------------
(***************************************************************************)
(* The forms that the other steps have: a thread goes on with its call,    *)
(* returns NO, or returns YES.                                             *)
(***************************************************************************)
LEMMA Here ==
  ASSUME IInv, NEW t \in Threads
  PROVE  /\ call[t] \in CallRecord
         /\ call[t].pc \in Pcs
         /\ call[t].want \in Values \union {AnyValue}
         /\ mutex = t <=> call[t].pc \in GrantedPcs
         /\ TimesAgree(call[t], monotonic)
         /\ mutex \in Threads \union {Free}
         /\ isLocked \in BOOLEAN
         /\ monotonic \in Int
         /\ calendar \in Int
         /\ Timed(call[t]) => calendar = monotonic
         /\ t # Free
         /\ mutex = t => (isLocked <=> call[t].pc # "late")
         /\ mutex = Free => ~ isLocked
<1>1. TypeOK
  BY DEF IInv
<1>2. call[t] \in CallRecord
  BY <1>1, CallType
<1>3. call[t].pc \in Pcs /\ call[t].want \in Values \union {AnyValue}
  BY <1>2 DEF CallRecord
<1>4. mutex = t <=> call[t].pc \in GrantedPcs
  BY DEF IInv, OwnershipIsRight, TakesMutexForGranted, GrantedPcs
<1>5. TimesAgree(call[t], monotonic)
  BY DEF IInv, WaitsEndInTime
<1>c. calendar \in Int /\ (Timed(call[t]) => calendar = monotonic)
  BY <1>1, <1>5 DEF IInv, OneClock, TimesAgree, Timed, TypeOK
<1>l. /\ mutex = t => (isLocked <=> call[t].pc # "late")
      /\ mutex = Free => ~ isLocked
  BY <1>1, ConstantsAssumption DEF IInv, FlagIsSet, At, TypeOK
<1>6. t # Free
  BY ConstantsAssumption
<1>7. mutex \in Threads \union {Free} /\ isLocked \in BOOLEAN /\ monotonic \in Int
  BY <1>1 DEF TypeOK
<1> QED
  BY <1>2, <1>3, <1>4, <1>5, <1>6, <1>7, <1>c, <1>l

LEMMA FlagKept ==
  ASSUME IInv, NEW t \in Threads, NEW pc,
         mutex' = mutex, isLocked' = isLocked,
         mutex = t => call[t].pc # "late" /\ pc # "late"
  PROVE  FlagStep(t, pc)
BY Here DEF FlagStep

LEMMA CallsKeep ==
  ASSUME IInv, NoneIsOverdue, NEW t \in Threads, Call(t)
  PROVE  IInv'
<1>1. PICK f \in CallRecord : NewCall(t, f)
  BY CallsAreNew
<1>2. mutex \in Threads \union {Free} /\ isLocked \in BOOLEAN
  BY DEF IInv, TypeOK
<1>3. FlagStep(t, f.pc)
  BY <1>1, FlagKept DEF NewCall, At
<1> QED
  BY <1>1, <1>2, <1>3, ThreadStep DEF NewCall, GrantedPcs

LEMMA GotoStep ==
  ASSUME IInv, NEW t \in Threads, NEW pc \in Pcs \ {"holding", "rewait"}, Goto(t, pc),
         UNCHANGED <<clocks, condition>>,
         mutex' \in Threads \union {Free}, isLocked' \in BOOLEAN,
         mutex' = t <=> pc \in GrantedPcs,
         \A u \in Threads \ {t} : mutex' = u <=> mutex = u,
         pc = "timedOut" => Timed(call[t]),
         Timed(call[t]) =>
           /\ pc \notin {"try", "asleep"}
           /\ pc \in {"expired", "late", "timedOut"} =>
                call[t].start + call[t].seconds <= monotonic,
         FlagStep(t, pc)
  PROVE  IInv'
<1> DEFINE f == [call[t] EXCEPT !.pc = pc]
<1>1. call[t] \in CallRecord
  BY Here
<1>2. f \in CallRecord /\ f.pc = pc
  BY <1>1, RecordType
<1>3. f.method = call[t].method /\ f.start = call[t].start /\ f.seconds = call[t].seconds
  BY <1>1 DEF CallRecord
<1>4. Become(t, f)
  BY DEF Goto
<1> HIDE DEF f
<1>a. Timed(call[t]) => Timeouts # {}
  BY Here DEF TimesAgree, Timed
<1>5. TimesAgree(f, monotonic)
  BY <1>2, <1>3, <1>a DEF TimesAgree, Timed
<1>6. f.pc # "holding" /\ (mutex' = t <=> f.pc \in GrantedPcs) /\ FlagStep(t, f.pc)
  BY <1>2
<1> QED
  BY <1>2, <1>4, <1>5, <1>6, ThreadStep

LEMMA ReturnNoStep ==
  ASSUME IInv, NEW t \in Threads, ReturnNo(t),
         UNCHANGED <<clocks, condition>>,
         mutex' \in Threads \union {Free}, isLocked' \in BOOLEAN,
         mutex' # t,
         \A u \in Threads \ {t} : mutex' = u <=> mutex = u,
         FlagStep(t, "idle")
  PROVE  IInv'
<1> DEFINE f == NoCall
<1>1. f \in CallRecord
  BY NoCallType
<1>2. f.pc = "idle" /\ f.method = "none"
  BY DEF NoCall
<1>3. Become(t, f)
  BY DEF ReturnNo
<1> HIDE DEF f
<1>4. TimesAgree(f, monotonic)
  BY <1>2 DEF TimesAgree
<1>5. f.pc # "holding" /\ f.pc \notin GrantedPcs /\ FlagStep(t, f.pc)
  BY <1>2 DEF GrantedPcs
<1> QED
  BY <1>1, <1>3, <1>4, <1>5, ThreadStep

LEMMA ReturnYesStep ==
  ASSUME IInv, NEW t \in Threads, ReturnYes(t),
         call[t].want \in {AnyValue, condition}, At(t, "test"), mutex = t,
         UNCHANGED <<clocks, condition, mutex, isLocked>>
  PROVE  IInv'
<1> DEFINE f == [NoCall EXCEPT !.pc = "holding", !.want = call[t].want]
<1>1. f \in CallRecord
  BY Here, NoCallType DEF CallRecord, Pcs
<1>2. f.pc = "holding" /\ f.method = "none" /\ f.want = call[t].want
  BY DEF NoCall
<1>3. Become(t, f)
  BY DEF ReturnYes
<1> HIDE DEF f
<1>4. TimesAgree(f, monotonic)
  BY <1>2 DEF TimesAgree
<1>5. f.pc \in GrantedPcs
  BY <1>2 DEF GrantedPcs
<1>6. UNCHANGED <<clocks, condition>> /\ mutex' = mutex /\ isLocked' = isLocked
  OBVIOUS
<1>7. FlagStep(t, f.pc)
  BY <1>2, <1>6, FlagKept DEF At
<1> QED
  BY <1>1, <1>2, <1>3, <1>4, <1>5, <1>6, <1>7, Here, ThreadStep

(***************************************************************************)
(* Taking the mutex.                                                       *)
(***************************************************************************)
LEMMA ContendKeeps ==
  ASSUME IInv, NEW t \in Threads, Contend(t)
  PROVE  IInv'
<1>0. TimesAgree(call[t], monotonic) /\ isLocked \in BOOLEAN
  BY Here
<1>1. ASSUME mutex = Free, mutex' = t
      PROVE  /\ mutex' \in Threads \union {Free}
             /\ \A u \in Threads \ {t} : mutex' = u <=> mutex = u
  BY <1>1, ConstantsAssumption
<1>2. CASE TryLock(t)
  <2>1. ~ (Timed(call[t]) /\ At(t, "try") /\ call[t].seconds < 0)
    BY <1>0, Here DEF TimesAgree, Timed, At, CallRecord
  <2>2. Goto(t, "test") /\ UNCHANGED <<clocks, condition>> /\ isLocked' = TRUE
    BY <1>2, <2>1 DEF TryLock
  <2>3. mutex = Free /\ mutex' = t
    BY <1>2 DEF TryLock
  <2> QED
    BY <1>1, <2>2, <2>3, GotoStep DEF Pcs, GrantedPcs, FlagStep
<1>3. CASE Lock(t)
  <2>1. /\ Goto(t, "test") /\ UNCHANGED <<clocks, condition>> /\ isLocked' = TRUE
        /\ mutex = Free /\ mutex' = t
    BY <1>3 DEF Lock
  <2> QED
    BY <1>1, <2>1, GotoStep DEF Pcs, GrantedPcs, FlagStep
<1>4. CASE Reacquire(t)
  <2>1. /\ Goto(t, "test") /\ UNCHANGED <<clocks, condition>> /\ isLocked' = TRUE
        /\ mutex = Free /\ mutex' = t
    BY <1>4 DEF Reacquire
  <2> QED
    BY <1>1, <2>1, GotoStep DEF Pcs, GrantedPcs, FlagStep
<1>5. CASE ReacquireLate(t)
  <2>1. /\ Goto(t, "late") /\ UNCHANGED <<clocks, condition>> /\ isLocked' = isLocked
        /\ mutex = Free /\ mutex' = t
    BY <1>5 DEF ReacquireLate
  <2>2. Timed(call[t]) => call[t].start + call[t].seconds <= monotonic
    BY <1>5, <1>0 DEF ReacquireLate, TimesAgree, Timed, At
  <2>3. FlagStep(t, "late")
    BY <2>1, Here DEF FlagStep
  <2> QED
    BY <1>0, <1>1, <2>1, <2>2, <2>3, GotoStep DEF Pcs, GrantedPcs
<1> QED
  BY <1>2, <1>3, <1>4, <1>5 DEF Contend

(***************************************************************************)
(* Going on without asking for the mutex.                                  *)
(***************************************************************************)
LEMMA ProceedKeeps ==
  ASSUME IInv, NEW t \in Threads, Proceed(t)
  PROVE  IInv'
<1>0. /\ TimesAgree(call[t], monotonic)
      /\ mutex \in Threads \union {Free}
      /\ isLocked \in BOOLEAN
      /\ mutex = t <=> call[t].pc \in GrantedPcs
      /\ t # Free
      /\ Free \notin Threads
  BY Here, ConstantsAssumption
<1>f. ASSUME mutex = t, mutex' = Free
      PROVE  /\ mutex' \in Threads \union {Free}
             /\ mutex' # t
             /\ \A u \in Threads \ {t} : mutex' = u <=> mutex = u
             /\ \A pc : ~ isLocked' => FlagStep(t, pc)
  BY <1>f, <1>0 DEF FlagStep
<1>s. ASSUME mutex' = mutex
      PROVE  /\ mutex' \in Threads \union {Free}
             /\ \A u \in Threads \ {t} : mutex' = u <=> mutex = u
  BY <1>s, <1>0
<1>1. CASE Spin(t)
  <2> DEFINE end == monotonic + call[t].seconds
             f == [call[t] EXCEPT !.pc = "spin", !.until = end]
  <2>1. end \in Int
    BY Here DEF CallRecord
  <2>2. Become(t, f) /\ UNCHANGED <<clocks, condition>> /\ mutex' = mutex /\ isLocked' = isLocked
    BY <1>1 DEF Spin
  <2>3. mutex # t
    BY <1>1, <1>0 DEF Spin, At, GrantedPcs
  <2> HIDE DEF end
  <2>4. f \in CallRecord /\ f.pc = "spin" /\ f.method = call[t].method
    BY <2>1, Here DEF CallRecord, Pcs
  <2> HIDE DEF f
  <2>5. TimesAgree(f, monotonic)
    BY <1>0, <2>4 DEF TimesAgree
  <2>6. f.pc \notin GrantedPcs /\ f.pc # "holding" /\ FlagStep(t, f.pc)
    BY <2>2, <2>3, <2>4, FlagKept DEF GrantedPcs
  <2> QED
    BY <1>0, <1>s, <2>2, <2>3, <2>4, <2>5, <2>6, ThreadStep
<1>2. CASE GiveUp(t)
  <2>1. ReturnNo(t) /\ UNCHANGED <<clocks, condition>> /\ mutex' = mutex /\ isLocked' = isLocked
    BY <1>2 DEF GiveUp
  <2>2. mutex # t
    BY <1>2, <1>0 DEF GiveUp, At, GrantedPcs
  <2> QED
    BY <1>0, <1>s, <2>1, <2>2, FlagKept, ReturnNoStep
<1>3. CASE Grant(t)
  <2>1. mutex = t
    BY <1>3, <1>0 DEF Grant, At, GrantedPcs
  <2> QED
    BY <1>3, <2>1, ReturnYesStep DEF Grant
<1>4. CASE TooLate(t)
  <2>1. ReturnNo(t) /\ UNCHANGED <<clocks, condition>> /\ mutex' = Free /\ isLocked' = FALSE
    BY <1>4 DEF TooLate
  <2>2. mutex = t
    BY <1>4, <1>0 DEF TooLate, At, GrantedPcs
  <2> QED
    BY <1>f, <2>1, <2>2, ReturnNoStep
<1>5. CASE WaitForCondition(t)
  <2>1. /\ UNCHANGED <<clocks, condition>> /\ mutex' = mutex /\ isLocked' = isLocked
        /\ mutex = t
        /\ FlagStep(t, "wait")
    <3>1. /\ UNCHANGED <<clocks, condition>> /\ mutex' = mutex /\ isLocked' = isLocked
          /\ call[t].pc = "test"
      BY <1>5 DEF WaitForCondition, At
    <3> QED
      BY <1>0, <3>1, FlagKept DEF GrantedPcs
  <2>2. CASE ~ Timed(call[t])
    <3>1. Goto(t, "wait")
      BY <1>5, <2>2 DEF WaitForCondition
    <3> QED
      BY <1>0, <1>s, <2>1, <2>2, <3>1, GotoStep DEF Pcs, GrantedPcs
  <2>3. CASE Timed(call[t])
    <3> DEFINE left == call[t].deadline - monotonic
               f == [call[t] EXCEPT !.pc = "wait", !.seconds = left]
    <3>1. left \in Int
      BY Here DEF CallRecord
    <3>2. Become(t, f)
      BY <1>5, <2>3 DEF WaitForCondition
    <3> HIDE DEF left
    <3>3. f \in CallRecord /\ f.pc = "wait" /\ f.method = call[t].method
      BY <3>1, Here DEF CallRecord, Pcs
    <3> HIDE DEF f
    <3>4. TimesAgree(f, monotonic)
      BY <1>0, <3>3 DEF TimesAgree
    <3>5. f.pc \in GrantedPcs /\ f.pc # "holding" /\ FlagStep(t, f.pc)
      BY <2>1, <3>3 DEF GrantedPcs
    <3> QED
      BY <1>0, <1>s, <2>1, <3>2, <3>3, <3>4, <3>5, ThreadStep
  <2> QED
    BY <2>2, <2>3
<1>6. CASE Sleep(t)
  <2>1. /\ UNCHANGED <<clocks, condition>> /\ mutex' = Free /\ isLocked' = FALSE
        /\ mutex = t
        /\ Become(t, Asleep(t))
    BY <1>6 DEF Sleep
  <2>2. At(t, "wait")
    BY <1>6, <1>0 DEF Sleep, At, TimesAgree
  <2>3. CASE ~ Timed(call[t])
    <3>1. Goto(t, "asleep")
      BY <2>1, <2>3 DEF Asleep, Goto
    <3> QED
      BY <1>f, <2>1, <2>2, <2>3, <3>1, GotoStep DEF Pcs, GrantedPcs
  <2>4. CASE Timed(call[t])
    <3> DEFINE end == monotonic + call[t].seconds
               f == [call[t] EXCEPT !.pc = "asleep", !.start = monotonic, !.until = end]
    <3>1. end \in Int /\ monotonic \in Int /\ calendar = monotonic /\ Timeouts # {}
      BY <2>4, Here DEF CallRecord, TimesAgree, Timed
    <3>2. Asleep(t) = f
      BY <2>2, <2>4, <3>1 DEF Asleep
    <3>3. Become(t, f)
      BY <2>1, <3>2
    <3>4. call[t] \in CallRecord /\ end = monotonic + call[t].seconds
      BY Here
    <3> HIDE DEF end
    <3>5. f \in CallRecord
      BY <3>1, <3>4 DEF CallRecord, Pcs
    <3>6. /\ f.pc = "asleep" /\ f.until = end
          /\ f.start = monotonic /\ f.seconds = call[t].seconds
      BY <3>4 DEF CallRecord
    <3> HIDE DEF f
    <3>7. TimesAgree(f, monotonic)
      BY <3>1, <3>4, <3>6 DEF TimesAgree
    <3>8. f.pc \notin GrantedPcs /\ f.pc # "holding"
      BY <3>6 DEF GrantedPcs
    <3> QED
      BY <1>f, <2>1, <3>3, <3>5, <3>7, <3>8, ThreadStep
  <2> QED
    BY <2>3, <2>4
<1>7. ASSUME SleepWithoutMutex(t)
      PROVE  FALSE
  BY <1>7, <1>0 DEF SleepWithoutMutex, At, GrantedPcs
<1>8. CASE UnlockLate(t)
  <2>1. /\ UNCHANGED <<clocks, condition>> /\ mutex' = Free /\ isLocked' = isLocked
        /\ call[t].pc = "late"
    BY <1>8 DEF UnlockLate, At
  <2>2. mutex = t
    BY <1>8, <1>0 DEF UnlockLate, At, GrantedPcs
  <2>u. ~ isLocked' /\ isLocked' \in BOOLEAN
    BY <1>0, <2>1, <2>2, Here
  <2>3. CASE ~ Timed(call[t])
    BY <1>8, <1>f, <2>1, <2>2, <2>3, <2>u, ReturnNoStep DEF UnlockLate
  <2>4. CASE Timed(call[t])
    <3>1. Goto(t, "timedOut")
      BY <1>8, <2>4 DEF UnlockLate
    <3>2. call[t].start + call[t].seconds <= monotonic
      BY <1>8, <1>0, <2>4 DEF UnlockLate, TimesAgree, Timed, At
    <3> QED
      BY <1>f, <2>1, <2>2, <2>4, <2>u, <3>1, <3>2, GotoStep DEF Pcs, GrantedPcs
  <2> QED
    BY <2>3, <2>4
<1>9. ASSUME WaitAgain(t)
      PROVE  FALSE
  <2>1. call[t].pc = "timedOut" /\ monotonic - call[t].start < call[t].seconds
    BY <1>9 DEF WaitAgain, At
  <2>2. call[t].start \in Int /\ call[t].seconds \in Int /\ monotonic \in Int
    BY Here DEF CallRecord
  <2>3. Timed(call[t])
    BY <1>0, <2>1 DEF TimesAgree, Timed
  <2> QED
    BY <1>0, <2>1, <2>2, <2>3 DEF TimesAgree, Timed
<1>10. CASE EndWait(t)
  <2>1. ReturnNo(t) /\ UNCHANGED <<clocks, condition>> /\ mutex' = mutex /\ isLocked' = isLocked
    BY <1>10 DEF EndWait
  <2>2. mutex # t
    BY <1>10, <1>0 DEF EndWait, At, GrantedPcs
  <2> QED
    BY <1>0, <1>s, <2>1, <2>2, FlagKept, ReturnNoStep
<1> QED
  BY <1>1, <1>2, <1>3, <1>4, <1>5, <1>6, <1>7, <1>8, <1>9, <1>10 DEF Proceed

(***************************************************************************)
(* The rest: waking up, letting go, and the clocks.                        *)
(***************************************************************************)
LEMMA WakeKeeps ==
  ASSUME IInv, NEW t \in Threads, Wake(t) \/ Expire(t)
  PROVE  IInv'
<1>1. /\ UNCHANGED <<clocks, condition>> /\ mutex' = mutex /\ isLocked' = isLocked
      /\ At(t, "asleep")
  BY DEF Wake, Expire
<1>2. mutex # t /\ mutex \in Threads \union {Free} /\ isLocked \in BOOLEAN
  BY <1>1, Here DEF At, GrantedPcs
<1>n. \A pc : FlagStep(t, pc)
  BY <1>1, <1>2, FlagKept
<1>3. CASE Wake(t)
  BY <1>1, <1>2, <1>3, <1>n, GotoStep DEF Wake, Pcs, GrantedPcs
<1>4. CASE Expire(t)
  <2>1. Goto(t, "expired") /\ calendar >= call[t].until
    BY <1>4 DEF Expire, Passed
  <2>2. Timed(call[t]) => call[t].start + call[t].seconds <= monotonic
    BY <1>1, <2>1, Here DEF TimesAgree, Timed, At
  <2> QED
    BY <1>1, <1>2, <1>n, <2>1, <2>2, GotoStep DEF Pcs, GrantedPcs
<1> QED
  BY <1>3, <1>4

LEMMA UnlockKeeps ==
  ASSUME IInv, NEW t \in Threads, Unlock(t)
  PROVE  IInv'
<1>1. /\ ReturnNo(t) /\ UNCHANGED <<clocks, condition>>
      /\ mutex' = Free /\ isLocked' = FALSE
      /\ At(t, "holding")
  BY DEF Unlock
<1>2. mutex = t /\ t # Free
  BY <1>1, Here DEF At, GrantedPcs
<1>3. FlagStep(t, "idle")
  BY <1>1, <1>2 DEF FlagStep
<1> QED
  BY <1>1, <1>2, <1>3, ReturnNoStep, ConstantsAssumption

LEMMA UnlockWithConditionKeeps ==
  ASSUME IInv, NEW t \in Threads, NEW value \in Values, UnlockWithCondition(t, value)
  PROVE  IInv'
<1>1. /\ condition' = value /\ mutex' = Free /\ isLocked' = FALSE
      /\ UNCHANGED <<calendar, monotonic, adjustments>>
      /\ At(t, "holding")
  BY DEF UnlockWithCondition, clocks
<1>2. mutex = t /\ Free \notin Threads
  BY <1>1, Here, ConstantsAssumption DEF At, GrantedPcs
<1>3. \A u \in Threads \ {t} : call[u].pc \notin GrantedPcs
  BY <1>2, Here
<1>4. \A u \in Threads : call[u] \in CallRecord /\ TimesAgree(call[u], monotonic)
  BY Here
<1>5. NoCall.pc = "idle" /\ NoCall.method = "none"
  BY DEF NoCall
<1>6. ASSUME NEW u \in Threads
      PROVE  /\ call'[u] \in CallRecord
             /\ TimesAgree(call'[u], monotonic)
             /\ call'[u].pc \notin GrantedPcs
  <2>1. CASE u = t
    <3>1. call'[u] = NoCall
      BY <2>1 DEF UnlockWithCondition
    <3> QED
      BY <1>5, <3>1, NoCallType DEF TimesAgree, GrantedPcs
  <2>2. CASE u # t /\ At(u, "asleep")
    <3> DEFINE f == [call[u] EXCEPT !.pc = "woken"]
    <3>1. call'[u] = f
      BY <2>2 DEF UnlockWithCondition
    <3>2. f \in CallRecord /\ f.pc = "woken"
      BY <1>4, RecordType DEF Pcs
    <3>m. f.method = call[u].method
      BY <1>4 DEF CallRecord
    <3> HIDE DEF f
    <3>3. f.pc \notin GrantedPcs /\ TimesAgree(f, monotonic)
      BY <1>4, <3>2, <3>m DEF TimesAgree, GrantedPcs
    <3> QED
      BY <3>1, <3>2, <3>3
  <2>3. CASE u # t /\ ~ At(u, "asleep")
    <3>1. call'[u] = call[u]
      BY <2>3 DEF UnlockWithCondition
    <3> QED
      BY <1>3, <1>4, <2>3, <3>1
  <2> QED
    BY <2>1, <2>2, <2>3
<1>7. call' \in [Threads -> CallRecord]
  <2>1. call' = [u \in Threads |-> call'[u]]
    BY DEF UnlockWithCondition
  <2> QED
    BY <1>6, <2>1
<1>8. TypeOK'
  BY <1>1, <1>7 DEF IInv, TypeOK, CallRecord
<1>9. OwnershipIsRight'
  BY <1>1, <1>2, <1>6 DEF OwnershipIsRight, TakesMutexForGranted, GrantedPcs
<1>10. GrantIsRight'
  BY <1>6 DEF GrantIsRight, At, GrantedPcs
<1>11. OneClock'
  BY <1>1 DEF IInv, OneClock
<1>12. WaitsEndInTime'
  BY <1>1, <1>6 DEF WaitsEndInTime
<1>13. FlagIsSet'
  BY <1>1 DEF FlagIsSet
<1> QED
  BY <1>8, <1>9, <1>10, <1>11, <1>12, <1>13 DEF IInv

LEMMA TickKeeps ==
  ASSUME IInv, Tick
  PROVE  IInv'
<1>1. /\ calendar' = calendar + 1 /\ monotonic' = monotonic + 1
      /\ UNCHANGED <<adjustments, mutex, isLocked, condition, call>>
  BY DEF Tick
<1>2. TypeOK' /\ OneClock'
  BY <1>1 DEF IInv, TypeOK, OneClock
<1>3. OwnershipIsRight' /\ GrantIsRight' /\ FlagIsSet'
  BY <1>1 DEF IInv, OwnershipIsRight, TakesMutexForGranted, GrantIsRight,
              FlagIsSet, At
<1>4. ASSUME NEW t \in Threads
      PROVE  TimesAgree(call[t], monotonic + 1)
  <2>1. call[t].start \in Int /\ call[t].seconds \in Int /\ monotonic \in Int
    BY Here DEF CallRecord
  <2>2. call[t].start + call[t].seconds <= monotonic
        => call[t].start + call[t].seconds <= monotonic + 1
    BY <2>1
  <2>3. TimesAgree(call[t], monotonic)
    BY Here
  <2> QED
    BY <2>2, <2>3 DEF TimesAgree
<1>5. WaitsEndInTime'
  BY <1>1, <1>4 DEF WaitsEndInTime
<1> QED
  BY <1>2, <1>3, <1>5 DEF IInv

LEMMA InitHolds ==
  ASSUME Init
  PROVE  IInv
<1> USE ConstantsAssumption DEF Init
<1>1. \A t \in Threads : call[t] = NoCall
  OBVIOUS
<1>2. NoCall.pc = "idle" /\ NoCall.method = "none"
  BY DEF NoCall
<1>3. TypeOK
  <2>1. call \in [Threads -> CallRecord]
    BY NoCallType
  <2>2. adjustments \in 0 .. MaxAdjustments
    OBVIOUS
  <2> QED
    BY <2>1, <2>2 DEF TypeOK, CallRecord
<1>4. OwnershipIsRight /\ GrantIsRight /\ FlagIsSet
  BY <1>1, <1>2 DEF FlagIsSet, OwnershipIsRight, TakesMutexForGranted, GrantIsRight, At
<1>5. OneClock /\ WaitsEndInTime
  BY <1>1, <1>2 DEF OneClock, WaitsEndInTime, TimesAgree
<1> QED
  BY <1>3, <1>4, <1>5 DEF IInv

LEMMA NextKeeps ==
  ASSUME IInv, NoneIsOverdue, [Next]_vars, Calm'
  PROVE  IInv'
<1>1. CASE UNCHANGED vars
  BY <1>1 DEF vars, IInv, TypeOK, OwnershipIsRight, TakesMutexForGranted,
              GrantIsRight, FlagIsSet, At, OneClock, WaitsEndInTime
<1>2. CASE Tick
  BY <1>2, TickKeeps
<1>3. CASE SetCalendar
  <2>1. Timeouts = {}
    BY <1>3 DEF SetCalendar, Calm, IInv, TypeOK
  <2>2. /\ adjustments' = adjustments + 1 /\ adjustments < MaxAdjustments
        /\ calendar' \in 0 .. MaxTime
        /\ UNCHANGED <<monotonic, mutex, isLocked, condition, call>>
    BY <1>3 DEF SetCalendar
  <2>3. TypeOK'
    BY <2>2, ConstantsAssumption DEF IInv, TypeOK
  <2> QED
    BY <2>1, <2>2, <2>3 DEF IInv, OwnershipIsRight, TakesMutexForGranted,
       GrantIsRight, FlagIsSet, At, OneClock, WaitsEndInTime
<1>4. ASSUME NEW t \in Threads,
             Call(t) \/ Contend(t) \/ Proceed(t) \/ Wake(t) \/ Expire(t) \/ LetGo(t)
      PROVE  IInv'
  BY <1>4, CallsKeep, ContendKeeps, ProceedKeeps, WakeKeeps, UnlockKeeps,
     UnlockWithConditionKeeps DEF LetGo
<1> QED
  BY <1>1, <1>2, <1>3, <1>4 DEF Next

(***************************************************************************)
(* The calendar is set by SetCalendar alone, and what was set once stays   *)
(* so: a state before a calm one was calm.                                 *)
(***************************************************************************)
LEMMA AdjustmentsStay ==
  ASSUME NEW t \in Threads,
         Call(t) \/ Contend(t) \/ Proceed(t) \/ Wake(t) \/ Expire(t) \/ LetGo(t)
  PROVE  adjustments' = adjustments
<1>1. CASE Call(t)
  BY <1>1 DEF Call, CallTimeout, CallBefore, CallUntil, CallWait, CallWaitTimeout, clocks
<1>2. CASE Contend(t)
  BY <1>2 DEF Contend, TryLock, Lock, Reacquire, ReacquireLate, clocks
<1>3. CASE Proceed(t)
  <2>1. CASE Spin(t) \/ GiveUp(t) \/ Grant(t) \/ TooLate(t) \/ WaitForCondition(t)
    BY <2>1 DEF Spin, GiveUp, Grant, TooLate, WaitForCondition, clocks
  <2>2. CASE Sleep(t) \/ SleepWithoutMutex(t) \/ UnlockLate(t) \/ WaitAgain(t) \/ EndWait(t)
    BY <2>2 DEF Sleep, SleepWithoutMutex, UnlockLate, WaitAgain, EndWait, clocks
  <2> QED
    BY <1>3, <2>1, <2>2 DEF Proceed
<1>4. CASE Wake(t) \/ Expire(t) \/ LetGo(t)
  BY <1>4 DEF Wake, Expire, LetGo, Unlock, UnlockWithCondition, clocks
<1> QED
  BY <1>1, <1>2, <1>3, <1>4

LEMMA CalmBefore ==
  ASSUME adjustments \in Nat, [Next]_vars
  PROVE  adjustments' \in Nat /\ (Calm' => Calm)
<1>1. CASE UNCHANGED vars
  BY <1>1 DEF vars, Calm
<1>2. CASE Tick
  BY <1>2 DEF Tick, Calm
<1>3. CASE SetCalendar
  BY <1>3 DEF SetCalendar, Calm
<1>4. ASSUME NEW t \in Threads,
             Call(t) \/ Contend(t) \/ Proceed(t) \/ Wake(t) \/ Expire(t) \/ LetGo(t)
      PROVE  adjustments' = adjustments
  BY <1>4, AdjustmentsStay
<1> QED
  BY <1>1, <1>2, <1>3, <1>4 DEF Next, Calm

CalmInv == adjustments \in Nat /\ (Calm => IInv)

LEMMA Inductive ==
  ASSUME NoneIsOverdue
  PROVE  Spec => []CalmInv
<1>1. Init => CalmInv
  <2>1. Init => adjustments \in Nat
    BY DEF Init
  <2> QED
    BY <2>1, InitHolds DEF CalmInv
<1>2. CalmInv /\ [Next]_vars => CalmInv'
  BY CalmBefore, NextKeeps DEF CalmInv
<1> QED
  BY <1>1, <1>2, PTL DEF Spec

-----------------------------------------------------------------------------
(***************************************************************************)
(* Whatever the threads, the values, the dates and the timeouts that are   *)
(* not negative, a thread owns the mutex exactly while the code takes it   *)
(* for granted, so that nobody waits without it and nobody is refused with *)
(* it, until the calendar is set.                                          *)
(***************************************************************************)
THEOREM MutexIsWhereItShouldBe ==
  ASSUME NoneIsOverdue
  PROVE  Spec => []OwnsWhatItTakesForGranted
<1>1. CalmInv => OwnsWhatItTakesForGranted
  BY DEF CalmInv, IInv, OwnershipIsRight, OwnsWhatItTakesForGranted
<1> QED
  BY <1>1, Inductive, PTL

(***************************************************************************)
(* The lock is held with the condition it was granted for.                 *)
(***************************************************************************)
THEOREM ConditionStaysRight ==
  ASSUME NoneIsOverdue
  PROVE  Spec => []GrantedOnCondition
<1>1. CalmInv => GrantedOnCondition
  BY DEF CalmInv, IInv, GrantIsRight, GrantedOnCondition
<1> QED
  BY <1>1, Inductive, PTL

(***************************************************************************)
(* _mulleIsLocked says that the mutex has an owner, unless that is a       *)
(* thread that wakes up too late.                                          *)
(***************************************************************************)
THEOREM FlagIsRight ==
  ASSUME NoneIsOverdue
  PROVE  Spec => []FlagFollowsMutex
<1>1. CalmInv => FlagFollowsMutex
  BY DEF CalmInv, IInv, FlagIsSet, FlagFollowsMutex
<1> QED
  BY <1>1, Inductive, PTL

-----------------------------------------------------------------------------
(***************************************************************************)
(* The promise: what a thread with this call asks for, and who holds the   *)
(* lock.                                                                   *)
(***************************************************************************)
AskedBy(f) == IF f.pc \in {"idle", "holding"} THEN "nothing" ELSE f.want

HolderRight ==
  /\ \A t \in Threads : At(t, "holding") <=> Holder = t
  /\ Holder \in Threads \union {Free}

LEMMA HolderIs == IInv => HolderRight
<1> SUFFICES ASSUME IInv PROVE HolderRight
  OBVIOUS
<1>1. \A t \in Threads : At(t, "holding") => mutex = t
  BY Here DEF At, GrantedPcs
<1>2. CASE \E t \in Threads : At(t, "holding")
  <2>1. Holder \in Threads /\ At(Holder, "holding")
    BY <1>2 DEF Holder
  <2> QED
    BY <1>1, <2>1, ConstantsAssumption DEF HolderRight
<1>3. CASE ~ \E t \in Threads : At(t, "holding")
  <2>1. Holder = Free
    BY <1>3 DEF Holder
  <2> QED
    BY <1>3, <2>1, ConstantsAssumption DEF HolderRight
<1> QED
  BY <1>2, <1>3

(***************************************************************************)
(* A step that only changes the call of t changes what t asks for.         *)
(***************************************************************************)
LEMMA AskedChanges ==
  ASSUME IInv, NEW t \in Threads, NEW f \in CallRecord, Become(t, f)
  PROVE  Asked' = [Asked EXCEPT ![t] = AskedBy(f)]
<1>1. /\ call'[t] = f
      /\ \A u \in Threads \ {t} : call'[u] = call[u]
  BY BecomeCall DEF IInv
<1> QED
  BY <1>1 DEF Asked, AskedBy

LEMMA HolderChanges ==
  ASSUME IInv, IInv', NEW t \in Threads, NEW f \in CallRecord, Become(t, f)
  PROVE  /\ f.pc = "holding" => Holder' = t
         /\ f.pc # "holding" /\ At(t, "holding") => Holder' = Free
         /\ f.pc # "holding" /\ ~ At(t, "holding") => Holder' = Holder
<1>1. /\ call'[t] = f
      /\ \A u \in Threads \ {t} : call'[u] = call[u]
  BY BecomeCall DEF IInv
<1>2. HolderRight
  BY HolderIs
<1>3. HolderRight'
  BY HolderIs, PTL
<1>4. \A u \in Threads : At(u, "holding")' <=> IF u = t THEN f.pc = "holding"
                                                ELSE At(u, "holding")
  BY <1>1 DEF At
<1> QED
  BY <1>2, <1>3, <1>4, ConstantsAssumption DEF HolderRight

(***************************************************************************)
(* The steps of the promise, seen from the call of one thread.             *)
(***************************************************************************)
LEMMA AskedIs ==
  ASSUME NEW t \in Threads
  PROVE  /\ Asked[t] = AskedBy(call[t])
         /\ Asked = [Asked EXCEPT ![t] = Asked[t]]
BY DEF Asked, AskedBy

LEMMA PromiseStutters ==
  ASSUME IInv, IInv', NEW t \in Threads, NEW f \in CallRecord, Become(t, f),
         condition' = condition,
         f.pc # "holding", ~ At(t, "holding"), AskedBy(f) = AskedBy(call[t])
  PROVE  [Promise!Next]_<<Holder, condition, Asked>>
<1>1. Holder' = Holder
  BY HolderChanges
<1>2. Asked' = Asked
  BY AskedChanges, AskedIs
<1> QED
  BY <1>1, <1>2

LEMMA PromiseAsks ==
  ASSUME IInv, IInv', NEW t \in Threads, NEW f \in CallRecord, Become(t, f),
         condition' = condition,
         At(t, "idle"), f.pc \notin {"idle", "holding"}
  PROVE  [Promise!Next]_<<Holder, condition, Asked>>
<1>1. Holder' = Holder
  BY HolderChanges DEF At
<1>2. Asked' = [Asked EXCEPT ![t] = f.want]
  BY AskedChanges DEF AskedBy
<1>3. f.want \in Values \union {AnyValue}
  BY DEF CallRecord
<1>4. Asked[t] = "nothing" /\ Holder # t
  BY AskedIs, HolderIs DEF HolderRight, AskedBy, At
<1>5. Promise!Ask(t, f.want)
  BY <1>1, <1>2, <1>4 DEF Promise!Ask
<1> QED
  BY <1>3, <1>5 DEF Promise!Next

LEMMA PromiseRefuses ==
  ASSUME IInv, IInv', NEW t \in Threads, NEW f \in CallRecord, Become(t, f),
         condition' = condition,
         f.pc = "idle", ~ At(t, "holding")
  PROVE  [Promise!Next]_<<Holder, condition, Asked>>
<1>1. Holder' = Holder
  BY HolderChanges
<1>2. Asked' = [Asked EXCEPT ![t] = "nothing"]
  BY AskedChanges DEF AskedBy
<1>3. CASE Asked[t] = "nothing"
  BY <1>1, <1>2, <1>3, AskedIs
<1>4. CASE Asked[t] # "nothing"
  <2>1. Promise!Refuse(t)
    BY <1>1, <1>2, <1>4 DEF Promise!Refuse
  <2> QED
    BY <2>1 DEF Promise!Next
<1> QED
  BY <1>3, <1>4

LEMMA PromiseGrants ==
  ASSUME IInv, IInv', NEW t \in Threads, NEW f \in CallRecord, Become(t, f),
         condition' = condition,
         At(t, "test"), call[t].want \in {AnyValue, condition}, f.pc = "holding"
  PROVE  [Promise!Next]_<<Holder, condition, Asked>>
<1>1. Holder' = t
  BY HolderChanges
<1>2. Asked' = [Asked EXCEPT ![t] = "nothing"]
  BY AskedChanges DEF AskedBy
<1>3. Asked[t] \in {AnyValue, condition}
  BY AskedIs DEF AskedBy, At
<1>4. Holder = Free
  <2>1. mutex = t
    BY Here DEF At, GrantedPcs
  <2>2. \A u \in Threads : At(u, "holding") => mutex = u
    BY Here DEF At, GrantedPcs
  <2>3. ~ At(t, "holding")
    BY DEF At
  <2> QED
    BY <2>1, <2>2, <2>3, HolderIs DEF HolderRight
<1>5. Promise!Grant(t)
  BY <1>1, <1>2, <1>3, <1>4 DEF Promise!Grant
<1> QED
  BY <1>5 DEF Promise!Next

LEMMA PromiseWaits ==
  ASSUME IInv, IInv', NEW t \in Threads, NEW f \in CallRecord, Become(t, f),
         condition' = condition,
         At(t, "holding"), f.pc = "wait", f.want = AnyValue
  PROVE  [Promise!Next]_<<Holder, condition, Asked>>
<1>1. Holder = t /\ Holder' = Free
  BY HolderChanges, HolderIs DEF HolderRight
<1>2. Asked' = [Asked EXCEPT ![t] = AnyValue]
  BY AskedChanges DEF AskedBy
<1>3. Promise!Wait(t)
  BY <1>1, <1>2 DEF Promise!Wait
<1> QED
  BY <1>3 DEF Promise!Next

LEMMA PromiseReleases ==
  ASSUME IInv, NEW t \in Threads, NEW value \in Values,
         Holder = t, Holder' = Free, Asked' = Asked, condition' = value
  PROVE  [Promise!Next]_<<Holder, condition, Asked>>
<1>1. Promise!Release(t, value)
  BY DEF Promise!Release
<1> QED
  BY <1>1 DEF Promise!Next

(***************************************************************************)
(* A thread that goes on asks for what it asked for.                       *)
(***************************************************************************)
LEMMA GotoRefines ==
  ASSUME IInv, IInv', NEW t \in Threads, NEW pc \in Pcs \ {"idle", "holding"},
         Goto(t, pc), condition' = condition,
         ~ At(t, "idle"), ~ At(t, "holding")
  PROVE  [Promise!Next]_<<Holder, condition, Asked>>
<1> DEFINE f == [call[t] EXCEPT !.pc = pc]
<1>1. call[t] \in CallRecord
  BY Here
<1>2. f \in CallRecord /\ f.pc = pc /\ f.want = call[t].want
  BY <1>1 DEF CallRecord
<1>3. Become(t, f)
  BY DEF Goto
<1> HIDE DEF f
<1>4. AskedBy(f) = AskedBy(call[t])
  BY <1>2 DEF AskedBy, At
<1> QED
  BY <1>2, <1>3, <1>4, PromiseStutters

LEMMA ReturnNoRefines ==
  ASSUME IInv, IInv', NEW t \in Threads, ReturnNo(t), condition' = condition,
         ~ At(t, "holding")
  PROVE  [Promise!Next]_<<Holder, condition, Asked>>
<1>1. NoCall.pc = "idle"
  BY DEF NoCall
<1> QED
  BY <1>1, NoCallType, PromiseRefuses DEF ReturnNo

LEMMA CallsRefine ==
  ASSUME IInv, IInv', NoneIsOverdue, NEW t \in Threads, Call(t)
  PROVE  [Promise!Next]_<<Holder, condition, Asked>>
<1>1. PICK f \in CallRecord : NewCall(t, f)
  BY CallsAreNew
<1>2. Become(t, f) /\ condition' = condition
  BY <1>1 DEF NewCall
<1>3. CASE At(t, "idle") /\ f.pc \in {"try", "lock"}
  BY <1>2, <1>3, PromiseAsks
<1>4. CASE At(t, "holding") /\ f.pc = "wait" /\ f.want = AnyValue
  BY <1>2, <1>4, PromiseWaits
<1> QED
  BY <1>1, <1>3, <1>4 DEF NewCall

LEMMA ContendRefines ==
  ASSUME IInv, IInv', NEW t \in Threads, Contend(t)
  PROVE  [Promise!Next]_<<Holder, condition, Asked>>
<1>1. condition' = condition /\ ~ At(t, "idle") /\ ~ At(t, "holding")
  BY DEF Contend, TryLock, Lock, Reacquire, ReacquireLate, At
<1>2. ReturnNo(t) \/ Goto(t, "test") \/ Goto(t, "late")
  BY DEF Contend, TryLock, Lock, Reacquire, ReacquireLate
<1> QED
  BY <1>1, <1>2, ReturnNoRefines, GotoRefines DEF Pcs

LEMMA ProceedRefines ==
  ASSUME IInv, IInv', NEW t \in Threads, Proceed(t)
  PROVE  [Promise!Next]_<<Holder, condition, Asked>>
<1>1. condition' = condition /\ ~ At(t, "idle") /\ ~ At(t, "holding")
  <2>1. CASE Spin(t) \/ GiveUp(t) \/ Grant(t) \/ TooLate(t) \/ WaitForCondition(t)
    BY <2>1 DEF Spin, GiveUp, Grant, TooLate, WaitForCondition, At
  <2>2. CASE Sleep(t) \/ SleepWithoutMutex(t) \/ UnlockLate(t) \/ WaitAgain(t) \/ EndWait(t)
    BY <2>2 DEF Sleep, SleepWithoutMutex, UnlockLate, WaitAgain, EndWait, At
  <2> QED
    BY <2>1, <2>2 DEF Proceed
<1>2. ASSUME NEW f \in CallRecord, Become(t, f),
             f.pc \notin {"idle", "holding"}, f.want = call[t].want
      PROVE  [Promise!Next]_<<Holder, condition, Asked>>
  <2>1. AskedBy(f) = AskedBy(call[t])
    BY <1>1, <1>2 DEF AskedBy, At
  <2> QED
    BY <1>1, <1>2, <2>1, PromiseStutters
<1>3. CASE Spin(t)
  <2> DEFINE end == monotonic + call[t].seconds
             f == [call[t] EXCEPT !.pc = "spin", !.until = end]
  <2>1. end \in Int
    BY Here DEF CallRecord
  <2>2. Become(t, f)
    BY <1>3 DEF Spin
  <2> HIDE DEF end
  <2>3. f \in CallRecord /\ f.pc = "spin" /\ f.want = call[t].want
    BY <2>1, Here DEF CallRecord, Pcs
  <2> QED
    BY <1>2, <2>2, <2>3
<1>4. CASE GiveUp(t) \/ TooLate(t) \/ EndWait(t)
  BY <1>1, <1>4, ReturnNoRefines DEF GiveUp, TooLate, EndWait
<1>5. CASE Grant(t)
  <2> DEFINE f == [NoCall EXCEPT !.pc = "holding", !.want = call[t].want]
  <2>1. At(t, "test") /\ call[t].want \in {AnyValue, condition} /\ Become(t, f)
    BY <1>5 DEF Grant, ReturnYes
  <2>2. f \in CallRecord
    BY Here, NoCallType DEF CallRecord, Pcs
  <2>3. f.pc = "holding"
    BY DEF NoCall
  <2> QED
    BY <1>1, <2>1, <2>2, <2>3, PromiseGrants
<1>6. CASE WaitForCondition(t)
  <2>1. CASE ~ Timed(call[t])
    BY <1>1, <1>6, <2>1, GotoRefines DEF WaitForCondition, Pcs
  <2>2. CASE Timed(call[t])
    <3> DEFINE left == call[t].deadline - monotonic
               f == [call[t] EXCEPT !.pc = "wait", !.seconds = left]
    <3>1. left \in Int
      BY Here DEF CallRecord
    <3>2. Become(t, f)
      BY <1>6, <2>2 DEF WaitForCondition
    <3> HIDE DEF left
    <3>3. f \in CallRecord /\ f.pc = "wait" /\ f.want = call[t].want
      BY <3>1, Here DEF CallRecord, Pcs
    <3> QED
      BY <1>2, <3>2, <3>3
  <2> QED
    BY <2>1, <2>2
<1>7. CASE Sleep(t) \/ SleepWithoutMutex(t)
  <2>1. Become(t, Asleep(t)) \/ Goto(t, "test")
    BY <1>7 DEF Sleep, SleepWithoutMutex
  <2>2. Asleep(t) \in CallRecord /\ Asleep(t).pc = "asleep" /\ Asleep(t).want = call[t].want
    <3>1. call[t] \in CallRecord /\ monotonic \in Int /\ calendar \in Int
      BY Here
    <3> DEFINE end == calendar + call[t].seconds
    <3>2. end \in Int
      BY <3>1 DEF CallRecord
    <3>3. Asleep(t) = IF Timed(call[t])
                      THEN [call[t] EXCEPT !.pc = "asleep",
                                           !.start = IF At(t, "wait") THEN monotonic ELSE @,
                                           !.until = end]
                      ELSE [call[t] EXCEPT !.pc = "asleep"]
      BY DEF Asleep
    <3> HIDE DEF end
    <3>4. CASE ~ Timed(call[t])
      BY <3>1, <3>3, <3>4 DEF CallRecord, Pcs
    <3>5. CASE Timed(call[t]) /\ At(t, "wait")
      BY <3>1, <3>2, <3>3, <3>5 DEF CallRecord, Pcs
    <3>6. CASE Timed(call[t]) /\ ~ At(t, "wait")
      BY <3>1, <3>2, <3>3, <3>6 DEF CallRecord, Pcs
    <3> QED
      BY <3>4, <3>5, <3>6
  <2>3. CASE Goto(t, "test")
    BY <1>1, <2>3, GotoRefines DEF Pcs
  <2>4. CASE Become(t, Asleep(t))
    BY <1>2, <2>2, <2>4
  <2> QED
    BY <2>1, <2>3, <2>4
<1>8. CASE UnlockLate(t)
  <2>1. Goto(t, "timedOut") \/ ReturnNo(t)
    BY <1>8 DEF UnlockLate
  <2> QED
    BY <1>1, <2>1, GotoRefines, ReturnNoRefines DEF Pcs
<1>9. CASE WaitAgain(t)
  BY <1>1, <1>9, GotoRefines DEF WaitAgain, Pcs
<1> QED
  BY <1>3, <1>4, <1>5, <1>6, <1>7, <1>8, <1>9 DEF Proceed

LEMMA WakeRefines ==
  ASSUME IInv, IInv', NEW t \in Threads, Wake(t) \/ Expire(t)
  PROVE  [Promise!Next]_<<Holder, condition, Asked>>
<1>1. condition' = condition /\ ~ At(t, "idle") /\ ~ At(t, "holding")
  BY DEF Wake, Expire, At
<1>2. Goto(t, "woken") \/ Goto(t, "expired")
  BY DEF Wake, Expire
<1> QED
  BY <1>1, <1>2, GotoRefines DEF Pcs

LEMMA UnlockRefines ==
  ASSUME IInv, IInv', NEW t \in Threads, Unlock(t)
  PROVE  [Promise!Next]_<<Holder, condition, Asked>>
<1>1. At(t, "holding") /\ Become(t, NoCall) /\ condition' = condition
  BY DEF Unlock, ReturnNo
<1>2. NoCall.pc = "idle"
  BY DEF NoCall
<1>3. Holder = t /\ Holder' = Free
  BY <1>1, <1>2, NoCallType, HolderIs, HolderChanges DEF HolderRight
<1>4. AskedBy(NoCall) = Asked[t]
  BY <1>1, <1>2, AskedIs DEF AskedBy, At
<1>5. Asked' = Asked
  BY <1>1, <1>4, NoCallType, AskedChanges, AskedIs
<1>6. condition \in Values
  BY DEF IInv, TypeOK
<1> QED
  BY <1>1, <1>3, <1>5, <1>6, PromiseReleases

LEMMA UnlockWithConditionRefines ==
  ASSUME IInv, IInv', NEW t \in Threads, NEW value \in Values,
         UnlockWithCondition(t, value)
  PROVE  [Promise!Next]_<<Holder, condition, Asked>>
<1>1. At(t, "holding") /\ condition' = value
  BY DEF UnlockWithCondition
<1>2. NoCall.pc = "idle"
  BY DEF NoCall
<1>3. Holder = t
  BY <1>1, HolderIs DEF HolderRight
<1>4. \A u \in Threads \ {t} : ~ At(u, "holding")
  BY <1>3, HolderIs DEF HolderRight
<1>5. ASSUME NEW u \in Threads
      PROVE  AskedBy(call'[u]) = AskedBy(call[u]) /\ call'[u].pc # "holding"
  <2>1. CASE u = t
    <3>1. call'[u] = NoCall
      BY <2>1 DEF UnlockWithCondition
    <3> QED
      BY <1>1, <1>2, <2>1, <3>1 DEF AskedBy, At
  <2>2. CASE u # t /\ At(u, "asleep")
    <3> DEFINE f == [call[u] EXCEPT !.pc = "woken"]
    <3>1. call'[u] = f
      BY <2>2 DEF UnlockWithCondition
    <3>2. f.pc = "woken" /\ f.want = call[u].want
      BY Here DEF CallRecord
    <3> HIDE DEF f
    <3> QED
      BY <2>2, <3>1, <3>2 DEF AskedBy, At
  <2>3. CASE u # t /\ ~ At(u, "asleep")
    <3>1. call'[u] = call[u]
      BY <2>3 DEF UnlockWithCondition
    <3> QED
      BY <1>4, <2>3, <3>1 DEF At
  <2> QED
    BY <2>1, <2>2, <2>3
<1>6. Asked' = Asked
  BY <1>5 DEF Asked, AskedBy
<1>7. Holder' = Free
  <2>1. HolderRight'
    BY HolderIs, PTL
  <2> QED
    BY <1>5, <2>1 DEF HolderRight, At
<1> QED
  BY <1>1, <1>3, <1>6, <1>7, PromiseReleases

(***************************************************************************)
(* The methods implement the promise of a lock with a condition, until the *)
(* calendar is set.                                                        *)
(***************************************************************************)
THEOREM PromiseIsKept ==
  ASSUME NoneIsOverdue
  PROVE  Spec => ImplementsConditionLock
<1>1. Init => Promise!Init
  <2> SUFFICES ASSUME Init PROVE Promise!Init
    OBVIOUS
  <2>1. NoCall.pc = "idle"
    BY DEF NoCall
  <2>2. \A t \in Threads : call[t] = NoCall
    BY DEF Init
  <2>3. Asked = [t \in Threads |-> "nothing"]
    BY <2>1, <2>2 DEF Asked
  <2>4. Holder = Free
    BY <2>1, <2>2 DEF Holder, At
  <2> QED
    BY <2>3, <2>4 DEF Init, Promise!Init
<1>2. IInv /\ IInv' /\ [Next]_vars => [Promise!Next]_<<Holder, condition, Asked>>
  <2> SUFFICES ASSUME IInv, IInv', [Next]_vars
               PROVE  [Promise!Next]_<<Holder, condition, Asked>>
    OBVIOUS
  <2>1. CASE call' = call /\ condition' = condition
    BY <2>1 DEF Holder, Asked, At
  <2>2. CASE Tick \/ SetCalendar \/ UNCHANGED vars
    BY <2>1, <2>2 DEF Tick, SetCalendar, vars
  <2>3. ASSUME NEW t \in Threads,
               Call(t) \/ Contend(t) \/ Proceed(t) \/ Wake(t) \/ Expire(t) \/ LetGo(t)
        PROVE  [Promise!Next]_<<Holder, condition, Asked>>
    BY <2>3, CallsRefine, ContendRefines, ProceedRefines, WakeRefines, UnlockRefines,
       UnlockWithConditionRefines DEF LetGo
  <2> QED
    BY <2>2, <2>3 DEF Next
<1>3. CalmInv /\ CalmInv' /\ [Next]_vars =>
        [Calm' => Promise!Next]_<<Holder, condition, Asked>>
  BY <1>2, CalmBefore DEF CalmInv
<1> QED
  BY <1>1, <1>3, Inductive, PTL DEF Spec, ImplementsConditionLock

-----------------------------------------------------------------------------
(***************************************************************************)
(* Without any assumption on the clocks and the timeouts: the types, and   *)
(* what a call with a timeout still knows of its deadline.  A loop or a    *)
(* wait is never shorter than the time that is left; a wait that was too   *)
(* short by the monotonic clock is repeated.                               *)
(***************************************************************************)
TimeLeft(f, now) ==
  Timed(f) =>
    /\ f.pc \notin {"idle", "holding"}
    /\ f.pc \in {"try", "wait"} => f.deadline <= now + f.seconds
    /\ f.pc = "spin" => f.until \in Int /\ f.deadline <= f.until
    /\ f.pc \in {"rewait", "asleep", "woken", "expired", "late", "timedOut"} =>
         f.deadline <= f.start + f.seconds

DeadlineInv == TypeOK /\ \A t \in Threads : TimeLeft(call[t], monotonic)

(***************************************************************************)
(* t goes on with f, and if f is no call any more it was not too early.    *)
(***************************************************************************)
GoesOn(t, f) ==
  /\ f \in CallRecord
  /\ Become(t, f)
  /\ UNCHANGED <<clocks, condition>>
  /\ mutex' \in Threads \union {Free}
  /\ isLocked' \in BOOLEAN
  /\ TimeLeft(f, monotonic)
  /\ Timed(call[t]) /\ f.pc = "idle" => monotonic >= call[t].deadline

LEMMA Before ==
  ASSUME DeadlineInv, NEW t \in Threads
  PROVE  /\ call[t] \in CallRecord
         /\ TimeLeft(call[t], monotonic)
         /\ mutex \in Threads \union {Free}
         /\ isLocked \in BOOLEAN
         /\ calendar \in Nat /\ monotonic \in Nat
         /\ condition \in Values
BY DEF DeadlineInv, TypeOK, CallRecord

LEMMA Ends ==
  ASSUME DeadlineInv, NEW t \in Threads, NEW f \in {NoCall, [NoCall EXCEPT !.pc = "holding", !.want = call[t].want]}
  PROVE  f \in CallRecord /\ TimeLeft(f, monotonic) /\ f.pc \in {"idle", "holding"}
<1>1. call[t].want \in Values \union {AnyValue}
  BY Before DEF CallRecord
<1>2. f \in CallRecord
  BY <1>1, NoCallType DEF CallRecord, Pcs
<1>3. f.pc \in {"idle", "holding"} /\ f.method = "none"
  <2>1. CASE f = NoCall
    BY <2>1 DEF NoCall
  <2>2. CASE f = [NoCall EXCEPT !.pc = "holding", !.want = call[t].want]
    BY <2>2 DEF NoCall
  <2> QED
    BY <2>1, <2>2
<1> QED
  BY <1>2, <1>3 DEF TimeLeft, Timed

LEMMA Moves ==
  ASSUME DeadlineInv, NEW t \in Threads, NEW pc \in Pcs,
         pc \notin {"idle", "holding"},
         Timed(call[t]) =>
           \/ pc \in {"test", "lock"}
           \/ /\ call[t].pc \in {"rewait", "asleep", "woken", "expired", "late", "timedOut"}
              /\ pc \in {"rewait", "asleep", "woken", "expired", "late", "timedOut"},
         NEW f, f = [call[t] EXCEPT !.pc = pc]
  PROVE  f \in CallRecord /\ TimeLeft(f, monotonic) /\ f.pc = pc
<1>1. call[t] \in CallRecord /\ TimeLeft(call[t], monotonic)
  BY Before
<1>2. /\ f \in CallRecord
      /\ f.pc = pc
      /\ f.method = call[t].method
      /\ f.deadline = call[t].deadline
      /\ f.seconds = call[t].seconds
      /\ f.start = call[t].start
      /\ f.until = call[t].until
  BY <1>1 DEF CallRecord
<1>3. TimeLeft(f, monotonic)
  BY <1>1, <1>2 DEF TimeLeft, Timed
<1> QED
  BY <1>2, <1>3

LEMMA NewCallGoesOn ==
  ASSUME DeadlineInv, NEW t \in Threads, NEW f \in CallRecord, Become(t, f),
         UNCHANGED <<clocks, mutex, isLocked, condition>>,
         f.pc \in {"try", "lock", "wait"},
         Timed(f) => f.deadline = monotonic + f.seconds
  PROVE  \E g : GoesOn(t, g)
<1>1. /\ mutex \in Threads \union {Free} /\ isLocked \in BOOLEAN
      /\ monotonic \in Nat
  BY Before
<1>2. f.deadline \in Int /\ f.seconds \in Int
  BY DEF CallRecord
<1>3. TimeLeft(f, monotonic)
  BY <1>1, <1>2 DEF TimeLeft
<1>4. GoesOn(t, f)
  BY <1>1, <1>3 DEF GoesOn
<1> QED
  BY <1>4

LEMMA CallGoesOn ==
  ASSUME DeadlineInv, NEW t \in Threads, Call(t)
  PROVE  \E f : GoesOn(t, f)
<1>1. monotonic \in Int
  BY Before
<1>2. Timeouts \subseteq Int /\ Limits \subseteq Int \union {Forever}
  BY ConstantsAssumption
<1>3. ASSUME NEW want \in Values \union {AnyValue}, NEW timeout \in Timeouts,
             CallTimeout(t, want, timeout)
      PROVE  \E f : GoesOn(t, f)
  <2> DEFINE end == monotonic + timeout
  <2> DEFINE f == [NoCall EXCEPT !.pc = "try", !.method = "timeout", !.want = want,
                                 !.deadline = end, !.seconds = timeout]
  <2>1. "timeout" \in Methods /\ timeout \in Int /\ end \in Int
    BY <1>1, <1>2, <1>3 DEF CallTimeout
  <2>2. Become(t, f) /\ UNCHANGED <<clocks, mutex, isLocked, condition>>
    BY <1>3 DEF CallTimeout
  <2> HIDE DEF end
  <2>3. f \in CallRecord
    BY <2>1, NoCallType DEF CallRecord, Pcs
  <2>4. f.pc = "try" /\ f.deadline = end /\ f.seconds = timeout
    BY DEF NoCall
  <2> HIDE DEF f
  <2> QED
    BY <2>2, <2>3, <2>4, NewCallGoesOn DEF end
<1>4. ASSUME NEW want \in Values \union {AnyValue}, NEW limit \in Limits,
             CallBefore(t, want, limit)
      PROVE  \E f : GoesOn(t, f)
  <2> DEFINE f == [NoCall EXCEPT !.pc = "try", !.method = "before", !.want = want,
                                 !.until = limit]
  <2>1. "before" \in Methods /\ limit \in Int \union {Forever}
    BY <1>2, <1>4 DEF CallBefore
  <2>2. f \in CallRecord
    BY <2>1, NoCallType DEF CallRecord, Pcs
  <2>3. f.pc = "try" /\ ~ Timed(f)
    BY DEF NoCall, Timed
  <2> QED
    BY <1>4, <2>2, <2>3, NewCallGoesOn DEF CallBefore
<1>5. ASSUME NEW value \in Values, NEW limit \in Limits, CallUntil(t, value, limit)
      PROVE  \E f : GoesOn(t, f)
  <2> DEFINE f == [NoCall EXCEPT !.pc = "lock", !.method = "until", !.want = value,
                                 !.until = limit]
  <2>1. "until" \in Methods /\ limit \in Int \union {Forever}
    BY <1>2, <1>5 DEF CallUntil
  <2>2. f \in CallRecord
    BY <2>1, NoCallType DEF CallRecord, Pcs
  <2>3. f.pc = "lock" /\ ~ Timed(f)
    BY DEF NoCall, Timed
  <2> QED
    BY <1>5, <2>2, <2>3, NewCallGoesOn DEF CallUntil
<1>6. ASSUME NEW limit \in Limits, CallWait(t, limit)
      PROVE  \E f : GoesOn(t, f)
  <2> DEFINE f == [NoCall EXCEPT !.pc = "wait", !.method = "wait", !.until = limit]
  <2>1. "wait" \in Methods /\ limit \in Int \union {Forever}
    BY <1>2, <1>6 DEF CallWait
  <2>2. f \in CallRecord
    BY <2>1, NoCallType DEF CallRecord, Pcs
  <2>3. f.pc = "wait" /\ ~ Timed(f)
    BY DEF NoCall, Timed
  <2> QED
    BY <1>6, <2>2, <2>3, NewCallGoesOn DEF CallWait
<1>7. ASSUME NEW timeout \in Timeouts, CallWaitTimeout(t, timeout)
      PROVE  \E f : GoesOn(t, f)
  <2> DEFINE end == monotonic + timeout
  <2> DEFINE f == [NoCall EXCEPT !.pc = "wait", !.method = "waitTimeout",
                                 !.deadline = end, !.seconds = timeout]
  <2>1. "waitTimeout" \in Methods /\ timeout \in Int /\ end \in Int
    BY <1>1, <1>2, <1>7 DEF CallWaitTimeout
  <2>2. Become(t, f) /\ UNCHANGED <<clocks, mutex, isLocked, condition>>
    BY <1>7 DEF CallWaitTimeout
  <2> HIDE DEF end
  <2>3. f \in CallRecord
    BY <2>1, NoCallType DEF CallRecord, Pcs
  <2>4. f.pc = "wait" /\ f.deadline = end /\ f.seconds = timeout
    BY DEF NoCall
  <2> HIDE DEF f
  <2> QED
    BY <2>2, <2>3, <2>4, NewCallGoesOn DEF end
<1> QED
  BY <1>3, <1>4, <1>5, <1>6, <1>7 DEF Call

LEMMA GotoGoesOn ==
  ASSUME DeadlineInv, NEW t \in Threads, NEW pc \in Pcs, Goto(t, pc), pc \notin {"idle", "holding"},
         UNCHANGED <<clocks, condition>>,
         mutex' \in Threads \union {Free}, isLocked' \in BOOLEAN,
         Timed(call[t]) =>
           \/ pc \in {"test", "lock"}
           \/ /\ call[t].pc \in {"rewait", "asleep", "woken", "expired", "late", "timedOut"}
              /\ pc \in {"rewait", "asleep", "woken", "expired", "late", "timedOut"}
  PROVE  \E f : GoesOn(t, f)
<1> DEFINE f == [call[t] EXCEPT !.pc = pc]
<1>1. f \in CallRecord /\ TimeLeft(f, monotonic) /\ f.pc = pc
  BY Moves
<1>2. Become(t, f)
  BY DEF Goto
<1>3. GoesOn(t, f)
  BY <1>1, <1>2 DEF GoesOn
<1> QED
  BY <1>3

LEMMA NoGoesOn ==
  ASSUME DeadlineInv, NEW t \in Threads, ReturnNo(t),
         UNCHANGED <<clocks, condition>>,
         mutex' \in Threads \union {Free}, isLocked' \in BOOLEAN,
         Timed(call[t]) => monotonic >= call[t].deadline
  PROVE  \E f : GoesOn(t, f)
<1>1. GoesOn(t, NoCall)
  BY Ends DEF GoesOn, ReturnNo
<1> QED
  BY <1>1

LEMMA YesGoesOn ==
  ASSUME DeadlineInv, NEW t \in Threads, ReturnYes(t),
         UNCHANGED <<clocks, condition, mutex, isLocked>>
  PROVE  \E f : GoesOn(t, f)
<1> DEFINE f == [NoCall EXCEPT !.pc = "holding", !.want = call[t].want]
<1>1. f \in CallRecord /\ TimeLeft(f, monotonic)
  BY Ends
<1>2. f.pc = "holding"
  BY DEF NoCall
<1>3. GoesOn(t, f)
  BY <1>1, <1>2, Before DEF GoesOn, ReturnYes
<1> QED
  BY <1>3

LEMMA ContendGoesOn ==
  ASSUME DeadlineInv, NEW t \in Threads, Contend(t)
  PROVE  \E f : GoesOn(t, f)
<1>1. /\ call[t] \in CallRecord /\ TimeLeft(call[t], monotonic)
      /\ isLocked \in BOOLEAN /\ monotonic \in Nat
  BY Before
<1>2. /\ UNCHANGED <<clocks, condition>>
      /\ mutex' \in Threads \union {Free} /\ isLocked' \in BOOLEAN
  BY <1>1 DEF Contend, TryLock, Lock, Reacquire, ReacquireLate
<1>3. CASE Goto(t, "test")
  BY <1>2, <1>3, GotoGoesOn DEF Pcs
<1>4. CASE ReacquireLate(t)
  BY <1>2, <1>4, GotoGoesOn DEF ReacquireLate, At, Pcs
<1>5. CASE TryLock(t) /\ ReturnNo(t)
  <2>1. CASE Goto(t, "test")
    BY <1>3, <2>1
  <2>2. CASE At(t, "try") /\ Timed(call[t]) /\ call[t].seconds < 0
    <3>1. call[t].deadline <= monotonic + call[t].seconds
      BY <1>1, <2>2 DEF TimeLeft, At
    <3>2. call[t].deadline \in Int /\ call[t].seconds \in Int
      BY <1>1 DEF CallRecord
    <3>3. monotonic >= call[t].deadline
      BY <1>1, <2>2, <3>1, <3>2
    <3> QED
      BY <1>2, <1>5, <3>3, NoGoesOn
  <2> QED
    BY <1>5, <2>1, <2>2 DEF TryLock
<1> QED
  BY <1>3, <1>4, <1>5 DEF Contend, TryLock, Lock, Reacquire

LEMMA SleepGoesOn ==
  ASSUME DeadlineInv, NEW t \in Threads, At(t, "wait") \/ At(t, "rewait"),
         Become(t, Asleep(t)), UNCHANGED <<clocks, condition>>,
         mutex' \in Threads \union {Free}, isLocked' \in BOOLEAN
  PROVE  \E f : GoesOn(t, f)
<1>1. /\ call[t] \in CallRecord /\ TimeLeft(call[t], monotonic)
      /\ monotonic \in Int /\ calendar \in Int
  BY Before
<1> DEFINE end == calendar + call[t].seconds
<1>2. end \in Int
  BY <1>1 DEF CallRecord
<1>3. Asleep(t) = IF Timed(call[t])
                  THEN [call[t] EXCEPT !.pc = "asleep",
                                       !.start = IF At(t, "wait") THEN monotonic ELSE @,
                                       !.until = end]
                  ELSE [call[t] EXCEPT !.pc = "asleep"]
  BY DEF Asleep
<1> HIDE DEF end
<1>4. CASE ~ Timed(call[t])
  <2>1. Goto(t, "asleep")
    BY <1>3, <1>4 DEF Goto
  <2> QED
    BY <1>4, <2>1, GotoGoesOn DEF Pcs
<1>5. CASE Timed(call[t])
  <2> DEFINE begin == IF At(t, "wait") THEN monotonic ELSE call[t].start
  <2>1. begin \in Int
    BY <1>1 DEF CallRecord
  <2>2. Asleep(t) = [call[t] EXCEPT !.pc = "asleep", !.start = begin, !.until = end]
    BY <1>3, <1>5
  <2>3. call[t].deadline <= begin + call[t].seconds
    BY <1>1, <1>5 DEF TimeLeft, At
  <2> HIDE DEF begin
  <2> DEFINE f == [call[t] EXCEPT !.pc = "asleep", !.start = begin, !.until = end]
  <2>4. /\ f \in CallRecord /\ f.pc = "asleep" /\ f.start = begin
        /\ f.deadline = call[t].deadline /\ f.seconds = call[t].seconds
    BY <1>1, <1>2, <2>1 DEF CallRecord, Pcs
  <2>5. Become(t, f)
    BY <2>2
  <2> HIDE DEF f
  <2>6. TimeLeft(f, monotonic)
    BY <2>3, <2>4 DEF TimeLeft
  <2>7. GoesOn(t, f)
    BY <2>4, <2>5, <2>6 DEF GoesOn
  <2> QED
    BY <2>7
<1> QED
  BY <1>4, <1>5

LEMMA ProceedGoesOn ==
  ASSUME DeadlineInv, NEW t \in Threads, Proceed(t)
  PROVE  \E f : GoesOn(t, f)
<1>1. /\ call[t] \in CallRecord /\ TimeLeft(call[t], monotonic)
      /\ mutex \in Threads \union {Free} /\ isLocked \in BOOLEAN
      /\ monotonic \in Nat
  BY Before
<1>2. /\ UNCHANGED <<clocks, condition>>
      /\ mutex' \in Threads \union {Free} /\ isLocked' \in BOOLEAN
  BY <1>1 DEF Proceed, Spin, GiveUp, Grant, TooLate, WaitForCondition, Sleep,
              SleepWithoutMutex, UnlockLate, WaitAgain, EndWait
<1>3. /\ call[t].deadline \in Int /\ call[t].seconds \in Int /\ call[t].start \in Int
      /\ call[t].until \in Int \union {Forever}
  BY <1>1 DEF CallRecord
<1>4. CASE Spin(t)
  <2> DEFINE end == monotonic + call[t].seconds
  <2>1. end \in Int /\ call[t].deadline <= end
    BY <1>1, <1>3, <1>4 DEF Spin, TimeLeft, At
  <2>2. Become(t, [call[t] EXCEPT !.pc = "spin", !.until = end])
    BY <1>4 DEF Spin
  <2> HIDE DEF end
  <2> DEFINE f == [call[t] EXCEPT !.pc = "spin", !.until = end]
  <2>3. /\ f \in CallRecord /\ f.pc = "spin" /\ f.until = end
        /\ f.deadline = call[t].deadline
    BY <1>1, <2>1 DEF CallRecord, Pcs
  <2>4. Become(t, f)
    BY <2>2
  <2> HIDE DEF f
  <2>5. GoesOn(t, f)
    BY <1>2, <2>1, <2>3, <2>4 DEF GoesOn, TimeLeft
  <2> QED
    BY <2>5
<1>5. CASE GiveUp(t)
  <2>1. ASSUME Timed(call[t])
        PROVE  monotonic >= call[t].deadline
    <3>1. CASE At(t, "try")
      BY <1>1, <1>3, <1>5, <2>1, <3>1 DEF GiveUp, TimeLeft, At
    <3>2. CASE At(t, "spin")
      BY <1>1, <1>3, <1>5, <2>1, <3>2 DEF GiveUp, TimeLeft, At
    <3> QED
      BY <1>5, <3>1, <3>2 DEF GiveUp
  <2> QED
    BY <1>2, <1>5, <2>1, NoGoesOn DEF GiveUp
<1>6. CASE Grant(t)
  BY <1>6, YesGoesOn DEF Grant
<1>7. CASE TooLate(t)
  BY <1>2, <1>3, <1>7, <1>1, NoGoesOn DEF TooLate
<1>8. CASE WaitForCondition(t)
  <2>1. CASE ~ Timed(call[t])
    BY <1>2, <1>8, <2>1, GotoGoesOn DEF WaitForCondition, Pcs
  <2>2. CASE Timed(call[t])
    <3> DEFINE left == call[t].deadline - monotonic
    <3>1. left \in Int /\ call[t].deadline <= monotonic + left
      BY <1>1, <1>3
    <3>2. Become(t, [call[t] EXCEPT !.pc = "wait", !.seconds = left])
      BY <1>8, <2>2 DEF WaitForCondition
    <3> HIDE DEF left
    <3> DEFINE f == [call[t] EXCEPT !.pc = "wait", !.seconds = left]
    <3>3. /\ f \in CallRecord /\ f.pc = "wait" /\ f.seconds = left
          /\ f.deadline = call[t].deadline
      BY <1>1, <3>1 DEF CallRecord, Pcs
    <3>4. Become(t, f)
      BY <3>2
    <3> HIDE DEF f
    <3>5. GoesOn(t, f)
      BY <1>2, <3>1, <3>3, <3>4 DEF GoesOn, TimeLeft
    <3> QED
      BY <3>5
  <2> QED
    BY <2>1, <2>2
<1>9. CASE Sleep(t) \/ SleepWithoutMutex(t)
  <2>1. At(t, "wait") \/ At(t, "rewait")
    BY <1>9 DEF Sleep, SleepWithoutMutex
  <2>2. Become(t, Asleep(t)) \/ Goto(t, "test")
    BY <1>9 DEF Sleep, SleepWithoutMutex
  <2> QED
    BY <1>2, <2>1, <2>2, SleepGoesOn, GotoGoesOn DEF Pcs
<1>10. CASE UnlockLate(t)
  <2>1. CASE Timed(call[t])
    BY <1>2, <1>10, <2>1, GotoGoesOn DEF UnlockLate, At, Pcs
  <2>2. CASE ~ Timed(call[t])
    BY <1>2, <1>10, <2>2, NoGoesOn DEF UnlockLate
  <2> QED
    BY <2>1, <2>2
<1>11. CASE WaitAgain(t)
  BY <1>2, <1>11, GotoGoesOn DEF WaitAgain, At, Pcs
<1>12. CASE EndWait(t)
  <2>1. ASSUME Timed(call[t])
        PROVE  monotonic >= call[t].deadline
    BY <1>1, <1>3, <1>12, <2>1 DEF EndWait, TimeLeft, At
  <2> QED
    BY <1>2, <1>12, <2>1, NoGoesOn DEF EndWait
<1> QED
  BY <1>4, <1>5, <1>6, <1>7, <1>8, <1>9, <1>10, <1>11, <1>12 DEF Proceed

(***************************************************************************)
(* GivesUpInTime for one step.                                             *)
(***************************************************************************)
NobodyTooEarly ==
  \A t \in Threads :
    Timed(call[t]) /\ call'[t].pc = "idle" => monotonic >= call[t].deadline

LEMMA GoingOnKeeps ==
  ASSUME DeadlineInv, NEW t \in Threads, NEW f, GoesOn(t, f)
  PROVE  DeadlineInv' /\ NobodyTooEarly
<1>1. /\ call' \in [Threads -> CallRecord]
      /\ call'[t] = f
      /\ \A u \in Threads \ {t} : call'[u] = call[u]
  BY BecomeCall DEF DeadlineInv, GoesOn
<1>2. UNCHANGED <<calendar, monotonic, adjustments, condition>>
  BY DEF GoesOn, clocks
<1>3. TypeOK'
  BY <1>1, <1>2 DEF DeadlineInv, GoesOn, TypeOK, CallRecord
<1>4. \A u \in Threads : TimeLeft(call'[u], monotonic')
  BY <1>1, <1>2 DEF DeadlineInv, GoesOn
<1>5. ASSUME NEW u \in Threads, Timed(call[u]), call'[u].pc = "idle"
      PROVE  monotonic >= call[u].deadline
  <2>1. CASE u = t
    BY <1>1, <1>5, <2>1 DEF GoesOn
  <2>2. CASE u # t
    BY <1>1, <1>5, <2>2 DEF DeadlineInv, TimeLeft
  <2> QED
    BY <2>1, <2>2
<1> QED
  BY <1>3, <1>4, <1>5 DEF DeadlineInv, NobodyTooEarly

LEMMA LetGoKeepsTime ==
  ASSUME DeadlineInv, NEW t \in Threads, NEW value \in Values,
         UnlockWithCondition(t, value)
  PROVE  DeadlineInv' /\ NobodyTooEarly
<1>1. UNCHANGED <<calendar, monotonic, adjustments>> /\ At(t, "holding")
  BY DEF UnlockWithCondition, clocks
<1>2. ASSUME NEW u \in Threads
      PROVE  /\ call'[u] \in CallRecord
             /\ TimeLeft(call'[u], monotonic)
             /\ Timed(call[u]) /\ call'[u].pc = "idle" => monotonic >= call[u].deadline
  <2>1. call[u] \in CallRecord /\ TimeLeft(call[u], monotonic)
    BY Before
  <2>2. CASE u = t
    <3>1. call'[u] = NoCall
      BY <2>2 DEF UnlockWithCondition
    <3>2. NoCall \in CallRecord /\ TimeLeft(NoCall, monotonic)
      BY Ends
    <3>3. ~ Timed(call[u])
      BY <1>1, <2>1, <2>2 DEF At, TimeLeft
    <3> QED
      BY <3>1, <3>2, <3>3
  <2>3. CASE u # t /\ At(u, "asleep")
    <3>1. call'[u] = [call[u] EXCEPT !.pc = "woken"]
      BY <2>3 DEF UnlockWithCondition
    <3>2. call'[u] \in CallRecord /\ TimeLeft(call'[u], monotonic) /\ call'[u].pc = "woken"
      BY <2>3, <3>1, Moves DEF At, Pcs
    <3> QED
      BY <3>2
  <2>4. CASE u # t /\ ~ At(u, "asleep")
    <3>1. call'[u] = call[u]
      BY <2>4 DEF UnlockWithCondition
    <3> QED
      BY <2>1, <3>1 DEF TimeLeft
  <2> QED
    BY <2>2, <2>3, <2>4
<1>3. call' \in [Threads -> CallRecord]
  <2>1. call' = [u \in Threads |-> call'[u]]
    BY DEF UnlockWithCondition
  <2> QED
    BY <1>2, <2>1
<1>4. TypeOK'
  BY <1>1, <1>3 DEF DeadlineInv, UnlockWithCondition, TypeOK, CallRecord
<1> QED
  BY <1>1, <1>2, <1>4 DEF DeadlineInv, NobodyTooEarly

LEMMA ThreadsGoOn ==
  ASSUME DeadlineInv, NEW t \in Threads,
         Call(t) \/ Contend(t) \/ Proceed(t) \/ Wake(t) \/ Expire(t) \/ LetGo(t)
  PROVE  DeadlineInv' /\ NobodyTooEarly
<1>1. CASE Call(t) \/ Contend(t) \/ Proceed(t)
  BY <1>1, CallGoesOn, ContendGoesOn, ProceedGoesOn, GoingOnKeeps
<1>2. CASE Wake(t) \/ Expire(t)
  <2>1. /\ Goto(t, "woken") \/ Goto(t, "expired")
        /\ At(t, "asleep")
        /\ UNCHANGED <<clocks, condition, mutex, isLocked>>
    BY <1>2 DEF Wake, Expire
  <2>2. \E f : GoesOn(t, f)
    BY <2>1, Before, GotoGoesOn DEF At, Pcs
  <2> QED
    BY <2>2, GoingOnKeeps
<1>3. CASE Unlock(t)
  <2>1. At(t, "holding") /\ Become(t, NoCall) /\ UNCHANGED <<clocks, condition>>
    BY <1>3 DEF Unlock, ReturnNo
  <2>2. ~ Timed(call[t])
    BY <2>1, Before DEF TimeLeft, At
  <2>3. \E f : GoesOn(t, f)
    BY <1>3, <2>1, <2>2, NoGoesOn DEF Unlock
  <2> QED
    BY <2>3, GoingOnKeeps
<1>4. CASE \E value \in Values : UnlockWithCondition(t, value)
  BY <1>4, LetGoKeepsTime
<1> QED
  BY <1>1, <1>2, <1>3, <1>4 DEF LetGo

LEMMA TimePassesInTime ==
  ASSUME DeadlineInv, Tick \/ SetCalendar \/ UNCHANGED vars
  PROVE  DeadlineInv' /\ NobodyTooEarly
<1>1. /\ UNCHANGED <<mutex, isLocked, condition, call>>
      /\ monotonic' \in {monotonic, monotonic + 1}
      /\ calendar' \in {calendar, calendar + 1} \union (0 .. MaxTime)
      /\ \/ adjustments' = adjustments
         \/ adjustments < MaxAdjustments /\ adjustments' = adjustments + 1
  <2>1. CASE Tick
    BY <2>1 DEF Tick
  <2>2. CASE SetCalendar
    BY <2>2 DEF SetCalendar
  <2>3. CASE UNCHANGED vars
    BY <2>3 DEF vars
  <2> QED
    BY <2>1, <2>2, <2>3
<1>2. calendar \in Nat /\ monotonic \in Nat /\ adjustments \in 0 .. MaxAdjustments
  BY DEF DeadlineInv, TypeOK
<1>3. calendar' \in Nat /\ monotonic' \in Nat /\ adjustments' \in 0 .. MaxAdjustments
  BY <1>1, <1>2, ConstantsAssumption
<1>4. TypeOK'
  BY <1>1, <1>3 DEF DeadlineInv, TypeOK
<1>5. ASSUME NEW t \in Threads
      PROVE  TimeLeft(call[t], monotonic') /\ ~ (Timed(call[t]) /\ call[t].pc = "idle")
  <2>1. call[t] \in CallRecord /\ TimeLeft(call[t], monotonic)
    BY Before
  <2>2. call[t].deadline \in Int /\ call[t].seconds \in Int
    BY <2>1 DEF CallRecord
  <2> QED
    BY <1>1, <1>2, <2>1, <2>2 DEF TimeLeft
<1> QED
  BY <1>1, <1>4, <1>5 DEF DeadlineInv, NobodyTooEarly

LEMMA DeadlinesInductive ==
  /\ Init => DeadlineInv
  /\ DeadlineInv /\ [Next]_vars => DeadlineInv' /\ NobodyTooEarly
<1>1. ASSUME Init
      PROVE  DeadlineInv
  <2>1. call \in [Threads -> CallRecord] /\ \A t \in Threads : call[t] = NoCall
    BY <1>1, NoCallType DEF Init
  <2>2. TypeOK
    <3>1. 0 \in 0 .. MaxAdjustments
      BY ConstantsAssumption
    <3> QED
      BY <1>1, <2>1, <3>1 DEF Init, TypeOK, CallRecord
  <2>3. ~ Timed(NoCall)
    BY DEF Timed, NoCall
  <2> QED
    BY <2>1, <2>2, <2>3 DEF DeadlineInv, TimeLeft
<1>2. ASSUME DeadlineInv, [Next]_vars
      PROVE  DeadlineInv' /\ NobodyTooEarly
  BY <1>2, ThreadsGoOn, TimePassesInTime DEF Next
<1> QED
  BY <1>1, <1>2

(***************************************************************************)
(* Type correctness, whatever the timeouts and however the calendar is     *)
(* set: also when a thread waits with a mutex it does not own.             *)
(***************************************************************************)
THEOREM TypesAreRight == Spec => []TypeOK
<1>1. DeadlineInv => TypeOK
  BY DEF DeadlineInv
<1> QED
  BY <1>1, DeadlinesInductive, PTL DEF Spec

(***************************************************************************)
(* -mulleLockWithTimeout: and -mulleWaitWithTimeout: do not return NO      *)
(* before the timeout is over by the monotonic clock: the loop that waits  *)
(* again for what is left is right, although it sleeps by the calendar,    *)
(* which may be set at any time (NSCondition+NSDate.m:90-108).              *)
(***************************************************************************)
THEOREM NoTimeoutIsCutShort == Spec => GivesUpInTime
<1>1. NobodyTooEarly =>
        \A t \in Threads :
          Timed(call[t]) /\ call'[t].pc = "idle" => monotonic >= call[t].deadline
  BY DEF NobodyTooEarly
<1>2. DeadlineInv /\ [Next]_vars =>
        /\ DeadlineInv'
        /\ [\A t \in Threads :
              Timed(call[t]) /\ call'[t].pc = "idle" => monotonic >= call[t].deadline]_vars
  BY <1>1, DeadlinesInductive
<1> QED
  BY <1>2, DeadlinesInductive, PTL DEF Spec, GivesUpInTime

=============================================================================
