---------------------------- MODULE ConditionLock ----------------------------
(***************************************************************************)
(* What a lock with a condition promises.  A thread asks for it, for some  *)
(* value of the condition or for any; it is granted to one thread at a     *)
(* time, while the condition has that value, or refused.  Only the holder  *)
(* changes the condition.                                                  *)
(***************************************************************************)
CONSTANTS Threads, Values, AnyValue, Nobody, Nothing

VARIABLES
  holder,     \* whom the lock is granted to
  condition,  \* its value
  asked       \* what every thread asks for, or Nothing

Init ==
  /\ holder = Nobody
  /\ condition \in Values
  /\ asked = [t \in Threads |-> Nothing]

Ask(t, want) ==
  /\ holder # t
  /\ asked[t] = Nothing
  /\ asked' = [asked EXCEPT ![t] = want]
  /\ UNCHANGED <<holder, condition>>

Grant(t) ==
  /\ holder = Nobody
  /\ asked[t] \in {AnyValue, condition}
  /\ holder' = t
  /\ asked' = [asked EXCEPT ![t] = Nothing]
  /\ UNCHANGED condition

Refuse(t) ==
  /\ asked[t] # Nothing
  /\ asked' = [asked EXCEPT ![t] = Nothing]
  /\ UNCHANGED <<holder, condition>>

Release(t, value) ==
  /\ holder = t
  /\ holder' = Nobody
  /\ condition' = value
  /\ UNCHANGED asked

(***************************************************************************)
(* A wait gives the lock up and asks for it again.                         *)
(***************************************************************************)
Wait(t) ==
  /\ holder = t
  /\ holder' = Nobody
  /\ asked' = [asked EXCEPT ![t] = AnyValue]
  /\ UNCHANGED condition

Next ==
  \E t \in Threads :
    \/ \E want \in Values \union {AnyValue} : Ask(t, want)
    \/ Grant(t)
    \/ Refuse(t)
    \/ \E value \in Values : Release(t, value)
    \/ Wait(t)

Spec == Init /\ [][Next]_<<holder, condition, asked>>

=============================================================================
