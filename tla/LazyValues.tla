----------------------------- MODULE LazyValues -----------------------------
(***************************************************************************)
(* What values promise that are made when they are first asked for and     *)
(* then kept: each is decided once, and whoever asks for it is answered    *)
(* with it, however many made one.  When none is asking any more it may be *)
(* forgotten.                                                              *)
(***************************************************************************)
CONSTANTS Threads, Keys, Values,
          None   \* not decided, not answered

VARIABLES value,
          asking,  \* the threads that are waiting for an answer
          answer   \* the last one each thread got

lazyVars == <<value, asking, answer>>

LInit ==
  /\ value = [k \in Keys |-> None]
  /\ asking = [k \in Keys |-> {}]
  /\ answer = [k \in Keys |-> [t \in Threads |-> None]]

Ask(t, k) ==
  /\ t \notin asking[k]
  /\ asking' = [asking EXCEPT ![k] = @ \cup {t}]
  /\ UNCHANGED <<value, answer>>

Decide(k, v) ==
  /\ value[k] = None
  /\ asking[k] # {}
  /\ value' = [value EXCEPT ![k] = v]
  /\ UNCHANGED <<asking, answer>>

Answer(t, k) ==
  /\ t \in asking[k]
  /\ value[k] # None
  /\ asking' = [asking EXCEPT ![k] = @ \ {t}]
  /\ answer' = [answer EXCEPT ![k][t] = value[k]]
  /\ UNCHANGED value

\* A thread gives its answer back; the last one makes it forgotten.
GiveBack(t, k) ==
  /\ t \notin asking[k]
  /\ answer' = [answer EXCEPT ![k][t] = None]
  /\ \/ value' = value
     \/ /\ asking[k] = {}
        /\ \A other \in Threads: answer'[k][other] = None
        /\ value' = [value EXCEPT ![k] = None]
  /\ UNCHANGED asking

LNext ==
  \E k \in Keys:
    \/ \E t \in Threads: Ask(t, k) \/ Answer(t, k) \/ GiveBack(t, k)
    \/ \E v \in Values: Decide(k, v)

LazySpec == LInit /\ [][LNext]_lazyVars

\* Whoever asks is answered.
EveryoneIsAnswered ==
  \A k \in Keys, t \in Threads: t \in asking[k] ~> t \notin asking[k]
=============================================================================
