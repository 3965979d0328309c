---------------------------- MODULE SharedCaches ----------------------------
(***************************************************************************)
(* Threads that share a string and the code lists of NSLocale: each is in  *)
(* a call of the one or of the other, and the calls interleave.            *)
(***************************************************************************)
EXTENDS ShadowString

CONSTANTS Caches, Lists, nil
ASSUME NilAssumption == nil \notin Caches \cup Lists

VARIABLES lists, locker, query, got

INSTANCE CodeListCache

ListsStay == UNCHANGED <<lists, locker, query, got>>

Init == ShadowInit /\ ListInit

StringCall(t) ==
  /\ query[t] = NoQuery
  /\ ReadShadow(t) \/ UTF8StringStep(t) \/ Release(t)
  /\ ListsStay

ListCall(t) ==
  /\ call[t] = Outside
  /\ QueryStep(t) \/ \E c \in Caches: AskFor(t, c)
  /\ UNCHANGED shadowVars

Next ==
  \/ \E t \in Threads: StringCall(t) \/ ListCall(t)
  \/ MakeString /\ ListsStay

vars == <<shadowVars, lists, locker, query, got>>

Spec ==
  /\ Init /\ [][Next]_vars
  /\ \A t \in Threads:
       /\ WF_vars(UTF8StringStep(t) /\ ListsStay)
       /\ WF_vars(QueryStep(t) /\ UNCHANGED shadowVars)
       /\ SF_vars(Lock(t) /\ UNCHANGED shadowVars)
-----------------------------------------------------------------------------
\* The text of a shared ASCII string (_shadow, for -UTF8String) and the code
\* lists of NSLocale are made once for all threads that ask for them, and each
\* of these is given what was kept, whoever else made one at the same time.
\* The UTF-16 and UTF-32 strings do not promise that.
DecidedOnce == Text!LazySpec /\ Codes!LazySpec

\* Every call of -UTF8String and of the methods for the code lists returns,
\* with no thread left waiting for the lock of NSLocale.
EveryoneIsAnswered == Text!EveryoneIsAnswered /\ Codes!EveryoneIsAnswered
=============================================================================
