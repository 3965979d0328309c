---------------------------- MODULE CodeListCache ----------------------------
(***************************************************************************)
(* +ISOLanguageCodes, +ISOCountryCodes and +ISOCurrencyCodes of NSLocale:  *)
(* each looks for its list under the lock of the class, computes one       *)
(* without it, and offers that under the lock.                             *)
(***************************************************************************)
CONSTANTS Threads,
          Caches,  \* the lists of the class
          Lists,   \* arrays that may be computed
          nil

VARIABLES lists,   \* for each cache what it holds
          locker,  \* the thread that has the lock
          query,   \* for each thread where its call is
          got      \* for each cache what each thread was given last

listVars == <<lists, locker, query, got>>

NoQuery == [at |-> "outside", cache |-> nil, computed |-> nil, codes |-> nil]

ListInit ==
  /\ lists = [c \in Caches |-> nil]
  /\ locker = nil
  /\ query = [t \in Threads |-> NoQuery]
  /\ got = [c \in Caches |-> [t \in Threads |-> nil]]

AskFor(t, c) ==
  /\ query[t].at = "outside"
  /\ query' = [query EXCEPT ![t] = [NoQuery EXCEPT !.at = "lock", !.cache = c]]
  /\ UNCHANGED <<lists, locker, got>>

Lock(t) ==
  /\ query[t].at = "lock"
  /\ locker = nil
  /\ locker' = t
  /\ query' = [query EXCEPT ![t].at = "look"]
  /\ UNCHANGED <<lists, got>>

\* A mistake for the runs to find: the last to take the lock wins.
LookLastWins(t) ==
  /\ query[t].at = "look"
  /\ LET c == query[t].cache
     IN  /\ lists' = IF query[t].computed # nil
                     THEN [lists EXCEPT ![c] = query[t].computed] ELSE lists
         /\ query' = [query EXCEPT ![t].at = "unlock", ![t].codes = lists'[c]]
  /\ UNCHANGED <<locker, got>>

\* mulle_locale_cached_code_list, under the lock.
Look(t) ==
  /\ query[t].at = "look"
  /\ LET c == query[t].cache
     IN  /\ lists' = IF lists[c] = nil /\ query[t].computed # nil
                     THEN [lists EXCEPT ![c] = query[t].computed] ELSE lists
         /\ query' = [query EXCEPT ![t].at = "unlock", ![t].codes = lists'[c]]
  /\ UNCHANGED <<locker, got>>

\* A mistake for the runs to find: a call that found its list leaves early.
UnlockOnMiss(t) ==
  /\ query[t].at = "unlock"
  /\ IF query[t].codes = nil
     THEN /\ query' = [query EXCEPT ![t].at = "compute"]
          /\ locker' = nil
          /\ UNCHANGED got
     ELSE /\ query' = [query EXCEPT ![t] = NoQuery]
          /\ got' = [got EXCEPT ![query[t].cache][t] = query[t].codes]
          /\ UNCHANGED locker
  /\ UNCHANGED lists

\* With a list the call returns, else it computes one.
Unlock(t) ==
  /\ query[t].at = "unlock"
  /\ locker' = nil
  /\ IF query[t].codes = nil
     THEN /\ query' = [query EXCEPT ![t].at = "compute"]
          /\ UNCHANGED got
     ELSE /\ query' = [query EXCEPT ![t] = NoQuery]
          /\ got' = [got EXCEPT ![query[t].cache][t] = query[t].codes]
  /\ UNCHANGED lists

Compute(t) ==
  /\ query[t].at = "compute"
  /\ \E computed \in Lists:
       query' = [query EXCEPT ![t].at = "lock", ![t].computed = computed]
  /\ UNCHANGED <<lists, locker, got>>

QueryStep(t) == Lock(t) \/ Look(t) \/ Unlock(t) \/ Compute(t)

-----------------------------------------------------------------------------
\* For each cache the threads in a call for its list.
Asking == [c \in Caches |-> {t \in Threads: query[t].cache = c}]

\* Each list is a value, made when it is first asked for.
Codes == INSTANCE LazyValues WITH
           Keys <- Caches, Values <- Lists, None <- nil, value <- lists,
           asking <- Asking, answer <- got
=============================================================================
