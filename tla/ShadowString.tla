---------------------------- MODULE ShadowString ----------------------------
(***************************************************************************)
(* -UTF8String of a string that is shared by threads and does not keep its *)
(* characters as UTF-8 with an end: it is converted when it is first asked *)
(* for and kept as _shadow, without a lock.  A referencing ASCII string    *)
(* and the UTF-16 and UTF-32 strings differ in what they return.           *)
(***************************************************************************)
EXTENDS FiniteSets, Naturals

CONSTANTS Threads,
          Buffers,   \* of the string's allocator
          NULL,
          Kind       \* of the string: "ASCII", "UTF16" or "UTF32"

Unasked == "unasked"
ASSUME NullAssumption ==
  NULL \notin Buffers /\ Unasked \notin Buffers \cup {NULL}
\* A converted text is kept by the string or by the thread that made it.
ASSUME BuffersAssumption ==
  IsFiniteSet(Threads) /\ IsFiniteSet(Buffers)
    /\ Cardinality(Threads) < Cardinality(Buffers)

VARIABLES shadow,  \* the instance variable
          used,    \* the buffers that are allocated
          owners,  \* the threads with a reference to the string
          call,    \* for each thread: where -UTF8String is, and its variables
          text     \* what it returned last, while the reference is kept

shadowVars == <<shadow, used, owners, call, text>>

Outside == [at |-> "outside", shadow |-> NULL, s |-> NULL]

ShadowInit ==
  /\ shadow = NULL
  /\ used = {}
  /\ owners = Threads
  /\ call = [t \in Threads |-> Outside]
  /\ text = [t \in Threads |-> Unasked]

Goes(t, place) == call' = [call EXCEPT ![t].at = place]

\* shadow = _mulle_atomic_pointer_read( &self->_shadow)
ReadShadow(t) ==
  /\ t \in owners
  /\ call[t].at = "outside"
  /\ call' = [call EXCEPT ![t] = [at |-> "test", shadow |-> shadow, s |-> NULL]]
  /\ UNCHANGED <<shadow, used, owners, text>>

\* if( ! _shadow): the instance variable is read again.
TestShadow(t) ==
  /\ call[t].at = "test"
  /\ Goes(t, IF shadow = NULL THEN "convert" ELSE "return")
  /\ UNCHANGED <<shadow, used, owners, text>>

\* The allocator may hand out what was freed before.
Convert(t) ==
  /\ call[t].at = "convert"
  /\ \E s \in Buffers \ used:
       /\ used' = used \cup {s}
       /\ call' = [call EXCEPT ![t].at = "swap", ![t].s = s]
  /\ UNCHANGED <<shadow, owners, text>>

\* __mulle_atomic_pointer_cas returns what it found.
CompareAndSwap(t) ==
  /\ call[t].at = "swap"
  /\ IF shadow = NULL
     THEN /\ shadow' = call[t].s
          /\ call' = [call EXCEPT ![t] = [at |-> "return", shadow |-> call[t].s,
                                          s |-> NULL]]
     ELSE /\ call' = [call EXCEPT ![t].at = "free", ![t].shadow = shadow]
          /\ UNCHANGED shadow
  /\ UNCHANGED <<used, owners, text>>

\* A mistake for the runs to find: the text that lost is not freed.
KeepMine(t) ==
  /\ call[t].at = "free"
  /\ call' = [call EXCEPT ![t].at = "return", ![t].s = NULL]
  /\ UNCHANGED <<shadow, used, owners, text>>

FreeMine(t) ==
  /\ call[t].at = "free"
  /\ used' = used \ {call[t].s}
  /\ call' = [call EXCEPT ![t].at = "return", ![t].s = NULL]
  /\ UNCHANGED <<shadow, owners, text>>

\* The ASCII string returns its instance variable, the others their local.
ReturnText(t) ==
  /\ call[t].at = "return"
  /\ text' = [text EXCEPT ![t] = IF Kind = "ASCII" THEN shadow
                                 ELSE call[t].shadow]
  /\ call' = [call EXCEPT ![t] = Outside]
  /\ UNCHANGED <<shadow, used, owners>>

\* -release; with the last reference -dealloc frees the shadow.
Release(t) ==
  /\ t \in owners
  /\ call[t].at = "outside"
  /\ owners' = owners \ {t}
  /\ text' = [text EXCEPT ![t] = Unasked]
  /\ IF owners = {t}
     THEN /\ shadow' = NULL
          /\ used' = used \ {shadow}
     ELSE UNCHANGED <<shadow, used>>
  /\ UNCHANGED call

\* Another string is made and shared by all.
MakeString ==
  /\ owners = {}
  /\ owners' = Threads
  /\ UNCHANGED <<shadow, used, call, text>>

UTF8StringStep(t) ==
  \/ TestShadow(t)
  \/ Convert(t)
  \/ CompareAndSwap(t)
  \/ FreeMine(t)
  \/ ReturnText(t)
-----------------------------------------------------------------------------
Mine(t) == {call[t].s} \ {NULL}

\* Each buffer is kept by the string or by one thread that has yet to offer
\* or to free it: none is freed twice, none is lost, and the text that a
\* thread with a reference was given is not freed under it.
MemoryIsSound ==
  /\ used = ({shadow} \ {NULL}) \cup UNION {Mine(t) : t \in Threads}
  /\ \A t \in Threads:
       /\ shadow \notin Mine(t)
       /\ \A other \in Threads \ {t}: Mine(t) \cap Mine(other) = {}
       /\ text[t] \in used \cup {Unasked, NULL}

\* -UTF8String of a string that threads share returns its text.
TextIsReturned == \A t \in Threads: text[t] # NULL

\* The text is one value, made when it is first asked for.
Text == INSTANCE LazyValues WITH
          Keys <- {"text"}, Values <- Buffers, None <- NULL,
          value <- [k \in {"text"} |-> shadow],
          asking <- [k \in {"text"} |->
                       {t \in Threads: call[t].at # "outside"}],
          answer <- [k \in {"text"} |->
                       [t \in Threads |-> IF text[t] = Unasked THEN NULL
                                          ELSE text[t]]]
=============================================================================
