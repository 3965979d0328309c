---------------------------- MODULE PointerQueue ----------------------------
(***************************************************************************)
(* The first-in first-out queues of mulle-container                        *)
(* (mulle__pointerqueue) and the maps from keys to queues, as the          *)
(* notification center uses them.  A queue is a sequence, pushed at its    *)
(* end and popped at its front.  A map is a function on the keys that have *)
(* an entry; a key without an entry is not in its domain.                  *)
(***************************************************************************)
EXTENDS Integers, Sequences

Elements(q) == { q[i] : i \in DOMAIN q }

Front(q) == SubSeq(q, 1, Len(q) - 1)

Last(q) == q[Len(q)]

(***************************************************************************)
(* What the pop-and-push-back loop leaves of q: the elements in G, in the  *)
(* order they had.                                                         *)
(***************************************************************************)
Keep(q, G) ==
  LET F[i \in 0 .. Len(q)] ==
        IF i = 0 THEN << >>
        ELSE IF q[i] \in G THEN Append(F[i - 1], q[i]) ELSE F[i - 1]
  IN  F[Len(q)]

(***************************************************************************)
(* A map from some keys of K to queues of elements of S.                   *)
(***************************************************************************)
IsMap(m, K, S) == DOMAIN m \subseteq K /\ m \in [DOMAIN m -> Seq(S)]

(***************************************************************************)
(* mulle_map_get: NULL reads like an empty queue everywhere it is used.    *)
(***************************************************************************)
QueueFor(map, key) == IF key \in DOMAIN map THEN map[key] ELSE << >>

(***************************************************************************)
(* Push x on the queue of key; the first push creates the entry.  The      *)
(* mutant pushes at the wrong end.                                         *)
(***************************************************************************)
EnqueueFirst(map, key, x) ==
  [k \in DOMAIN map \union {key} |->
     IF k = key THEN <<x>> \o QueueFor(map, key) ELSE map[k]]

Enqueue(map, key, x) ==
  [k \in DOMAIN map \union {key} |->
     IF k = key THEN Append(QueueFor(map, key), x) ELSE map[k]]

(***************************************************************************)
(* Every queue of keys is reduced to its elements in G.  An entry whose    *)
(* queue becomes empty is dropped, an entry of another key is untouched.   *)
(***************************************************************************)
KeepFor(map, keys, G) ==
  [k \in { k \in DOMAIN map : k \in keys => Keep(map[k], G) # << >> } |->
     IF k \in keys THEN Keep(map[k], G) ELSE map[k]]

=============================================================================
