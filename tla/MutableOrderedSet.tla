------------------------- MODULE MutableOrderedSet -------------------------
(***************************************************************************)
(* _MulleObjCConcreteMutableOrderedSet: the objects in their order and a   *)
(* table of them that tells by -isEqual: what the set already has.         *)
(***************************************************************************)
EXTENDS MutableArray

EmptySet == [order |-> <<>>, table |-> {}, mutations |-> 0]

\* _mulle__map_get finds the object equal to o.
Has(s, o) == \E p \in s.table: Equal(o, p)

Entered(s, o, order) ==
  [order |-> order, table |-> s.table \cup {o}, mutations |-> s.mutations + 1]

\* A mistake for the runs to find: an object is looked for by identity.
InsertedIdentical(s, o, i) ==
  IF o \in s.table THEN s
  ELSE Entered(s, o, Part(s.order, 0, i) \o <<o>>
                       \o Part(s.order, i, Len(s.order) - i))

\* insertObject:atIndex:, and addObject: with the index behind the last.
InsertedInSet(s, o, i) ==
  IF Has(s, o) THEN s
  ELSE Entered(s, o, Part(s.order, 0, i) \o <<o>>
                       \o Part(s.order, i, Len(s.order) - i))

\* insertObjects:count:atIndex: an object at a time.  The index moves on for
\* an object that the set has, too; once it has left the set an exception
\* ends the call.
AllInserted(s, v, i) ==
  LET done[k \in 0..Len(v)] ==
        IF k = 0 THEN s
        ELSE IF i + k - 1 > Len(done[k - 1].order) THEN done[k - 1]
        ELSE InsertedInSet(done[k - 1], v[k], i + k - 1)
  IN  done[Len(v)]

\* addObjects:count:, addObjectsFromArray:
AllAddedToSet(s, v) ==
  LET done[k \in 0..Len(v)] ==
        IF k = 0 THEN s
        ELSE InsertedInSet(done[k - 1], v[k], Len(done[k - 1].order))
  IN  done[Len(v)]

RemovedFromSet(s, i) ==
  [order |-> Without(s.order, i, 1),
   table |-> {p \in s.table: ~Equal(p, s.order[i + 1])},
   mutations |-> s.mutations + 1]

SetEmptied(s) == [EmptySet EXCEPT !.mutations = s.mutations + 1]

\* replaceObjectAtIndex:withObject: has no effect if the set has the object.
\* The pointer array is written in place, its count of mutations stays.
ReplacedInSet(s, i, o) ==
  IF Has(s, o) THEN s
  ELSE [s EXCEPT !.order[i + 1] = o,
                 !.table = {p \in @: ~Equal(p, s.order[i + 1])} \cup {o}]

\* A mistake for the runs to find: the last portion is left out.
PortionEndEarly(s, state, length) ==
  IF state + length >= Len(s.order) THEN state ELSE state + length

\* countByEnumeratingWithState:objects:count: the number of objects that are
\* shown after its next portion, for a rover that has shown "state" of them.
PortionEnd(s, state, length) ==
  IF state >= Len(s.order) THEN state
  ELSE IF Len(s.order) - state > length THEN state + length ELSE Len(s.order)
=============================================================================
