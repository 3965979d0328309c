---------------------------- MODULE MutableArray ----------------------------
(***************************************************************************)
(* NSMutableArray as a record and functions of its methods: the objects in *)
(* the first _count places of _storage, the number _size of its places,    *)
(* _mutationCount, and how often the array has retained each object and    *)
(* not released it.  Indices count from 0.                                 *)
(***************************************************************************)
EXTENDS PointerSorting, PointerQueue

CONSTANTS MinimumSize,  \* 8, below it the storage is not worth to be shrunk
          Unknown       \* what is read behind the end of a buffer

ASSUME MinimumSizeAssumption == MinimumSize \in Nat \ {0}
ASSUME UnknownAssumption == Unknown \notin Objects

Larger(m, n) == IF m < n THEN n ELSE m

Equal(o, p) == Worth[o] = Worth[p]   \* -isEqual:

Part(v, location, length) == SubSeq(v, location + 1, location + length)
Count(a) == Len(a.objects)
HoldsObjects(a) == \A k \in DOMAIN a.objects: a.objects[k] \in Objects

Bumped(a) == [a EXCEPT !.mutations = @ + 1]
Retained(a, v) == [a EXCEPT !.held = [o \in Objects |-> @[o] + Occurrences(o, v)]]
Released(a, v) == [a EXCEPT !.held = [o \in Objects |-> @[o] - Occurrences(o, v)]]

\* -initWithObjects:count:, -mulleInitWithContainer:
ArrayWith(v) ==
  Retained([objects |-> v, size |-> Larger(Len(v), MinimumSize), mutations |-> 1,
            held |-> [o \in Objects |-> 0]], v)

\* -initWithCapacity:
ArrayWithCapacity(n) ==
  [objects |-> <<>>, size |-> n, mutations |-> 0, held |-> [o \in Objects |-> 0]]

\* Room for one object more; "reserve" makes it for n.
Grown(a) ==
  IF Count(a) < a.size THEN a
  ELSE [a EXCEPT !.size = Larger(2 * @, MinimumSize)]

\* A mistake for the runs to find: the storage is only doubled.
Doubled(a, n) ==
  IF Count(a) + n < a.size THEN a ELSE [a EXCEPT !.size = Larger(2 * @, MinimumSize)]

Reserved(a, n) ==
  LET more == Larger(a.size, n)
  IN  IF Count(a) + n < a.size THEN a
      ELSE [a EXCEPT !.size =
              @ + IF more < MinimumSize THEN more + MinimumSize ELSE more]

Shrunk(a) ==
  IF Count(a) < a.size \div 2 /\ a.size > MinimumSize
  THEN [a EXCEPT !.size = @ \div 2] ELSE a

\* addObject:; mulleAddRetainedObject: takes the caller's reference over.
Added(a, o) ==
  Bumped([Grown(Retained(a, <<o>>)) EXCEPT !.objects = Append(@, o)])

Inserted(a, o, i) ==
  Bumped([Grown(Retained(a, <<o>>)) EXCEPT
            !.objects = Part(@, 0, i) \o <<o>> \o Part(@, i, Len(@) - i)])

Replaced(a, o, i) ==
  Bumped([Released(Retained(a, <<o>>), <<a.objects[i + 1]>>) EXCEPT
            !.objects[i + 1] = o])

Without(v, location, length) ==
  Part(v, 0, location)
    \o Part(v, location + length, Len(v) - location - length)

\* removeObjectsInRange:; removeObjectAtIndex: and removeObjectIdenticalTo:
\* are the same for one object.  An empty range changes nothing.
RangeRemoved(a, location, length) ==
  IF length = 0 THEN a
  ELSE Bumped([Released(a, Part(a.objects, location, length)) EXCEPT
                 !.objects = Without(@, location, length)])

\* removeObject: all that are equal, from the last to the first.
EqualTo(o) == {p \in Objects: Equal(o, p)}
EqualRemoved(a, o) ==
  Bumped([Released(a, Keep(a.objects, EqualTo(o))) EXCEPT
            !.objects = Keep(@, Objects \ EqualTo(o))])

LastRemoved(a) ==
  LET last == a.objects[Count(a)]
  IN  Bumped(Shrunk([Released(a, <<last>>) EXCEPT
                       !.objects = Part(@, 0, Len(@) - 1)]))

AllRemoved(a) == Bumped([Released(a, a.objects) EXCEPT !.objects = <<>>])

\* addObjectsFromArray: of an array with the objects v, which may be itself.
AllAdded(a, v) ==
  Bumped([Retained(Reserved(a, Len(v)), v) EXCEPT !.objects = @ \o v])

\* setArray: empties the array before it looks at the other.
SetTo(a, v) == AllAdded(AllRemoved(a), v)
SetToItself(a) == AllAdded(AllRemoved(a), <<>>)

\* replaceObjectsInRange:withObjects:count: reads the given objects v from
\* the location of the range on, and so reads on behind the end of them.
RangeReplaced(a, location, v) ==
  LET read == [k \in DOMAIN v |->
                 IF location + k <= Len(v) THEN v[location + k] ELSE Unknown]
      old  == Part(a.objects, location, Len(v))
  IN  Bumped([Retained(Released(a, old), read) EXCEPT
                !.objects = Part(@, 0, location) \o read
                              \o Part(@, location + Len(v),
                                      Len(@) - location - Len(v))])

\* A mistake for the runs to find: the exchange is not counted.
ExchangedUncounted(a, i, k) == [a EXCEPT !.objects = Swapped(@, i, k)]

Exchanged(a, i, k) == Bumped([a EXCEPT !.objects = Swapped(@, i, k)])

\* w written over v from an index on.
Overwritten(v, index, w) ==
  [k \in DOMAIN v |->
     IF k > index /\ k <= index + Len(w) THEN w[k - index] ELSE v[k]]

\* A mistake for the runs to find: what is moved over is not kept.
MovedOver(v, location, length, index) ==
  Overwritten(v, index, Part(v, location, length))

\* mulleMoveObjectsInRange:toIndex: copies the shorter of the range and of
\* what it changes places with to a buffer.  It leaves _mutationCount.
Moved(v, location, length, index) ==
  LET up    == index <= location
      from  == IF up THEN index ELSE location + length
      other == IF up THEN location - index ELSE index - location
      to    == IF up THEN index + length ELSE location
      range == Part(v, location, length)
  IN  IF other < length
      THEN Overwritten(Overwritten(v, index, range), to,
                       Part(v, from, other))
      ELSE Overwritten(Overwritten(v, to, Part(v, from, other)), index,
                       range)

Reversed(a) ==
  IF a.objects = <<>> THEN a
  ELSE Bumped([a EXCEPT !.objects =
                 [k \in DOMAIN @ |-> @[Len(@) + 1 - k]]])
=============================================================================
