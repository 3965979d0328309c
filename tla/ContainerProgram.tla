-------------------------- MODULE ContainerProgram --------------------------
(***************************************************************************)
(* A thread with a mutable array and a mutable ordered set: it changes     *)
(* them, sorts the array with a comparator of its own, and enumerates one  *)
(* of them with for( object in container), changing them in the body.      *)
(* A method that refuses its arguments with an exception leaves all as it  *)
(* is and is no step.                                                      *)
(***************************************************************************)
EXTENDS MutableOrderedSet

CONSTANTS Contents,       \* what arrays are made of, and added
          Capacities,     \* of arrays that are made empty
          MaxCount,       \* of objects, above it no container grows,
          MaxMutations,   \* of the array, before a new one is made,
          MaxSetMutations,\* and of the set,
          PortionLength   \* of a fast enumeration, 16 in a for loop

ASSUME ContentsAssumption == Contents \subseteq Seq(Objects)
ASSUME CapacitiesAssumption == Capacities \subseteq Nat
ASSUME PortionLengthAssumption == PortionLength \in Nat \ {0}

VARIABLES array, set,
          rover   \* the state of the for loop

containers == <<array, set, rover>>
vars == <<sortingVars, containers>>

\* A for loop over a container: the number of mutations it found, how many
\* objects were handed out, and which is next; for the properties, what the
\* container held at the start and what was shown.  "moved" tells that the
\* storage was reallocated since.  If objects are changed with the number
\* of mutations left alone the loop is "blind", and is not followed.
Rover(over, contents, end, mutations) ==
  [over |-> over, found |-> mutations, end |-> end, next |-> 0,
   runs |-> end > 0, given |-> contents, shown |-> <<>>, moved |-> FALSE,
   blind |-> FALSE]

NoRover == Rover("array", <<>>, 0, 0)

RunsOver(container) == rover.runs /\ rover.over = container

\* A loop that has ended is forgotten.
RoverNotices(container, moved, blind) ==
  rover' = CASE RunsOver(container) /\ ~blind -> [rover EXCEPT !.moved = @ \/ moved]
             [] RunsOver(container) /\ blind ->
                  [rover EXCEPT !.blind = TRUE, !.given = <<>>, !.shown = <<>>]
             [] rover.runs /\ rover.over # container -> rover
             [] ~rover.runs -> NoRover

Init ==
  /\ SortingInit
  /\ \/ \E v \in Contents: array = ArrayWith(v)
     \/ \E n \in Capacities: array = ArrayWithCapacity(n)
  /\ set = EmptySet
  /\ rover = NoRover

\* An array holds the objects it was given and nothing else: a caller that
\* passes as many objects as the range is long does what NSMutableArray.m:654
\* asserts.  What is read behind the end of its buffer is retained and stored
\* as if it was an object.  It may be nil, an object, or none, and the program
\* may not get that far: an array that holds it is followed no further.
ArrayHoldsObjects == HoldsObjects(array)

\* No sort runs; one that has ended is forgotten.
Idle ==
  /\ ~Sorts /\ sort.walks # "broken"
  /\ ArrayHoldsObjects
  /\ StartSort(<<>>, TRUE)

\* To bound the runs a loop over the array begins, and the set is filled,
\* while the array is as it was made; with a set the array stays so.
ArrayIsFresh == array.mutations <= 1 /\ array.objects \in Contents
ArrayMayChange == array.mutations < MaxMutations /\ set = EmptySet
SetMayChange == set.mutations < MaxSetMutations /\ ArrayIsFresh

\* A method of the array that leaves it like this.
ArrayBecomes(a) ==
  /\ Idle /\ ArrayMayChange
  /\ Len(a.objects) <= MaxCount \/ Len(a.objects) <= Count(array)
  /\ array' = a
  /\ RoverNotices("array", a.size # array.size, FALSE)
  /\ UNCHANGED set

AddObject(o) == ArrayBecomes(Added(array, o))
InsertObject(o, i) == ArrayBecomes(Inserted(array, o, i))
ReplaceObject(o, i) == ArrayBecomes(Replaced(array, o, i))
RemoveRange(location, length) ==
  ArrayBecomes(RangeRemoved(array, location, length))
RemoveObject(o) == ArrayBecomes(EqualRemoved(array, o))
RemoveLastObject == Count(array) > 0 /\ ArrayBecomes(LastRemoved(array))
RemoveAllObjects == ArrayBecomes(AllRemoved(array))
AddObjects(v) == ArrayBecomes(AllAdded(array, v))
AddItself == AddObjects(array.objects)
SetArray(v) == ArrayBecomes(SetTo(array, v))
SetItself == ArrayBecomes(SetToItself(array))
Exchange(i, k) == ArrayBecomes(Exchanged(array, i, k))
Reverse == ArrayBecomes(Reversed(array))

ReplaceRange(location, v) ==
  /\ location + Len(v) <= Count(array)
  /\ ArrayBecomes(RangeReplaced(array, location, v))

MoveObjects(location, length, index) ==
  /\ Idle /\ set = EmptySet
  /\ length > 0 /\ location + length <= Count(array)
  /\ index + length <= Count(array) \/ index <= location
  /\ array' = [array EXCEPT !.objects = Moved(@, location, length, index)]
  /\ RoverNotices("array", FALSE, TRUE)
  /\ UNCHANGED set

\* The array holds what the sort does; it counts a mutation when the sort
\* has ended.
ArraySorts ==
  array' = [array EXCEPT
              !.objects = sort'.v,
              !.mutations = IF Done(sort') /\ sort'.walks # "raised"
                            THEN @ + 1 ELSE @]

SortArray(honest) ==
  /\ ~Sorts /\ sort.walks # "broken"
  /\ ArrayHoldsObjects /\ ArrayMayChange
  /\ StartSort(array.objects, honest)
  /\ ArraySorts
  /\ UNCHANGED <<set, rover>>

CallComparator(answer) ==
  /\ Compare(answer)
  /\ ArraySorts
  /\ UNCHANGED <<set, rover>>

\* The client catches the exception, in the body of the loop or outside.
ComparatorRaises ==
  /\ Raise
  /\ ArraySorts
  /\ RoverNotices("array", FALSE, TRUE)
  /\ UNCHANGED set
-----------------------------------------------------------------------------
SetBecomes(s, blind) ==
  /\ Idle /\ SetMayChange
  /\ Len(s.order) <= MaxCount
  /\ set' = s
  /\ RoverNotices("set", FALSE, blind)
  /\ UNCHANGED array

InsertInSet(o, i) == SetBecomes(InsertedInSet(set, o, i), FALSE)
InsertAllInSet(v, i) == SetBecomes(AllInserted(set, v, i), FALSE)
AddArrayToSet == SetBecomes(AllAddedToSet(set, array.objects), FALSE)
RemoveFromSet(i) == SetBecomes(RemovedFromSet(set, i), FALSE)
EmptyTheSet == SetBecomes(SetEmptied(set), FALSE)
ReplaceInSet(i, o) == SetBecomes(ReplacedInSet(set, i, o), TRUE)
-----------------------------------------------------------------------------
ObjectsOf(container) ==
  IF container = "array" THEN array.objects ELSE set.order
Mutations(container) ==
  IF container = "array" THEN array.mutations ELSE set.mutations

\* The end of the portion after the first "state" objects: an array has but
\* one portion.
Portion(container, state) ==
  IF container = "set" THEN PortionEnd(set, state, PortionLength)
  ELSE IF state = 0 THEN Count(array) ELSE state

Enumerate(container) ==
  /\ Idle
  /\ ~rover.runs
  /\ container = "array" => ArrayIsFresh
  /\ rover' = Rover(container, ObjectsOf(container), Portion(container, 0),
                    Mutations(container))
  /\ UNCHANGED <<array, set>>

\* The loop looks at the number of mutations before each object.
ShowNext ==
  /\ Idle
  /\ rover.runs
  /\ rover.next < rover.end
  /\ Mutations(rover.over) = rover.found
  /\ rover' = [rover EXCEPT
                 !.next = @ + 1,
                 !.shown = IF rover.blind THEN @
                           ELSE Append(@, ObjectsOf(rover.over)[rover.next + 1])]
  /\ UNCHANGED <<array, set>>

NextPortion ==
  /\ Idle
  /\ rover.runs
  /\ rover.next = rover.end
  /\ LET end == Portion(rover.over, rover.end)
     IN  rover' = [rover EXCEPT !.runs = end > rover.end, !.end = end]
  /\ UNCHANGED <<array, set>>

\* The mutation is found, or the body breaks.
LeaveLoop ==
  /\ Idle
  /\ rover.runs
  /\ rover' = NoRover
  /\ UNCHANGED <<array, set>>

\* Both are released, and others are made.
BeginAnew ==
  /\ ~Sorts
  /\ StartSort(<<>>, TRUE)
  /\ \/ \E v \in Contents: array' = ArrayWith(v)
     \/ \E n \in Capacities: array' = ArrayWithCapacity(n)
  /\ set' = EmptySet
  /\ rover' = NoRover

ArrayNext ==
  \/ \E o \in Objects:
       \/ AddObject(o)
       \/ RemoveObject(o)
       \/ \E i \in 0..Count(array): InsertObject(o, i)
       \/ \E i \in 0..Count(array) - 1: ReplaceObject(o, i)
  \/ \E location \in 0..Count(array) - 1:
       \E length \in 1..Count(array) - location:
         \/ RemoveRange(location, length)
         \/ \E index \in 0..Count(array) - 1:
              MoveObjects(location, length, index)
  \/ RemoveLastObject
  \/ RemoveAllObjects
  \/ \E v \in Contents: AddObjects(v) \/ SetArray(v)
  \/ AddItself
  \/ SetItself
  \/ \E i, k \in 0..Count(array) - 1: Exchange(i, k)
  \/ Reverse
  \/ \E v \in Contents, location \in 0..Count(array) - 1:
       ReplaceRange(location, v)
  \/ \E honest \in BOOLEAN: SortArray(honest)

ComparatorNext == \E answer \in Answers: CallComparator(answer)

SetNext ==
  \/ \E o \in Objects, i \in 0..Len(set.order): InsertInSet(o, i)
  \/ \E v \in Contents, i \in 0..Len(set.order): InsertAllInSet(v, i)
  \/ AddArrayToSet
  \/ \E i \in 0..Len(set.order) - 1:
       \/ RemoveFromSet(i)
       \/ \E o \in Objects: ReplaceInSet(i, o)
  \/ EmptyTheSet

LoopNext ==
  \/ \E container \in {"array", "set"}: Enumerate(container)
  \/ ShowNext
  \/ NextPortion
  \/ LeaveLoop

Next ==
  \/ ArrayNext
  \/ ComparatorNext
  \/ ComparatorRaises
  \/ SetNext
  \/ LoopNext
  \/ BeginAnew

\* A comparator that is called returns or raises: the thread runs on.
Spec == Init /\ [][Next]_vars /\ WF_vars(ComparatorNext)
-----------------------------------------------------------------------------
\* The array has room for its objects, and holds a reference to each for
\* every place it is at; unless a range that does not begin at 0 was replaced
\* in it, see ArrayHoldsObjects, which does not hold of every array.
ArrayIsSound ==
  ArrayHoldsObjects =>
    /\ Count(array) <= array.size
    /\ \A o \in Objects: array.held[o] = Occurrences(o, array.objects)

\* The order and the table of the set tell of the same objects, and no two
\* of these are equal.
OrderMatchesTable ==
  /\ set.table = {set.order[k] : k \in DOMAIN set.order}
  /\ \A k, l \in DOMAIN set.order: Equal(set.order[k], set.order[l]) => k = l

\* What a for loop shows are the objects its container had at the start, in
\* their order, as long as no change was made blindly; and it never reads a
\* storage that was reallocated.
LoopShowsTheStart ==
  /\ ~rover.blind =>
       rover.shown = SubSeq(rover.given, 1, Len(rover.shown))
  /\ RunsOver("array") /\ array.mutations = rover.found => ~rover.moved

\* A loop that came to its end has shown all, but for one gap: the body of
\* the last object of a portion removed so many objects from the set that
\* no more were left than were shown.
LoopShowsAll ==
  ~rover.runs /\ ~rover.blind =>
    \/ rover.shown = rover.given
    \/ /\ rover.over = "set" /\ set.mutations # rover.found
       /\ Len(rover.shown) % PortionLength = 0
       /\ Len(set.order) <= Len(rover.shown)

\* Moving a range of the array, up or down, takes it out and puts it in
\* where it is to begin, whichever of the two parts is copied to a buffer.
MovesKeepTheRest ==
  ArrayHoldsObjects =>
    \A location \in 0..Count(array) - 1:
      \A length \in 1..Count(array) - location:
        \A index \in 0..Count(array) - length:
          LET rest == Without(array.objects, location, length)
          IN  Moved(array.objects, location, length, index) =
                SubSeq(rest, 1, index)
                  \o Part(array.objects, location, length)
                  \o SubSeq(rest, index + 1, Len(rest))

\* A sort comes to an end, or to abort(), however the comparator answers.
SortEnds == Sorts ~> ~Sorts
=============================================================================
