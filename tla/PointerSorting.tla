--------------------------- MODULE PointerSorting ---------------------------
(***************************************************************************)
(* -sortUsingFunction:context: and -sortUsingSelector: call the sort with  *)
(* a comparator that is the client's.  A sound one answers from an order   *)
(* of the objects; any other may answer what it likes, and each may raise  *)
(* an exception instead, which unwinds the sort where it is.               *)
(***************************************************************************)
EXTENDS PointerSort, FiniteSets

CONSTANTS Objects,
          Worth,    \* what a sound comparator compares
          Answers   \* of a comparator

ASSUME WorthAssumption == Worth \in [Objects -> Int]
ASSUME AnswersAssumption == Answers \subseteq Int

VARIABLES sort,   \* mulle_qsort_pointers
          given,  \* what it was called with
          sound   \* of the comparator

sortingVars == <<sort, given, sound>>

SortingInit ==
  /\ sort = Sort(<<>>)
  /\ given = <<>>
  /\ sound = TRUE

StartSort(v, honest) ==
  /\ sort' = Sort(v)
  /\ given' = v
  /\ sound' = honest

IsSound(answer, a, b) ==
  /\ answer < 0 <=> Worth[a] < Worth[b]
  /\ answer > 0 <=> Worth[a] > Worth[b]

Sorts == ~Done(sort) /\ sort.walks # "broken"

Compare(answer) ==
  /\ Sorts
  /\ sound => IsSound(answer, Walker(sort), Pivot(sort))
  /\ sort' = Compared(sort, answer)
  /\ UNCHANGED <<given, sound>>

\* The comparator raises an exception.
Raise ==
  /\ Sorts
  /\ sort' = [sort EXCEPT !.todo = <<>>, !.walks = "raised"]
  /\ UNCHANGED <<given, sound>>

SortingStep == (\E answer \in Answers: Compare(answer)) \/ Raise

SortingNext ==
  \/ \E v \in Seq(Objects), honest \in BOOLEAN: Done(sort) /\ StartSort(v, honest)
  \/ SortingStep

SortingSpec == SortingInit /\ [][SortingNext]_sortingVars
-----------------------------------------------------------------------------
Occurrences(o, v) == Cardinality({k \in DOMAIN v: v[k] = o})
Rearranged(v, w) == \A o \in Objects: Occurrences(o, v) = Occurrences(o, w)

\* Whatever the comparator answers, and wherever an exception ends it, the
\* sort loses no object and repeats none.
SortKeepsAll == Rearranged(sort.v, given)

\* The ranges still to be sorted are inside of the storage and apart, the
\* walkers are inside of the current one; so the sort never touches what is
\* not the array's, however the comparator answers.
SortStaysInside ==
  /\ \A k \in DOMAIN sort.todo:
       /\ sort.todo[k].base >= 0
       /\ sort.todo[k].base + sort.todo[k].n <= Len(sort.v)
  /\ ~Done(sort) => /\ 0 <= sort.i /\ sort.i < Current(sort).n
                    /\ 0 <= sort.j /\ sort.j < Current(sort).n

\* The recursion goes no deeper than the logarithm of the length.
SortIsShallow == 2 ^ Len(sort.todo) <= Len(sort.v) + 1

\* A sound comparator gets what it asked for; it is never called broken.
SortSorts ==
  /\ sound => sort.walks # "broken"
  /\ sound /\ Done(sort) /\ sort.walks # "raised" =>
       \A a, b \in DOMAIN sort.v: a < b => Worth[sort.v[a]] <= Worth[sort.v[b]]

\* Places of the storage that are in one of the ranges still to be sorted.
Within(range, p) == range.base < p /\ p <= range.base + range.n
Together(todo, p, q) ==
  \E k \in DOMAIN todo: Within(todo[k], p) /\ Within(todo[k], q)

Unsettled(s) ==
  {pair \in (1..Len(s.v)) \X (1..Len(s.v)):
     pair[1] # pair[2] /\ Together(s.todo, pair[1], pair[2])}

\* Every answer of the comparator, however it contradicts the others, brings
\* the sort nearer to its end: it ends it, or parts two places for good, or
\* brings the walkers together.  So a sort of mulle_qsort_pointers asks for
\* no more answers than its length allows.
SortComesNearer ==
  [][Sorts =>
       \/ ~Sorts'
       \/ /\ Unsettled(sort') \subseteq Unsettled(sort)
          /\ Unsettled(sort') # Unsettled(sort)
       \/ sort'.todo = sort.todo /\ sort'.j - sort'.i < sort.j - sort.i]_sort
=============================================================================
