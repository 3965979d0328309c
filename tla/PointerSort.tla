----------------------------- MODULE PointerSort -----------------------------
(***************************************************************************)
(* mulle_qsort_pointers, a call of the comparator at a time.  Between two  *)
(* calls the sort is a record: the storage "v", the ranges that are not    *)
(* sorted yet, "todo", of which the last is being partitioned around its   *)
(* first pointer, and the two places "i" and "j" that walk towards each    *)
(* other.  Places count from 0, in the range.                              *)
(***************************************************************************)
EXTENDS Integers, Sequences

\* One frame of the recursion, or what its loop has yet to do.
Run(base, n) == [base |-> base, n |-> n]

Swapped(v, a, b) ==
  [v EXCEPT ![a + 1] = v[b + 1], ![b + 1] = v[a + 1]]

\* while( n > 1): of the ranges in todo, those behind the last that is long
\* enough are done.  Its middle becomes the pivot.
Started(v, todo) ==
  LET long  == {k \in DOMAIN todo: todo[k].n > 1}
      last  == CHOOSE k \in long: \A l \in long: l <= k
      range == todo[last]
  IN  IF long = {}
      THEN [v |-> v, todo |-> <<>>, i |-> 0, j |-> 0, walks |-> "none"]
      ELSE [v |-> Swapped(v, range.base, range.base + (range.n \div 2)),
            todo |-> SubSeq(todo, 1, last),
            i |-> 0, j |-> range.n - 1, walks |-> "j"]

Sort(v) == Started(v, <<Run(0, Len(v))>>)

Current(s) == s.todo[Len(s.todo)]
Done(s) == s.todo = <<>>

\* The pointer the comparator is called with, and the pivot.
Walker(s) == s.v[Current(s).base + (IF s.walks = "j" THEN s.j ELSE s.i) + 1]
Pivot(s) == s.v[Current(s).base + 1]

\* Mistakes for the runs to find: the longer part is sorted first; the
\* pivot stays in the part behind it; that part is a pointer too long.
PartitionedLongFirst(s) ==
  LET range == Current(s)
      left  == Run(range.base, s.j)
      right == Run(range.base + s.j + 1, range.n - s.j - 1)
      outer == SubSeq(s.todo, 1, Len(s.todo) - 1)
  IN  Started(Swapped(s.v, range.base + s.j, range.base),
              outer \o IF left.n < right.n THEN <<left, right>>
                                           ELSE <<right, left>>)
PartitionedWithPivot(s) ==
  LET range == Current(s)
      left  == Run(range.base, s.j)
      right == Run(range.base + s.j, range.n - s.j)
      outer == SubSeq(s.todo, 1, Len(s.todo) - 1)
  IN  Started(Swapped(s.v, range.base + s.j, range.base),
              outer \o <<right, left>>)
PartitionedTooLong(s) ==
  LET range == Current(s)
      left  == Run(range.base, s.j)
      right == Run(range.base + s.j + 1, range.n - s.j)
      outer == SubSeq(s.todo, 1, Len(s.todo) - 1)
  IN  [s EXCEPT !.v = Swapped(@, range.base + s.j, range.base),
                !.todo = outer \o <<left, right>>]

\* The walkers have met at j: the pivot goes there, the shorter part is
\* sorted by the recursion, then the other by the loop.
Partitioned(s) ==
  LET range == Current(s)
      left  == Run(range.base, s.j)
      right == Run(range.base + s.j + 1, range.n - s.j - 1)
      outer == SubSeq(s.todo, 1, Len(s.todo) - 1)
  IN  Started(Swapped(s.v, range.base + s.j, range.base),
              outer \o IF left.n < right.n THEN <<right, left>>
                                           ELSE <<left, right>>)

\* A mistake for the runs to find: the walkers stop with a pointer between
\* them that was not compared.
IncrementShort(s) ==
  IF s.i + 2 >= s.j THEN Partitioned(s)
  ELSE [s EXCEPT !.i = @ + 1, !.walks = "i"]

IncrementI(s) ==
  IF s.i + 1 >= s.j THEN Partitioned(s)
  ELSE [s EXCEPT !.i = @ + 1, !.walks = "i"]

\* A mistake for the runs to find: a pointer is copied and not swapped.
ComparedCopying(s, answer) ==
  CASE s.walks = "j" /\ answer > 0 /\ s.j = 0 -> [s EXCEPT !.walks = "broken"]
    [] s.walks = "j" /\ answer > 0 /\ s.j > 0 -> [s EXCEPT !.j = @ - 1]
    [] s.walks = "j" /\ answer <= 0           -> IncrementI(s)
    [] s.walks = "i" /\ answer < 0            -> IncrementI(s)
    [] s.walks = "i" /\ answer >= 0           ->
         [s EXCEPT !.v[Current(s).base + s.i + 1] = s.v[Current(s).base + s.j + 1],
                   !.j = @ - 1, !.walks = "j"]

\* What the sort does with the answer of the comparator.  It calls abort()
\* if the pivot is told to be greater than itself.
Compared(s, answer) ==
  CASE s.walks = "j" /\ answer > 0 /\ s.j = 0 -> [s EXCEPT !.walks = "broken"]
    [] s.walks = "j" /\ answer > 0 /\ s.j > 0 -> [s EXCEPT !.j = @ - 1]
    [] s.walks = "j" /\ answer <= 0           -> IncrementI(s)
    [] s.walks = "i" /\ answer < 0            -> IncrementI(s)
    [] s.walks = "i" /\ answer >= 0           ->
         [s EXCEPT !.v = Swapped(@, Current(s).base + s.i,
                                    Current(s).base + s.j),
                   !.j = @ - 1, !.walks = "j"]
=============================================================================
