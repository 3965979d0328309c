SPECIFICATION Spec
CONSTANTS
  o1 = o1
  o2 = o2
  o3 = o3
  o4 = o4
  Objects = {o1, o2, o3, o4}
  Worth <- MCWorth
  Answers <- MCAnswers
  MinimumSize = 2
  Unknown = Unknown
  Contents <- MCContents
  Capacities = {1}
  MaxCount = 4
  MaxMutations = 3
  MaxSetMutations = 5
  PortionLength = 2
INVARIANTS
  SortKeepsAll
  SortStaysInside
  SortIsShallow
  SortSorts
  ArrayIsSound
  OrderMatchesTable
  LoopShowsTheStart
  LoopShowsAll
  MovesKeepTheRest
PROPERTIES
  SortComesNearer
  SortEnds
