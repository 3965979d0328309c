\* Ranges are replaced, also such that do not begin at 0.
SPECIFICATION Spec
CONSTANTS
  o1 = o1
  o2 = o2
  o3 = o3
  o4 = o4
  Objects = {o1, o2, o3, o4}
  Worth <- MCWorth
  Answers <- MCAnswers
  MinimumSize = 2
  Unknown = Unknown
  Contents <- MCContents
  Capacities = {1}
  MaxCount = 3
  MaxMutations = 2
  MaxSetMutations = 0
  PortionLength = 2
INVARIANT
  ArrayHoldsObjects
