\* Every method, with timeouts that are not negative and a calendar that may be
\* set; holders let go.
SPECIFICATION LettingGoSpec

CONSTANTS
  Threads = {t1, t2}
  Values = {v0, v1}
  AnyValue = any
  Free = free
  Forever = forever
  Methods = {"timeout", "before", "until", "wait", "waitTimeout"}
  Limits = {1, forever}
  Timeouts = {1}
  MaxTime = 1
  MaxAdjustments = 1

INVARIANTS
  TypeOK
  OwnsWhatItTakesForGranted
  GrantedOnCondition
  FlagFollowsMutex

PROPERTIES
  ImplementsConditionLock
  GivesUpInTime
  CallsReturn
