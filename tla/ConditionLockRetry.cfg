\* The calendar is set forward during a wait.
SPECIFICATION Spec

CONSTANTS
  Threads = {t1, t2}
  Values = {v0, v1}
  AnyValue = any
  Free = free
  Forever = forever
  Methods = {"timeout"}
  Limits = {0}
  Timeouts = {0, 2}
  MaxTime = 3
  MaxAdjustments = 1

INVARIANT WaitsWithMutex
