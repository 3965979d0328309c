\* A timeout that is over before it begins.
SPECIFICATION Spec

CONSTANTS
  Threads = {t1, t2}
  Values = {v0, v1}
  AnyValue = any
  Free = free
  Forever = forever
  Methods = {"timeout"}
  Limits = {0}
  Timeouts <- Overdue
  MaxTime = 1
  MaxAdjustments = 0

INVARIANT RefusedWithoutMutex
