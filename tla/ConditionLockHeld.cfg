\* Nobody is obliged to let go.
SPECIFICATION FairSpec

CONSTANTS
  Threads = {t1, t2}
  Values = {v0, v1}
  AnyValue = any
  Free = free
  Forever = forever
  Methods = {"before"}
  Limits = {1}
  Timeouts = {0}
  MaxTime = 1
  MaxAdjustments = 0

PROPERTY CallsReturn
