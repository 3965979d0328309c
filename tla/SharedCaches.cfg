SPECIFICATION Spec
CONSTANTS
  Threads = {t1, t2}
  Buffers = {b1, b2, b3}
  NULL = NULL
  Kind = "ASCII"
  Caches = {languages, countries}
  Lists = {l1, l2}
  nil = nil
INVARIANTS
  MemoryIsSound
PROPERTIES
  DecidedOnce
  EveryoneIsAnswered
