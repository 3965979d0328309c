\* Two threads, no callback into the center: the races around the lock, against the promise.
SPECIFICATION Spec
CONSTANTS
  Threads = {t1, t2}
  Observers = {o1, o2}
  Names = {willFinalize}
  Senders = {}
  Nil = nil
  Omniscient = omniscient
  WillFinalize = willFinalize
  Unlocked = unlocked
  MaxGeneration = 3
  MaxDepth = 1
  MaxNotifying = 1
  Regs = {0, 1, 2, 3}
SYMMETRY Symmetry
INVARIANTS
  TypeOK
  LockDiscipline
  CopyIsCurrent
PROPERTY
  ImplementsDelivery
