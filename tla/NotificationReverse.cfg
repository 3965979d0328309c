\* The order the comment above the posting functions asks for.
SPECIFICATION Spec
CONSTANTS
  Threads = {t1}
  Observers = {o1, o2}
  Names = {willFinalize}
  Senders = {s1}
  Nil = nil
  Omniscient = omniscient
  WillFinalize = willFinalize
  Unlocked = unlocked
  MaxGeneration = 2
  MaxDepth = 1
  MaxNotifying = 0
  Regs = {0, 1, 2}
INVARIANT
  PostInReverse
