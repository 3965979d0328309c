\* One thread whose observers call the center again while they are called.
SPECIFICATION FairSpec
CONSTANTS
  Threads = {t1}
  Observers = {o1, o2}
  Names = {willFinalize}
  Senders = {s1}
  Nil = nil
  Omniscient = omniscient
  WillFinalize = willFinalize
  Unlocked = unlocked
  MaxGeneration = 3
  MaxDepth = 2
  MaxNotifying = 1
  Regs = {0, 1, 2, 3}
INVARIANTS
  RegistriesAgree
  QueuesInRegistrationOrder
  CalledOnceInReverse
PROPERTIES
  RemovesExactly
  CallsReturn
