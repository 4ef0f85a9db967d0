SPECIFICATION FairSpec
CONSTANTS
  Threads = {t1, t2, t3, t4}
  NSlots = 2
  MaxDepth = 2
  MaxWrite = 2
  None = none
INVARIANTS Exclusive
PROPERTIES EveryoneGetsIn
