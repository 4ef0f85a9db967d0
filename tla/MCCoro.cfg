SPECIFICATION EitherSpec
CONSTANTS
  Coros = {c1, c2, c3}
  Members = {c1, c2, c3, c4}
  Main = main
  Serials = {s1, s2}
  MaxUse = 4
  MaxDepth = 2
  Sess = {s1, s2}
  Tags = {t1}
  MaxOps = 7
  Nil = nil
INVARIANTS NoUseAfterFree NoLeak OneQueue Registered ForkCounted
PROPERTIES OnlyOldWaiters
CHECK_DEADLOCK FALSE
