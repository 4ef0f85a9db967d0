SPECIFICATION Spec
CONSTANTS
  Users = {u1, u2, u3}
  Main = main
  Tick = tick
  Conns = {k1, k2}
  MinIdle = 1
  Nil = nil
INVARIANTS OneHolder NoUseAfterFree NothingLeft NoneStranded
CHECK_DEADLOCK FALSE
