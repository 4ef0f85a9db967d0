SPECIFICATION EitherSpec
CONSTANTS
  MaxQueue = 3
  MaxIov = 2
  MaxLives = 2
  MaxCmds = 2
  Watchers = {w0, w1}
  Zero = w0
  Users = {u}
  Listeners = {l}
  MaxConns = 2
  Nil = nil
INVARIANTS AliveWhileReached OneFarewell NotStranded
CHECK_DEADLOCK FALSE
