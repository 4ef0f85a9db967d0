SPECIFICATION EitherSpec
CONSTANTS
  Timers = {p1, p2}
  Producers = {p1, p2}
  Senders = {p1, p2}
  Receivers = {c1, c2}
  MaxSend = 3
  Consumers = {c1, c2}
  Observers = {o1}
  c1 = c1
  c2 = c2
  Uses <- OneOrTwo
  FastCap = 1
  MaxPush = 2
  MaxBatch = 2
  MaxWant = 2
  Free = free
  Caps = {0, 2}
  TVR_SIZE = 4
  TVN_SIZE = 2
  Timeouts = {3, 10, 63}
  Starts = {14}
  AddWithin = 1
  MaxLag = 2
  Horizon = 66
INVARIANTS InOrder EmptySound SendsAreTrue NobodyForgotten OnTime
SYMMETRY ProducerSymmetry
CHECK_DEADLOCK FALSE
