SPECIFICATION Spec
CONSTANTS
  t1 = t1
  t2 = t2
  w1 = w1
  w2 = w2
  Tasks = {t1}
  Workers = {w1}
  Nets = {n1}
  Posters = {p1}
  Main = main
  None = none
  Weight <- OneWeight
  Priority <- NoPriority
  MsgBatch = 2
  MaxPosts <- NetsTwice
  MaxNest = 2
INVARIANTS InOrderOnce NoLostMessage
