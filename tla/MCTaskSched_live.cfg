SPECIFICATION FairSpec
CONSTANTS
  t1 = t1
  t2 = t2
  w1 = w1
  w2 = w2
  Tasks = {t1}
  Workers = {w1, w2}
  Nets = {n1}
  Posters = {p1}
  Main = main
  None = none
  Weight <- TwoWeights
  Priority <- NoPriority
  MsgBatch = 2
  MaxPosts <- HandlersOnce
  MaxNest = 1
PROPERTIES EventuallyHandled WorkersJoin
