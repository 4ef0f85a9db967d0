SPECIFICATION Spec
CONSTANTS
  t1 = t1
  t2 = t2
  w1 = w1
  w2 = w2
  Tasks = {t1}
  Workers = {w1, w2}
  Nets = {}
  Posters = {p1, p2}
  Main = main
  None = none
  Weight <- TwoWeights
  Priority <- NoPriority
  MsgBatch = 2
  MaxPosts <- PostersOnce
  MaxNest = 1
INVARIANTS OneRunner GlobalHeld NoLostWakeup
PROPERTIES ImplementsMailbox
SYMMETRY PosterSymmetry
