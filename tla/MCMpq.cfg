SPECIFICATION RingSpec
CONSTANTS
  Producers = {p1, p2}
  Consumers = {c1, c2}
  Observers = {o1}
  c1 = c1
  c2 = c2
  Uses <- OneOrTwo
  Cap = 2
  Word = 16
  Start = 14
  MaxPush = 2
  MaxBatch = 2
  Void = void
PROPERTIES ImplementsClaimQueue AnswersTrue
SYMMETRY ProducerSymmetry
