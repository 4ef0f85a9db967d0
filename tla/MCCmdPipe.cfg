SPECIFICATION FairSpec
CONSTANTS
  s1 = s1
  s2 = s2
  Senders = {s1, s2}
  Main = main
  MaxCmd <- TwoAndOne
  MaxRead = 2
  Again = again
INVARIANTS WakeSound OnePlace
PROPERTIES SenderOrder Settles
