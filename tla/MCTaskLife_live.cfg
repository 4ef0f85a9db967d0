SPECIFICATION FairSpec
CONSTANTS
  None = none
  Tasks = {t1, t2}
  Names = {}
  Workers = {}
  Nets = {n1}
  Others = {}
  Main = main
  MaxUse = 1
PROPERTIES Settles
