SPECIFICATION Spec
CONSTANTS
  None = none
  Tasks = {t1, t2}
  Names = {a}
  Workers = {w1}
  Nets = {n1}
  Others = {}
  Main = main
  MaxUse = 1
INVARIANTS NoUseAfterFree RefsCounted NamesAgree StartupFirst GoneBeforeStop
SYMMETRY TaskSymmetry
