CONSTANTS
  a = a
  b = b
  Chan = {a, b}
  NilChan = NilChan
  g0 = g0
  g1 = g1
  Goroutine = {g0, g1}
  Main = g0
  Cap <- MCCap
  MaxInstr = 4
  Selects <- MCSelects
SPECIFICATION FairSpec
INVARIANTS TypeOK InOrder
PROPERTIES CaseTold CloseReleases
CHECK_DEADLOCK FALSE
