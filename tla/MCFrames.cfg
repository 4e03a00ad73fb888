SPECIFICATION FairSpec
CONSTANTS
  MaxWork = 5
  RaiseKinds = {"target", "runtime", "exit"}
INVARIANTS
  WellNested
  PanicsOrdered
  DefersInOrder
PROPERTIES
  DefersRunLIFO
  RecoverDirect
  PanicsAccounted
  Ends
