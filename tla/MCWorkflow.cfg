SPECIFICATION AllFairSpec
CONSTANTS
  Wrapped = FALSE
  MaxParams = 1
  MaxGoroutines = 2
  Ctxs = {c1, c2}
INVARIANTS
  PanicsContained
  ReasonTold
  UntranslatedOnlyTorn
  ErrAfterDone
  CanceledForReason
PROPERTIES
  Finishes
  CancelReaches
  WatchersEnd
