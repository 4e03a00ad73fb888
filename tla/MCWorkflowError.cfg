SPECIFICATION AllSpec
CONSTANTS
  Wrapped = TRUE
  MaxParams = 3
  MaxGoroutines = 2
  Ctxs = {c1}
INVARIANTS
  ErrorMeansPanic
