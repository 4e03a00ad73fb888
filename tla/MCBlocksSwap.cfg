SPECIFICATION Spec
CONSTANTS
  x = x
  y = y
  x0 = x0
  y0 = y0
  cond = cond
  Reg = {x, y, x0, y0, cond}
  Val = {0, 1}
  Block = {"entry", "loop", "exit"}
  First = "entry"
  Preds <- MCPreds
  Phis <- MCPhis
INVARIANT PhisParallel
CHECK_DEADLOCK FALSE
