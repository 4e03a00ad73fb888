SPECIFICATION Spec
CONSTANTS
  Types <- MCNoTypes
  Elem <- Inner
  SliceVars = {s, t}
  Scalars = {0, 1}
  MaxCells = 8
  Makes <- MCMakesFull
  Cuts <- MCCuts
  MaxSpare = 1
PROPERTIES
  ImplementsGoMemory
CHECK_DEADLOCK FALSE
