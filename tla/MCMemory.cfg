SPECIFICATION Spec
CONSTANTS
  Types <- MCTypes
  Elem <- Scalar
  SliceVars = {s, t}
  Scalars = {0, 1}
  MaxCells = 6
  Makes <- MCMakes
  Cuts <- MCCuts
  MaxSpare = 1
SYMMETRY Symmetry
INVARIANTS
  NoSharing
  PointersStay
PROPERTIES
  ImplementsGoMemory
CHECK_DEADLOCK FALSE
