SPECIFICATION ArithSpec
CONSTANTS
  Widths = {2, 3, 4}
  IntBits = 4
  MaxLength = 3
INVARIANTS
  ArithIsGo
  ConvIsGo
