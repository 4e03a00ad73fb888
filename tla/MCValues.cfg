SPECIFICATION FairSpec
CONSTANTS
  Types <- MCTypes
  DynTypes <- MCDynTypes
  Literals <- MCLiterals
  MaxDepth = 3
  Threads = {t1, t2}
  TypeHash <- MCTypeHash
  ScalarHash <- MCScalarHash
INVARIANTS
  EqualsIsGo
  BuiltinMapAgrees
  HashAgrees
  AssertTells
PROPERTIES
  HashEnds
CHECK_DEADLOCK FALSE
