SPECIFICATION MCSpec
CONSTANTS
  Def <- MCDef
  Vars <- MCVars
  Stored <- MCStored
  Initial <- MCInitial
  MaxVars = 10
  MaxNesting = 4
  Linked <- MCLinked
  MaxDepth = 22
INVARIANTS
  ValuesFit
  CallsAnswer
  ContentAsGo
  FoundAsEmulated
  
CHECK_DEADLOCK FALSE
