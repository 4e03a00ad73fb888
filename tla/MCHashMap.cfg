SPECIFICATION FairSpec
CONSTANTS
  Keys = {"zero", "negzero", "other", "apart", "nan"}
  Values = {"v", "w"}
  HashOf <- MCColliding
  ClassOf <- MCClassOf
  NaNs = {"nan"}
  MaxEntries = 3
INVARIANTS
  ListsOK
  RangeOnce
PROPERTIES
  ImplementsGoMap
  RangeComplete
  RangeFresh
  RangeEnds
