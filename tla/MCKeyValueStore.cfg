SPECIFICATION MCSpec
CONSTANTS
  None = None
  Client = {c1, c2}
  Name <- MCName
  Path <- MCPath
  StorePath <- MCStorePath
  ManualPrefix <- MCManualPrefix
  Options <- MCOptions
  MaxNumber = 2
  Draws <- MCDraws
  StoreKey = {k}
SYMMETRY Symmetry
INVARIANTS
  TreeOK
  RowsOwned
  SizeExact
PROPERTIES
  NewPrefixesFree
CHECK_DEADLOCK FALSE
