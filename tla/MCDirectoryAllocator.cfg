SPECIFICATION Spec
CONSTANTS
  t1 = t1
  t2 = t2
  f1 = f1
  f2 = f2
  f3 = f3
  Transaction = {t1, t2}
  Fiber = {f1, f2, f3}
  TransactionOf <- MCTransactionOf
  None = None
  SmallWindow = 3
  LargeWindow = 5
  Boundary = 3
  Starts = {0, 3}
  MaxCount = 2
  MaxGiven = 3
SYMMETRY Symmetry
INVARIANTS
  PrefixesUnique
  RecentCoversWindow
  WindowHasRoom
PROPERTIES
  WindowsAdvance
\* Once MaxGiven prefixes are handed out no transaction begins.
CHECK_DEADLOCK FALSE
