SPECIFICATION FairSpec
CONSTANTS
  o1 = o1
  o2 = o2
  o3 = o3
  r1 = r1
  r2 = r2
  r3 = r3
  None = None
  Owner = {o1, o2, o3}
  Request = {r1, r2, r3}
  OwnerOf <- MCOwnerOf
  IdOf <- MCIdOf
  ApiVersion <- MCApiVersion
INVARIANTS
  HandlesOutliveFutures
  TransactionHeldOnce
  ReleasedCleanly
  NetworkRunsForOwners
PROPERTIES
  ReleaseEnds
CHECK_DEADLOCK FALSE
