SPECIFICATION Spec
CONSTANTS
  Key = {k1, k2}
  Client = {c1, c2}
  Staging = {c1}
  Retrying = {c1}
  None = None
  Ttls = {None, 1}
  GarbageDelay = 1
  ChunkCount = 2
  CleanupBatchSize = 1
  MaxIdentity = 3
  MaxEpoch = 1
  MaxTime = 1
SYMMETRY Symmetry
INVARIANTS
  TypeOK
  ManifestComplete
  GarbageUnreferenced
  ExpirationIndexExact
  NothingLeaks
PROPERTIES
  LiveEntriesStay
