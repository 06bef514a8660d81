SPECIFICATION Spec
CONSTANTS
  Key = {k1}
  Client = {c1, c2}
  Staging = {}
  Retrying = {c1, c2}
  None = None
  Ttls = {None}
  GarbageDelay = 1
  ChunkCount = 1
  CleanupBatchSize = 1
  MaxIdentity = 2
  MaxEpoch = 0
  MaxTime = 0
INVARIANT ManifestComplete
