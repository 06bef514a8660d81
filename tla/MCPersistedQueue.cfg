SPECIFICATION Spec
CONSTANTS
  Id = {i1, i2}
  Take = {t1, t2}
  None = None
  MaxAttempts = 2
  LockExpiration = 1
  TimeToLive = 1
  RetryDelays = {1}
  IndexBatchSize = 1
  MaxSeq = 2
  MaxTime = 2
SYMMETRY Symmetry
INVARIANTS
  IndexesConsistent
  NoLostWakeup
  HoldsOnlyItsElement
  QueuedHasAttemptsLeft
PROPERTIES
  OwnershipRespected
  SettledIsFinal
  ImplementsPromise
