SPECIFICATION Spec
CONSTANTS
  Id = {i1}
  Take = {t1, t2}
  None = None
  MaxAttempts = 1
  LockExpiration = 1
  TimeToLive = 1
  RetryDelays = {1}
  IndexBatchSize = 1
  MaxSeq = 2
  MaxTime = 2
INVARIANT FailedWasDelivered
