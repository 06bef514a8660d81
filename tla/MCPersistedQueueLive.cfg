SPECIFICATION FairSpec
CONSTANTS
  Id = {i1}
  Take = {t1, t2}
  None = None
  MaxAttempts = 1
  LockExpiration = 1
  TimeToLive = 1
  RetryDelays = {1}
  IndexBatchSize = 2
  MaxSeq = 1
  MaxTime = 2
PROPERTIES
  WaitingTakeFindsWork
