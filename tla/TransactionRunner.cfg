SPECIFICATION FairSpec
CONSTANTS
  Call = {c1, c2}
  RetryLimit = 2
  Refusing = {c2}
  Reporting = {c1}
  None = None
INVARIANTS
  AnswersHoldUnlessCancelled
  RefusedAtMostOnce
  FuturesOfLiveAttempt
  HandleInStep
PROPERTIES
  EveryCallEnds
CHECK_DEADLOCK FALSE
