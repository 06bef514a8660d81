SPECIFICATION Spec
CONSTANTS
  Call = {c1}
  RetryLimit = 1
  Refusing = {c1}
  Reporting = {}
  None = None
INVARIANT AnswersHold
CHECK_DEADLOCK FALSE
