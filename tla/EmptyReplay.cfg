\* A retry arrives between the two SETs of the first attempt.
CONSTANTS
  Attempts = {a1, a2}
  NoAttempt = NoAttempt
CHECK_DEADLOCK FALSE
SPECIFICATION Spec
INVARIANTS
  RetryMeetsResultOrConflict
