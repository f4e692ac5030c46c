\* A handler raises.
CONSTANTS
  Attempts = {a1, a2}
  NoAttempt = NoAttempt
CHECK_DEADLOCK FALSE
SPECIFICATION Spec
INVARIANTS
  FailureFreesKey
