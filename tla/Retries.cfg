\* Four deliveries of one request, any of which may fail or die; when all are
\* through and the key has expired the system rests.
CONSTANTS
  Attempts = {a1, a2, a3, a4}
  NoAttempt = NoAttempt
CHECK_DEADLOCK FALSE
SPECIFICATION FairSpec
INVARIANTS
  TypeOK
  OneWorks
  AtMostOneEffect
PROPERTIES
  ResponseIsStable
  KeysAreReleased
