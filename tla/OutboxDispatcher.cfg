\* Three rows, two workers, two attempts; no symmetry, for the liveness property.
SPECIFICATION LiveSpec
CONSTANTS
  Events      = {1, 2, 3}
  Workers     = {w1, w2}
  MaxAttempts = 2
  None        = None
INVARIANTS
  TypeOK
  ClaimsExclusive
  AttemptsCounted
PROPERTIES
  EventsSettle
CHECK_DEADLOCK FALSE
