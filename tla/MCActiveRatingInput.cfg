\* Two rating changes of one or two users, two workers, three attempts; no
\* symmetry, for the liveness property.
SPECIFICATION LiveSpec
CONSTANTS
  Events      = {1, 2}
  Workers     = {w1, w2}
  Users       = {u1, u2}
  Movies      = {m1, m2}
  MaxAttempts = 3
  None        = None
INVARIANTS
  TypeOK
  LatestHeals
  ProcessedIsReflected
  AppliedOnce
  NeverCorrupt
PROPERTIES
  ImplementsDispatcher
  CatchesUp
CHECK_DEADLOCK FALSE
