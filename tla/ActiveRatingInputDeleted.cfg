\* BR-C1-038 is violated: a rating, its deletion, and a dead letter.
SPECIFICATION Spec
CONSTANTS
  Events      = {1, 2}
  Workers     = {w1}
  Users       = {u1}
  Movies      = {m1}
  MaxAttempts = 2
  None        = None
INVARIANTS
  DeletedLeavesInput
CHECK_DEADLOCK FALSE
