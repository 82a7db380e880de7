\* An evaluator that ends in time, and more samples than the pipe holds.
SPECIFICATION Spec
CONSTANTS
  RuntimeMax = 3
  Grace      = 1
  Overtime   = 1
  PipeRoom   = 2
CHECK_DEADLOCK FALSE
INVARIANTS
  PassIsNoTimeout
