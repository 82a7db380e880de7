\* An evaluator of three intervals; the pipe holds two of up to four samples.
SPECIFICATION LiveSpec
CONSTANTS
  RuntimeMax = 3
  Grace      = 1
  Overtime   = 1
  PipeRoom   = 2
CHECK_DEADLOCK FALSE
INVARIANTS
  TypeOK
  OutcomeIsTrue
PROPERTIES
  SupervisionEnds
