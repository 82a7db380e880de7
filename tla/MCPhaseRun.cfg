SPECIFICATION LiveSystem
CONSTANTS
  Attempts   = {a1, a2}
  NumPhases  = 2
  Reviews    = {2}
  Versions   = {v1, v2}
  None       = None
  Containers <- MCContainers
CHECK_DEADLOCK FALSE
INVARIANTS
  SystemTypeOK
  UnverifiedKeepsClaim
  LeaseOverVerifiedChain
  LateClaimIsRefused
  OneContainer
  CleanMeansStopped
  CompleteMeansStopped
PROPERTIES
  ImplementsChain
  UndisturbedLeaseCloses
