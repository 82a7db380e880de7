\* One click and one confirmation, the scheduler late.
SPECIFICATION Spec
CONSTANTS
  Clients     = {c1}
  CreateKeys  = {k1}
  ConfirmKeys = {q1}
  Offers      = {o1}
  Intents     = {i1}
  Due         = 1
  Expiry      = 2
  MaxClock    = 2
  None        = None
PROPERTIES
  DocumentedLifecycle
