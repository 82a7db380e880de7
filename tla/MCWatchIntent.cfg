\* Two requests at a time; two clicks and two confirmations with retries.
SPECIFICATION Spec
CONSTANTS
  Clients     = {c1, c2}
  CreateKeys  = {k1, k2}
  ConfirmKeys = {q1}
  Offers      = {o1}
  Intents     = {i1, i2}
  Due         = 1
  Expiry      = 2
  MaxClock    = 3
  None        = None
SYMMETRY Symmetry
INVARIANTS
  TypeOK
  ConstraintsNeverFire
  ViewingBacked
  AnswersMatchRows
PROPERTIES
  IntentLifecycle
  ExactlyOncePerKey
