\* BR-C1-028 is violated: two clicks and the confirmation of the first.
SPECIFICATION Spec
CONSTANTS
  Clients     = {c1, c2}
  CreateKeys  = {k1, k2}
  ConfirmKeys = {q1}
  Offers      = {o1}
  Intents     = {i1, i2}
  Due         = 1
  Expiry      = 2
  MaxClock    = 2
  None        = None
SYMMETRY Symmetry
PROPERTIES
  NoIntentOnceWatched
