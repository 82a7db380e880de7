SPECIFICATION Spec
CONSTANTS
  m1 = m1
  m2 = m2
  f1 = f1
  f2 = f2
  d1 = d1
  d2 = d2
  Movies      = {m1, m2}
  Flavors     = {f1, f2}
  Dimensions  = {d1, d2}
  Values      = {1, 5}
  Catalogs   <- MCCatalogs
  Requests    = {r1, r2}
  MaxRevision = 3
  None        = None
SYMMETRY Symmetry
INVARIANTS
  TypeOK
  LedgerBalances
  ActiveHasFrame
  ChecksNeverFire
PROPERTIES
  NoLostUpdate
  ImplementsAtomicRatings
