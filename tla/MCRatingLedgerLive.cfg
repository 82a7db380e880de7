\* One catalog, one value and two revisions; the circles of waiting
\* transactions are all there.  No symmetry, for the liveness property.
SPECIFICATION LiveSpec
CONSTANTS
  m1 = m1
  m2 = m2
  f1 = f1
  f2 = f2
  d1 = d1
  d2 = d2
  Movies      = {m1, m2}
  Flavors     = {f1, f2}
  Dimensions  = {d1, d2}
  Values      = {1}
  Catalogs   <- MCOneCatalog
  Requests    = {r1, r2}
  MaxRevision = 2
  None        = None
PROPERTIES
  RequestsEnd
