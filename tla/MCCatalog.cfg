SPECIFICATION Spec
CONSTANTS
  x = x
  y = y
  Admin = {p, q}
  Source = {x, y}
  Doris = {y}
  Null = Null
  Mine = Mine
  Schemas <- MCSchemas
  Comment <- MCComment
  Asks <- MCAsks
  Seeds <- MCSeeds
  MaxRequests = 4
  MaxChanges = 1
INVARIANTS CatalogIsSnapshot CatalogHangsTogether
PROPERTY ScansKeepAnnotations
SYMMETRY AdminSymmetry
CHECK_DEADLOCK FALSE
