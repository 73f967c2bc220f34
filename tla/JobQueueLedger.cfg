SPECIFICATION Spec
CONSTANTS
  Jobs = {j1, j2}
  Workers = {w1, w2}
  Clients = {c1}
  ListLimit = 2
  MaxRequests = 1
  MaxReclaims = 0
  MaxCrashes = 1
  MaxTime = 0
SYMMETRY Symmetry
PROPERTIES LedgerSpec
