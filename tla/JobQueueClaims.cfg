SPECIFICATION Spec
CONSTANTS
  Jobs = {j1}
  Workers = {w1, w2}
  Clients = {c1}
  ListLimit = 1
  MaxRequests = 2
  MaxReclaims = 1
  MaxCrashes = 1
  MaxTime = 0
SYMMETRY Symmetry
INVARIANTS BoundedOverlap LaunchesRequested NothingOrphaned
PROPERTY CancelSticks
