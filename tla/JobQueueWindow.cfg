SPECIFICATION FairSpec
CONSTANTS
  Jobs = {j1, j2}
  Workers = {w1}
  Clients = {c1}
  ListLimit = 1
  MaxRequests = 1
  MaxReclaims = 0
  MaxCrashes = 0
  MaxTime = 1
PROPERTIES QueuedIsServed
