SPECIFICATION FairSpec
CONSTANTS
  f1 = f1  f2 = f2  f3 = f3
  good = good  bad = bad
  Files = {f1, f2, f3}
  Payloads = {good, bad}
  Valid = {good}
  PayloadOf <- TwoOfOne
  Parts = {"inbox", "outbox", "service", "executor"}
  Daemons = {d1}
  MaxCutPulls = 3
  Events = {e1}
  MaxAttempts = 4
  BaseDelay = 1
  MaxDelay = 2
  MaxVersions = 2
  MaxLag = 1
  MaxCutPushes = 2
  MaxLoops = 6
  MaxJobs = 4
  StopWhenIdle = FALSE
  DiskFaults = FALSE
  MaxSteps = 5
  MaxFailures = 2
  MaxCalls = 3
INVARIANTS TypesOK DuplicatesBounded TurnsBounded SavedAtHome
PROPERTIES Handled Settled JobEnds
