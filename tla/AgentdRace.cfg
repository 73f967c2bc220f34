SPECIFICATION Spec
CONSTANTS
  f1 = f1  f2 = f2  f3 = f3
  good = good  bad = bad
  Files = {f1, f2, f3}
  Payloads = {good, bad}
  Valid = {good}
  PayloadOf <- TwoOfOne
  Parts = {"inbox", "outbox", "service"}
  Daemons = {d1, d2}
  MaxCutPulls = 1
  Events = {e1}
  MaxAttempts = 2
  BaseDelay = 1
  MaxDelay = 1
  MaxVersions = 2
  MaxLag = 0
  MaxCutPushes = 1
  MaxLoops = 3
  MaxJobs = 2
  StopWhenIdle = TRUE
  DiskFaults = TRUE
  MaxSteps = 1
  MaxFailures = 1
  MaxCalls = 1
INVARIANTS SubmittedBounded MessagesKept EventsKept
SYMMETRY DaemonSymmetry
