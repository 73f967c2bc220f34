SPECIFICATION Spec
CONSTANTS
  Parts = {"journal"}
  Calls <- SomeCalls
  MaxCommands = 2
  MaxSubmissions = 2
  MaxBatch = 2
  Projects = {"a", "b"}
  FlagSets = {0, 1}
  Permissions = {"workspace-write", "danger-full-access"}
  Unsafe = {"danger-full-access"}
  MaxChanges = 3
  Threads = {"sub"}
  Prompts = {"prompt"}
  MaxLoops = 2
  MaxCrashes = 1
  MaxActs = 2
  MaxAgents = 2
  MaxLaunches = 3
  MaxPieces = 6
  MaxRequests = 2
  MaxLost = 1
  PipeSize = 2
  MaxCapture = 2
  MaxWritten = 3
  Clients = {c1, c2}
  MaxHttpRequests = 5
  MaxMillis = 2
  MaxHttpFaults = 1
  PluginNames = {p1, p2}
  Processes = {s1, s2}
  Editions = {"v1", "v2"}
  MaxEdits = 1
  MaxOps = 3
  Servers = {n1}
  Sessions = {"s1", "s2"}
  MaxMcpOps = 4
  MaxPids = 1
  Branches = {"b1", "b2"}
  MaxNesting = 2
  MaxTreeOps = 6
  Blocks <- SomeBlocks
  MaxBlocks = 2
  HookScripts = {"s", "t"}
  HandWritten <- SomeHookFiles
  MaxHookRows = 3
  MaxHookOps = 1
  Triggers = {".", "go"}
  MaxVoiceOps = 3
  FileKinds <- SomeFiles
  PyChecks = 1
  SynopsisMax = 1
  FailureMax = 1
  ObservedMax = 1
  MaxWork = 4
  Texts <- SomeTexts
  Edits <- SomeEdits
  DefaultLines = 1
  MediumLines = 2
  MaxLines = 3
  Trees <- SomeTrees
  MaxHits = 2
  MaxVisited = 2
  MaxFileOps = 4
  WikiRuns = {w1, w2}
  MaxRuns = 3
  MaxSeconds = 1
  MaxTears = 1
  Benches = {"one", "two"}
  Suite <- SomeSuite
  Repeats <- SomeRepeats
  MaxRepeat = 2
  StepLimit = 1
  BenchTurns = 2
  BenchEdits <- SomeBenchEdits
  MaxBenchFaults = 1
  MaxBenchClock = 2
  Holders = {"h1", "h2"}
  ProcessIds = {"p1", "p2"}
  ProjectDirs = {"d1", "d2"}
  Secrets = {"t"}
  MaxTokenOps = 2
  MaxTokenFaults = 1
  Keepers = {k1, k2}
  CronFields <- SomeFields
  MaxKeeps = 3
  MaxKeepFaults = 1
INVARIANT CrashOffersResume
CHECK_DEADLOCK FALSE
