SPECIFICATION TurnsFairSpec
CONSTANTS
  Profiles <- AllProfiles
  MaxTurns = 3
  TurnThreshold = 3
  KeepLast = 2
  LoopCompactions = 1
  RetryLimit = 1
  Rounds = 2
  NativeModels = {"chosen", "default"}
  MaxCalls = 2
  MaxInputs = 3
INVARIANTS TurnTypesOK TurnsBounded PromptAccepted CallsAnswered
PROPERTIES LoopEnds TurnEnds
CHECK_DEADLOCK FALSE
