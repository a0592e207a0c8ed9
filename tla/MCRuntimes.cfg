SPECIFICATION MCSpec
CONSTANTS
  Kinds = {"none", "docker", "opensandbox"}
  Policies = {"unset", "deny_all", "allow_declared"}
  Paths <- SomePaths
  ExitCodes = {0, 1}
  SearchResults <- Searches
  Parallelisms = {2, 0}
  MaxCalls = 2
  Plans <- AllPlans
  DefaultMaxBytes = 4
INVARIANTS HandleTellsTheTruth ExecIsHonest TransfersAreWhole
           VerdictIsEarned SessionsCounted JudgeReadsItsMaterial
PROPERTIES CallsReturn
CHECK_DEADLOCK FALSE
