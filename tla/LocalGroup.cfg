SPECIFICATION MCSpec
CONSTANTS
  Kinds = {"none"}
  Policies = {"unset"}
  Paths <- SomePaths
  ExitCodes = {0, 1}
  SearchResults <- Searches
  Parallelisms = {2}
  MaxCalls = 1
  Plans = {}
  DefaultMaxBytes = 4
INVARIANTS TimedOutGroupIsGone
CHECK_DEADLOCK FALSE
