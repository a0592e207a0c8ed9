SPECIFICATION TurnsSpec
CONSTANTS
  MaxTurns = 3
  Engines = {"whole", "scoped"}
  SessionFileMayBeLost = FALSE
  Texts = {"a", "b"}
INVARIANTS SkipRemainingIsJudged
CHECK_DEADLOCK FALSE
