SPECIFICATION TurnsSpec
CONSTANTS
  MaxTurns = 3
  Engines = {"whole"}
  SessionFileMayBeLost = TRUE
  Texts = {"a", "b"}
INVARIANTS NothingTwice
CHECK_DEADLOCK FALSE
