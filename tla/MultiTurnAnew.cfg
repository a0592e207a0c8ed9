SPECIFICATION TurnsSpec
CONSTANTS
  MaxTurns = 3
  Engines = {"whole"}
  SessionFileMayBeLost = FALSE
  Texts = {"a", "b"}
INVARIANTS NoTurnWithoutSession
CHECK_DEADLOCK FALSE
