SPECIFICATION JudgeSpec
CONSTANTS
  Plans <- LabelPlans
  DefaultMaxBytes = 4
INVARIANTS TimeoutBlamedRightly
CHECK_DEADLOCK FALSE
