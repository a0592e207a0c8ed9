SPECIFICATION CommandSpec
CONSTANTS
  t1 = t1
  t2 = t2
  t3 = t3
  Tasks = {t1, t2}
  Iterations <- OneIteration
  IterationOf <- SameIteration
  Plan <- OneIterationPlan
  Baseline = {}
  Outcomes = {"PASS"}
  Concurrency = 2
  NoResult = NoResult
  MaxSafeInteger = 100
  MaxTicks = 0
  SinkFaults = {"refused"}
INVARIANTS CancelledRunStopped
CHECK_DEADLOCK FALSE
