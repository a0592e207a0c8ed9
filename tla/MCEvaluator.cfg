SPECIFICATION MCSpec
CONSTANTS
  t1 = t1
  t2 = t2
  t3 = t3
  Tasks = {t1, t2, t3}
  Iterations <- TwoIterations
  IterationOf <- IterationOfTask
  Plan <- TaskPlan
  Baseline = {t2}
  Outcomes = {"PASS", "ERROR"}
  Concurrency = 2
  NoResult = NoResult
  MaxSafeInteger = 100
  MaxTicks = 0
  SinkFaults = {"refused"}
  MaxRetries = 2
  RetryOn = {"timeout"}
  HasTimeout = TRUE
  JudgeTypes = {"none", "rule_based", "script", "agent_judge"}
  MaxTurns = 3
  Engines = {"whole", "scoped"}
  SessionFileMayBeLost = FALSE
  Texts = {"a", "b"}
INVARIANTS CallsAreLegal FinalRecordIsTrue SuccessIsDeserved PoolIsSound
           RuntimesBalanced RetriesJustified ResultsCoherent SharedProvisioningAgrees
           TurnsAccounted VerdictDeserved OneConversation CountedOnce
PROPERTIES CommandEnds CaseReturns
CHECK_DEADLOCK FALSE
