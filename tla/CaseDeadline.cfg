SPECIFICATION CaseSpec
CONSTANTS
  MaxRetries = 0
  RetryOn = {"timeout"}
  HasTimeout = TRUE
  JudgeTypes = {"script"}
INVARIANTS DeadlineIsError
CHECK_DEADLOCK FALSE
