SPECIFICATION MCSpec
CONSTANTS
  t1 = t1
  t2 = t2
  Tasks = {t1, t2}
  Iterations <- OneIteration
  IterationOf <- TasksTogether
  Outcomes = {"PASS", "ERROR"}
  MaxSafeInteger = 100
  SinkFaults = {"torn", "late"}
  MaxTicks = 1
  Callers = {beater, publisher}
  NoCaller = NoCaller
  Lines = {progress, malformed}
  ValidLines = {progress}
  MaxSequence = 2
  RecordSize = 3
INVARIANTS UnterminatedIsExplained
           TypeOK CountersAgree RunningAgrees SnapshotsAreValid LogTellsState HeartbeatJoined
           LogIsSound
PROPERTIES ImplementsPublisher EveryCallReturns
           FinishedIsFinal Monotone ImplementsProtocol FinishReturns
