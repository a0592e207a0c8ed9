--------------------------- MODULE EvaluatorProofs ---------------------------
(***************************************************************************)
(* A case and a conversation, of any size.  One case for every number of   *)
(* retries, every retry policy, with and without a timeout: its runtimes   *)
(* are balanced, its retries justified, its results coherent, and it never *)
(* runs an agent behind a shared MCP configuration that could not be       *)
(* provisioned.                                                            *)
(***************************************************************************)
EXTENDS CaseAttempts, MultiTurn, SequenceTheorems, FiniteSetTheorems, WellFoundedInduction,
        TLAPS

Errs    == {"error", "timeout"}
Results == [status : {"", "PASS", "FAIL", "ERROR"}, err : {"nil"} \cup Errs,
            annotated : BOOLEAN]

Runtimes == [state : {"none", "open", "closed"}, creations : Nat, closes : Nat]

UsingRuntime == {"setup", "running", "collecting", "expecting", "judging", "closing"}
Between      == {"sleeping", "returned"}
Steps        == {"provisioning", "creating", "deciding"} \cup UsingRuntime \cup Between

TypeInv ==
  /\ cfg \in Cases
  /\ step \in Steps
  /\ attempt \in Nat \ {0}
  /\ ctxCancelled \in BOOLEAN
  /\ attemptErr \in {"nil", "deadline", "cancelled"}
  /\ attemptErr = "deadline" => HasTimeout
  /\ mcp \in {"unset", "ready", "failed"}
  /\ rt \in Runtimes
  /\ agentRun \in {"none", "ok", "nonzero", "condition"} \cup Errs
  /\ collected \in BOOLEAN
  /\ result \in Results
  /\ history \in Seq(Results)

(* Where the pipeline is tells what it holds: no agent has run before      *)
(* "collecting", and what lies behind it has its artifacts.                *)
PipelineInv ==
  /\ rt.creations = rt.closes + (IF rt.state = "open" THEN 1 ELSE 0)
  /\ rt.state = "open" <=> step \in UsingRuntime
  /\ step \in {"provisioning", "creating", "setup", "running"} => agentRun = "none"
  /\ step = "collecting" => agentRun # "none"
  /\ step \in {"expecting", "judging", "closing"} => collected
  /\ step \in {"deciding"} \cup Between /\ agentRun # "none" => collected

(* The history has one result per attempt that ended, each but the last a  *)
(* retryable error, and the result in hand is the last of them.            *)
HistoryInv ==
  /\ Len(history) = IF step \in Between THEN attempt ELSE attempt - 1
  /\ attempt <= maxAttempts
  /\ \A k \in 1..(attempt - 1) : history[k].status = "ERROR" /\ history[k].err \in RetryOn
  /\ step \in Between => result = history[attempt]
  /\ step = "sleeping" => /\ result.status = "ERROR" /\ result.err \in RetryOn
                          /\ attempt < maxAttempts

(* Who reaches expectations and judge has a session; who leaves the        *)
(* pipeline has a verdict or an error.                                     *)
ResultInv ==
  /\ step \in {"expecting", "judging"} => agentRun \in {"ok", "nonzero"}
  /\ step \in {"closing", "deciding"} \cup Between =>
       /\ result.status \in {"PASS", "FAIL", "ERROR"}
       /\ result.status = "ERROR" <=> result.err # "nil"
       /\ result.status = "PASS" => agentRun \in {"ok", "nonzero"}
  /\ result.annotated => /\ result.err = "timeout" /\ attemptErr = "deadline"
                         /\ step \in Between

(* Past its provisioning a case that shares the MCP configuration has seen *)
(* it ready, and ready it stays.                                           *)
ProvisionedInv ==
  ~cfg.ownMCP => /\ step \in {"creating"} \cup UsingRuntime => mcp = "ready"
                 /\ agentRun # "none" => mcp = "ready"

CaseInv == TypeInv /\ PipelineInv /\ HistoryInv /\ ResultInv /\ ProvisionedInv

-----------------------------------------------------------------------------
LEMMA ResultTypes ==
  /\ NoVerdict \in Results
  /\ \A e \in Errs : Failure(e) \in Results
  /\ Verdict("PASS") \in Results /\ Verdict("FAIL") \in Results
  BY DEF NoVerdict, Failure, Verdict, Results, Errs

(* What the steps do to the runtime's record, field by field.              *)
LEMMA RuntimeClosed ==
  ASSUME NEW r \in Runtimes
  PROVE  /\ Closed(r) \in Runtimes /\ Closed(r).state = "closed"
         /\ Closed(r).creations = r.creations /\ Closed(r).closes = r.closes + 1
<1>1. r.closes + 1 \in Nat
  BY DEF Runtimes
<1> QED
  BY <1>1 DEF Closed, Runtimes

LEMMA RuntimeCreated ==
  ASSUME NEW r \in Runtimes, NEW q, q = [r EXCEPT !.state = "open", !.creations = @ + 1]
  PROVE  /\ q \in Runtimes /\ q.state = "open"
         /\ q.creations = r.creations + 1 /\ q.closes = r.closes
<1>1. r.creations + 1 \in Nat
  BY DEF Runtimes
<1> QED
  BY <1>1 DEF Runtimes

LEMMA RuntimeHalfCreated ==
  ASSUME NEW r \in Runtimes, NEW q,
         q = [r EXCEPT !.state = "closed", !.creations = @ + 1, !.closes = @ + 1]
  PROVE  /\ q \in Runtimes /\ q.state = "closed"
         /\ q.creations = r.creations + 1 /\ q.closes = r.closes + 1
<1>1. r.creations + 1 \in Nat /\ r.closes + 1 \in Nat
  BY DEF Runtimes
<1> QED
  BY <1>1 DEF Runtimes

LEMMA RuntimeForgotten ==
  ASSUME NEW r \in Runtimes, NEW q, q = [r EXCEPT !.state = "none"]
  PROVE  /\ q \in Runtimes /\ q.state = "none"
         /\ q.creations = r.creations /\ q.closes = r.closes
  BY DEF Runtimes

LEMMA CaseInvInit == CaseInit => CaseInv
<1> SUFFICES ASSUME CaseInit PROVE CaseInv
  OBVIOUS
<1> USE AttemptAssumption DEF Steps, UsingRuntime, Between
<1>1. TypeInv
  <2>1. rt \in Runtimes
    BY DEF CaseInit, Runtimes
  <2>2. history \in Seq(Results) /\ result \in Results
    BY ResultTypes DEF CaseInit
  <2>3. /\ cfg \in Cases /\ step = "provisioning" /\ attempt = 1 /\ ctxCancelled = FALSE
        /\ attemptErr = "nil" /\ mcp = "unset" /\ agentRun = "none" /\ collected = FALSE
    BY DEF CaseInit
  <2>4. ctxCancelled \in BOOLEAN /\ collected \in BOOLEAN
    BY <2>3
  <2>5. /\ step \in Steps /\ attempt \in Nat \ {0}
        /\ attemptErr \in {"nil", "deadline", "cancelled"} /\ mcp \in {"unset", "ready", "failed"}
        /\ agentRun \in {"none", "ok", "nonzero", "condition"} \cup Errs
    BY <2>3
  <2> QED
    BY <2>1, <2>2, <2>3, <2>4, <2>5 DEF TypeInv
<1>2. PipelineInv /\ ProvisionedInv
  BY DEF CaseInit, PipelineInv, ProvisionedInv
<1>3. HistoryInv
  BY DEF CaseInit, HistoryInv, maxAttempts
<1>4. ResultInv
  BY DEF CaseInit, ResultInv, NoVerdict
<1> QED
  BY <1>1, <1>2, <1>3, <1>4 DEF CaseInv

(* Decide appends the result, annotated or not, to the history.            *)
LEMMA AnnotationKeepsVerdict ==
  ASSUME TypeInv
  PROVE  /\ annotateCaseTimeoutError(result) \in Results
         /\ annotateCaseTimeoutError(result).status = result.status
         /\ annotateCaseTimeoutError(result).err = result.err
         /\ annotateCaseTimeoutError(result).annotated =>
              result.err = "timeout" /\ attemptErr = "deadline"
<1> DEFINE blamed == attemptErr = "deadline" /\ ~ctxCancelled /\ result.err = "timeout"
<1>1. blamed \in BOOLEAN
  OBVIOUS
<1>2. annotateCaseTimeoutError(result) = [result EXCEPT !.annotated = blamed]
  BY DEF annotateCaseTimeoutError
<1>3. blamed => result.err = "timeout" /\ attemptErr = "deadline"
  OBVIOUS
<1> HIDE DEF blamed
<1> QED
  BY <1>1, <1>2, <1>3 DEF TypeInv, Results

LEMMA TypeInvStep ==
  ASSUME TypeInv, [CaseNext]_caseVars
  PROVE  TypeInv'
<1> USE AttemptAssumption DEF TypeInv, Errs, Steps, UsingRuntime, Between
<1>1. CASE Provision
  BY <1>1, ResultTypes DEF Provision, ProvisionOutcomes, attemptVars
<1>2. CASE NewRuntimeFails
  BY <1>2, ResultTypes DEF NewRuntimeFails, attemptVars
<1>3. CASE Create
  <2>1. rt \in Runtimes
    OBVIOUS
  <2>2. rt' \in Runtimes
    BY <1>3, <2>1, RuntimeCreated, RuntimeHalfCreated DEF Create
  <2>3. result' \in Results /\ step' \in Steps
    BY <1>3, ResultTypes DEF Create, Errors
  <2> QED
    BY <1>3, <2>2, <2>3 DEF Create, attemptVars
<1>4. CASE SetupCaseEnvironment
  BY <1>4, ResultTypes, RuntimeClosed DEF SetupCaseEnvironment, Errors, attemptVars
<1>5. CASE RunAgent
  BY <1>5 DEF RunAgent, Errors, Sessions, attemptVars
<1>6. CASE CollectArtifacts
  BY <1>6, ResultTypes DEF CollectArtifacts, attemptVars
<1>7. CASE CheckExpect
  BY <1>7, ResultTypes DEF CheckExpect, attemptVars
<1>8. CASE RunJudge
  BY <1>8, ResultTypes DEF RunJudge, Verdicts, Errors, attemptVars
<1>9. CASE ScriptKilled
  BY <1>9, ResultTypes DEF ScriptKilled, attemptVars
<1>10. CASE CloseRuntime
  BY <1>10, RuntimeClosed DEF CloseRuntime, attemptVars
<1>11. CASE Decide
  <2>1. result' \in Results /\ history' = Append(history, result')
    BY <1>11, AnnotationKeepsVerdict DEF Decide
  <2> QED
    BY <1>11, <2>1 DEF Decide, attemptVars
<1>12. CASE BackoffElapsed
  <2>1. rt' \in Runtimes
    BY <1>12, RuntimeForgotten DEF BackoffElapsed
  <2>2. result' \in Results
    BY <1>12, ResultTypes DEF BackoffElapsed
  <2>3. attempt' \in Nat \ {0} /\ step' \in Steps
    BY <1>12 DEF BackoffElapsed
  <2>4. attemptErr' \in {"nil", "cancelled"} /\ agentRun' = "none" /\ collected' = FALSE
    BY <1>12 DEF BackoffElapsed
  <2> QED
    BY <1>12, <2>1, <2>2, <2>3, <2>4 DEF BackoffElapsed
<1>13. CASE BackoffCancelled
  BY <1>13 DEF BackoffCancelled, attemptVars
<1>14. CASE Cancel
  BY <1>14 DEF Cancel, attemptVars
<1>15. CASE Deadline
  BY <1>15 DEF Deadline, InAttempt, attemptVars
<1>16. CASE OtherCaseProvisions
  BY <1>16 DEF OtherCaseProvisions, attemptVars
<1>17. CASE UNCHANGED caseVars
  BY <1>17 DEF caseVars, attemptVars
<1> QED
  BY <1>1, <1>2, <1>3, <1>4, <1>5, <1>6, <1>7, <1>8, <1>9, <1>10, <1>11, <1>12, <1>13,
     <1>14, <1>15, <1>16, <1>17 DEF CaseNext, CaseStep

LEMMA PipelineInvStep ==
  ASSUME TypeInv, TypeInv', PipelineInv, [CaseNext]_caseVars
  PROVE  PipelineInv'
<1> USE AttemptAssumption DEF PipelineInv, TypeInv, Steps, UsingRuntime, Between, Errs
<1>1. CASE Provision
  BY <1>1 DEF Provision, Failure, ProvisionOutcomes, attemptVars
<1>2. CASE NewRuntimeFails
  BY <1>2 DEF NewRuntimeFails, Failure, attemptVars
<1>3. CASE Create
  <2>1. rt.creations \in Nat /\ rt.closes \in Nat /\ rt.state # "open"
    BY <1>3 DEF Create, Runtimes
  <2>2. \/ /\ step' = "setup" /\ rt'.state = "open"
           /\ rt'.creations = rt.creations + 1 /\ rt'.closes = rt.closes
        \/ /\ step' = "deciding" /\ rt'.state = "closed"
           /\ rt'.creations = rt.creations + 1 /\ rt'.closes = rt.closes + 1
    BY <1>3, RuntimeCreated, RuntimeHalfCreated DEF Create
  <2>3. step = "creating" /\ agentRun = "none" /\ agentRun' = "none"
    BY <1>3 DEF Create, attemptVars
  <2> QED
    BY <2>1, <2>2, <2>3
<1>4. CASE SetupCaseEnvironment
  <2>1. rt.creations \in Nat /\ rt.closes \in Nat /\ rt.state = "open"
    BY <1>4 DEF SetupCaseEnvironment, Runtimes
  <2>2. \/ step' = "running" /\ rt' = rt
        \/ /\ step' = "deciding" /\ rt'.state = "closed"
           /\ rt'.creations = rt.creations /\ rt'.closes = rt.closes + 1
    BY <1>4, RuntimeClosed DEF SetupCaseEnvironment
  <2>3. step = "setup" /\ agentRun = "none" /\ agentRun' = "none"
    BY <1>4 DEF SetupCaseEnvironment, attemptVars
  <2> QED
    BY <2>1, <2>2, <2>3
<1>5. CASE RunAgent
  BY <1>5 DEF RunAgent, Errors, Sessions, attemptVars
<1>6. CASE CollectArtifacts
  BY <1>6 DEF CollectArtifacts, Failure, Verdict, attemptVars
<1>7. CASE CheckExpect
  BY <1>7 DEF CheckExpect, Verdict, attemptVars
<1>8. CASE RunJudge
  BY <1>8 DEF RunJudge, Verdicts, Verdict, Failure, Errors, attemptVars
<1>9. CASE ScriptKilled
  BY <1>9 DEF ScriptKilled, Verdict, attemptVars
<1>10. CASE CloseRuntime
  <2>1. rt.creations \in Nat /\ rt.closes \in Nat /\ rt.state = "open"
    BY <1>10 DEF CloseRuntime, Runtimes
  <2>2. /\ step = "closing" /\ step' = "deciding" /\ rt'.state = "closed"
        /\ rt'.creations = rt.creations /\ rt'.closes = rt.closes + 1
    BY <1>10, RuntimeClosed DEF CloseRuntime
  <2>3. collected' = collected
    BY <1>10 DEF CloseRuntime, attemptVars
  <2> QED
    BY <2>1, <2>2, <2>3
<1>11. CASE Decide
  BY <1>11 DEF Decide, attemptVars
<1>12. CASE BackoffElapsed
  BY <1>12, RuntimeForgotten DEF BackoffElapsed, NoVerdict, attemptVars
<1>13. CASE BackoffCancelled
  BY <1>13 DEF BackoffCancelled, attemptVars
<1>14. CASE Cancel
  BY <1>14 DEF Cancel, attemptVars
<1>15. CASE Deadline
  BY <1>15 DEF Deadline, InAttempt, attemptVars
<1>16. CASE OtherCaseProvisions
  BY <1>16 DEF OtherCaseProvisions, attemptVars
<1>17. CASE UNCHANGED caseVars
  BY <1>17 DEF caseVars, attemptVars
<1> QED
  BY <1>1, <1>2, <1>3, <1>4, <1>5, <1>6, <1>7, <1>8, <1>9, <1>10, <1>11, <1>12, <1>13,
     <1>14, <1>15, <1>16, <1>17 DEF CaseNext, CaseStep

LEMMA HistoryInvStep ==
  ASSUME TypeInv, TypeInv', HistoryInv, [CaseNext]_caseVars
  PROVE  HistoryInv'
<1> USE AttemptAssumption DEF HistoryInv, TypeInv, Steps, UsingRuntime, Between, maxAttempts
<1>1. CASE Provision
  BY <1>1 DEF Provision, Failure, ProvisionOutcomes, attemptVars
<1>2. CASE NewRuntimeFails
  BY <1>2 DEF NewRuntimeFails, Failure, attemptVars
<1>3. CASE Create
  BY <1>3 DEF Create, Failure, Errors, attemptVars
<1>4. CASE SetupCaseEnvironment
  BY <1>4 DEF SetupCaseEnvironment, Failure, Errors, attemptVars
<1>5. CASE RunAgent
  BY <1>5 DEF RunAgent, Errors, Sessions, attemptVars
<1>6. CASE CollectArtifacts
  BY <1>6 DEF CollectArtifacts, Failure, Verdict, attemptVars
<1>7. CASE CheckExpect
  BY <1>7 DEF CheckExpect, Verdict, attemptVars
<1>8. CASE RunJudge
  BY <1>8 DEF RunJudge, Verdicts, Verdict, Failure, Errors, attemptVars
<1>9. CASE ScriptKilled
  BY <1>9 DEF ScriptKilled, Verdict, attemptVars
<1>10. CASE CloseRuntime
  BY <1>10 DEF CloseRuntime, attemptVars
<1>11. CASE Decide
  <2>1. /\ history' = Append(history, result') /\ Len(history) = attempt - 1
        /\ result' \in Results
    BY <1>11, AnnotationKeepsVerdict DEF Decide
  <2>2. /\ Len(history') = attempt /\ history'[attempt] = result'
        /\ \A k \in 1..(attempt - 1) : history'[k] = history[k]
    BY <2>1
  <2>3. step' \in Between /\ attempt' = attempt
    BY <1>11 DEF Decide
  <2>4. step' = "sleeping" => /\ result'.status = "ERROR" /\ result'.err \in RetryOn
                              /\ attempt < maxAttempts
    BY <1>11, AnnotationKeepsVerdict DEF Decide, retryAllowed, retryReason
  <2> QED
    BY <2>2, <2>3, <2>4
<1>12. CASE BackoffElapsed
  <2>1. /\ step = "sleeping" /\ step' = "provisioning"
        /\ attempt' = attempt + 1 /\ history' = history
    BY <1>12 DEF BackoffElapsed
  <2>2. history[attempt].status = "ERROR" /\ history[attempt].err \in RetryOn
    BY <2>1
  <2>3. \A k \in 1..(attempt' - 1) : history[k].status = "ERROR" /\ history[k].err \in RetryOn
    BY <2>1, <2>2
  <2> QED
    BY <2>1, <2>3
<1>13. CASE BackoffCancelled
  BY <1>13 DEF BackoffCancelled, attemptVars
<1>14. CASE Cancel
  BY <1>14 DEF Cancel, attemptVars
<1>15. CASE Deadline
  BY <1>15 DEF Deadline, InAttempt, attemptVars
<1>16. CASE OtherCaseProvisions
  BY <1>16 DEF OtherCaseProvisions, attemptVars
<1>17. CASE UNCHANGED caseVars
  BY <1>17 DEF caseVars, attemptVars
<1> QED
  BY <1>1, <1>2, <1>3, <1>4, <1>5, <1>6, <1>7, <1>8, <1>9, <1>10, <1>11, <1>12, <1>13,
     <1>14, <1>15, <1>16, <1>17 DEF CaseNext, CaseStep

LEMMA ResultInvStep ==
  ASSUME TypeInv, TypeInv', PipelineInv, ResultInv, [CaseNext]_caseVars
  PROVE  ResultInv'
<1> USE AttemptAssumption DEF ResultInv, TypeInv, PipelineInv, Steps, UsingRuntime, Between, Errs
<1>1. CASE Provision
  BY <1>1 DEF Provision, Failure, ProvisionOutcomes, attemptVars
<1>2. CASE NewRuntimeFails
  BY <1>2 DEF NewRuntimeFails, Failure, attemptVars
<1>3. CASE Create
  BY <1>3 DEF Create, Failure, Errors, attemptVars
<1>4. CASE SetupCaseEnvironment
  BY <1>4 DEF SetupCaseEnvironment, Failure, Errors, attemptVars
<1>5. CASE RunAgent
  BY <1>5 DEF RunAgent, Errors, Sessions, attemptVars
<1>6. CASE CollectArtifacts
  <2>1. agentRun' = agentRun
    BY <1>6 DEF CollectArtifacts
  <2>2. CASE agentRun \in Errs
    BY <1>6, <2>1, <2>2 DEF CollectArtifacts, Failure
  <2>3. CASE agentRun \notin Errs /\ step' = "closing"
    BY <1>6, <2>1, <2>3 DEF CollectArtifacts, Verdict
  <2>4. CASE agentRun \notin Errs /\ step' # "closing"
    <3>1. agentRun # "condition" /\ step' = "expecting" /\ result' = result
      BY <1>6, <2>4 DEF CollectArtifacts
    <3>2. agentRun # "none" /\ ~result.annotated
      BY <1>6 DEF CollectArtifacts
    <3> QED
      BY <2>1, <2>4, <3>1, <3>2
  <2> QED
    BY <2>2, <2>3, <2>4
<1>7. CASE CheckExpect
  BY <1>7 DEF CheckExpect, Verdict, attemptVars
<1>8. CASE RunJudge
  BY <1>8 DEF RunJudge, Verdicts, Verdict, Failure, Errors, attemptVars
<1>9. CASE ScriptKilled
  BY <1>9 DEF ScriptKilled, Verdict, attemptVars
<1>10. CASE CloseRuntime
  BY <1>10 DEF CloseRuntime, attemptVars
<1>11. CASE Decide
  BY <1>11, AnnotationKeepsVerdict DEF Decide, attemptVars
<1>12. CASE BackoffElapsed
  BY <1>12 DEF BackoffElapsed, NoVerdict, attemptVars
<1>13. CASE BackoffCancelled
  BY <1>13 DEF BackoffCancelled, attemptVars
<1>14. CASE Cancel
  BY <1>14 DEF Cancel, attemptVars
<1>15. CASE Deadline
  BY <1>15 DEF Deadline, InAttempt, attemptVars
<1>16. CASE OtherCaseProvisions
  BY <1>16 DEF OtherCaseProvisions, attemptVars
<1>17. CASE UNCHANGED caseVars
  BY <1>17 DEF caseVars, attemptVars
<1> QED
  BY <1>1, <1>2, <1>3, <1>4, <1>5, <1>6, <1>7, <1>8, <1>9, <1>10, <1>11, <1>12, <1>13,
     <1>14, <1>15, <1>16, <1>17 DEF CaseNext, CaseStep

LEMMA ProvisionedInvStep ==
  ASSUME TypeInv, PipelineInv, ProvisionedInv, [CaseNext]_caseVars
  PROVE  ProvisionedInv'
<1> USE AttemptAssumption
    DEF ProvisionedInv, TypeInv, PipelineInv, Steps, UsingRuntime, Between, Cases
<1>1. CASE Provision
  BY <1>1 DEF Provision, Failure, ProvisionOutcomes, attemptVars
<1>2. CASE NewRuntimeFails
  BY <1>2 DEF NewRuntimeFails, Failure, attemptVars
<1>3. CASE Create
  BY <1>3 DEF Create, Failure, Errors, attemptVars
<1>4. CASE SetupCaseEnvironment
  BY <1>4 DEF SetupCaseEnvironment, Failure, Errors, attemptVars
<1>5. CASE RunAgent
  BY <1>5 DEF RunAgent, Errors, Sessions, attemptVars
<1>6. CASE CollectArtifacts
  BY <1>6 DEF CollectArtifacts, Failure, Verdict, attemptVars
<1>7. CASE CheckExpect
  BY <1>7 DEF CheckExpect, Verdict, attemptVars
<1>8. CASE RunJudge
  BY <1>8 DEF RunJudge, Verdicts, Verdict, Failure, Errors, attemptVars
<1>9. CASE ScriptKilled
  BY <1>9 DEF ScriptKilled, Verdict, attemptVars
<1>10. CASE CloseRuntime
  BY <1>10 DEF CloseRuntime, attemptVars
<1>11. CASE Decide
  BY <1>11 DEF Decide, attemptVars
<1>12. CASE BackoffElapsed
  BY <1>12 DEF BackoffElapsed, NoVerdict, attemptVars
<1>13. CASE BackoffCancelled
  BY <1>13 DEF BackoffCancelled, attemptVars
<1>14. CASE Cancel
  BY <1>14 DEF Cancel, attemptVars
<1>15. CASE Deadline
  BY <1>15 DEF Deadline, InAttempt, attemptVars
<1>16. CASE OtherCaseProvisions
  BY <1>16 DEF OtherCaseProvisions, attemptVars
<1>17. CASE UNCHANGED caseVars
  BY <1>17 DEF caseVars, attemptVars
<1> QED
  BY <1>1, <1>2, <1>3, <1>4, <1>5, <1>6, <1>7, <1>8, <1>9, <1>10, <1>11, <1>12, <1>13,
     <1>14, <1>15, <1>16, <1>17 DEF CaseNext, CaseStep

THEOREM CaseInvCorrect == CaseSpec => []CaseInv
<1>1. CaseInv /\ [CaseNext]_caseVars => CaseInv'
  BY TypeInvStep, PipelineInvStep, HistoryInvStep, ResultInvStep, ProvisionedInvStep DEF
     CaseInv
<1> QED
  BY <1>1, CaseInvInit, PTL DEF CaseSpec

-----------------------------------------------------------------------------
(* Whatever fails and in whatever order, every runtime a case created is   *)
(* closed once, after the artifacts of its agent were collected.           *)
THEOREM RuntimesBalancedCorrect == CaseSpec => []RuntimesBalanced
<1>1. CaseInv => RuntimesBalanced
  BY DEF CaseInv, TypeInv, PipelineInv, RuntimesBalanced, Steps, UsingRuntime, Between
<1> QED
  BY <1>1, CaseInvCorrect, PTL

(* Retries are those of the policy, and the case returns its last attempt. *)
THEOREM RetriesJustifiedCorrect == CaseSpec => []RetriesJustified
<1>1. CaseInv => RetriesJustified
  BY AttemptAssumption
     DEF CaseInv, TypeInv, HistoryInv, RetriesJustified, Steps, Between, maxAttempts
<1> QED
  BY <1>1, CaseInvCorrect, PTL

(* A case has a verdict or an error, passes only by a session, and blames  *)
(* its timeout knob only for the deadline of its own attempt.              *)
THEOREM ResultsCoherentCorrect == CaseSpec => []ResultsCoherent
<1>1. CaseInv => ResultsCoherent
  BY DEF CaseInv, ResultInv, ResultsCoherent, Between
<1> QED
  BY <1>1, CaseInvCorrect, PTL

(* No agent runs behind a shared MCP configuration that failed.            *)
THEOREM SharedProvisioningCorrect == CaseSpec => []SharedProvisioningAgrees
<1>1. CaseInv => SharedProvisioningAgrees
  BY DEF CaseInv, ProvisionedInv, SharedProvisioningAgrees
<1> QED
  BY <1>1, CaseInvCorrect, PTL

-----------------------------------------------------------------------------
(* Conversations of any length, with any conditions and captures and an    *)
(* engine that reports what it likes: every turn is accounted for once and *)
(* in order, the verdict is one the turns deserve, and no conversation     *)
(* that an answer named is lost.  Transcript and usage have every answered *)
(* turn once, which is about sums and tails of sequences of any length.    *)
StateFields == {"captured", "sessionID", "turnResults", "transcript", "sessionTranscript",
                "tokens", "tokenBase"}
TurnStatuses == {"COMPLETED", "FAILED", "SKIPPED", "ERROR"}
TurnResults  == [turn : Nat, status : TurnStatuses]
Said         == [turn : Nat \ {0}, text : Texts]

Shape ==
  /\ turns \in Seq(Turns) /\ Len(turns) \in Nat \ {0}
  /\ pc \in {"sending", "running", "checking", "returned"}
  /\ turnNum \in Nat \ {0}
  /\ DOMAIN state = StateFields
  /\ state.turnResults \in Seq(TurnResults)
  /\ state.sessionID \in 0..Len(sessions)
  /\ sessions \in Seq(Seq(Said) \ {<<>>})
  /\ ids \in Seq(Nat)

(* How many turns the agent has answered, while the case runs.             *)
Count == IF pc = "checking" THEN turnNum ELSE turnNum - 1

(* While the case runs every turn before this one was answered and         *)
(* completed.                                                              *)
Progress ==
  pc # "returned" =>
    /\ Len(state.turnResults) = turnNum - 1
    /\ \A k \in 1..(turnNum - 1) : state.turnResults[k] = Result(k, "COMPLETED")
    /\ Answered = 1..Count /\ Len(ids) = Count
    /\ turnNum <= Len(turns) + (IF pc = "sending" THEN 1 ELSE 0)
    /\ failedAt = 0 /\ outcome.status = "none"

(* The evaluator knows no session only as long as no answer named one.     *)
Unnamed == state.sessionID = 0 => \A k \in DOMAIN ids : ids[k] = 0

TurnInv == Shape /\ Progress /\ Unnamed /\ OneConversation /\ TurnsAccounted /\ VerdictDeserved

-----------------------------------------------------------------------------
(* What an update of the state leaves alone.                               *)
LEMMA AbsorbFacts ==
  ASSUME NEW s, DOMAIN s = StateFields, NEW reply
  PROVE  /\ DOMAIN Absorb(s, reply) = StateFields
         /\ Absorb(s, reply).turnResults = s.turnResults
         /\ Absorb(s, reply).sessionID = SessionAfter(s.sessionID, reply.id)
<1>1. PICK id, whole, tail, sum, base :
        /\ id = SessionAfter(s.sessionID, reply.id)
        /\ Absorb(s, reply) = [s EXCEPT !.sessionID = id, !.sessionTranscript = whole,
                                        !.transcript = tail, !.tokens = sum, !.tokenBase = base]
  BY DEF Absorb
<1> QED
  BY <1>1 DEF StateFields

LEMMA WithResultFacts ==
  ASSUME DOMAIN state = StateFields, NEW status
  PROVE  /\ DOMAIN WithResult(status) = StateFields
         /\ WithResult(status).turnResults = Append(state.turnResults, Result(turnNum, status))
         /\ WithResult(status).sessionID = state.sessionID
BY DEF WithResult, StateFields

(* One more result after completed turns.                                  *)
LEMMA NextResult ==
  ASSUME Shape, Progress, pc # "returned", NEW status \in TurnStatuses,
         NEW results, results = Append(state.turnResults, Result(turnNum, status))
  PROVE  /\ results \in Seq(TurnResults)
         /\ Len(results) = turnNum
         /\ \A k \in 1..(turnNum - 1) : results[k] = Result(k, "COMPLETED")
         /\ results[turnNum] = Result(turnNum, status)
<1>1. Result(turnNum, status) \in TurnResults
  BY DEF Result, TurnResults, Shape
<1>2. state.turnResults \in Seq(TurnResults) /\ Len(state.turnResults) = turnNum - 1
  BY DEF Shape, Progress
<1>3. turnNum \in Nat \ {0}
  BY DEF Shape
<1>4. results \in Seq(TurnResults) /\ Len(results) = turnNum
  BY <1>1, <1>2, <1>3
<1>5. \A k \in 1..(turnNum - 1) : results[k] = state.turnResults[k]
  BY <1>1, <1>2, <1>3
<1>6. results[turnNum] = Result(turnNum, status)
  BY <1>1, <1>2, <1>3
<1> QED
  BY <1>4, <1>5, <1>6 DEF Progress

-----------------------------------------------------------------------------
(* What is read back off the results.                                      *)
LEMMA ResultFields ==
  \A k, status : Result(k, status).turn = k /\ Result(k, status).status = status
BY DEF Result

LEMMA StatusOfCompleted ==
  ASSUME NEW results, DOMAIN results # {},
         \A k \in DOMAIN results : results[k].status = "COMPLETED"
  PROVE  multiTurnStatus(results) = ""
<1>1. {k \in DOMAIN results : results[k].status \in {"ERROR", "FAILED"}} = {}
  OBVIOUS
<1>2. {k \in DOMAIN results : results[k].status = "SKIPPED"} = {}
  OBVIOUS
<1> QED
  BY <1>1, <1>2 DEF multiTurnStatus

LEMMA StatusOfFailed ==
  ASSUME NEW results, NEW n \in Nat \ {0}, NEW len \in Nat, n <= len, DOMAIN results = 1..len,
         \A k \in 1..(n - 1) : results[k].status = "COMPLETED",
         results[n].status = "FAILED",
         \A k \in (n + 1)..len : results[k].status = "SKIPPED"
  PROVE  multiTurnStatus(results) = IF n < len THEN "" ELSE "FAIL"
<1> DEFINE ended   == {k \in DOMAIN results : results[k].status \in {"ERROR", "FAILED"}}
           skipped == {k \in DOMAIN results : results[k].status = "SKIPPED"}
           first   == CHOOSE k \in ended : \A j \in ended : k <= j
<1>1. \A k \in 1..len : k \in 1..(n - 1) \/ k = n \/ k \in (n + 1)..len
  OBVIOUS
<1>2. ended = {n}
  BY <1>1
<1>3. first = n
  BY <1>2
<1>4. skipped = (n + 1)..len
  BY <1>1
<1>5. (\E k \in skipped : k > n) <=> n < len
  BY <1>4
<1> HIDE DEF ended, skipped, first
<1>6. multiTurnStatus(results) =
        CASE ended # {} /\ results[first].status = "ERROR" -> "ERROR"
          [] ended # {} /\ results[first].status = "FAILED" ->
               IF \E k \in skipped : k > first THEN "" ELSE "FAIL"
          [] ended = {} /\ skipped = DOMAIN results -> "SKIP"
          [] OTHER -> ""
  BY DEF multiTurnStatus, ended, skipped, first
<1>7. ended # {} /\ results[first].status = "FAILED"
  BY <1>2, <1>3
<1>8. multiTurnStatus(results) = IF \E k \in skipped : k > n THEN "" ELSE "FAIL"
  BY <1>3, <1>6, <1>7
<1> QED
  BY <1>5, <1>8

-----------------------------------------------------------------------------
(* The messages of the conversations.                                      *)
LEMMA AnsweredIs ==
  /\ \A k : k \in Answered <=> \E c \in DOMAIN sessions : \E j \in DOMAIN sessions[c] :
                                  sessions[c][j].turn = k
  /\ \A k : k \in Answered' <=> \E c \in DOMAIN sessions' : \E j \in DOMAIN sessions'[c] :
                                  sessions'[c][j].turn = k
BY DEF Answered, Messages, Range

LEMMA MessagesIs ==
  /\ \A m : m \in Messages <=> \E c \in DOMAIN sessions : \E j \in DOMAIN sessions[c] :
                                  sessions[c][j] = m
  /\ \A m : m \in Messages' <=> \E c \in DOMAIN sessions' : \E j \in DOMAIN sessions'[c] :
                                  sessions'[c][j] = m
BY DEF Messages, Range

(* Indices, without anything else in sight.                                *)
LEMMA Indices ==
  ASSUME NEW n \in Nat
  PROVE  /\ \A k \in 0..n : k # 0 => k \in 1..n
         /\ \A k \in 1..n : k \in 1..(n + 1)
         /\ n + 1 \in 1..(n + 1)
         /\ n >= n /\ n + 1 >= n
OBVIOUS

LEMMA SingletonIsNotEmpty ==
  ASSUME NEW q, Len(q) = 1
  PROVE  q # <<>>
OBVIOUS

LEMMA ReplacedInSeq ==
  ASSUME NEW S, NEW q \in Seq(S), NEW c \in 1..Len(q), NEW e \in S
  PROVE  [q EXCEPT ![c] = e] \in Seq(S) /\ Len([q EXCEPT ![c] = e]) = Len(q)
BY ExceptSeq

LEMMA Concatenated ==
  ASSUME NEW q \in Seq(TurnResults), NEW r \in Seq(TurnResults), NEW n \in Nat, NEW m \in Nat,
         Len(q) = n, Len(r) = m
  PROVE  /\ q \o r \in Seq(TurnResults) /\ Len(q \o r) = n + m
         /\ \A k \in 1..n : (q \o r)[k] = q[k]
         /\ \A k \in (n + 1)..(n + m) : (q \o r)[k] = r[k - n]
BY ConcatProperties

(* Opening or resuming a conversation adds one message, at its end.        *)
LEMMA MessageAdded ==
  ASSUME Shape, NEW said \in Said, said.turn = turnNum, NEW c \in Nat, NEW conversation,
         \/ /\ c = state.sessionID /\ c # 0
            /\ conversation = Append(sessions[c], said)
            /\ sessions' = [sessions EXCEPT ![c] = conversation]
         \/ /\ c = Len(sessions) + 1
            /\ conversation = <<said>>
            /\ sessions' = Append(sessions, conversation)
  PROVE  /\ sessions' \in Seq(Seq(Said) \ {<<>>})
         /\ Len(sessions') >= Len(sessions) /\ c \in 1..Len(sessions')
         /\ Messages' = Messages \cup {said} /\ Answered' = Answered \cup {turnNum}
         /\ sessions'[c] = conversation
         /\ \A d \in 1..Len(sessions) : sessions'[d][1] = sessions[d][1]
         /\ \A d \in 1..Len(sessions') : d \in 1..Len(sessions) \/ sessions'[d][1].turn = turnNum
<1>0. /\ sessions \in Seq(Seq(Said) \ {<<>>}) /\ Len(sessions) \in Nat
      /\ DOMAIN sessions = 1..Len(sessions)
      /\ \A d \in 1..Len(sessions) : sessions[d] \in Seq(Said) /\ Len(sessions[d]) \in Nat \ {0}
  <2>1. sessions \in Seq(Seq(Said) \ {<<>>})
    BY DEF Shape
  <2>2. \A d \in 1..Len(sessions) : sessions[d] \in Seq(Said) \ {<<>>}
    BY <2>1
  <2>3. \A q \in Seq(Said) \ {<<>>} : Len(q) \in Nat \ {0}
    BY EmptySeq
  <2> QED
    BY <2>1, <2>2, <2>3
<1>1. CASE /\ c = state.sessionID /\ c # 0
           /\ conversation = Append(sessions[c], said)
           /\ sessions' = [sessions EXCEPT ![c] = conversation]
  <2>1. c \in 1..Len(sessions)
    <3>1. c \in 0..Len(sessions)
      BY <1>1 DEF Shape
    <3>2. Len(sessions) \in Nat /\ c # 0
      BY <1>0, <1>1
    <3> QED
      BY <3>1, <3>2, Indices, Zenon
  <2>2. sessions[c] \in Seq(Said) /\ Len(sessions[c]) \in Nat \ {0}
    BY <1>0, <2>1
  <2>3. /\ conversation \in Seq(Said) /\ Len(conversation) = Len(sessions[c]) + 1
        /\ \A j \in 1..Len(sessions[c]) : conversation[j] = sessions[c][j]
        /\ conversation[Len(sessions[c]) + 1] = said
    BY <1>1, <2>2
  <2>4. conversation \in Seq(Said) \ {<<>>}
    BY <2>2, <2>3, EmptySeq
  <2>5. /\ sessions' \in Seq(Seq(Said) \ {<<>>}) /\ Len(sessions') = Len(sessions)
        /\ DOMAIN sessions' = 1..Len(sessions)
    <3>1. sessions' \in Seq(Seq(Said) \ {<<>>}) /\ Len(sessions') = Len(sessions)
      <4>1. sessions' = [sessions EXCEPT ![c] = conversation]
        BY <1>1
      <4>2. sessions \in Seq(Seq(Said) \ {<<>>})
        BY <1>0
      <4>3. /\ [sessions EXCEPT ![c] = conversation] \in Seq(Seq(Said) \ {<<>>})
            /\ Len([sessions EXCEPT ![c] = conversation]) = Len(sessions)
        BY <2>1, <2>4, <4>2, ReplacedInSeq
      <4> QED
        BY <4>1, <4>3, Zenon
    <3> QED
      BY <1>0, <3>1
  <2>6. /\ sessions'[c] = conversation
        /\ \A d \in 1..Len(sessions) : d # c => sessions'[d] = sessions[d]
    BY <1>0, <1>1, <2>1
  <2>7. DOMAIN conversation = 1..(Len(sessions[c]) + 1) /\ DOMAIN sessions[c] = 1..Len(sessions[c])
    BY <2>2, <2>3
  <2>8. Messages' = Messages \cup {said}
    <3>1. \A m : m \in Messages' => m \in Messages \/ m = said
      <4> SUFFICES ASSUME NEW m \in Messages', m # said PROVE m \in Messages
        OBVIOUS
      <4>1. PICK d \in 1..Len(sessions) : \E j \in DOMAIN sessions'[d] : sessions'[d][j] = m
        BY <2>5, MessagesIs
      <4>2. PICK j \in DOMAIN sessions'[d] : sessions'[d][j] = m
        BY <4>1
      <4>3. CASE d # c
        BY <1>0, <2>6, <4>2, <4>3, MessagesIs
      <4>4. CASE d = c
        <5>1. j \in 1..Len(sessions[c])
          BY <2>2, <2>3, <2>6, <2>7, <4>2, <4>4
        <5>2. sessions[c][j] = m
          BY <2>3, <2>6, <4>2, <4>4, <5>1
        <5> QED
          BY <1>0, <2>1, <2>7, <5>1, <5>2, MessagesIs
      <4> QED
        BY <4>3, <4>4
    <3>2. \A m : m \in Messages => m \in Messages'
      <4> SUFFICES ASSUME NEW m \in Messages PROVE m \in Messages'
        OBVIOUS
      <4>1. PICK d \in 1..Len(sessions) : \E j \in DOMAIN sessions[d] : sessions[d][j] = m
        BY <1>0, MessagesIs
      <4>2. PICK j \in DOMAIN sessions[d] : sessions[d][j] = m
        BY <4>1
      <4>3. CASE d # c
        BY <2>5, <2>6, <4>2, <4>3, MessagesIs
      <4>4. CASE d = c
        <5>1. j \in DOMAIN sessions'[c] /\ sessions'[c][j] = sessions[c][j]
          BY <2>2, <2>3, <2>6, <2>7, <4>2, <4>4
        <5> QED
          BY <2>1, <2>5, <4>2, <4>4, <5>1, MessagesIs
      <4> QED
        BY <4>3, <4>4
    <3>3. said \in Messages'
      <4>1. Len(sessions[c]) + 1 \in DOMAIN sessions'[c]
        BY <2>2, <2>6, <2>7
      <4> QED
        BY <2>1, <2>3, <2>5, <2>6, <4>1, MessagesIs
    <3> QED
      BY <3>1, <3>2, <3>3
  <2>9. \A d \in 1..Len(sessions) : sessions'[d][1] = sessions[d][1]
    BY <2>2, <2>3, <2>6
  <2>10. Len(sessions') >= Len(sessions) /\ c \in 1..Len(sessions')
    <3>1. Len(sessions) \in Nat /\ Len(sessions') = Len(sessions)
      BY <1>0, <2>5
    <3> QED
      BY <2>1, <3>1, Indices, Zenon
  <2>11. \A d \in 1..Len(sessions') : d \in 1..Len(sessions)
    BY <2>5
  <2>12. Answered' = Answered \cup {turnNum}
    BY <2>8 DEF Answered
  <2> QED
    BY <2>5, <2>6, <2>8, <2>9, <2>10, <2>11, <2>12
<1>2. CASE /\ c = Len(sessions) + 1
           /\ conversation = <<said>>
           /\ sessions' = Append(sessions, conversation)
  <2>1. /\ conversation \in Seq(Said) /\ Len(conversation) = 1 /\ conversation[1] = said
        /\ DOMAIN conversation = {1}
    BY <1>2
  <2>2. conversation \in Seq(Said) \ {<<>>}
    <3>1. conversation # <<>>
      BY <2>1, SingletonIsNotEmpty, Zenon
    <3> QED
      BY <2>1, <3>1, Zenon
  <2>3. /\ sessions' \in Seq(Seq(Said) \ {<<>>}) /\ Len(sessions') = Len(sessions) + 1
        /\ DOMAIN sessions' = 1..(Len(sessions) + 1)
    BY <1>0, <1>2, <2>2
  <2>4. /\ sessions'[c] = conversation
        /\ \A d \in 1..Len(sessions) : sessions'[d] = sessions[d]
    BY <1>0, <1>2, <2>2
  <2>5. Messages' = Messages \cup {said}
    <3>1. \A m : m \in Messages' => m \in Messages \/ m = said
      <4> SUFFICES ASSUME NEW m \in Messages', m # said PROVE m \in Messages
        OBVIOUS
      <4>1. PICK d \in 1..(Len(sessions) + 1) :
              \E j \in DOMAIN sessions'[d] : sessions'[d][j] = m
        BY <2>3, MessagesIs
      <4>2. d # c
        BY <2>1, <2>4, <4>1
      <4>3. d \in 1..Len(sessions)
        BY <1>0, <1>2, <4>2
      <4> QED
        BY <1>0, <2>4, <4>1, <4>3, MessagesIs
    <3>2. \A m : m \in Messages => m \in Messages'
      <4> SUFFICES ASSUME NEW m \in Messages PROVE m \in Messages'
        OBVIOUS
      <4>1. PICK d \in 1..Len(sessions) : \E j \in DOMAIN sessions[d] : sessions[d][j] = m
        BY <1>0, MessagesIs
      <4>2. d \in DOMAIN sessions' /\ sessions'[d] = sessions[d]
        <5>1. Len(sessions) \in Nat
          BY <1>0
        <5>2. d \in 1..(Len(sessions) + 1)
          BY <5>1, Indices, Zenon
        <5> QED
          BY <2>3, <2>4, <5>2, Zenon
      <4> QED
        BY <4>1, <4>2, MessagesIs
    <3>3. said \in Messages'
      <4>1. c \in DOMAIN sessions' /\ 1 \in DOMAIN sessions'[c] /\ sessions'[c][1] = said
        BY <1>0, <1>2, <2>1, <2>3, <2>4
      <4> QED
        BY <4>1, MessagesIs
    <3> QED
      BY <3>1, <3>2, <3>3
  <2>6. \A d \in 1..Len(sessions') : d \in 1..Len(sessions) \/ sessions'[d][1].turn = turnNum
    BY <1>0, <1>2, <2>1, <2>3, <2>4
  <2>7. Answered' = Answered \cup {turnNum}
    BY <2>5 DEF Answered
  <2> QED
    BY <1>0, <1>2, <2>3, <2>4, <2>5, <2>6, <2>7
<1> QED
  BY <1>1, <1>2

-----------------------------------------------------------------------------
(* The case ends: its results in order, its verdict from them.             *)
LEMMA ErrorEnds ==
  ASSUME TurnInv, pc # "returned", turnNum <= Len(turns), pc' = "returned",
         UNCHANGED <<fixed, turnNum, sessions, ids, failedAt>>,
         state' = WithResult("ERROR"), outcome'.status = "ERROR"
  PROVE  TurnInv'
<1> USE DEF TurnInv
<1>1. /\ DOMAIN state' = StateFields /\ state'.sessionID = state.sessionID
      /\ state'.turnResults = Append(state.turnResults, Result(turnNum, "ERROR"))
  BY WithResultFacts DEF Shape
<1>2. /\ state'.turnResults \in Seq(TurnResults) /\ Len(state'.turnResults) = turnNum
      /\ \A k \in 1..(turnNum - 1) : state'.turnResults[k] = Result(k, "COMPLETED")
      /\ state'.turnResults[turnNum] = Result(turnNum, "ERROR")
  BY <1>1, NextResult DEF TurnStatuses
<1>3. turnNum \in Nat \ {0} /\ Answered' = Answered /\ Answered = 1..Count
  BY DEF Shape, Progress, Answered, Messages
<1>4. Shape'
  BY <1>1, <1>2 DEF Shape, fixed
<1>5. Progress' /\ Unnamed' /\ OneConversation'
  BY <1>1 DEF Progress, Unnamed, OneConversation
<1>6. DOMAIN state'.turnResults = 1..turnNum
  BY <1>2, <1>3
<1>7. TurnsAccounted'
  <2>1. ASSUME NEW k \in 1..turnNum
        PROVE  /\ state'.turnResults[k].turn = k
               /\ state'.turnResults[k].status \in {"COMPLETED", "FAILED"} => k \in Answered'
               /\ state'.turnResults[k].status # "SKIPPED"
               /\ \A j \in 1..(k - 1) : state'.turnResults[j].status = "COMPLETED"
    <3>0. \A j \in 1..(turnNum - 1) : /\ state'.turnResults[j].turn = j
                                      /\ state'.turnResults[j].status = "COMPLETED"
      BY <1>2, ResultFields
    <3>1. CASE k = turnNum
      <4>1. state'.turnResults[k].turn = k /\ state'.turnResults[k].status = "ERROR"
        BY <1>2, <3>1, ResultFields
      <4> QED
        BY <3>0, <3>1, <4>1
    <3>2. CASE k \in 1..(turnNum - 1)
      <4>1. k \in Answered' /\ \A j \in 1..(k - 1) : j \in 1..(turnNum - 1)
        BY <1>3, <3>2 DEF Count
      <4> QED
        BY <3>0, <3>2, <4>1
    <3> QED
      BY <1>3, <3>1, <3>2
  <2> QED
    BY <1>6, <2>1 DEF TurnsAccounted
<1>8. VerdictDeserved'
  BY DEF VerdictDeserved, SkipRemainingFailed, Progress
<1> QED
  BY <1>4, <1>5, <1>7, <1>8

LEMMA RegularEnd ==
  ASSUME TurnInv, pc = "sending", turnNum > Len(turns), ReturnResults(state),
         UNCHANGED <<fixed, state, turnNum, sessions, ids, failedAt>>
  PROVE  TurnInv'
<1> USE DEF TurnInv
<1>1. /\ Len(turns) \in Nat \ {0} /\ turnNum = Len(turns) + 1
      /\ state.turnResults \in Seq(TurnResults) /\ Len(state.turnResults) = Len(turns)
      /\ DOMAIN state.turnResults = 1..Len(turns)
      /\ \A k \in 1..Len(turns) : state.turnResults[k] = Result(k, "COMPLETED")
      /\ Answered = 1..Len(turns) /\ failedAt = 0
  BY DEF Shape, Progress, Count
<1>2. multiTurnStatus(state.turnResults) = ""
  <2>1. \A k \in DOMAIN state.turnResults : state.turnResults[k].status = "COMPLETED"
    BY <1>1, ResultFields
  <2>2. DOMAIN state.turnResults # {}
    BY <1>1
  <2> QED
    BY <2>1, <2>2, StatusOfCompleted
<1>3. pc' = "returned" /\ outcome'.status = "judge"
  BY <1>2 DEF ReturnResults
<1>4. Answered' = Answered /\ DOMAIN turns = 1..Len(turns)
  BY DEF Answered, Messages, Shape
<1>5. Shape' /\ Progress' /\ Unnamed' /\ OneConversation'
  BY <1>3 DEF Shape, Progress, Unnamed, OneConversation, fixed
<1>6. TurnsAccounted'
  BY <1>1, <1>3, <1>4 DEF TurnsAccounted, Result, fixed
<1>7. VerdictDeserved'
  BY <1>1, <1>3, <1>4 DEF VerdictDeserved, SkipRemainingFailed, fixed
<1> QED
  BY <1>5, <1>6, <1>7

(* A failed condition: the turns after it are skipped, or the case fails.  *)
LEMMA ConditionEnds ==
  ASSUME TurnInv, PostConditionFails
  PROVE  TurnInv'
<1> USE DEF TurnInv
<1> DEFINE n      == turnNum
           len    == Len(turns)
           failed == WithResult("FAILED")
           old    == failed.turnResults
           new    == state'.turnResults
           skip   == turns[n].condition = "skip_remaining"
<1>1. /\ n \in Nat \ {0} /\ len \in Nat \ {0} /\ n <= len
      /\ DOMAIN turns = 1..len /\ Answered = 1..n /\ pc = "checking"
  BY DEF PostConditionFails, Shape, Progress, Count
<1>2. DOMAIN failed = StateFields /\ failed.sessionID = state.sessionID
  BY WithResultFacts DEF Shape
<1>3. /\ old \in Seq(TurnResults) /\ Len(old) = n
      /\ \A k \in 1..(n - 1) : old[k] = Result(k, "COMPLETED")
      /\ old[n] = Result(n, "FAILED")
  BY <1>1, WithResultFacts, NextResult DEF TurnStatuses, Shape
<1>4. /\ Skipped \in Seq(TurnResults) /\ Len(Skipped) = len - n
      /\ \A k \in 1..(len - n) : Skipped[k] = Result(n + k, "SKIPPED")
  <2>1. len - n \in Nat
    BY <1>1
  <2>2. Skipped \in [1..(len - n) -> TurnResults]
    BY <1>1 DEF Skipped, Result, TurnResults, TurnStatuses
  <2>3. Skipped \in Seq(TurnResults) /\ Len(Skipped) = len - n
    BY <2>1, <2>2
  <2> QED
    BY <2>3 DEF Skipped
<1>5. /\ DOMAIN state' = StateFields /\ state'.sessionID = state.sessionID
      /\ new = IF skip THEN old \o Skipped ELSE old
  BY <1>2 DEF PostConditionFails, StateFields
<1> DEFINE last == IF skip THEN len ELSE n
<1>6. /\ new \in Seq(TurnResults) /\ Len(new) = last /\ DOMAIN new = 1..last
      /\ \A k \in 1..(n - 1) : new[k] = Result(k, "COMPLETED")
      /\ new[n] = Result(n, "FAILED")
      /\ \A k \in (n + 1)..last : new[k] = Result(k, "SKIPPED")
  <2>1. CASE skip
    <3>1. new = old \o Skipped
      BY <1>5, <2>1
    <3>2. /\ new \in Seq(TurnResults) /\ Len(new) = len /\ DOMAIN new = 1..len
          /\ \A k \in 1..n : new[k] = old[k]
          /\ \A k \in (n + 1)..len : new[k] = Skipped[k - n]
      <4> HIDE DEF new, old
      <4>0. n \in Nat /\ len - n \in Nat
        BY <1>1
      <4> HIDE DEF n, len
      <4>1. /\ old \in Seq(TurnResults) /\ Len(old) = n
            /\ Skipped \in Seq(TurnResults)
        BY <1>3, <1>4
      <4>2. PICK m \in Nat : m = len - n
        BY <4>0
      <4>3. Len(Skipped) = m
        BY <1>4, <4>2
      <4>4. /\ new \in Seq(TurnResults) /\ Len(new) = n + m
            /\ \A k \in 1..n : new[k] = old[k]
            /\ \A k \in (n + 1)..(n + m) : new[k] = Skipped[k - n]
        <5> DEFINE r == Skipped
                   q == old
        <5>1. /\ q \in Seq(TurnResults) /\ Len(q) = n
              /\ r \in Seq(TurnResults) /\ Len(r) = m /\ n \in Nat /\ m \in Nat
          BY <4>0, <4>1, <4>3
        <5> HIDE DEF q, r, failed
        <5>2. /\ q \o r \in Seq(TurnResults)
          BY <5>1, Concatenated, Zenon
        <5>3. Len(q \o r) = n + m
          BY <5>1, Concatenated, Zenon
        <5>4. \A k \in 1..n : (q \o r)[k] = q[k]
          BY <5>1, Concatenated, Zenon
        <5>5. \A k \in (n + 1)..(n + m) : (q \o r)[k] = r[k - n]
          <6>1. \A k \in (n + 1)..(n + m) : k \in 1..(Len(q) + Len(r)) /\ ~(k <= Len(q))
            BY <5>1
          <6> QED
            BY <5>1, <6>1, ConcatProperties
        <5>6. new = q \o r
          BY <3>1 DEF q, r
        <5> QED
          BY <5>2, <5>3, <5>4, <5>5, <5>6, Zenon DEF q, r
      <4>5. n + m = len
        BY <1>1, <4>2 DEF n, len
      <4>6. DOMAIN new = 1..Len(new)
        BY <4>4
      <4> QED
        BY <4>4, <4>5, <4>6
    <3>3. \A k \in (n + 1)..len : Skipped[k - n] = Result(k, "SKIPPED")
      <4> SUFFICES ASSUME NEW k \in (n + 1)..len
                   PROVE  Skipped[k - n] = Result(k, "SKIPPED")
        OBVIOUS
      <4>1. k - n \in 1..(len - n) /\ n + (k - n) = k
        BY <1>1
      <4> QED
        BY <1>4, <4>1
    <3>4. \A k \in 1..(n - 1) : k \in 1..n
      BY <1>1
    <3>5. n \in 1..n
      BY <1>1
    <3> HIDE DEF new, old
    <3> QED
      BY <1>3, <2>1, <3>2, <3>3, <3>4, <3>5
  <2>2. CASE ~skip
    BY <1>1, <1>3, <1>5, <2>2
  <2> QED
    BY <2>1, <2>2
<1> HIDE DEF new, old, failed
<1>7. multiTurnStatus(new) = IF n < last THEN "" ELSE "FAIL"
  <2>1. n <= last /\ last \in Nat
    BY <1>1
  <2>2. /\ \A k \in 1..(n - 1) : new[k].status = "COMPLETED"
        /\ new[n].status = "FAILED"
        /\ \A k \in (n + 1)..last : new[k].status = "SKIPPED"
    BY <1>6, ResultFields
  <2> HIDE DEF n, len, last
  <2> QED
    BY <1>1, <1>6, <2>1, <2>2, StatusOfFailed
<1>8. /\ pc' = "returned" /\ failedAt' = n /\ turns' = turns /\ turnNum' = turnNum
      /\ outcome'.status = IF n < last THEN "judge" ELSE "FAIL"
      /\ UNCHANGED <<fixed, sessions, ids>>
  <2>1. /\ ReturnResults(state') /\ failedAt' = n
        /\ UNCHANGED <<fixed, turnNum, sessions, ids>>
    BY DEF PostConditionFails
  <2>2. /\ pc' = "returned"
        /\ outcome'.status = IF multiTurnStatus(new) = "" THEN "judge" ELSE multiTurnStatus(new)
    BY <2>1 DEF ReturnResults, new
  <2> HIDE DEF last
  <2> QED
    BY <1>7, <2>1, <2>2 DEF fixed
<1>9. Answered' = 1..n
  BY <1>1, <1>8 DEF Answered, Messages
<1>10. Shape'
  BY <1>5, <1>6, <1>8 DEF Shape, new
<1>11. Progress' /\ Unnamed' /\ OneConversation'
  BY <1>5, <1>8 DEF Progress, Unnamed, OneConversation
<1>12. TurnsAccounted'
  <2>1. ASSUME NEW k \in 1..last
        PROVE  /\ new[k].turn = k
               /\ new[k].status \in {"COMPLETED", "FAILED"} => k \in Answered'
               /\ new[k].status = "SKIPPED" => k \notin Answered'
               /\ \A j \in 1..(k - 1) : new[j].status # "COMPLETED" => new[k].status = "SKIPPED"
    <3>0. /\ \A j \in 1..(n - 1) : new[j].turn = j /\ new[j].status = "COMPLETED"
          /\ new[n].turn = n /\ new[n].status = "FAILED"
          /\ \A j \in (n + 1)..last : new[j].turn = j /\ new[j].status = "SKIPPED"
      BY <1>6, ResultFields
    <3>1. CASE k \in 1..(n - 1)
      BY <1>1, <1>9, <3>0, <3>1
    <3>2. CASE k = n
      BY <1>1, <1>9, <3>0, <3>2
    <3>3. CASE k \in (n + 1)..last
      BY <1>1, <1>9, <3>0, <3>3
    <3> QED
      BY <1>1, <3>1, <3>2, <3>3
  <2>2. outcome'.status \in {"judge", "SKIP"} => last = len
    <3>1. n < last => last = len
      <4>1. n \in Nat
        BY <1>1
      <4>2. ~(n < n)
        BY <4>1
      <4> HIDE DEF n, len, skip
      <4> QED
        BY <4>2, Zenon
    <3> HIDE DEF last, len, n
    <3> QED
      BY <1>8, <3>1
  <2> QED
    BY <1>6, <1>8, <2>1, <2>2 DEF TurnsAccounted, new
<1>13. VerdictDeserved'
  <2>1. (n < last) <=> (skip /\ n < len)
    BY <1>1
  <2>2. /\ outcome'.status = "judge" <=> (skip /\ n < len)
        /\ outcome'.status = "FAIL" <=> ~(skip /\ n < len)
        /\ outcome'.status # "ERROR"
    <3> HIDE DEF last, len, n, skip
    <3> QED
      BY <1>8, <2>1
  <2>3. failedAt' = turnNum /\ turnNum # 0 /\ turns' = turns
    BY <1>1, <1>8
  <2>4. SkipRemainingFailed' <=> skip
    BY <2>3 DEF SkipRemainingFailed
  <2>5. n <= len /\ n \in Nat /\ len \in Nat
    BY <1>1
  <2> HIDE DEF skip
  <2> QED
    BY <2>2, <2>3, <2>4, <2>5 DEF VerdictDeserved, n, len
<1> QED
  BY <1>10, <1>11, <1>12, <1>13

-----------------------------------------------------------------------------
(* The steps that go on.                                                   *)
LEMMA SendStep ==
  ASSUME TurnInv, pc = "sending", turnNum <= Len(turns), pc' = "running",
         UNCHANGED <<fixed, state, turnNum, sessions, ids, failedAt, outcome>>
  PROVE  TurnInv'
<1>1. Answered' = Answered
  BY DEF Answered, Messages
<1> QED
  BY <1>1 DEF TurnInv, Shape, Progress, Count, Unnamed, OneConversation, TurnsAccounted,
              VerdictDeserved, SkipRemainingFailed, fixed

LEMMA CompleteStep ==
  ASSUME TurnInv, CompleteTurn
  PROVE  TurnInv'
<1> USE DEF TurnInv
<1>1. /\ pc = "checking" /\ pc' = "sending" /\ turnNum' = turnNum + 1 /\ turnNum \in Nat \ {0}
      /\ UNCHANGED <<fixed, sessions, ids, failedAt, outcome>>
      /\ Answered' = Answered /\ Answered = 1..turnNum
  BY DEF CompleteTurn, Shape, Progress, Count, Answered, Messages
<1>2. /\ DOMAIN state' = StateFields /\ state'.sessionID = state.sessionID
      /\ state'.turnResults = Append(state.turnResults, Result(turnNum, "COMPLETED"))
  <2>1. PICK captured : state' = [WithResult("COMPLETED") EXCEPT !.captured = captured]
    BY DEF CompleteTurn
  <2> QED
    BY <2>1, WithResultFacts DEF Shape, StateFields
<1>3. /\ state'.turnResults \in Seq(TurnResults) /\ Len(state'.turnResults) = turnNum
      /\ \A k \in 1..turnNum : state'.turnResults[k] = Result(k, "COMPLETED")
  <2>1. /\ state'.turnResults \in Seq(TurnResults) /\ Len(state'.turnResults) = turnNum
        /\ \A k \in 1..(turnNum - 1) : state'.turnResults[k] = Result(k, "COMPLETED")
        /\ state'.turnResults[turnNum] = Result(turnNum, "COMPLETED")
    BY <1>1, <1>2, NextResult DEF TurnStatuses
  <2> QED
    BY <1>1, <2>1
<1>4. Shape'
  BY <1>1, <1>2, <1>3 DEF Shape, fixed
<1>5. Progress'
  BY <1>1, <1>3 DEF Progress, Count, Shape, fixed
<1>6. Unnamed' /\ OneConversation'
  BY <1>1, <1>2 DEF Unnamed, OneConversation
<1>7. TurnsAccounted'
  <2>1. DOMAIN state'.turnResults = 1..turnNum
    BY <1>1, <1>3
  <2>2. \A k \in 1..turnNum : /\ state'.turnResults[k].turn = k
                              /\ state'.turnResults[k].status = "COMPLETED"
    BY <1>3, ResultFields
  <2>3. \A k \in 1..turnNum : \A j \in 1..(k - 1) : j \in 1..turnNum
    BY <1>1
  <2>4. outcome'.status = "none"
    BY <1>1 DEF Progress
  <2> QED
    BY <1>1, <2>1, <2>2, <2>3, <2>4 DEF TurnsAccounted
<1>8. VerdictDeserved'
  BY <1>1 DEF VerdictDeserved, SkipRemainingFailed, Progress
<1> QED
  BY <1>4, <1>5, <1>6, <1>7, <1>8

(* An answer: its message joins the conversation that was resumed, or one  *)
(* that is new because no answer before it named its session.              *)
LEMMA RunStep ==
  ASSUME TurnInv, RunTurn
  PROVE  TurnInv'
<1> USE DEF TurnInv
<1>1. /\ pc = "running" /\ pc' = "checking" /\ turnNum \in Nat \ {0}
      /\ UNCHANGED <<fixed, turnNum, failedAt, outcome>>
      /\ ids \in Seq(Nat) /\ Len(ids) = turnNum - 1 /\ Answered = 1..(turnNum - 1)
  BY DEF RunTurn, Shape, Progress, Count
<1> DEFINE resumed == state.sessionID # 0
           c       == IF resumed THEN state.sessionID ELSE Len(sessions) + 1
<1>2. PICK text \in Texts : \E reply, conversation :
        /\ conversation = IF resumed THEN Append(sessions[c], [turn |-> turnNum, text |-> text])
                          ELSE <<[turn |-> turnNum, text |-> text]>>
        /\ sessions' = IF resumed THEN [sessions EXCEPT ![c] = conversation]
                       ELSE Append(sessions, conversation)
        /\ reply.id \in {0, c}
        /\ ids' = Append(ids, reply.id)
        /\ state' = Absorb(state, reply)
  <2>1. PICK text \in Texts :
          LET said == [turn |-> turnNum, text |-> text]
              conversation == IF resumed THEN Append(sessions[c], said) ELSE <<said>>
          IN  /\ sessions' = IF resumed THEN [sessions EXCEPT ![c] = conversation]
                             ELSE Append(sessions, conversation)
              /\ \E reply \in Reports(c, conversation, resumed) :
                   /\ ids' = Append(ids, reply.id)
                   /\ state' = Absorb(state, reply)
    BY DEF RunTurn
  <2>2. \A conversation : \A reply \in Reports(c, conversation, resumed) : reply.id \in {0, c}
    BY DEF Reports
  <2> QED
    BY <2>1, <2>2
<1>20. PICK reply, conversation :
      /\ conversation = IF resumed THEN Append(sessions[c], [turn |-> turnNum, text |-> text])
                        ELSE <<[turn |-> turnNum, text |-> text]>>
      /\ sessions' = IF resumed THEN [sessions EXCEPT ![c] = conversation]
                     ELSE Append(sessions, conversation)
      /\ reply.id \in {0, c}
      /\ ids' = Append(ids, reply.id)
      /\ state' = Absorb(state, reply)
  BY <1>2
<1> DEFINE said == [turn |-> turnNum, text |-> text]
<1>3. said \in Said /\ said.turn = turnNum
  BY <1>1 DEF Said
<1>4. c \in Nat
  BY DEF Shape
<1>5. /\ sessions' \in Seq(Seq(Said) \ {<<>>})
      /\ Len(sessions') >= Len(sessions) /\ c \in 1..Len(sessions')
      /\ Answered' = Answered \cup {turnNum}
      /\ \A d \in 1..Len(sessions) : sessions'[d][1] = sessions[d][1]
      /\ \A d \in 1..Len(sessions') : d \in 1..Len(sessions) \/ sessions'[d][1].turn = turnNum
  <2> HIDE DEF said
  <2>1. \/ /\ c = state.sessionID /\ c # 0
           /\ conversation = Append(sessions[c], said)
           /\ sessions' = [sessions EXCEPT ![c] = conversation]
        \/ /\ c = Len(sessions) + 1
           /\ conversation = <<said>>
           /\ sessions' = Append(sessions, conversation)
    BY <1>20 DEF said
  <2> HIDE DEF c, resumed
  <2> QED
    BY <1>3, <1>4, <2>1, MessageAdded
<1>6. Answered' = 1..turnNum
  BY <1>1, <1>5
<1>7. /\ DOMAIN state' = StateFields /\ state'.turnResults = state.turnResults
      /\ state'.sessionID = IF reply.id # 0 THEN reply.id ELSE state.sessionID
  BY <1>20, AbsorbFacts DEF Shape, SessionAfter
<1>8. /\ ids' \in Seq(Nat) /\ Len(ids') = turnNum /\ ids'[turnNum] = reply.id
      /\ \A k \in 1..(turnNum - 1) : ids'[k] = ids[k]
      /\ DOMAIN ids' = 1..turnNum /\ DOMAIN ids = 1..(turnNum - 1)
  BY <1>1, <1>20, <1>4
<1>9. Len(sessions) \in Nat /\ Len(sessions') \in Nat
  BY <1>5 DEF Shape
<1>10. Shape'
  <2>1. state'.sessionID \in 0..Len(sessions')
    BY <1>20, <1>5, <1>7, <1>9 DEF Shape
  <2> QED
    BY <1>1, <1>5, <1>7, <1>8, <2>1 DEF Shape, fixed
<1>11. Progress'
  BY <1>1, <1>6, <1>7, <1>8 DEF Progress, Count, fixed
<1>12. Unnamed'
  <2> SUFFICES ASSUME state'.sessionID = 0, NEW k \in 1..turnNum
               PROVE  ids'[k] = 0
    BY <1>8 DEF Unnamed
  <2>1. state.sessionID = 0 /\ reply.id = 0
    BY <1>7
  <2> QED
    BY <1>1, <1>8, <2>1 DEF Unnamed
<1>13. OneConversation'
  <2> SUFFICES ASSUME NEW d \in 2..Len(sessions'), NEW k \in 1..(sessions'[d][1].turn - 1)
               PROVE  ids'[k] = 0
    BY DEF OneConversation
  <2>1. CASE d \in 1..Len(sessions)
    <3>1. sessions'[d][1] = sessions[d][1] /\ d \in 2..Len(sessions)
      BY <1>5, <1>9, <2>1
    <3>2. sessions[d] \in Seq(Said) /\ 1 \in DOMAIN sessions[d] /\ sessions[d][1].turn \in Nat
      <4>1. sessions[d] \in Seq(Said) \ {<<>>}
        BY <2>1 DEF Shape
      <4>2. 1 \in DOMAIN sessions[d]
        BY <4>1, EmptySeq
      <4>3. sessions[d][1] \in Said
        BY <4>1, <4>2, ElementOfSeq
      <4> QED
        BY <4>1, <4>2, <4>3 DEF Said
    <3>3. sessions[d][1].turn \in Answered
      BY <2>1, <3>2, AnsweredIs DEF Shape
    <3>4. k \in 1..(turnNum - 1)
      BY <1>1, <3>1, <3>2, <3>3
    <3>5. ids[k] = 0
      BY <3>1 DEF OneConversation
    <3> QED
      BY <1>8, <3>4, <3>5
  <2>2. CASE d \notin 1..Len(sessions)
    <3>1. sessions'[d][1].turn = turnNum
      BY <1>5, <2>2
    <3>2. state.sessionID = 0
      <4> SUFFICES ASSUME resumed PROVE FALSE
        OBVIOUS
      <4>1. sessions' = [sessions EXCEPT ![c] = conversation]
        BY <1>20
      <4>2. DOMAIN sessions' = DOMAIN sessions
        BY <4>1
      <4> QED
        BY <1>5, <1>9, <2>2, <4>2 DEF Shape
    <3> QED
      BY <1>1, <1>8, <3>1, <3>2 DEF Unnamed
  <2> QED
    BY <2>1, <2>2
<1>14. TurnsAccounted'
  <2>1. DOMAIN state.turnResults = 1..(turnNum - 1) /\ outcome.status = "none"
    BY <1>1 DEF Shape, Progress
  <2> QED
    BY <1>1, <1>6, <1>7, <2>1 DEF TurnsAccounted, Progress, Result
<1>15. VerdictDeserved'
  BY <1>1 DEF VerdictDeserved, SkipRemainingFailed, Progress
<1> QED
  BY <1>10, <1>11, <1>12, <1>13, <1>14, <1>15

-----------------------------------------------------------------------------
LEMMA TurnInvInit == TurnsInit => TurnInv
<1> SUFFICES ASSUME TurnsInit PROVE TurnInv
  OBVIOUS
<1>1. turns \in Seq(Turns) /\ Len(turns) \in Nat \ {0}
  <2>1. PICK n \in 1..MaxTurns : turns \in [1..n -> Turns]
    BY DEF TurnsInit
  <2>2. n \in Nat \ {0}
    BY <2>1, TurnsAssumption
  <2> QED
    BY <2>1, <2>2
<1>2. /\ state = NewState /\ sessions = <<>> /\ ids = <<>> /\ pc = "sending" /\ turnNum = 1
      /\ failedAt = 0 /\ outcome.status = "none"
  BY DEF TurnsInit
<1>3. DOMAIN state = StateFields /\ state.turnResults = <<>> /\ state.sessionID = 0
  BY <1>2 DEF NewState, StateFields
<1>4. Answered = {}
  BY <1>2, AnsweredIs
<1>5. Shape
  BY <1>1, <1>2, <1>3 DEF Shape
<1>6. Progress
  BY <1>1, <1>2, <1>3, <1>4 DEF Progress, Count
<1>7. Unnamed /\ OneConversation /\ TurnsAccounted /\ VerdictDeserved
  BY <1>2, <1>3 DEF Unnamed, OneConversation, TurnsAccounted, VerdictDeserved,
            SkipRemainingFailed
<1> QED
  BY <1>5, <1>6, <1>7 DEF TurnInv

LEMMA TurnInvStep == TurnInv /\ [TurnsNext]_turnVars => TurnInv'
<1> SUFFICES ASSUME TurnInv, [TurnsNext]_turnVars PROVE TurnInv'
  OBVIOUS
<1>1. CASE SubstituteTemplate
  BY <1>1, RegularEnd, ErrorEnds, SendStep DEF SubstituteTemplate, ReturnError
<1>2. CASE TurnFails \/ CaptureFails
  <2>1. turnNum <= Len(turns)
    BY <1>2 DEF TurnInv, Progress, Shape, TurnFails, CaptureFails
  <2> QED
    BY <1>2, <2>1, ErrorEnds DEF TurnFails, CaptureFails, ReturnError
<1>3. CASE RunTurn
  BY <1>3, RunStep
<1>4. CASE PostConditionFails
  BY <1>4, ConditionEnds
<1>5. CASE CompleteTurn
  BY <1>5, CompleteStep
<1>6. CASE UNCHANGED turnVars
  <2>1. UNCHANGED <<turns, pc, turnNum, state, sessions, ids, failedAt, outcome>>
    BY <1>6 DEF turnVars
  <2>2. Answered' = Answered
    BY <2>1 DEF Answered, Messages
  <2>3. Shape' /\ Unnamed' /\ OneConversation'
    BY <2>1 DEF TurnInv, Shape, Unnamed, OneConversation
  <2>4. Progress'
    BY <2>1, <2>2 DEF TurnInv, Progress, Count
  <2>5. TurnsAccounted' /\ VerdictDeserved'
    BY <2>1, <2>2 DEF TurnInv, TurnsAccounted, VerdictDeserved,
            SkipRemainingFailed
  <2> QED
    BY <2>3, <2>4, <2>5 DEF TurnInv
<1> QED
  BY <1>1, <1>2, <1>3, <1>4, <1>5, <1>6 DEF TurnsNext

THEOREM TurnInvCorrect == TurnsSpec => []TurnInv
BY TurnInvInit, TurnInvStep, PTL DEF TurnsSpec

(* Every turn of a case of any length is accounted for once and in order:  *)
(* what the agent answered, at most one turn that ended the conversation,  *)
(* then only turns that were never sent.                                   *)
THEOREM TurnsAccountedCorrect == TurnsSpec => []TurnsAccounted
BY TurnInvCorrect, PTL DEF TurnInv

(* The status read back off the list of turn results is the one the turns  *)
(* deserve, although fail and skip_remaining differ only in what follows.  *)
THEOREM VerdictDeservedCorrect == TurnsSpec => []VerdictDeserved
BY TurnInvCorrect, PTL DEF TurnInv

(* A turn opens a new conversation only when no answer before it named its *)
(* session.                                                                *)
THEOREM OneConversationCorrect == TurnsSpec => []OneConversation
BY TurnInvCorrect, PTL DEF TurnInv


-----------------------------------------------------------------------------
(* A set of natural numbers that is not empty has a least member: the form *)
(* of induction used here.                                                 *)
LEMMA Least ==
  ASSUME NEW T \in SUBSET Nat, T # {}
  PROVE  \E n \in T : \A m \in T : n <= m
<1>1. IsWellFoundedOn(OpToRel(<, Nat), Nat)
  BY NatLessThanWellFounded
<1>2. \E n \in T : \A m \in T : ~(<<m, n>> \in OpToRel(<, Nat))
  BY <1>1, WFMin
<1>3. \A m, n \in Nat : <<m, n>> \in OpToRel(<, Nat) <=> m < n
  BY DEF OpToRel
<1>4. \E n \in T : \A m \in T : ~(m < n)
  BY <1>2, <1>3, Zenon
<1> QED
  BY <1>4

(* The sums that Usage builds up.                                          *)
Sums(t, f, n) == f = [k \in 0..n |-> IF k = 0 THEN 0 ELSE f[k - 1] + t[k].turn]

LEMMA UsageIs ==
  ASSUME NEW t
  PROVE  Usage(t) = (CHOOSE f : Sums(t, f, Len(t)))[Len(t)]
BY DEF Usage, Sums

LEMMA SumsExist ==
  ASSUME NEW t, NEW n \in Nat
  PROVE  \E f : Sums(t, f, n)
<1> DEFINE T == {k \in Nat : ~\E f : Sums(t, f, k)}
<1>1. ASSUME T # {} PROVE FALSE
  <2>1. PICK k \in T : \A m \in T : k <= m
    BY <1>1, Least
  <2>2. k # 0
    <3>1. Sums(t, [j \in 0..0 |-> 0], 0)
      BY DEF Sums
    <3> QED
      BY <2>1, <3>1
  <2>3. k - 1 \in Nat /\ k - 1 \notin T
    BY <2>1, <2>2
  <2>4. PICK f : Sums(t, f, k - 1)
    BY <2>3
  <2> DEFINE g == [j \in 0..k |-> IF j = k THEN f[k - 1] + t[k].turn ELSE f[j]]
  <2>5. Sums(t, g, k)
    <3>1. \A j \in 0..(k - 1) : f[j] = IF j = 0 THEN 0 ELSE f[j - 1] + t[j].turn
      BY <2>4 DEF Sums
    <3>2. \A j \in 0..k : g[j] = IF j = 0 THEN 0 ELSE g[j - 1] + t[j].turn
      BY <2>2, <2>3, <3>1
    <3> HIDE DEF g
    <3>3. g = [j \in 0..k |-> g[j]]
      BY DEF g
    <3> QED
      BY <3>2, <3>3 DEF Sums
  <2> QED
    BY <2>1, <2>5
<1> QED
  BY <1>1

(* Turns 1 to n cost n (n + 1) / 2.                                        *)
LEMMA UsageOfCounting ==
  ASSUME NEW t, NEW n \in Nat, Len(t) = n, \A k \in 1..n : t[k].turn = k
  PROVE  Usage(t) \in Nat /\ 2 * Usage(t) = n * (n + 1)
<1> DEFINE f == CHOOSE g : Sums(t, g, n)
<1>1. Sums(t, f, n)
  BY SumsExist
<1>2. Usage(t) = f[n]
  BY UsageIs
<1> HIDE DEF f
<1>3. \A k \in 0..n : f[k] = IF k = 0 THEN 0 ELSE f[k - 1] + t[k].turn
  BY <1>1 DEF Sums
<1> DEFINE T == {k \in 0..n : ~(f[k] \in Nat /\ 2 * f[k] = k * (k + 1))}
<1>4. ASSUME T # {} PROVE FALSE
  <2>1. PICK k \in T : \A m \in T : k <= m
    <3>1. T \in SUBSET Nat
      OBVIOUS
    <3> QED
      BY <1>4, <3>1, Least
  <2>2. k # 0
    <3>1. f[0] = 0 /\ 2 * f[0] = 0 * (0 + 1)
      BY <1>3
    <3> QED
      BY <2>1, <3>1
  <2>3. k - 1 \in 0..n /\ k - 1 \notin T /\ k \in 1..n
    <3>1. k \in 0..n /\ n \in Nat
      BY <2>1
    <3>2. k - 1 \in 0..n /\ k \in 1..n /\ ~(k <= k - 1)
      BY <2>2, <3>1
    <3> HIDE DEF T
    <3> QED
      BY <2>1, <3>2
  <2>4. PICK j \in Nat : j = k - 1
    BY <2>3
  <2>5. f[j] \in Nat /\ 2 * f[j] = j * (j + 1)
    BY <2>3, <2>4
  <2>6. f[k] = f[j] + k /\ k = j + 1
    <3>1. f[k] = f[k - 1] + t[k].turn
      BY <1>3, <2>1, <2>2
    <3>2. t[k].turn = k
      BY <2>3
    <3> QED
      BY <2>1, <2>4, <3>1, <3>2
  <2>7. f[k] \in Nat /\ 2 * f[k] = k * (k + 1)
    <3>1. 2 * f[k] = 2 * f[j] + 2 * (j + 1)
      BY <2>5, <2>6
    <3>2. j * (j + 1) + 2 * (j + 1) = (j + 1) * (j + 2)
      BY <2>4
    <3> QED
      BY <2>5, <2>6, <3>1, <3>2
  <2> QED
    BY <2>1, <2>7
<1> QED
  BY <1>2, <1>4

LEMMA UsageOfOne ==
  ASSUME NEW m, m.turn \in Nat
  PROVE  Usage(<<m>>) = m.turn
<1> DEFINE f == CHOOSE g : Sums(<<m>>, g, 1)
<1>1. Sums(<<m>>, f, 1)
  BY SumsExist
<1>2. Usage(<<m>>) = f[1]
  BY UsageIs
<1> HIDE DEF f
<1>3. f[1] = f[0] + m.turn /\ f[0] = 0
  BY <1>1 DEF Sums
<1> QED
  BY <1>2, <1>3

-----------------------------------------------------------------------------
(* When one answer is recognized in the next.                              *)
LEMMA NothingRecognized ==
  ASSUME NEW current
  PROVE  ~Cumulative(current, <<>>)
BY DEF Cumulative

LEMMA SingletonWhole ==
  ASSUME NEW e
  PROVE  SubSeq(<<e>>, 1, 1) = <<e>>
<1> DEFINE q == <<e>>  p == SubSeq(q, 1, 1)
<1>1. q \in Seq({e}) /\ Len(q) = 1 /\ q = [k \in 1..1 |-> q[k]]
  OBVIOUS
<1> HIDE DEF q
<1>2. p = [k \in 1..1 |-> q[k]]
  BY <1>1
<1> QED
  BY <1>1, <1>2 DEF q

LEMMA OneRecognized ==
  ASSUME NEW m1 \in Said, NEW m2 \in Said, Cumulative(<<m2>>, <<m1>>)
  PROVE  m1.text = m2.text
<1> DEFINE p == Texting(<<m1>>)  q == Texting(<<m2>>)
<1>1. p = <<m1.text>> /\ q = <<m2.text>>
  BY DEF Texting
<1>2. SubSeq(p, 1, 1) = SubSeq(q, 1, 1)
  BY <1>1 DEF Cumulative, IsPrefix
<1>3. SubSeq(<<m1.text>>, 1, 1) = <<m1.text>> /\ SubSeq(<<m2.text>>, 1, 1) = <<m2.text>>
  BY SingletonWhole
<1>4. <<m1.text>> = <<m2.text>>
  BY <1>1, <1>2, <1>3
<1> QED
  BY <1>4

LEMMA WholeRecognized ==
  ASSUME NEW s \in Seq(Said), s # <<>>, NEW m \in Said
  PROVE  Cumulative(Append(s, m), s)
<1> DEFINE t == Append(s, m)  p == Texting(s)  q == Texting(t)
<1>1. /\ Len(s) \in Nat /\ t \in Seq(Said) /\ Len(t) = Len(s) + 1 /\ t # <<>>
      /\ DOMAIN s = 1..Len(s) /\ DOMAIN t = 1..(Len(s) + 1)
      /\ \A k \in 1..Len(s) : t[k] = s[k]
  OBVIOUS
<1> HIDE DEF t
<1>0. \A m0 \in Said : m0.text \in Texts
  BY DEF Said
<1>2. p \in Seq(Texts) /\ Len(p) = Len(s)
  <2>0. \A k \in 1..Len(s) : s[k].text \in Texts
    BY <1>0, <1>1
  <2>1. p \in [1..Len(s) -> Texts]
    BY <1>1, <2>0 DEF Texting
  <2> QED
    BY <1>1, <2>1
<1>3. q \in Seq(Texts) /\ Len(q) = Len(s) + 1
  <2>0. \A k \in 1..(Len(s) + 1) : t[k].text \in Texts
    BY <1>0, <1>1
  <2>1. q \in [1..(Len(s) + 1) -> Texts]
    BY <1>1, <2>0 DEF Texting
  <2> QED
    BY <1>1, <2>1
<1>4. \A k \in 1..Len(s) : p[k] = q[k]
  BY <1>1 DEF Texting
<1> HIDE DEF p, q
<1>5. SubSeq(p, 1, Len(p)) = SubSeq(q, 1, Len(p))
  BY <1>1, <1>2, <1>3, <1>4
<1> QED
  BY <1>1, <1>2, <1>3, <1>5 DEF Cumulative, IsPrefix, p, q, t

(* The tail of an answer is the one entry of its turn.                     *)
Entry(n) == [stamp |-> n, said |-> n]

LEMMA TailOfOne ==
  ASSUME NEW m, m.turn = turnNum, NEW previous, ~Cumulative(<<m>>, previous)
  PROVE  TurnTail(<<m>>, previous) = <<Entry(turnNum)>>
BY DEF TurnTail, Entry

LEMMA TailOfWhole ==
  ASSUME NEW s \in Seq(Said), s # <<>>, NEW m \in Said, m.turn = turnNum
  PROVE  TurnTail(Append(s, m), s) = <<Entry(turnNum)>>
<1>1. /\ Append(s, m) \in Seq(Said) /\ Len(Append(s, m)) = Len(s) + 1 /\ Len(s) \in Nat
      /\ Append(s, m)[Len(s) + 1] = m
  OBVIOUS
<1> DEFINE t == Append(s, m)  n == Len(s) + 1  u == SubSeq(t, n, n)
<1> HIDE DEF t
<1>4. t \in Seq(Said) /\ n \in Nat \ {0} /\ Len(t) = n /\ t[n] = m
  BY <1>1 DEF t
<1> HIDE DEF n
<1>5. u = [k \in 1..1 |-> t[n + k - 1]]
  BY <1>4
<1>6. u = <<m>>
  BY <1>4, <1>5
<1>2. SubSeq(Append(s, m), Len(s) + 1, Len(Append(s, m))) = <<m>>
  BY <1>4, <1>6 DEF t, n
<1>3. Cumulative(Append(s, m), s)
  BY WholeRecognized
<1> QED
  BY <1>2, <1>3 DEF TurnTail, Entry

-----------------------------------------------------------------------------
(* What tells answers apart: a single conversation, or texts.              *)
TextsApart == \A m1, m2 \in Messages : m1.text = m2.text => m1 = m2
ToldApart  == IF engine = "whole" THEN Len(sessions) <= 1 ELSE TextsApart

(* The transcript and the usage of n answered turns.                       *)
Entries == [stamp : Nat, said : Nat]
Transcribed(s, n) ==
  /\ s.transcript \in Seq(Entries) /\ Len(s.transcript) = n
  /\ \A k \in 1..n : s.transcript[k] = [stamp |-> k, said |-> k]
  /\ s.tokens \in Nat /\ 2 * s.tokens = n * (n + 1)

(* What the evaluator compares the next answer with.                       *)
Compared(s, n) ==
  /\ n = 0 => sessions = <<>> /\ s.sessionTranscript = <<>>
  /\ n > 0 /\ engine = "whole" =>
       /\ Len(sessions) = 1 /\ s.sessionTranscript = sessions[1] /\ Len(sessions[1]) = n
       /\ \A k \in 1..n : sessions[1][k].turn = k
  /\ n > 0 /\ engine = "scoped" =>
       \E m \in Messages : s.sessionTranscript = <<m>> /\ m.turn = n

CountInv ==
  /\ engine \in {"whole", "scoped"}
  /\ IsFiniteSet(Messages)
  /\ state.tokenBase = state.tokens
  /\ lastReply.transcript = state.sessionTranscript
  /\ ToldApart => \E n \in Nat :
       /\ Answered = 1..n /\ (pc # "returned" => n = Count)
       /\ Transcribed(state, n) /\ Compared(state, n)
       /\ pc = "returned" /\ engine = "whole" => outcome.turns = Answered

(* What an answer adds.                                                    *)
Added(s, reply) ==
  CASE ~Cumulative(reply.transcript, s.sessionTranscript) -> reply.usage
    [] /\ Cumulative(reply.transcript, s.sessionTranscript)
       /\ reply.usage > s.tokenBase -> reply.usage - s.tokenBase
    [] OTHER -> 0

LEMMA AbsorbCounts ==
  ASSUME NEW s, DOMAIN s = StateFields, NEW reply
  PROVE  /\ Absorb(s, reply).sessionTranscript = reply.transcript
         /\ Absorb(s, reply).transcript =
              s.transcript \o TurnTail(reply.transcript, s.sessionTranscript)
         /\ Absorb(s, reply).tokens = s.tokens + Added(s, reply)
         /\ Absorb(s, reply).tokenBase = s.tokenBase + Added(s, reply)
<1>1. PICK id, tail, added :
        /\ tail = TurnTail(reply.transcript, s.sessionTranscript) /\ added = Added(s, reply)
        /\ Absorb(s, reply) = [s EXCEPT !.sessionID = id, !.sessionTranscript = reply.transcript,
                                        !.transcript = @ \o tail, !.tokens = @ + added,
                                        !.tokenBase = @ + added]
  BY DEF Absorb, Added
<1> QED
  BY <1>1 DEF StateFields

LEMMA OneMoreEntry ==
  ASSUME NEW q \in Seq(Entries), NEW n \in Nat, Len(q) = n
  PROVE  /\ q \o <<Entry(n + 1)>> \in Seq(Entries) /\ Len(q \o <<Entry(n + 1)>>) = n + 1
         /\ \A k \in 1..n : (q \o <<Entry(n + 1)>>)[k] = q[k]
         /\ (q \o <<Entry(n + 1)>>)[n + 1] = Entry(n + 1)
<1>1. Entry(n + 1) \in Entries
  BY DEF Entry, Entries
<1> DEFINE e == Entry(n + 1)
<1> HIDE DEF e
<1>2. <<e>> \in Seq(Entries) /\ Len(<<e>>) = 1 /\ <<e>>[1] = e
  BY <1>1 DEF e
<1>3. /\ q \o <<e>> \in Seq(Entries) /\ Len(q \o <<e>>) = n + 1
      /\ \A k \in 1..n : (q \o <<e>>)[k] = q[k]
      /\ (q \o <<e>>)[n + 1] = e
  BY <1>2
<1> QED
  BY <1>3 DEF e

(* One more turn: what its answer adds to a transcript of those before it. *)
LEMMA OneMoreTurn ==
  ASSUME NEW s, DOMAIN s = StateFields, NEW reply, NEW n \in Nat, turnNum = n + 1,
         Transcribed(s, n), s.tokenBase = s.tokens,
         TurnTail(reply.transcript, s.sessionTranscript) = <<Entry(turnNum)>>,
         reply.usage \in Nat,
         \/ /\ ~Cumulative(reply.transcript, s.sessionTranscript)
            /\ reply.usage = n + 1
         \/ /\ Cumulative(reply.transcript, s.sessionTranscript)
            /\ 2 * reply.usage = (n + 1) * (n + 2)
  PROVE  Transcribed(Absorb(s, reply), n + 1)
<1> DEFINE a == Absorb(s, reply)
<1>1. a.transcript = s.transcript \o <<Entry(n + 1)>> /\ a.tokens = s.tokens + Added(s, reply)
  BY AbsorbCounts
<1>2. /\ s.transcript \in Seq(Entries) /\ Len(s.transcript) = n
      /\ \A k \in 1..n : s.transcript[k] = Entry(k)
      /\ s.tokens \in Nat /\ 2 * s.tokens = n * (n + 1)
  BY DEF Transcribed, Entry
<1> HIDE DEF a
<1>3. /\ a.transcript \in Seq(Entries) /\ Len(a.transcript) = n + 1
      /\ \A k \in 1..n : a.transcript[k] = Entry(k)
      /\ a.transcript[n + 1] = Entry(n + 1)
  <2> DEFINE q == s.transcript  r == q \o <<Entry(n + 1)>>
  <2>1. q \in Seq(Entries) /\ Len(q) = n
    BY <1>2
  <2> HIDE DEF q
  <2>2. /\ r \in Seq(Entries) /\ Len(r) = n + 1
        /\ \A k \in 1..n : r[k] = q[k]
        /\ r[n + 1] = Entry(n + 1)
    BY <2>1, OneMoreEntry, Zenon
  <2> HIDE DEF r
  <2>3. a.transcript = r /\ \A k \in 1..n : q[k] = Entry(k)
    BY <1>1, <1>2 DEF q, r
  <2> QED
    BY <2>2, <2>3
<1>4. \A k \in 1..(n + 1) : a.transcript[k] = Entry(k)
  BY <1>3
<1>5. a.tokens \in Nat /\ 2 * a.tokens = (n + 1) * (n + 2)
  <2>0. n * (n + 1) + 2 * (n + 1) = (n + 1) * (n + 2)
    OBVIOUS
  <2>1. CASE ~Cumulative(reply.transcript, s.sessionTranscript)
    <3>1. Added(s, reply) = n + 1
      BY <2>1 DEF Added
    <3>2. a.tokens = s.tokens + (n + 1)
      BY <1>1, <3>1
    <3>3. PICK x \in Nat : x = s.tokens
      BY <1>2
    <3>4. a.tokens = x + (n + 1) /\ 2 * x = n * (n + 1)
      BY <1>2, <3>2, <3>3
    <3>5. x + (n + 1) \in Nat /\ 2 * (x + (n + 1)) = 2 * x + 2 * (n + 1)
      OBVIOUS
    <3>6. 2 * (x + (n + 1)) = (n + 1) * (n + 2)
      BY <2>0, <3>4, <3>5
    <3> QED
      BY <3>4, <3>5, <3>6
  <2>2. CASE /\ Cumulative(reply.transcript, s.sessionTranscript)
             /\ 2 * reply.usage = (n + 1) * (n + 2)
    <3>1. reply.usage > s.tokens
      BY <1>2, <2>0, <2>2
    <3>2. Added(s, reply) = reply.usage - s.tokens
      BY <2>2, <3>1 DEF Added
    <3> QED
      BY <1>1, <1>2, <2>2, <3>2
  <2> QED
    BY <2>1, <2>2
<1>6. (n + 1) + 1 = n + 2
  OBVIOUS
<1> QED
  BY <1>3, <1>4, <1>5, <1>6 DEF Transcribed, Entry, a

-----------------------------------------------------------------------------
(* The steps that answer nothing.                                          *)
LEMMA TurnsOfTranscript ==
  ASSUME NEW n \in Nat, Transcribed(state, n)
  PROVE  TurnsIn(state.transcript) = 1..n
<1>1. DOMAIN state.transcript = 1..n /\ \A k \in 1..n : state.transcript[k].said = k
  <2>1. state.transcript \in Seq(Entries) /\ Len(state.transcript) = n
    BY DEF Transcribed
  <2>2. \A k \in 1..n : state.transcript[k] = Entry(k)
    BY DEF Transcribed, Entry
  <2>3. DOMAIN state.transcript = 1..n
    BY <2>1
  <2>4. \A k : Entry(k).said = k
    BY DEF Entry
  <2>5. \A k \in 1..n : state.transcript[k].said = k
    BY <2>2, <2>4, Zenon
  <2> QED
    BY <2>3, <2>5
<1>2. TurnsIn(state.transcript) = {state.transcript[k].said : k \in 1..n}
  BY <1>1 DEF TurnsIn
<1> QED
  BY <1>1, <1>2

LEMMA CountFrame ==
  ASSUME CountInv, UNCHANGED <<engine, sessions, lastReply>>,
         /\ state'.transcript = state.transcript
         /\ state'.sessionTranscript = state.sessionTranscript
         /\ state'.tokens = state.tokens /\ state'.tokenBase = state.tokenBase,
         pc' # "returned" => pc # "returned" /\ Count' = Count,
         pc' = "returned" =>
           \/ outcome'.turns = TurnsIn(state.transcript)
           \/ outcome'.turns = {lastReply.transcript[k].turn : k \in DOMAIN lastReply.transcript}
           \/ pc = "returned" /\ outcome' = outcome
  PROVE  CountInv'
<1>1. /\ Messages' = Messages /\ Answered' = Answered /\ ToldApart' = ToldApart
      /\ \A n : Transcribed(state', n) <=> Transcribed(state, n)
  BY DEF Messages, Answered, ToldApart, TextsApart, Transcribed
<1>2. \A n : Compared(state, n)' <=> Compared(state, n)
  BY <1>1 DEF Compared
<1>3. ASSUME ToldApart
      PROVE  \E n \in Nat : /\ Answered' = 1..n /\ (pc' # "returned" => n = Count')
                            /\ Transcribed(state', n) /\ Compared(state, n)'
                            /\ pc' = "returned" /\ engine' = "whole" => outcome'.turns = Answered'
  <2>1. PICK n \in Nat : /\ Answered = 1..n /\ (pc # "returned" => n = Count)
                         /\ Transcribed(state, n) /\ Compared(state, n)
                         /\ pc = "returned" /\ engine = "whole" => outcome.turns = Answered
    BY <1>3 DEF CountInv
  <2>2. ASSUME pc' = "returned", engine = "whole" PROVE outcome'.turns = 1..n
    <3>1. TurnsIn(state.transcript) = 1..n
      BY <2>1, TurnsOfTranscript
    <3>2. {lastReply.transcript[k].turn : k \in DOMAIN lastReply.transcript} = 1..n
      <4> DEFINE q == lastReply.transcript
      <4>1. q = state.sessionTranscript
        BY DEF CountInv
      <4>2. CASE n = 0
        <5>1. q = <<>>
          BY <2>1, <4>1, <4>2 DEF Compared
        <5> QED
          BY <4>2, <5>1
      <4>3. CASE n > 0
        <5>1. q = sessions[1] /\ Len(q) = n /\ \A k \in 1..n : q[k].turn = k
          BY <2>1, <2>2, <4>1, <4>3 DEF Compared
        <5>2. DOMAIN q = 1..n
          BY <5>1
        <5> HIDE DEF q
        <5>3. {q[k].turn : k \in DOMAIN q} = 1..n
          BY <5>1, <5>2
        <5> QED
          BY <5>3 DEF q
      <4> QED
        BY <4>2, <4>3
    <3> QED
      BY <2>1, <2>2, <3>1, <3>2
  <2> QED
    BY <1>1, <1>2, <2>1, <2>2
<1> QED
  BY <1>1, <1>3 DEF CountInv

-----------------------------------------------------------------------------
(* An answer.                                                              *)
LEMMA FiniteTexts ==
  ASSUME NEW M, IsFiniteSet(M), Cardinality({m.text : m \in M}) = Cardinality(M),
         NEW m1 \in M, NEW m2 \in M, m1.text = m2.text
  PROVE  m1 = m2
<1> DEFINE f == [m \in M |-> m.text]  T == {m.text : m \in M}
<1>1. f \in Surjection(M, T)
  BY DEF Surjection
<1>2. f \in Injection(M, T)
  BY <1>1, FS_Surjection
<1> QED
  BY <1>2 DEF Injection, IsInjective

(* What RunTurn does to the conversations, and what it gives to Absorb.    *)
LEMMA AnswerFacts ==
  ASSUME TurnInv, RunTurn, ~SessionFileMayBeLost, engine \in {"whole", "scoped"}
  PROVE  \E said \in Said, c \in Nat : \E conversation, reply :
           /\ said.turn = turnNum
           /\ \/ /\ c = state.sessionID /\ c # 0
                 /\ conversation = Append(sessions[c], said)
                 /\ sessions' = [sessions EXCEPT ![c] = conversation]
              \/ /\ c = Len(sessions) + 1
                 /\ conversation = <<said>>
                 /\ sessions' = Append(sessions, conversation)
           /\ reply.transcript = IF engine = "whole" THEN conversation ELSE <<said>>
           /\ reply.usage = Usage(reply.transcript)
           /\ lastReply' = reply /\ state' = Absorb(state, reply)
<1> DEFINE resumed == state.sessionID # 0
           c       == IF resumed THEN state.sessionID ELSE Len(sessions) + 1
           Said1(text) == [turn |-> turnNum, text |-> text]
           Talk(text)  == IF resumed THEN Append(sessions[c], Said1(text)) ELSE <<Said1(text)>>
<1>1. PICK text \in Texts :
        /\ sessions' = IF resumed THEN [sessions EXCEPT ![c] = Talk(text)]
                       ELSE Append(sessions, Talk(text))
        /\ \E reply \in Reports(c, Talk(text), resumed) :
             /\ lastReply' = reply /\ state' = Absorb(state, reply)
  BY DEF RunTurn
<1>2. PICK reply \in Reports(c, Talk(text), resumed) :
        lastReply' = reply /\ state' = Absorb(state, reply)
  BY <1>1
<1>3. Said1(text) \in Said /\ Said1(text).turn = turnNum
  BY DEF Said, TurnInv, Shape
<1>4. c \in Nat
  BY DEF TurnInv, Shape
<1>5. Last(Talk(text)) = Said1(text)
  <2>1. CASE resumed
    <3>1. sessions[c] \in Seq(Said)
      <4>1. c \in 1..Len(sessions)
        BY <2>1 DEF TurnInv, Shape
      <4>2. sessions \in Seq(Seq(Said) \ {<<>>})
        BY DEF TurnInv, Shape
      <4> QED
        BY <4>1, <4>2
    <3> QED
      BY <1>3, <2>1, <3>1 DEF Last
  <2>2. CASE ~resumed
    BY <2>2 DEF Last
  <2> QED
    BY <2>1, <2>2
<1>6. /\ reply.transcript = IF engine = "whole" THEN Talk(text) ELSE <<Said1(text)>>
      /\ reply.usage = Usage(reply.transcript)
  <2> HIDE DEF Talk, Said1, c, resumed
  <2> QED
    BY <1>2, <1>5 DEF Reports
<1> QED
  BY <1>1, <1>2, <1>3, <1>4, <1>6

LEMMA MessageTypes ==
  ASSUME Shape
  PROVE  \A m \in Messages : m \in Said
<1> SUFFICES ASSUME NEW m \in Messages PROVE m \in Said
  OBVIOUS
<1>1. PICK c \in DOMAIN sessions : \E j \in DOMAIN sessions[c] : sessions[c][j] = m
  BY MessagesIs
<1>2. sessions[c] \in Seq(Said)
  BY <1>1 DEF Shape
<1> QED
  BY <1>1, <1>2

LEMMA AnswerStep ==
  ASSUME TurnInv, CountInv, RunTurn, ~SessionFileMayBeLost
  PROVE  CountInv'
<1>1. /\ pc = "running" /\ pc' = "checking" /\ engine' = engine /\ turnNum' = turnNum
      /\ turnNum \in Nat \ {0} /\ Count = turnNum - 1 /\ Count' = turnNum
      /\ engine \in {"whole", "scoped"} /\ Shape
  BY DEF RunTurn, TurnInv, Shape, Count, fixed, CountInv
<1>2a. PICK said \in Said, c \in Nat :
        \E conversation, reply :
          /\ said.turn = turnNum
          /\ \/ /\ c = state.sessionID /\ c # 0
                /\ conversation = Append(sessions[c], said)
                /\ sessions' = [sessions EXCEPT ![c] = conversation]
             \/ /\ c = Len(sessions) + 1
                /\ conversation = <<said>>
                /\ sessions' = Append(sessions, conversation)
          /\ reply.transcript = IF engine = "whole" THEN conversation ELSE <<said>>
          /\ reply.usage = Usage(reply.transcript)
          /\ lastReply' = reply /\ state' = Absorb(state, reply)
  BY <1>1, AnswerFacts
<1>2. PICK conversation, reply :
        /\ said.turn = turnNum
        /\ \/ /\ c = state.sessionID /\ c # 0
              /\ conversation = Append(sessions[c], said)
              /\ sessions' = [sessions EXCEPT ![c] = conversation]
           \/ /\ c = Len(sessions) + 1
              /\ conversation = <<said>>
              /\ sessions' = Append(sessions, conversation)
        /\ reply.transcript = IF engine = "whole" THEN conversation ELSE <<said>>
        /\ reply.usage = Usage(reply.transcript)
        /\ lastReply' = reply /\ state' = Absorb(state, reply)
  BY <1>2a
<1>3. /\ Len(sessions') >= Len(sessions) /\ c \in 1..Len(sessions')
      /\ Len(sessions) \in Nat /\ Len(sessions') \in Nat
      /\ Messages' = Messages \cup {said} /\ Answered' = Answered \cup {turnNum}
      /\ sessions'[c] = conversation
  <2>1. /\ sessions' \in Seq(Seq(Said) \ {<<>>}) /\ Len(sessions') >= Len(sessions)
        /\ c \in 1..Len(sessions') /\ sessions'[c] = conversation
        /\ Messages' = Messages \cup {said} /\ Answered' = Answered \cup {turnNum}
    <3>1. \/ /\ c = state.sessionID /\ c # 0
             /\ conversation = Append(sessions[c], said)
             /\ sessions' = [sessions EXCEPT ![c] = conversation]
          \/ /\ c = Len(sessions) + 1
             /\ conversation = <<said>>
             /\ sessions' = Append(sessions, conversation)
      BY <1>2
    <3>2. Shape /\ said \in Said /\ said.turn = turnNum /\ c \in Nat
      BY <1>1, <1>2
    <3> QED
      BY <3>1, <3>2, MessageAdded
  <2>2. Len(sessions) \in Nat
    BY <1>1 DEF Shape
  <2>3. Len(sessions') \in Nat
    BY <2>1
  <2> QED
    BY <2>1, <2>2, <2>3
<1>4. DOMAIN state = StateFields
  BY <1>1 DEF Shape
<1>5. /\ IsFiniteSet(Messages') /\ state'.tokenBase = state'.tokens
      /\ lastReply'.transcript = state'.sessionTranscript
  <2>1. IsFiniteSet(Messages')
    BY <1>3, FS_AddElement DEF CountInv
  <2>2. /\ state'.sessionTranscript = reply.transcript
        /\ state'.tokens = state.tokens + Added(state, reply)
        /\ state'.tokenBase = state.tokenBase + Added(state, reply)
    BY <1>2, <1>4, AbsorbCounts
  <2>3. state.tokenBase = state.tokens
    BY DEF CountInv
  <2> QED
    BY <1>2, <2>1, <2>2, <2>3
<1>6. ASSUME ToldApart'
      PROVE  \E n \in Nat : /\ Answered' = 1..n /\ n = Count'
                            /\ Transcribed(state', n) /\ Compared(state, n)'
  <2>1. ToldApart
    BY <1>1, <1>3, <1>6 DEF ToldApart, TextsApart
  <2>2. PICK n \in Nat : /\ Answered = 1..n /\ n = turnNum - 1
                         /\ Transcribed(state, n) /\ Compared(state, n)
    BY <1>1, <2>1 DEF CountInv
  <2>3. turnNum = n + 1 /\ Answered' = 1..(n + 1) /\ said.turn = n + 1
    BY <1>1, <1>2, <1>3, <2>2
  <2>4. state'.sessionTranscript = reply.transcript
    BY <1>2, <1>4, AbsorbCounts
  <2>5. /\ TurnTail(reply.transcript, state.sessionTranscript) = <<Entry(turnNum)>>
        /\ reply.usage \in Nat
        /\ \/ /\ ~Cumulative(reply.transcript, state.sessionTranscript)
              /\ reply.usage = n + 1
           \/ /\ Cumulative(reply.transcript, state.sessionTranscript)
              /\ 2 * reply.usage = (n + 1) * (n + 2)
        /\ Compared(state, n + 1)'
    <3>1. CASE n = 0
      <4>1. sessions = <<>> /\ state.sessionTranscript = <<>>
        BY <2>2, <3>1 DEF Compared
      <4>2. c = 1 /\ conversation = <<said>> /\ sessions' = <<conversation>>
        BY <1>1, <1>2, <4>1 DEF Shape
      <4>3. reply.transcript = <<said>>
        BY <1>2, <4>2
      <4>4. reply.usage = n + 1
        BY <1>2, <2>3, <4>3, UsageOfOne
      <4>5. ~Cumulative(reply.transcript, state.sessionTranscript)
        BY <4>1, NothingRecognized
      <4>6. TurnTail(reply.transcript, state.sessionTranscript) = <<Entry(turnNum)>>
        BY <1>2, <4>3, <4>5, TailOfOne
      <4>7. Compared(state, n + 1)'
        <5>1. state'.sessionTranscript = <<said>> /\ sessions' = << <<said>> >>
          BY <2>4, <4>2, <4>3
        <5>2. /\ Len(sessions') = 1 /\ sessions'[1] = <<said>> /\ Len(<<said>>) = n + 1
              /\ \A k \in 1..(n + 1) : sessions'[1][k].turn = k
          BY <2>3, <3>1, <5>1
        <5>3. said \in Messages' /\ n + 1 # 0
          BY <1>3, <3>1
        <5> QED
          BY <2>3, <5>1, <5>2, <5>3 DEF Compared
      <4> QED
        BY <4>4, <4>5, <4>6, <4>7
    <3>2. CASE n > 0 /\ engine = "whole"
      <4>1. /\ Len(sessions) = 1 /\ state.sessionTranscript = sessions[1]
            /\ Len(sessions[1]) = n /\ \A k \in 1..n : sessions[1][k].turn = k
        BY <2>2, <3>2 DEF Compared
      <4>2. Len(sessions') = 1
        <5>1. Len(sessions') <= 1
          BY <1>1, <1>6, <3>2 DEF ToldApart
        <5>2. Len(sessions') \in Nat /\ Len(sessions') >= 1
          BY <1>3, <4>1, Zenon
        <5>3. PICK k : k = Len(sessions')
          OBVIOUS
        <5>4. k \in Nat /\ k >= 1 /\ k <= 1
          BY <5>1, <5>2, <5>3, Zenon
        <5>5. k = 1
          BY <5>4
        <5> QED
          BY <5>3, <5>5
      <4>3. c = 1
        BY <1>3, <4>2
      <4>4. conversation = Append(sessions[1], said)
        BY <1>2, <4>1, <4>3
      <4>5. sessions[1] \in Seq(Said) /\ sessions[1] # <<>>
        <5>1. sessions[1] \in Seq(Said) \ {<<>>}
          <6>1. sessions \in Seq(Seq(Said) \ {<<>>}) /\ 1 \in DOMAIN sessions
            BY <1>1, <4>1 DEF Shape
          <6> QED
            BY <6>1, ElementOfSeq
        <5> QED
          BY <5>1
      <4>6. reply.transcript = Append(state.sessionTranscript, said)
        BY <1>2, <3>2, <4>1, <4>4
      <4>7. /\ Len(reply.transcript) = n + 1
            /\ \A k \in 1..(n + 1) : reply.transcript[k].turn = k
        BY <2>3, <4>1, <4>5, <4>6
      <4>8. reply.usage \in Nat /\ 2 * reply.usage = (n + 1) * (n + 2)
        <5>1. (n + 1) + 1 = n + 2 /\ n + 1 \in Nat
          OBVIOUS
        <5>2. /\ Usage(reply.transcript) \in Nat
              /\ 2 * Usage(reply.transcript) = (n + 1) * ((n + 1) + 1)
          BY <4>7, <5>1, UsageOfCounting
        <5> QED
          BY <1>2, <5>1, <5>2
      <4>9. Cumulative(reply.transcript, state.sessionTranscript)
        BY <4>1, <4>5, <4>6, WholeRecognized
      <4>10. TurnTail(reply.transcript, state.sessionTranscript) = <<Entry(turnNum)>>
        BY <1>2, <4>1, <4>5, <4>6, TailOfWhole
      <4>11. Compared(state, n + 1)'
        <5>1. sessions'[1] = reply.transcript
          BY <1>2, <1>3, <3>2, <4>3
        <5>2. n + 1 # 0 /\ engine' # "scoped"
          BY <1>1, <3>2
        <5> QED
          BY <2>4, <4>2, <4>7, <5>1, <5>2 DEF Compared
      <4> QED
        BY <4>8, <4>9, <4>10, <4>11
    <3>3. CASE n > 0 /\ engine = "scoped"
      <4>1. PICK m \in Messages : state.sessionTranscript = <<m>> /\ m.turn = n
        BY <2>2, <3>3 DEF Compared
      <4>2. reply.transcript = <<said>>
        BY <1>2, <3>3
      <4>3. m.text # said.text
        BY <1>1, <1>3, <1>6, <2>3, <3>3, <4>1 DEF ToldApart, TextsApart
      <4>4. ~Cumulative(reply.transcript, state.sessionTranscript)
        BY <1>1, <4>1, <4>2, <4>3, MessageTypes, OneRecognized
      <4>5. reply.usage = n + 1
        BY <1>2, <2>3, <4>2, UsageOfOne
      <4>6. TurnTail(reply.transcript, state.sessionTranscript) = <<Entry(turnNum)>>
        BY <1>2, <4>2, <4>4, TailOfOne
      <4>7. Compared(state, n + 1)'
        <5>1. n + 1 # 0 /\ engine' # "whole" /\ said \in Messages'
          BY <1>1, <1>3, <3>3
        <5> QED
          BY <2>3, <2>4, <4>2, <5>1 DEF Compared
      <4> QED
        BY <4>4, <4>5, <4>6, <4>7
    <3> QED
      BY <1>1, <3>1, <3>2, <3>3
  <2>6. Transcribed(state', n + 1)
    BY <1>2, <1>4, <2>2, <2>3, <2>5, OneMoreTurn DEF CountInv
  <2> QED
    BY <1>1, <2>3, <2>5, <2>6
<1> QED
  BY <1>1, <1>5, <1>6 DEF CountInv

-----------------------------------------------------------------------------
LEMMA CountInvInit == TurnsInit => CountInv
<1> SUFFICES ASSUME TurnsInit PROVE CountInv
  OBVIOUS
<1>1. /\ engine \in {"whole", "scoped"} /\ sessions = <<>> /\ pc = "sending" /\ turnNum = 1
      /\ state = NewState /\ lastReply = NoReply
  BY TurnsAssumption DEF TurnsInit
<1>2. /\ state.transcript = <<>> /\ state.sessionTranscript = <<>>
      /\ state.tokens = 0 /\ state.tokenBase = 0 /\ lastReply.transcript = <<>>
  BY <1>1 DEF NewState, NoReply
<1>3. Messages = {} /\ Answered = {}
  BY <1>1 DEF Messages, Answered
<1>4. Answered = 1..0 /\ Count = 0 /\ 0 \in Nat
  BY <1>1, <1>3 DEF Count
<1>5. Transcribed(state, 0)
  BY <1>2 DEF Transcribed
<1>6. Compared(state, 0)
  BY <1>1, <1>2 DEF Compared
<1> QED
  BY <1>1, <1>2, <1>3, <1>4, <1>5, <1>6, FS_EmptySet DEF CountInv

(* The steps that write a result write nothing else that is counted.       *)
LEMMA ResultsCountNothing ==
  ASSUME DOMAIN state = StateFields, NEW status
  PROVE  /\ WithResult(status).transcript = state.transcript
         /\ WithResult(status).sessionTranscript = state.sessionTranscript
         /\ WithResult(status).tokens = state.tokens
         /\ WithResult(status).tokenBase = state.tokenBase
         /\ DOMAIN WithResult(status) = StateFields
BY DEF WithResult, StateFields

LEMMA CountInvStep ==
  ASSUME TurnInv, CountInv, ~SessionFileMayBeLost, [TurnsNext]_turnVars
  PROVE  CountInv'
<1>0. DOMAIN state = StateFields
  BY DEF TurnInv, Shape
<1>1. CASE RunTurn
  BY <1>1, AnswerStep
<1>2. CASE SubstituteTemplate
  <2>1. UNCHANGED <<engine, sessions, lastReply, turnNum>> /\ pc = "sending"
    BY <1>2 DEF SubstituteTemplate, fixed
  <2>2. state' = state \/ state' = WithResult("ERROR")
    BY <1>2 DEF SubstituteTemplate
  <2>3. \/ pc' = "running"
        \/ /\ pc' = "returned"
           /\ \/ outcome'.turns = TurnsIn(state.transcript)
              \/ outcome'.turns =
                   {lastReply.transcript[k].turn : k \in DOMAIN lastReply.transcript}
    <3>1. ASSUME NEW S, ReturnError(S) PROVE pc' = "returned" /\ outcome'.turns = S
      BY <3>1 DEF ReturnError
    <3>2. ASSUME ReturnResults(state)
          PROVE  pc' = "returned" /\ outcome'.turns = TurnsIn(state.transcript)
      <4>1. \E status : outcome' = [status |-> status, turns |-> TurnsIn(state.transcript)]
        BY <3>2 DEF ReturnResults
      <4> QED
        BY <3>2, <4>1 DEF ReturnResults
    <3>3. \/ pc' = "running" \/ ReturnResults(state)
          \/ ReturnError({lastReply.transcript[k].turn : k \in DOMAIN lastReply.transcript})
      BY <1>2 DEF SubstituteTemplate
    <3> QED
      BY <3>1, <3>2, <3>3
  <2>4. pc' # "returned" => Count' = Count
    BY <2>1, <2>3 DEF Count
  <2> QED
    BY <1>0, <2>1, <2>2, <2>3, <2>4, CountFrame, ResultsCountNothing
<1>3. CASE TurnFails \/ CaptureFails
  <2>1. /\ UNCHANGED <<engine, sessions, lastReply>> /\ state' = WithResult("ERROR")
        /\ pc' = "returned" /\ outcome'.turns = TurnsIn(state.transcript)
    BY <1>3 DEF TurnFails, CaptureFails, ReturnError, fixed
  <2> QED
    BY <1>0, <2>1, CountFrame, ResultsCountNothing
<1>4. CASE PostConditionFails
  <2>1. /\ UNCHANGED <<engine, sessions, lastReply>>
        /\ pc' = "returned" /\ outcome'.turns = TurnsIn(state'.transcript)
    BY <1>4 DEF PostConditionFails, ReturnResults, fixed
  <2>2. /\ state'.transcript = state.transcript
        /\ state'.sessionTranscript = state.sessionTranscript
        /\ state'.tokens = state.tokens /\ state'.tokenBase = state.tokenBase
    <3>1. \/ state' = WithResult("FAILED")
          \/ \E results : state' = [WithResult("FAILED") EXCEPT !.turnResults = results]
      BY <1>4 DEF PostConditionFails
    <3> QED
      BY <1>0, <3>1, ResultsCountNothing DEF StateFields
  <2> QED
    BY <2>1, <2>2, CountFrame
<1>5. CASE CompleteTurn
  <2>1. /\ UNCHANGED <<engine, sessions, lastReply>> /\ pc = "checking" /\ pc' = "sending"
        /\ turnNum' = turnNum + 1 /\ turnNum \in Nat
    BY <1>5 DEF CompleteTurn, fixed, TurnInv, Shape
  <2>2. /\ state'.transcript = state.transcript
        /\ state'.sessionTranscript = state.sessionTranscript
        /\ state'.tokens = state.tokens /\ state'.tokenBase = state.tokenBase
    <3>1. \E captured : state' = [WithResult("COMPLETED") EXCEPT !.captured = captured]
      BY <1>5 DEF CompleteTurn
    <3> QED
      BY <1>0, <3>1, ResultsCountNothing DEF StateFields
  <2>3. Count' = Count
    BY <2>1 DEF Count
  <2> QED
    BY <2>1, <2>2, <2>3, CountFrame
<1>6. CASE UNCHANGED turnVars
  <2>1. UNCHANGED <<engine, sessions, lastReply, pc, turnNum, state, outcome>>
    BY <1>6 DEF turnVars
  <2>2. Count' = Count
    BY <2>1 DEF Count
  <2> QED
    BY <2>1, <2>2, CountFrame
<1> QED
  BY <1>1, <1>2, <1>3, <1>4, <1>5, <1>6 DEF TurnsNext

(* Whatever a case of any length asks for, its transcript and its usage    *)
(* have every answered turn once, under its own number, whether the engine *)
(* reports turns or whole sessions, as long as every session file can be   *)
(* read.  Without that it is false, see the run MultiTurnLost.             *)
THEOREM CountedOnceCorrect ==
  ASSUME ~SessionFileMayBeLost
  PROVE  TurnsSpec => []CountedOnce
<1>1. TurnsInit => CountInv
  BY CountInvInit
<1>2. TurnInv /\ CountInv /\ [TurnsNext]_turnVars => CountInv'
  BY CountInvStep
<1>3. CountInv => CountedOnce
  <2> SUFFICES ASSUME CountInv, IF engine = "whole" THEN Len(sessions) <= 1 ELSE TextsDiffer
               PROVE  /\ Len(state.transcript) = Cardinality(Answered)
                      /\ \A k \in DOMAIN state.transcript :
                            state.transcript[k].stamp = k /\ state.transcript[k].said = k
                      /\ 2 * state.tokens = Cardinality(Answered) * (Cardinality(Answered) + 1)
                      /\ pc = "returned" /\ engine = "whole" => outcome.turns = Answered
    BY DEF CountedOnce
  <2>1. ToldApart
    BY FiniteTexts DEF CountInv, ToldApart, TextsApart, TextsDiffer
  <2>2. PICK n \in Nat :
          /\ Answered = 1..n /\ Transcribed(state, n)
          /\ pc = "returned" /\ engine = "whole" => outcome.turns = Answered
    BY <2>1 DEF CountInv
  <2>3. Cardinality(Answered) = n
    <3>1. Cardinality(1..n) = IF 1 > n THEN 0 ELSE n - 1 + 1
      BY FS_Interval
    <3>2. (IF 1 > n THEN 0 ELSE n - 1 + 1) = n
      OBVIOUS
    <3> QED
      BY <2>2, <3>1, <3>2
  <2>4. DOMAIN state.transcript = 1..n
    BY <2>2 DEF Transcribed
  <2>5. \A k \in 1..n : state.transcript[k] = Entry(k)
    BY <2>2 DEF Transcribed, Entry
  <2>6. \A k : Entry(k).stamp = k /\ Entry(k).said = k
    BY DEF Entry
  <2>7. \A k \in DOMAIN state.transcript :
          state.transcript[k].stamp = k /\ state.transcript[k].said = k
    BY <2>4, <2>5, <2>6, Zenon
  <2>8. Len(state.transcript) = n /\ 2 * state.tokens = n * (n + 1)
    BY <2>2 DEF Transcribed
  <2> QED
    BY <2>2, <2>3, <2>7, <2>8
<1> QED
  BY <1>1, <1>2, <1>3, TurnInvCorrect, PTL DEF TurnsSpec
==============================================================================
