---------------------------- MODULE CaseAttempts ----------------------------
(***************************************************************************)
(* defaultEvaluator.executeCase (internal/evaluator/evaluator.go): the     *)
(* attempts of one case, each under its own deadline, with the retry       *)
(* policy between them, and executeCaseOnce, which provisions a runtime,   *)
(* runs the agent, collects artifacts, judges and closes the runtime.      *)
(* A signal may cancel the context and the deadline may fire between any   *)
(* two steps; the other cases of the run share the MCP configuration.      *)
(* TaskPool!ExecuteCase is this module in one step.                        *)
(***************************************************************************)
EXTENDS Naturals, Sequences

CONSTANTS MaxRetries,   \* cases.retry_policy.max_retries
          RetryOn,      \* cases.retry_policy.retry_on
          HasTimeout,   \* a case timeout is configured
          JudgeTypes    \* the judge types of this instance

ASSUME AttemptAssumption == /\ MaxRetries \in Nat
                            /\ RetryOn \subseteq {"timeout", "error"}
                            /\ HasTimeout \in BOOLEAN
                            /\ JudgeTypes \subseteq {"none", "rule_based", "script", "agent_judge"}

VARIABLES
  cfg,          \* [judge, expect, exitCode, ownMCP, multiTurn] of the case, fixed
  step,         \* where executeCase is
  attempt,      \* number of the attempt
  ctxCancelled, \* ctx.Err() # nil
  attemptErr,   \* attemptCtx.Err(): whichever of deadline and cancellation came first
  mcp,          \* mcpOnce of the evaluator, shared by all cases
  rt,           \* [state, creations, closes] of the runtimes of this case
  agentRun,     \* what the agent's Run returned in this attempt
  collected,    \* artifacts were collected in this attempt
  result,       \* [status, err, annotated]
  history,      \* results of the attempts that ended
  killed        \* what killed the judge script of this attempt, if anything did

attemptVars == <<agentRun, collected, killed>>
caseVars == <<cfg, step, attempt, ctxCancelled, attemptErr, mcp, rt, attemptVars, result, history>>

Cases == [judge : JudgeTypes, expect : BOOLEAN, exitCode : BOOLEAN, ownMCP : BOOLEAN,
          multiTurn : BOOLEAN]

NoVerdict == [status |-> "", err |-> "nil", annotated |-> FALSE]
Verdict(status) == [status |-> status, err |-> "nil", annotated |-> FALSE]
Failure(err) == [status |-> "ERROR", err |-> err, annotated |-> FALSE]

InAttempt == step \notin {"sleeping", "returned"}

(* The errors a failing call returns: DeadlineExceeded is in its chain only*)
(* when a deadline fired, the case's or one of its own.                    *)
Errors(ownDeadline) ==
  {"error"} \cup (IF ownDeadline \/ attemptErr = "deadline" THEN {"timeout"} ELSE {})

CaseInit == /\ cfg \in Cases
            /\ cfg.exitCode => cfg.expect
            /\ step = "provisioning" /\ attempt = 1
            /\ ctxCancelled = FALSE /\ attemptErr = "nil"
            /\ mcp = "unset"
            /\ rt = [state |-> "none", creations |-> 0, closes |-> 0]
            /\ agentRun = "none" /\ collected = FALSE /\ killed = "nothing"
            /\ result = NoVerdict /\ history = <<>>

Cancel == /\ ~ctxCancelled /\ step # "returned"
          /\ ctxCancelled' = TRUE
          /\ attemptErr' = IF attemptErr = "nil" THEN "cancelled" ELSE attemptErr
          /\ UNCHANGED <<cfg, step, attempt, mcp, rt, attemptVars, result, history>>

Deadline == /\ HasTimeout /\ InAttempt /\ attemptErr = "nil"
            /\ attemptErr' = "deadline"
            /\ UNCHANGED <<cfg, step, attempt, ctxCancelled, mcp, rt, attemptVars, result, history>>

-----------------------------------------------------------------------------
(* prepareRuntimeForCase.  mcpOnce keeps its first outcome, an error too.  *)
OtherCaseProvisions ==
  /\ mcp = "unset" /\ step # "returned"
  /\ mcp' \in {"ready", "failed"}
  /\ UNCHANGED <<cfg, step, attempt, ctxCancelled, attemptErr, rt, attemptVars, result, history>>

SlipErrorSeenOnce == IF cfg.ownMCP \/ mcp = "unset" THEN {"ready", "failed"} ELSE {"ready"}
ProvisionOutcomes ==
  IF cfg.ownMCP \/ mcp = "unset" THEN {"ready", "failed"} ELSE {mcp}

Provision ==
  /\ step = "provisioning"
  /\ \E outcome \in ProvisionOutcomes :
       /\ mcp' = IF cfg.ownMCP \/ mcp # "unset" THEN mcp ELSE outcome
       /\ IF outcome = "ready"
          THEN step' = "creating" /\ UNCHANGED result
          ELSE step' = "deciding" /\ result' = Failure("error")
  /\ UNCHANGED <<cfg, attempt, ctxCancelled, attemptErr, rt, attemptVars, history>>

(* NewRuntime may fail before there is anything to close; after it, every  *)
(* failure closes the runtime, a Create that failed halfway included.      *)
NewRuntimeFails ==
  /\ step = "creating"
  /\ step' = "deciding" /\ result' = Failure("error")
  /\ UNCHANGED <<cfg, attempt, ctxCancelled, attemptErr, mcp, rt, attemptVars, history>>

Create ==
  /\ step = "creating"
  /\ \/ /\ step' = "setup" /\ UNCHANGED result
        /\ rt' = [rt EXCEPT !.state = "open", !.creations = @ + 1]
     \/ /\ step' = "deciding" /\ \E e \in Errors(FALSE) : result' = Failure(e)
        /\ rt' = [rt EXCEPT !.state = "closed", !.creations = @ + 1, !.closes = @ + 1]
  /\ UNCHANGED <<cfg, attempt, ctxCancelled, attemptErr, mcp, attemptVars, history>>

Closed(r) == [r EXCEPT !.state = "closed", !.closes = @ + 1]

(* Setup steps, agent install, preflight, MCP, skills, fixtures.           *)
SetupCaseEnvironment ==
  /\ step = "setup"
  /\ \/ step' = "running" /\ UNCHANGED <<rt, result>>
     \/ /\ step' = "deciding" /\ \E e \in Errors(FALSE) : result' = Failure(e)
        /\ rt' = Closed(rt)
  /\ UNCHANGED <<cfg, attempt, ctxCancelled, attemptErr, mcp, attemptVars, history>>

(* What a Run without an error ended in: a session, maybe with a non-zero  *)
(* exit, or a turn whose post-condition fails the case.                    *)
Sessions == {"nonzero", "ok"} \cup (IF cfg.multiTurn THEN {"condition"} ELSE {})

SlipReturnBeforeCollecting ==
  /\ step = "running"
  /\ \/ step' = "collecting" /\ agentRun' \in Sessions /\ UNCHANGED result
     \/ /\ step' = "closing" /\ agentRun' \in Errors(TRUE)
        /\ result' = Failure(agentRun')
  /\ UNCHANGED <<cfg, attempt, ctxCancelled, attemptErr, mcp, rt, collected, killed, history>>

(* The agent, one prompt or turn by turn: an error (an engine or a turn may*)
(* have a deadline of its own) or one of its sessions.                     *)
RunAgent ==
  /\ step = "running"
  /\ step' = "collecting"
  /\ agentRun' \in Errors(TRUE) \cup Sessions
  /\ UNCHANGED <<cfg, attempt, ctxCancelled, attemptErr, mcp, rt, collected, killed, result,
                 history>>

(* Artifacts are collected whatever the agent returned; only then is an    *)
(* error or a failure without a judge final.  The exit code of a case with *)
(* turns fails it only in expect or in the judge.                          *)
CollectArtifacts ==
  /\ step = "collecting"
  /\ collected' = TRUE
  /\ CASE agentRun \in {"error", "timeout"} -> step' = "closing" /\ result' = Failure(agentRun)
       [] \/ agentRun = "condition"
          \/ agentRun = "nonzero" /\ ~cfg.multiTurn /\ cfg.judge = "none" /\ ~cfg.exitCode
            -> step' = "closing" /\ result' = Verdict("FAIL")
       [] OTHER -> step' = "expecting" /\ UNCHANGED result
  /\ UNCHANGED <<cfg, attempt, ctxCancelled, attemptErr, mcp, rt, agentRun, killed, history>>

(* runExpectPreCheck: a failed expectation ends the case before the judge. *)
CheckExpect ==
  /\ step = "expecting"
  /\ \/ step' = "judging" /\ UNCHANGED result
     \/ cfg.expect /\ step' = "closing" /\ result' = Verdict("FAIL")
  /\ UNCHANGED <<cfg, attempt, ctxCancelled, attemptErr, mcp, rt, attemptVars, history>>

Verdicts == CASE cfg.judge = "none"       -> {Verdict("PASS")}
              [] cfg.judge = "rule_based" -> {Verdict("PASS"), Verdict("FAIL")}
              [] OTHER -> {Verdict("PASS"), Verdict("FAIL")} \cup {Failure(e) : e \in Errors(TRUE)}

(* runJudgePhase                                                           *)
RunJudge ==
  /\ step = "judging"
  /\ step' = "closing" /\ result' \in Verdicts
  /\ UNCHANGED <<cfg, attempt, ctxCancelled, attemptErr, mcp, rt, attemptVars, history>>

(* evaluateInRuntime: the context of the script, which ends with the       *)
(* attempt's, killed it.  A deadline is "script timed out", a cancellation *)
(* an exit code of -1; both are a failed assertion.                        *)
ScriptKilled ==
  /\ step = "judging" /\ cfg.judge = "script" /\ attemptErr # "nil"
  /\ step' = "closing" /\ result' = Verdict("FAIL") /\ killed' = attemptErr
  /\ UNCHANGED <<cfg, attempt, ctxCancelled, attemptErr, mcp, rt, agentRun, collected, history>>

SlipCloseNeedsContext ==
  /\ step = "closing" /\ attemptErr = "nil"
  /\ step' = "deciding" /\ rt' = Closed(rt)
  /\ UNCHANGED <<cfg, attempt, ctxCancelled, attemptErr, mcp, attemptVars, result, history>>

CloseRuntime ==
  /\ step = "closing"
  /\ step' = "deciding" /\ rt' = Closed(rt)
  /\ UNCHANGED <<cfg, attempt, ctxCancelled, attemptErr, mcp, attemptVars, result, history>>

-----------------------------------------------------------------------------
SlipBlameAnyTimeout(r) == [r EXCEPT !.annotated = ~ctxCancelled /\ r.err = "timeout"]

(* The result of the attempt is read together with both contexts: a timeout*)
(* that is some other deadline's (an engine's, a judge's) keeps its words. *)
annotateCaseTimeoutError(r) ==
  [r EXCEPT !.annotated = attemptErr = "deadline" /\ ~ctxCancelled /\ r.err = "timeout"]

retryReason(r) == r.err     \* retryReasonForResult: isTimeoutError or not

SlipRetryAnyError(r) == r.status = "ERROR" /\ MaxRetries > 0
retryAllowed(r) == r.status = "ERROR" /\ MaxRetries > 0 /\ retryReason(r) \in RetryOn

maxAttempts == MaxRetries + 1

(* The end of an attempt: its result is final or backoff starts.           *)
Decide ==
  /\ step = "deciding"
  /\ result' = annotateCaseTimeoutError(result)
  /\ history' = Append(history, result')
  /\ step' = IF retryAllowed(result) /\ attempt < maxAttempts THEN "sleeping" ELSE "returned"
  /\ UNCHANGED <<cfg, attempt, ctxCancelled, attemptErr, mcp, rt, attemptVars>>

(* sleepContext: the timer, or the cancellation, which returns the result  *)
(* of the attempt before.                                                  *)
BackoffElapsed ==
  /\ step = "sleeping"
  /\ step' = "provisioning" /\ attempt' = attempt + 1
  /\ attemptErr' = IF ctxCancelled THEN "cancelled" ELSE "nil"
  /\ rt' = [rt EXCEPT !.state = "none"]
  /\ agentRun' = "none" /\ collected' = FALSE /\ killed' = "nothing"
  /\ result' = NoVerdict
  /\ UNCHANGED <<cfg, ctxCancelled, mcp, history>>

BackoffCancelled ==
  /\ step = "sleeping" /\ ctxCancelled
  /\ step' = "returned"
  /\ UNCHANGED <<cfg, attempt, ctxCancelled, attemptErr, mcp, rt, attemptVars, result, history>>

CaseStep == \/ Provision \/ NewRuntimeFails \/ Create \/ SetupCaseEnvironment \/ RunAgent
            \/ CollectArtifacts \/ CheckExpect \/ RunJudge \/ ScriptKilled \/ CloseRuntime
            \/ Decide \/ BackoffElapsed \/ BackoffCancelled

CaseNext == CaseStep \/ Cancel \/ Deadline \/ OtherCaseProvisions

CaseSpec == CaseInit /\ [][CaseNext]_caseVars

(* The goroutine is scheduled, and the agent, the runtime and the judge    *)
(* return.                                                                 *)
CaseFairness == WF_caseVars(CaseStep)

FairCaseSpec == CaseSpec /\ CaseFairness

-----------------------------------------------------------------------------
(* Runtimes are not leaked and not closed twice: a runtime is open exactly *)
(* while its attempt uses it, and when an attempt ends, whatever failed in *)
(* it, every runtime the case ever created has been closed once, after the *)
(* artifacts of an agent that ran, failed or not, were collected.          *)
RuntimesBalanced ==
  /\ rt.creations = rt.closes + (IF rt.state = "open" THEN 1 ELSE 0)
  /\ rt.state = "open" <=>
       step \in {"setup", "running", "collecting", "expecting", "judging", "closing"}
  /\ agentRun # "none" /\ rt.state = "closed" => collected

(* Every attempt but the last ended in an error the policy retries, there  *)
(* are no more attempts than the policy allows, and what executeCase       *)
(* returns is the result of the last attempt.                              *)
RetriesJustified ==
  /\ Len(history) <= MaxRetries + 1
  /\ \A k \in 1..(attempt - 1) : /\ history[k].status = "ERROR"
                                 /\ history[k].err \in RetryOn
  /\ step = "returned" => Len(history) = attempt /\ result = history[attempt]

(* A case returns with a verdict or with an error, never both or neither;  *)
(* a PASS is the verdict on an agent that ran without an error; and an     *)
(* error is blamed on the case's knob only if it is a timeout of an attempt*)
(* whose own deadline fired, before any cancellation: not for the timeout  *)
(* of an engine or a judge.                                                *)
ResultsCoherent ==
  step \in {"deciding", "sleeping", "returned"} =>
    /\ result.status \in {"PASS", "FAIL", "ERROR"}
    /\ result.status = "ERROR" <=> result.err # "nil"
    /\ result.status = "PASS" => agentRun \in {"ok", "nonzero"}
    /\ result.annotated => result.err = "timeout" /\ attemptErr = "deadline"

(* An evaluator whose shared MCP configuration could not be provisioned    *)
(* runs no agent for a case that relies on it, in any attempt, whichever   *)
(* case met the failure first.                                             *)
SharedProvisioningAgrees == ~cfg.ownMCP /\ mcp # "ready" => agentRun = "none"

(* executeCase returns: retries, backoff and cancellation always end.      *)
CaseReturns == <>(step = "returned")

(* A case whose own deadline cut its evaluation short is an ERROR.         *)
DeadlineIsError == step = "returned" /\ killed = "deadline" => result.status = "ERROR"
=============================================================================
