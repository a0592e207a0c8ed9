---------------------------- MODULE EvalCommand ----------------------------
(***************************************************************************)
(* `skill-up run --event-log`: runEvalWithEventLog (internal/cli/          *)
(* run_events.go), the iteration loop of runner.EvaluatePlan, the task     *)
(* pool of the evaluator (TaskPool) and the event log (Lifecycle) put      *)
(* together.  The goroutines are the command itself, the pool's tasks and  *)
(* the heartbeat; a signal may cancel the context between any two steps.   *)
(* The adapter of run_events.go joins a step of the runner or of a task    *)
(* with the lifecycle call it makes and remembers the first error.         *)
(***************************************************************************)
EXTENDS Lifecycle

CONSTANTS Plan,          \* Plan[i]: the tasks of iteration i, in plan order
          Baseline,      \* the tasks of the without_skill configuration
          Concurrency, NoResult

ASSUME CommandPlanAssumption ==
  /\ Iterations = DOMAIN Plan /\ Plan \in Seq(Seq(Tasks))
  /\ \A i \in Iterations : {Plan[i][k] : k \in DOMAIN Plan[i]} = TasksOf(i)
  /\ \A i \in Iterations : Len(Plan[i]) = Cardinality(TasksOf(i))
  /\ Baseline \subseteq Tasks
  /\ Concurrency \in Nat \ {0}      \* NewEvaluator raises 0 to 1
  /\ NoResult \notin Outcomes
  /\ "refused" \in SinkFaults      \* what a cancelled context does to Start

VARIABLES
  cancelled, loop, order, scheduled, sem, worker, results, evalErr, staleSlot,  \* TaskPool
  main,          \* where the command is
  number,        \* the iteration the runner is at
  reported,      \* tasks whose results EvaluatePlan of the runner will return
  invocationErr, \* what the evaluation failed with, "none" if it did not
  adapterErr,    \* the adapter recorded an error
  finishErr,     \* Finish or Close returned an error
  exit           \* the outcome of the command: "none" until it returns

Pool == INSTANCE TaskPool

poolVars    == <<cancelled, loop, order, scheduled, sem, worker, results, evalErr, staleSlot>>
commandVars == <<main, number, reported, invocationErr, adapterErr, finishErr, exit>>
vars        == <<lifecycleVars, poolVars, commandVars>>

CommandInit == /\ Init /\ Pool!Init
               /\ main = "starting" /\ number = 1 /\ reported = {}
               /\ invocationErr = "none" /\ adapterErr = FALSE /\ finishErr = FALSE
               /\ exit = "none"

At(step, next) == main = step /\ main' = next

(* The adapter's record of what a lifecycle call returned.                 *)
record(ok) == adapterErr' = (adapterErr \/ ~ok)

-----------------------------------------------------------------------------
(* startEvaluationEventStream.  Start runs under the cancellable context:  *)
(* after a signal the sink refuses its records.                            *)
StartStream ==
  \E ok \in BOOLEAN :
    /\ main = "starting"
    /\ Start(ok)
    /\ cancelled => pub'.log = pub.log /\ ~pub'.torn
    /\ main' = IF ok THEN "loading" ELSE "abandoning"
    /\ UNCHANGED <<poolVars, number, reported, invocationErr, adapterErr, finishErr, exit>>

AbandonStream ==
  \E ok \in BOOLEAN :
    /\ At("abandoning", "exited")
    /\ ClosePublisher(ok)
    /\ exit' = "failure"
    /\ UNCHANGED <<poolVars, number, reported, invocationErr, adapterErr, finishErr>>

(* loadCredentialsAndAgent                                                 *)
LoadCredentials ==
  /\ main = "loading"
  /\ \/ main' = "executing" /\ UNCHANGED invocationErr
     \/ main' = "choosing" /\ invocationErr' = "error"
  /\ UNCHANGED <<lifecycleVars, poolVars, number, reported, adapterErr, finishErr, exit>>

EnterExecuting ==
  \E ok \in BOOLEAN :
    /\ At("executing", "iterating")
    /\ SetPhase("executing", ok) /\ record(ok)
    /\ UNCHANGED <<poolVars, number, reported, invocationErr, finishErr, exit>>

-----------------------------------------------------------------------------
(* runner.EvaluatePlan: the head of the loop, and setupWorkspace.          *)
NextIteration ==
  /\ main = "iterating"
  /\ \/ number > Len(Plan) /\ main' = "joining" /\ UNCHANGED invocationErr
     \/ number <= Len(Plan) /\ ~cancelled /\ main' = "preparing" /\ UNCHANGED invocationErr
     \/ number <= Len(Plan) /\ cancelled /\ main' = "joining" /\ invocationErr' = "cancelled"
  /\ UNCHANGED <<lifecycleVars, poolVars, number, reported, adapterErr, finishErr, exit>>

SetupWorkspace ==
  /\ main = "preparing"
  /\ \/ ~cancelled /\ main' = "announcing" /\ UNCHANGED invocationErr
     \/ main' = "joining" /\ invocationErr' = IF cancelled THEN "cancelled" ELSE "error"
  /\ UNCHANGED <<lifecycleVars, poolVars, number, reported, adapterErr, finishErr, exit>>

OnIterationStart ==
  \E ok \in BOOLEAN :
    /\ At("announcing", "evaluating")
    /\ IterationStarted(number, ok) /\ record(ok)
    /\ UNCHANGED <<poolVars, number, reported, invocationErr, finishErr, exit>>

CallEvaluator ==
  /\ At("evaluating", "waiting")
  /\ Pool!EvaluatePlan(Plan[number])
  /\ UNCHANGED <<lifecycleVars, number, reported, invocationErr, adapterErr, finishErr, exit>>

SlipCompleteFailedIteration ==
  /\ main = "waiting" /\ loop = "returned"
  /\ main' = "completing"
  /\ UNCHANGED <<lifecycleVars, poolVars, number, reported, invocationErr, adapterErr, finishErr, exit>>

(* The evaluator returned: its error or a cancellation ends the run, and   *)
(* the results of the current iteration are dropped.                       *)
EvaluatorReturned ==
  /\ main = "waiting" /\ loop = "returned"
  /\ main' = IF evalErr = "none" /\ ~cancelled THEN "completing" ELSE "joining"
  /\ invocationErr' = CASE evalErr # "none" -> evalErr
                        [] evalErr = "none" /\ cancelled -> "cancelled"
                        [] OTHER -> invocationErr
  /\ UNCHANGED <<lifecycleVars, poolVars, number, reported, adapterErr, finishErr, exit>>

OnIterationComplete ==
  \E ok \in BOOLEAN :
    /\ At("completing", "writing")
    /\ IterationCompleted(number, ok) /\ record(ok)
    /\ reported' = reported \cup TasksOf(number)
    /\ UNCHANGED <<poolVars, number, invocationErr, finishErr, exit>>

(* WriteResults: a failure is a warning.                                   *)
WriteResults ==
  /\ At("writing", "iterating")
  /\ number' = number + 1
  /\ UNCHANGED <<lifecycleVars, poolVars, reported, invocationErr, adapterErr, finishErr, exit>>

-----------------------------------------------------------------------------
(* invocationErr is joined with ctx.Err(); executePlannedEvaluation hands  *)
(* on no results next to an error.                                         *)
JoinErrors ==
  /\ At("joining", "choosing")
  /\ invocationErr' = IF invocationErr = "none" /\ cancelled THEN "cancelled" ELSE invocationErr
  /\ reported' = IF invocationErr = "none" THEN reported ELSE {}
  /\ UNCHANGED <<lifecycleVars, poolVars, number, adapterErr, finishErr, exit>>

(* No caller sets a deadline on this context, so Canceled is the only      *)
(* context error here.                                                     *)
SlipStatusIgnoresCancel == IF invocationErr = "error" THEN "ERROR" ELSE "COMPLETED"
eventRunStatus == CASE cancelled \/ invocationErr = "cancelled" -> "CANCELLED"
                    [] ~cancelled /\ invocationErr = "error" -> "ERROR"
                    [] OTHER -> "COMPLETED"

(* stream.finish: Finish and then Close, under a context that is never     *)
(* cancelled.  ctx.Err() is read a second time to choose the status.       *)
ChooseStatus ==
  /\ At("choosing", "finishing")
  /\ FinishCall(eventRunStatus)
  /\ UNCHANGED <<poolVars, number, reported, invocationErr, adapterErr, finishErr, exit>>

FinishLifecycle ==
  \E ok \in BOOLEAN :
    /\ At("finishing", "closing")
    /\ FinishCommit(ok) /\ finishErr' = ~ok
    /\ UNCHANGED <<poolVars, number, reported, invocationErr, adapterErr, exit>>

CloseStream ==
  \E ok \in BOOLEAN :
    /\ At("closing", "exiting")
    /\ ClosePublisher(ok) /\ finishErr' = (finishErr \/ pub'.err # {})
    /\ UNCHANGED <<poolVars, number, reported, invocationErr, adapterErr, exit>>

(* exitStatusError looks at the results only when the evaluation returned  *)
(* some, and never at a baseline's; every error collected on the way makes *)
(* the command fail.                                                       *)
SlipLogErrorIgnored == \/ invocationErr # "none"
                       \/ \E t \in reported \ Baseline : results[t] \in {"FAIL", "ERROR"}
CommandFails == \/ invocationErr # "none" \/ finishErr \/ adapterErr
                \/ \E t \in reported \ Baseline : results[t] \in {"FAIL", "ERROR"}

Exit ==
  /\ At("exiting", "exited")
  /\ exit' = IF CommandFails THEN "failure" ELSE "success"
  /\ UNCHANGED <<lifecycleVars, poolVars, number, reported, invocationErr, adapterErr, finishErr>>

-----------------------------------------------------------------------------
(* A task goroutine: the adapter's callbacks around executeCase.           *)
OnTaskStart(t) == \E ok \in BOOLEAN :
                    /\ Pool!TaskStarts(t) /\ CaseStarted(t, ok) /\ record(ok)
                    /\ UNCHANGED <<main, number, reported, invocationErr, finishErr, exit>>

OnTaskComplete(t) == \E ok \in BOOLEAN :
                       /\ Pool!TaskCompletes(t) /\ CaseCompleted(t, results[t], ok) /\ record(ok)
                       /\ UNCHANGED <<main, number, reported, invocationErr, finishErr, exit>>

TaskStep(t) == \/ OnTaskStart(t) \/ OnTaskComplete(t)
               \/ Pool!WorkerWork(t) /\ UNCHANGED <<lifecycleVars, commandVars>>

PoolStep == Pool!LoopStep /\ UNCHANGED <<lifecycleVars, commandVars>>

Signal == exit = "none" /\ Pool!Cancel /\ UNCHANGED <<lifecycleVars, commandVars>>

CommandStep == \/ StartStream \/ AbandonStream \/ LoadCredentials \/ EnterExecuting
               \/ NextIteration \/ SetupWorkspace \/ OnIterationStart \/ CallEvaluator
               \/ EvaluatorReturned \/ OnIterationComplete \/ WriteResults
               \/ JoinErrors \/ ChooseStatus \/ FinishLifecycle \/ CloseStream \/ Exit

Beat == HeartbeatStep /\ UNCHANGED <<poolVars, commandVars>>

CommandNext == \/ exit = "none" /\ (CommandStep \/ PoolStep \/ Beat \/ \E t \in Tasks : TaskStep(t))
               \/ Signal

CommandSpec == CommandInit /\ [][CommandNext]_vars

CommandFairness == /\ WF_vars(CommandStep) /\ WF_vars(PoolStep) /\ WF_vars(Beat)
                   /\ SF_vars(HeartbeatSeesStop /\ UNCHANGED <<poolVars, commandVars>>)
                   /\ \A t \in Tasks : WF_vars(TaskStep(t))

FairCommandSpec == CommandSpec /\ CommandFairness

-----------------------------------------------------------------------------
(* The lifecycle never rejects a call of the command: its phase, iteration *)
(* and task rules hold for every interleaving of the runner, the tasks and *)
(* a cancellation, so an adapter error is always the sink's; and no task   *)
(* goroutine is left when Finish is called that could report after it.     *)
CallsAreLegal ==
  /\ adapterErr => "publish" \in pub.err
  /\ main \in {"choosing", "finishing", "closing", "exiting", "exited"} =>
       \A t \in Tasks : worker[t] \in {"none", "done"}

(* After a successful start a healthy sink always receives the final       *)
(* record, on every path: completed, failed and cancelled runs; and a run  *)
(* it calls COMPLETED returned a result for every planned task, with the   *)
(* counts of the log.                                                      *)
FinalRecordIsTrue ==
  /\ main \in {"closing", "exiting"} /\ "publish" \notin pub.err => pub.finalized
  /\ finishing.pc = "returned" /\ finishing.status = "COMPLETED" =>
       /\ reported = Tasks
       /\ \A s \in CaseStatuses : resultCounts[s] = Cardinality({t \in Tasks : results[t] = s})

(* The command succeeds only when every planned task has a result, none of *)
(* them but a baseline's a failure, and the requested log was delivered to *)
(* its final record.                                                       *)
SuccessIsDeserved ==
  exit = "success" => /\ \A t \in Tasks : results[t] # NoResult
                      /\ \A t \in Tasks \ Baseline : results[t] \in {"PASS", "SKIP"}
                      /\ pub.finalized /\ pub.err = {}

(* The pool of every iteration keeps its promises while the log is written *)
(* next to it: slots are neither lost nor returned twice, the results it   *)
(* returns are complete and settled, a slot that came free only after the  *)
(* cancellation starts no task, and a nil error means that all tasks ran.  *)
PoolIsSound == /\ Pool!SlotsAccounted /\ Pool!ResultsSettled
               /\ Pool!NoLaunchOnStaleSlot /\ Pool!NilErrorMeansAllRan

(* The command ends, whatever fails and whenever it is cancelled.          *)
CommandEnds == <>(main = "exited")

(* A run logged as CANCELLED is one that stopped: the command does not     *)
(* report success for it.                                                  *)
CancelledRunStopped == finishing.status = "CANCELLED" /\ pub.finalized => exit # "success"
=============================================================================
