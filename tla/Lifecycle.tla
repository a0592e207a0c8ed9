----------------------------- MODULE Lifecycle -----------------------------
(***************************************************************************)
(* evalevent.Lifecycle (internal/evalevent/lifecycle.go): the emitter that *)
(* turns calls of the command, the runner and the task goroutines into the *)
(* events of one invocation, its heartbeat goroutine, and Finish, which    *)
(* stops the heartbeat and then closes the lifecycle.  Every handler holds *)
(* l.mu to its end and is one action; Finish and the heartbeat goroutine,  *)
(* which wait for one another outside the mutex, take several.             *)
(* Here any goroutine may make any call at any time after Start; a call    *)
(* the emitter rejects returns an error and changes nothing.  EvalCommand  *)
(* puts the real callers in the place of this environment.                 *)
(***************************************************************************)
EXTENDS Naturals, FiniteSets, Sequences

CONSTANTS Tasks,          \* the planned tasks of the invocation
          Iterations,     \* the planned iteration numbers
          IterationOf,    \* the iteration each task belongs to
          Outcomes,       \* the case statuses the tasks of this instance end with
          MaxSafeInteger, \* largest sequence number
          SinkFaults,     \* the ways a write may fail, see Publisher
          MaxTicks        \* bound on the ticks the ticker delivers

(* snapshotPlan: at least one task, and none without its iteration.        *)
ASSUME PlanAssumption ==
  /\ IsFiniteSet(Tasks) /\ Tasks # {}
  /\ IsFiniteSet(Iterations)
  /\ IterationOf \in [Tasks -> Iterations]
  /\ \A i \in Iterations : \E t \in Tasks : IterationOf[t] = i
  /\ Outcomes \subseteq {"PASS", "FAIL", "ERROR", "SKIP"}
  /\ MaxSafeInteger \in Nat \ {0}
  /\ SinkFaults \subseteq {"refused", "torn", "late"}
  /\ MaxTicks \in Nat

VARIABLES
  pub,            \* the publisher and its file
  started, finished, phase,
  task,           \* [started, completed] of each lifecycleTask
  iteration,      \* [started, completed, completedN, result] of each lifecycleIteration
  completed, resultCounts, activeTaskIDs,
  heartbeatStarted,
  heartbeatStop,  \* the stop channel is closed
  heartbeat,      \* the heartbeat goroutine; "exited" once heartbeatDone is closed
  ticks,          \* ticks taken so far
  finishing       \* [pc, status] of the call of Finish

stateVars     == <<started, finished, phase, task, iteration, completed, resultCounts, activeTaskIDs>>
heartbeatVars == <<heartbeatStarted, heartbeat, ticks>>
lifecycleVars == <<pub, stateVars, heartbeatVars, heartbeatStop, finishing>>

TaskTotal == Cardinality(Tasks)
TasksOf(i) == {t \in Tasks : IterationOf[t] = i}
RunPhases == {"preparing", "executing", "finalizing"}
phaseRank == [unset |-> 0, preparing |-> 1, executing |-> 2, finalizing |-> 3]
RunStatuses == {"COMPLETED", "ERROR", "CANCELLED"}
CaseStatuses == {"PASS", "FAIL", "ERROR", "SKIP"}

(* ResultCounts, its total() and addStatus.                                *)
ResultCounts == [CaseStatuses -> Nat]
NoResults == [s \in CaseStatuses |-> 0]
Total(counts) == counts["PASS"] + counts["FAIL"] + counts["ERROR"] + counts["SKIP"]
SlipSubtract(counts, status) == [counts EXCEPT ![status] = @ - 1]
SlipErrorsNotCounted(counts, status) ==
  IF status = "ERROR" THEN counts ELSE [counts EXCEPT ![status] = @ + 1]
addStatus(counts, status) == [counts EXCEPT ![status] = @ + 1]

-----------------------------------------------------------------------------
(* The payloads, without the fields no property reads (titles, durations). *)
RunStartedPayloads == [type : {"run_started"}, taskTotal : Nat, iterationsTotal : Nat]
IterationStartedPayloads == [type : {"iteration_started"}, iteration : Iterations]
IterationCompletedPayloads == [type : {"iteration_completed"}, iteration : Iterations,
                               completed : Nat, counts : ResultCounts]
CaseStartedPayloads == [type : {"case_started"}, task : Tasks]
CaseCompletedPayloads == [type : {"case_completed"}, task : Tasks, completed : Nat,
                          status : CaseStatuses]
RunProgressPayloads == [type : {"run_progress"}, phase : RunPhases \cup {"unset"},
                        completed : Nat, running : Nat, counts : ResultCounts]
RunFinishedPayloads == [type : {"run_finished"}, status : RunStatuses, completed : Nat,
                        counts : ResultCounts]

Payloads == RunStartedPayloads \cup RunProgressPayloads \cup RunFinishedPayloads
              \cup IterationStartedPayloads \cup IterationCompletedPayloads
              \cup CaseStartedPayloads \cup CaseCompletedPayloads

(* A slip that refuses the completion of the last task.                    *)
SlipLastCaseInvalid ==
  {p \in RunStartedPayloads : p.taskTotal >= 1}
    \cup {p \in RunProgressPayloads : p.phase \in RunPhases /\ p.completed = Total(p.counts)}
    \cup {p \in CaseCompletedPayloads : p.completed < TaskTotal}
    \cup IterationStartedPayloads \cup IterationCompletedPayloads \cup CaseStartedPayloads
    \cup RunFinishedPayloads

(* The payloads whose validate() accepts them.                             *)
ValidPayloads ==
  {p \in RunStartedPayloads : p.taskTotal >= 1 /\ p.iterationsTotal >= 1}
    \cup {p \in RunProgressPayloads : /\ p.phase \in RunPhases
                                      /\ p.completed = Total(p.counts)
                                      /\ p.completed + p.running <= TaskTotal}
    \cup {p \in RunFinishedPayloads : p.completed = Total(p.counts)}
    \cup {p \in CaseCompletedPayloads : p.completed <= TaskTotal}
    \cup IterationStartedPayloads \cup IterationCompletedPayloads \cup CaseStartedPayloads

P == INSTANCE Publisher

-----------------------------------------------------------------------------
Init == /\ pub = P!NewPublisher
        /\ started = FALSE /\ finished = FALSE /\ phase = "unset"
        /\ task = [t \in Tasks |-> [started |-> FALSE, completed |-> FALSE]]
        /\ iteration = [i \in Iterations |-> [started |-> FALSE, completed |-> FALSE,
                                              completedN |-> 0, result |-> NoResults]]
        /\ completed = 0 /\ resultCounts = NoResults /\ activeTaskIDs = {}
        /\ heartbeatStarted = FALSE /\ heartbeatStop = FALSE
        /\ heartbeat = "none" /\ ticks = 0
        /\ finishing = [pc |-> "idle", status |-> "ERROR", waits |-> FALSE]

Active    == started /\ ~finished                  \* ensureActiveLocked

SlipExecutingOrLater == started /\ phaseRank[phase] >= phaseRank["executing"]
Executing == Active /\ phase = "executing"         \* ensureExecutingLocked

(* What the handlers check before they change anything; a slip of each     *)
(* forgets one condition.                                                  *)
SlipEnterAnyPhase(ph) == Active /\ ph \in RunPhases \ {"finalizing"}
MayEnter(ph) == /\ Active
                /\ ph \in RunPhases \ {"finalizing"}
                /\ phaseRank[ph] > phaseRank[phase]

SlipStartOutsideIteration(t) == Executing /\ t \in Tasks /\ ~task[t].started
MayStart(t) ==
  LET it == iteration[IterationOf[t]]
  IN  Executing /\ t \in Tasks /\ it.started /\ ~it.completed /\ ~task[t].started

SlipCompleteAgain(t, status) == Executing /\ status \in CaseStatuses /\ task[t].started
MayComplete(t, status) == /\ Executing
                          /\ status \in CaseStatuses
                          /\ t \in Tasks /\ task[t].started /\ ~task[t].completed

SlipEndEarly(i) == Executing /\ iteration[i].started /\ ~iteration[i].completed
MayEnd(i) == /\ Executing
             /\ i \in Iterations /\ iteration[i].started /\ ~iteration[i].completed
             /\ iteration[i].completedN = Cardinality(TasksOf(i))

(* progressPayloadLocked, for the state a handler has just assigned.       *)
Progress(ph, done, active, counts) ==
  [type |-> "run_progress", phase |-> ph, completed |-> done,
   running |-> Cardinality(active), counts |-> counts]

CurrentProgress == Progress(phase, completed, activeTaskIDs, resultCounts)

(* publishLocked, once or twice in a row; the second event is attempted    *)
(* only when the first went out.  ok is what the handler returns, and a    *)
(* publication error asks the heartbeat to stop.                           *)
Emit(payload, ok) ==
  /\ \E io \in P!WriteOutcomes : /\ pub' = P!PublishEvent(pub, payload, FALSE, io)
                                 /\ ok = P!Published(pub, payload, io)
  /\ heartbeatStop' = (heartbeatStop \/ ~ok)

EmitBoth(payload, progress, ok) ==
  /\ \E io1, io2 \in P!WriteOutcomes :
       LET first == P!PublishEvent(pub, payload, FALSE, io1)
       IN  IF P!Published(pub, payload, io1)
           THEN /\ pub' = P!PublishEvent(first, progress, FALSE, io2)
                /\ ok = P!Published(first, progress, io2)
           ELSE pub' = first /\ ok = FALSE
  /\ heartbeatStop' = (heartbeatStop \/ ~ok)

(* A handler that returns an error before it touches anything.             *)
Reject(ok) == ok = FALSE /\ UNCHANGED lifecycleVars

-----------------------------------------------------------------------------
(* Start: run_started, the preparing snapshot, and the heartbeat if both   *)
(* were published.                                                         *)
Start(ok) ==
  \/ started /\ Reject(ok)
  \/ /\ ~started
     /\ started' = TRUE /\ phase' = "preparing"
     /\ EmitBoth([type |-> "run_started", taskTotal |-> TaskTotal,
                  iterationsTotal |-> Cardinality(Iterations)],
                 Progress("preparing", completed, activeTaskIDs, resultCounts), ok)
     /\ heartbeatStarted' = ok
     /\ heartbeat' = IF ok THEN "select" ELSE heartbeat
     /\ UNCHANGED <<finished, task, iteration, completed, resultCounts, activeTaskIDs,
                    ticks, finishing>>

SetPhase(ph, ok) ==
  \/ ~MayEnter(ph) /\ Reject(ok)
  \/ /\ MayEnter(ph)
     /\ phase' = ph
     /\ Emit(Progress(ph, completed, activeTaskIDs, resultCounts), ok)
     /\ UNCHANGED <<started, finished, task, iteration, completed, resultCounts,
                    activeTaskIDs, heartbeatVars, finishing>>

IterationStarted(i, ok) ==
  LET allowed == Executing /\ i \in Iterations /\ ~iteration[i].started
  IN  \/ ~allowed /\ Reject(ok)
      \/ /\ allowed
         /\ iteration' = [iteration EXCEPT ![i].started = TRUE]
         /\ Emit([type |-> "iteration_started", iteration |-> i], ok)
         /\ UNCHANGED <<started, finished, phase, task, completed, resultCounts,
                        activeTaskIDs, heartbeatVars, finishing>>

CaseStarted(t, ok) ==
  \/ ~MayStart(t) /\ Reject(ok)
  \/ /\ MayStart(t)
     /\ task' = [task EXCEPT ![t].started = TRUE]
     /\ activeTaskIDs' = activeTaskIDs \cup {t}
     /\ EmitBoth([type |-> "case_started", task |-> t],
                 Progress(phase, completed, activeTaskIDs', resultCounts), ok)
     /\ UNCHANGED <<started, finished, phase, iteration, completed, resultCounts,
                    heartbeatVars, finishing>>

CaseCompleted(t, status, ok) ==
  \/ ~MayComplete(t, status) /\ Reject(ok)
  \/ /\ MayComplete(t, status)
     /\ task' = [task EXCEPT ![t].completed = TRUE]
     /\ activeTaskIDs' = activeTaskIDs \ {t}
     /\ completed' = completed + 1
     /\ resultCounts' = addStatus(resultCounts, status)
     /\ iteration' = [iteration EXCEPT ![IterationOf[t]].completedN = @ + 1,
                                       ![IterationOf[t]].result = addStatus(@, status)]
     /\ EmitBoth([type |-> "case_completed", task |-> t, completed |-> completed',
                  status |-> status],
                 Progress(phase, completed', activeTaskIDs', resultCounts'), ok)
     /\ UNCHANGED <<started, finished, phase, heartbeatVars, finishing>>

IterationCompleted(i, ok) ==
  \/ ~MayEnd(i) /\ Reject(ok)
  \/ /\ MayEnd(i)
     /\ iteration' = [iteration EXCEPT ![i].completed = TRUE]
     /\ Emit([type |-> "iteration_completed", iteration |-> i, completed |-> completed,
              counts |-> iteration[i].result], ok)
     /\ UNCHANGED <<started, finished, phase, task, completed, resultCounts,
                    activeTaskIDs, heartbeatVars, finishing>>

-----------------------------------------------------------------------------
(* Finish, first half: stopHeartbeat reads heartbeatStarted under l.mu,    *)
(* closes the stop channel and waits outside the mutex.                    *)
FinishCall(status) ==
  /\ finishing.pc = "idle"
  /\ finishing' = [pc |-> "waiting", status |-> status, waits |-> heartbeatStarted]
  /\ heartbeatStop' = TRUE
  /\ UNCHANGED <<pub, stateVars, heartbeatVars>>

SlipNoJoin == finishing.pc = "waiting"
HeartbeatJoinedOrNone == finishing.waits => heartbeat = "exited"

CompleteRun == completed = TaskTotal /\ \A i \in Iterations : iteration[i].completed

(* Finish, second half, under l.mu once heartbeatDone is closed.  Both     *)
(* events are attempted; a COMPLETED run with work left is refused before  *)
(* anything is published.                                                  *)
FinishCommit(ok) ==
  LET allowed == Active /\ (finishing.status = "COMPLETED" => CompleteRun)
  IN  /\ finishing.pc = "waiting"
      /\ HeartbeatJoinedOrNone
      /\ finishing' = [finishing EXCEPT !.pc = "returned"]
      /\ \/ /\ ~allowed /\ ok = FALSE
            /\ UNCHANGED <<pub, stateVars, heartbeatStop>>
         \/ /\ allowed
            /\ phase' = "finalizing" /\ activeTaskIDs' = {} /\ finished' = TRUE
            /\ \E io1, io2 \in P!WriteOutcomes :
                 LET progress == Progress("finalizing", completed, {}, resultCounts)
                     last     == [type |-> "run_finished", status |-> finishing.status,
                                  completed |-> completed, counts |-> resultCounts]
                     first    == P!PublishEvent(pub, progress, FALSE, io1)
                 IN  /\ pub' = P!PublishEvent(first, last, TRUE, io2)
                     /\ ok = (P!Published(pub, progress, io1) /\ P!Published(first, last, io2))
            /\ heartbeatStop' = (heartbeatStop \/ ~ok)
            /\ UNCHANGED <<started, task, iteration, completed, resultCounts>>
      /\ UNCHANGED heartbeatVars

(* runHeartbeat: select between the stop channel and the ticker, either    *)
(* one when both are ready; a beat that fails ends the goroutine.          *)
SlipStopIgnored == /\ heartbeat = "select" /\ heartbeatStop
                   /\ UNCHANGED lifecycleVars

HeartbeatSeesStop == /\ heartbeat = "select" /\ heartbeatStop
                     /\ heartbeat' = "exited"
                     /\ UNCHANGED <<pub, stateVars, heartbeatStarted, ticks, heartbeatStop, finishing>>

HeartbeatTick == /\ heartbeat = "select" /\ ticks < MaxTicks
                 /\ heartbeat' = "beat" /\ ticks' = ticks + 1
                 /\ UNCHANGED <<pub, stateVars, heartbeatStarted, heartbeatStop, finishing>>

Heartbeat(ok) == /\ heartbeat = "beat"
                 /\ \/ Active /\ Emit(CurrentProgress, ok)
                    \/ ~Active /\ ok = FALSE /\ UNCHANGED <<pub, heartbeatStop>>
                 /\ heartbeat' = IF ok THEN "select" ELSE "exited"
                 /\ UNCHANGED <<stateVars, heartbeatStarted, ticks, finishing>>

(* The owner closes the publisher after Finish, or after a failed Start.   *)
ClosePublisher(ok) ==
  /\ finishing.pc = "returned" \/ (started /\ ~heartbeatStarted)
  /\ pub' = P!ClosePublisher(pub, ok)
  /\ UNCHANGED <<stateVars, heartbeatVars, heartbeatStop, finishing>>

-----------------------------------------------------------------------------
HeartbeatStep == HeartbeatSeesStop \/ HeartbeatTick \/ (\E ok \in BOOLEAN : Heartbeat(ok))

Next == \/ \E ok \in BOOLEAN :
             \/ Start(ok)
             \/ \E ph \in RunPhases : SetPhase(ph, ok)
             \/ \E i \in Iterations : IterationStarted(i, ok) \/ IterationCompleted(i, ok)
             \/ \E t \in Tasks : \/ CaseStarted(t, ok)
                                 \/ \E s \in Outcomes : CaseCompleted(t, s, ok)
             \/ FinishCommit(ok)
             \/ ClosePublisher(ok)
        \/ started /\ \E s \in RunStatuses : FinishCall(s)
        \/ HeartbeatStep

Spec == Init /\ [][Next]_lifecycleVars

(* Goroutines are scheduled.  The select takes the closed stop channel in  *)
(* the end even while the ticker keeps firing, because Go picks among the  *)
(* ready cases at random: strong fairness for that one step.               *)
Fairness == /\ WF_lifecycleVars(HeartbeatStep)
            /\ SF_lifecycleVars(HeartbeatSeesStop)
            /\ WF_lifecycleVars(\E ok \in BOOLEAN : FinishCommit(ok))

FairSpec == Spec /\ Fairness

-----------------------------------------------------------------------------
IterationStates == [started : BOOLEAN, completed : BOOLEAN, completedN : Nat, result : ResultCounts]

TypeOK == /\ P!TypeOK
          /\ started \in BOOLEAN /\ finished \in BOOLEAN
          /\ phase \in RunPhases \cup {"unset"}
          /\ task \in [Tasks -> [started : BOOLEAN, completed : BOOLEAN]]
          /\ iteration \in [Iterations -> IterationStates]
          /\ completed \in Nat /\ resultCounts \in ResultCounts
          /\ activeTaskIDs \in SUBSET Tasks
          /\ heartbeatStarted \in BOOLEAN /\ heartbeatStop \in BOOLEAN
          /\ heartbeat \in {"none", "select", "beat", "exited"}
          /\ ticks \in 0..MaxTicks
          /\ finishing \in [pc : {"idle", "waiting", "returned"}, status : RunStatuses,
                            waits : BOOLEAN]

CompletedOf(S) == {t \in S : task[t].completed}

(* The counters that are only ever incremented agree with the flags of the *)
(* tasks: no completion is counted twice or lost, in the invocation or in  *)
(* its iteration, whatever the interleaving of the callers.                *)
CountersAgree ==
  /\ completed = Cardinality(CompletedOf(Tasks))
  /\ completed = Total(resultCounts)
  /\ \A i \in Iterations :
       /\ iteration[i].completedN = Cardinality(CompletedOf(TasksOf(i)))
       /\ iteration[i].completedN = Total(iteration[i].result)
       /\ iteration[i].completed => CompletedOf(TasksOf(i)) = TasksOf(i)

(* The running set is the started tasks that have not completed, until     *)
(* Finish clears it; completed work was started, in a started iteration.   *)
RunningAgrees ==
  /\ activeTaskIDs = IF finished THEN {} ELSE {t \in Tasks : task[t].started /\ ~task[t].completed}
  /\ \A t \in Tasks : /\ task[t].completed => task[t].started
                      /\ task[t].started => iteration[IterationOf[t]].started

(* Every snapshot the emitter could publish passes the publisher's         *)
(* validation: a rejected payload is not sticky and would drop one event   *)
(* from a log that goes on as if it were whole.                            *)
SnapshotsAreValid == started => CurrentProgress \in ValidPayloads

(* While the publisher is healthy the log and the emitter tell the same    *)
(* story, task by task and iteration by iteration.                         *)
Logged(payload) == \E k \in DOMAIN pub.log : pub.log[k].payload = payload
CompletionLogged(t) == \E k \in DOMAIN pub.log : /\ pub.log[k].payload.type = "case_completed"
                                                 /\ pub.log[k].payload.task = t
LogTellsState ==
  pub.err = {} /\ ~pub.closed =>
    /\ started <=> pub.log # <<>>
    /\ finished <=> pub.finalized
    /\ \A t \in Tasks : /\ task[t].started <=> Logged([type |-> "case_started", task |-> t])
                        /\ task[t].completed <=> CompletionLogged(t)

(* When Finish has returned, no heartbeat goroutine is left that could     *)
(* still reach for the publisher the owner is about to close.              *)
HeartbeatJoined == finishing.pc = "returned" => heartbeat \in {"none", "exited"}

(* Once the run is finished the emitter publishes nothing: only Close may  *)
(* touch the publisher, and no counter moves.                              *)
FinishedIsFinal ==
  [][finished => /\ pub'.log = pub.log
                 /\ UNCHANGED <<task, iteration, completed, resultCounts, phase>>]_lifecycleVars

(* Counters and phases never move backwards: the reason state change and   *)
(* publication share one mutex.                                            *)
Monotone ==
  [][/\ completed <= completed'
     /\ phaseRank[phase] <= phaseRank[phase']
     /\ \A t \in Tasks : /\ task[t].started => task'[t].started
                         /\ task[t].completed => task'[t].completed]_lifecycleVars

(* The log is legal for a consumer that sees nothing but its records.      *)
Protocol == INSTANCE RunProtocol WITH log <- pub.log
ImplementsProtocol == Protocol!Spec

(* The file the emitter writes keeps the reader's contract whatever calls  *)
(* reach it: numbered from 1 without a gap, nothing after the final record *)
(* even when two events of one handler meet a failing sink, and no final   *)
(* record in a torn file.                                                  *)
LogIsSound == P!LogContiguous /\ P!LastEventEndsLog /\ P!TornNeverFinal

(* Finish, which waits for the heartbeat goroutine, always returns; and    *)
(* the heartbeat ends by itself after a publication error.                 *)
FinishReturns == /\ finishing.pc = "waiting" ~> finishing.pc = "returned"
                 /\ "publish" \in pub.err ~> heartbeat \in {"none", "exited"}
=============================================================================
