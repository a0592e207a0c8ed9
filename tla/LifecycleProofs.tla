--------------------------- MODULE LifecycleProofs ---------------------------
(***************************************************************************)
(* What holds of the lifecycle emitter for every plan, every number of     *)
(* heartbeats and every combination of sink faults, whatever calls its     *)
(* callers make: its counters agree with its tasks, its snapshots are      *)
(* valid, Finish joins the heartbeat and nothing moves after it; and while *)
(* the publisher is healthy its records say of each task and iteration     *)
(* what the emitter's flags and counters say, every one of them legal for  *)
(* a consumer that knows only those before it.                             *)
(***************************************************************************)
EXTENDS Lifecycle, FiniteSetTheorems, TLAPS

PP == INSTANCE PublisherProofs

PubState == PP!PublisherState

-----------------------------------------------------------------------------
(* The publisher inside the emitter.                                       *)
LEMMA PublishEventType ==
  ASSUME NEW p \in PubState, NEW payload, NEW last \in BOOLEAN, NEW io \in P!WriteOutcomes
  PROVE  P!PublishEvent(p, payload, last, io) \in PubState
<1>1. PP!PublishEvent(p, payload, last, io) \in PubState
  BY PP!PublishEventType DEF P!WriteOutcomes, PP!WriteOutcomes, PubState
<1>2. PP!PublishEvent(p, payload, last, io) = P!PublishEvent(p, payload, last, io)
  BY DEF P!PublishEvent, PP!PublishEvent, P!Accepts, PP!Accepts, P!Failed, PP!Failed
<1> QED
  BY <1>1, <1>2

LEMMA ClosePublisherType ==
  ASSUME NEW p \in PubState, NEW ok \in BOOLEAN
  PROVE  P!ClosePublisher(p, ok) \in PubState
<1>1. PP!ClosePublisher(p, ok) \in PubState
  BY PP!ClosePublisherType DEF PubState
<1> QED
  BY <1>1 DEF P!ClosePublisher, PP!ClosePublisher

(* Whatever a handler emits, the publisher stays a publisher and the stop  *)
(* request a Boolean.                                                      *)
EmitType == pub' \in PubState /\ heartbeatStop' \in BOOLEAN

LEMMA EmitKeepsType ==
  ASSUME pub \in PubState, heartbeatStop \in BOOLEAN, NEW ok \in BOOLEAN, NEW payload,
         Emit(payload, ok)
  PROVE  EmitType
BY PublishEventType DEF Emit, EmitType

LEMMA EmitBothKeepsType ==
  ASSUME pub \in PubState, heartbeatStop \in BOOLEAN, NEW ok \in BOOLEAN,
         NEW payload, NEW progress, EmitBoth(payload, progress, ok)
  PROVE  EmitType
<1>1. PICK io1 \in P!WriteOutcomes, io2 \in P!WriteOutcomes :
        LET first == P!PublishEvent(pub, payload, FALSE, io1)
        IN  \/ pub' = P!PublishEvent(first, progress, FALSE, io2)
            \/ pub' = first
  BY DEF EmitBoth
<1>2. P!PublishEvent(pub, payload, FALSE, io1) \in PubState
  BY PublishEventType
<1>3. pub' \in PubState
  BY <1>1, <1>2, PublishEventType
<1> QED
  BY <1>3 DEF EmitType, EmitBoth

-----------------------------------------------------------------------------
(* Type correctness.                                                       *)
StateTypeOK ==
  /\ started \in BOOLEAN /\ finished \in BOOLEAN
  /\ phase \in RunPhases \cup {"unset"}
  /\ task \in [Tasks -> [started : BOOLEAN, completed : BOOLEAN]]
  /\ iteration \in [Iterations -> IterationStates]
  /\ completed \in Nat /\ resultCounts \in ResultCounts
  /\ activeTaskIDs \in SUBSET Tasks

ControlTypeOK ==
  /\ heartbeatStarted \in BOOLEAN
  /\ heartbeat \in {"none", "select", "beat", "exited"}
  /\ ticks \in 0..MaxTicks
  /\ finishing \in [pc : {"idle", "waiting", "returned"}, status : RunStatuses, waits : BOOLEAN]

IOTypeOK == pub \in PubState /\ heartbeatStop \in BOOLEAN

LEMMA TypeOKParts ==
  /\ TypeOK <=> IOTypeOK /\ StateTypeOK /\ ControlTypeOK
  /\ TypeOK' <=> IOTypeOK' /\ StateTypeOK' /\ ControlTypeOK'
BY DEF TypeOK, IOTypeOK, StateTypeOK, ControlTypeOK, P!TypeOK, PubState, PP!PublisherState,
       P!Events, PP!Events

LEMMA addStatusType ==
  ASSUME NEW counts \in ResultCounts, NEW status \in CaseStatuses
  PROVE  /\ addStatus(counts, status) \in ResultCounts
         /\ Total(addStatus(counts, status)) = Total(counts) + 1
         /\ Total(counts) \in Nat
<1>1. /\ counts["PASS"] \in Nat /\ counts["FAIL"] \in Nat
      /\ counts["ERROR"] \in Nat /\ counts["SKIP"] \in Nat
  BY DEF ResultCounts, CaseStatuses
<1>2. counts[status] + 1 \in Nat
  BY DEF ResultCounts
<1>3. addStatus(counts, status) \in ResultCounts
  BY <1>2 DEF addStatus, ResultCounts
<1>4. \A s \in CaseStatuses : addStatus(counts, status)[s] =
                               IF s = status THEN counts[s] + 1 ELSE counts[s]
  BY DEF addStatus, ResultCounts
<1> QED
  BY <1>1, <1>3, <1>4 DEF Total, CaseStatuses

LEMMA InitType == Init => TypeOK
<1> SUFFICES ASSUME Init PROVE IOTypeOK /\ StateTypeOK /\ ControlTypeOK
  BY TypeOKParts
<1>1. IOTypeOK
  <2>1. P!NewPublisher \in PubState
    BY DEF P!NewPublisher, PubState, PP!PublisherState
  <2> QED
    BY <2>1 DEF Init, IOTypeOK
<1>2. NoResults \in ResultCounts
  BY DEF NoResults, ResultCounts
<1>3. StateTypeOK
  BY <1>2 DEF Init, StateTypeOK, RunPhases, IterationStates
<1>4. ControlTypeOK
  BY PlanAssumption, 0 \in 0..MaxTicks DEF Init, ControlTypeOK, RunStatuses
<1> QED
  BY <1>1, <1>3, <1>4

LEMMA StutterType ==
  ASSUME TypeOK, UNCHANGED lifecycleVars
  PROVE  TypeOK'
BY DEF lifecycleVars, stateVars, heartbeatVars, TypeOK, P!TypeOK

(* What the completion of a case does to the record of its iteration.      *)
LEMMA IterationAfterCase ==
  ASSUME iteration \in [Iterations -> IterationStates],
         NEW j \in Iterations, NEW status \in CaseStatuses,
         iteration' = [iteration EXCEPT ![j].completedN = @ + 1,
                                        ![j].result = addStatus(@, status)]
  PROVE  /\ iteration' \in [Iterations -> IterationStates]
         /\ \A i \in Iterations :
              /\ iteration'[i].started = iteration[i].started
              /\ iteration'[i].completed = iteration[i].completed
              /\ i # j => iteration'[i] = iteration[i]
         /\ iteration'[j].completedN = iteration[j].completedN + 1
         /\ iteration'[j].result = addStatus(iteration[j].result, status)
<1>1. iteration[j] \in IterationStates
  OBVIOUS
<1>2. iteration[j].completedN + 1 \in Nat
  BY <1>1 DEF IterationStates
<1>3. addStatus(iteration[j].result, status) \in ResultCounts
  BY <1>1, addStatusType DEF IterationStates
<1> DEFINE r == addStatus(iteration[j].result, status)
           counted == [iteration[j] EXCEPT !.completedN = iteration[j].completedN + 1]
           after == [counted EXCEPT !.result = r]
           middle == [iteration EXCEPT ![j] = counted]
<1>4. counted \in IterationStates
  BY <1>1, <1>2 DEF IterationStates
<1>5. middle \in [Iterations -> IterationStates] /\ middle[j] = counted
  BY <1>4
<1>6. after \in IterationStates
  BY <1>3, <1>4 DEF IterationStates
<1>7. /\ after.started = iteration[j].started /\ after.completed = iteration[j].completed
      /\ after.completedN = iteration[j].completedN + 1 /\ after.result = r
  BY <1>1, <1>4 DEF IterationStates
<1>8. iteration' = [middle EXCEPT ![j] = [middle[j] EXCEPT !.result = r]]
  OBVIOUS
<1> HIDE DEF counted
<1>9. iteration' = [middle EXCEPT ![j] = after]
  BY <1>5, <1>8
<1> HIDE DEF after
<1>10. /\ iteration' \in [Iterations -> IterationStates] /\ iteration'[j] = after
       /\ \A i \in Iterations : i # j => iteration'[i] = iteration[i]
  BY <1>4, <1>6, <1>9
<1> QED
  BY <1>7, <1>10

LEMMA StartType ==
  ASSUME TypeOK, NEW ok \in BOOLEAN, Start(ok)
  PROVE  TypeOK'
<1>1. IOTypeOK /\ StateTypeOK /\ ControlTypeOK
  BY TypeOKParts
<1>2. CASE Reject(ok)
  BY <1>2, StutterType DEF Reject
<1>3. CASE ~Reject(ok)
  <2>1. IOTypeOK'
    BY <1>1, <1>3, EmitBothKeepsType DEF Start, IOTypeOK, EmitType
  <2>2. StateTypeOK'
    BY <1>1, <1>3 DEF Start, StateTypeOK, RunPhases
  <2>3. ControlTypeOK'
    BY <1>1, <1>3 DEF Start, ControlTypeOK
  <2> QED
    BY <2>1, <2>2, <2>3, TypeOKParts
<1> QED
  BY <1>2, <1>3

LEMMA SetPhaseType ==
  ASSUME TypeOK, NEW ph \in RunPhases, NEW ok \in BOOLEAN, SetPhase(ph, ok)
  PROVE  TypeOK'
<1>1. IOTypeOK /\ StateTypeOK /\ ControlTypeOK
  BY TypeOKParts
<1>2. CASE Reject(ok)
  BY <1>2, StutterType DEF Reject
<1>3. CASE ~Reject(ok)
  <2>1. IOTypeOK'
    BY <1>1, <1>3, EmitKeepsType DEF SetPhase, IOTypeOK, EmitType
  <2>2. StateTypeOK' /\ ControlTypeOK'
    BY <1>1, <1>3 DEF SetPhase, StateTypeOK, ControlTypeOK, heartbeatVars
  <2> QED
    BY <2>1, <2>2, TypeOKParts
<1> QED
  BY <1>2, <1>3

LEMMA IterationStartedType ==
  ASSUME TypeOK, NEW i \in Iterations, NEW ok \in BOOLEAN, IterationStarted(i, ok)
  PROVE  TypeOK'
<1>1. IOTypeOK /\ StateTypeOK /\ ControlTypeOK
  BY TypeOKParts
<1>2. CASE Reject(ok)
  BY <1>2, StutterType DEF Reject
<1>3. CASE ~Reject(ok)
  <2>1. IOTypeOK'
    BY <1>1, <1>3, EmitKeepsType DEF IterationStarted, IOTypeOK, EmitType
  <2>2. [iteration[i] EXCEPT !.started = TRUE] \in IterationStates
    BY <1>1 DEF StateTypeOK, IterationStates
  <2>3. iteration' = [iteration EXCEPT ![i] = [iteration[i] EXCEPT !.started = TRUE]]
    BY <1>1, <1>3 DEF IterationStarted, StateTypeOK
  <2>4. iteration' \in [Iterations -> IterationStates]
    BY <1>1, <2>2, <2>3 DEF StateTypeOK
  <2>5. StateTypeOK' /\ ControlTypeOK'
    BY <1>1, <1>3, <2>4 DEF IterationStarted, StateTypeOK, ControlTypeOK, heartbeatVars
  <2> QED
    BY <2>1, <2>5, TypeOKParts
<1> QED
  BY <1>2, <1>3

LEMMA IterationCompletedType ==
  ASSUME TypeOK, NEW i \in Iterations, NEW ok \in BOOLEAN, IterationCompleted(i, ok)
  PROVE  TypeOK'
<1>1. IOTypeOK /\ StateTypeOK /\ ControlTypeOK
  BY TypeOKParts
<1>2. CASE Reject(ok)
  BY <1>2, StutterType DEF Reject
<1>3. CASE ~Reject(ok)
  <2>1. IOTypeOK'
    BY <1>1, <1>3, EmitKeepsType DEF IterationCompleted, IOTypeOK, EmitType
  <2>2. [iteration[i] EXCEPT !.completed = TRUE] \in IterationStates
    BY <1>1 DEF StateTypeOK, IterationStates
  <2>3. iteration' = [iteration EXCEPT ![i] = [iteration[i] EXCEPT !.completed = TRUE]]
    BY <1>1, <1>3 DEF IterationCompleted, StateTypeOK
  <2>4. iteration' \in [Iterations -> IterationStates]
    BY <1>1, <2>2, <2>3 DEF StateTypeOK
  <2>5. StateTypeOK' /\ ControlTypeOK'
    BY <1>1, <1>3, <2>4 DEF IterationCompleted, StateTypeOK, ControlTypeOK, heartbeatVars
  <2> QED
    BY <2>1, <2>5, TypeOKParts
<1> QED
  BY <1>2, <1>3

LEMMA CaseStartedType ==
  ASSUME TypeOK, NEW t \in Tasks, NEW ok \in BOOLEAN, CaseStarted(t, ok)
  PROVE  TypeOK'
<1>1. IOTypeOK /\ StateTypeOK /\ ControlTypeOK
  BY TypeOKParts
<1>2. CASE Reject(ok)
  BY <1>2, StutterType DEF Reject
<1>3. CASE ~Reject(ok)
  <2>1. IOTypeOK'
    BY <1>1, <1>3, EmitBothKeepsType DEF CaseStarted, IOTypeOK, EmitType
  <2>2. task' = [task EXCEPT ![t] = [task[t] EXCEPT !.started = TRUE]]
    BY <1>1, <1>3 DEF CaseStarted, StateTypeOK
  <2>3. task' \in [Tasks -> [started : BOOLEAN, completed : BOOLEAN]]
    BY <1>1, <2>2 DEF StateTypeOK
  <2>4. StateTypeOK' /\ ControlTypeOK'
    BY <1>1, <1>3, <2>3 DEF CaseStarted, StateTypeOK, ControlTypeOK, heartbeatVars
  <2> QED
    BY <2>1, <2>4, TypeOKParts
<1> QED
  BY <1>2, <1>3

LEMMA CaseCompletedType ==
  ASSUME TypeOK, NEW t \in Tasks, NEW s \in CaseStatuses, NEW ok \in BOOLEAN,
         CaseCompleted(t, s, ok)
  PROVE  TypeOK'
<1>1. IOTypeOK /\ StateTypeOK /\ ControlTypeOK
  BY TypeOKParts
<1>2. CASE Reject(ok)
  BY <1>2, StutterType DEF Reject
<1>3. CASE ~Reject(ok)
  <2>1. IOTypeOK'
    BY <1>1, <1>3, EmitBothKeepsType DEF CaseCompleted, IOTypeOK, EmitType
  <2>2. task' = [task EXCEPT ![t] = [task[t] EXCEPT !.completed = TRUE]]
    BY <1>1, <1>3 DEF CaseCompleted, StateTypeOK
  <2>3. task' \in [Tasks -> [started : BOOLEAN, completed : BOOLEAN]]
    BY <1>1, <2>2 DEF StateTypeOK
  <2>4. IterationOf[t] \in Iterations
    BY PlanAssumption
  <2>5. iteration' \in [Iterations -> IterationStates]
    BY <1>1, <1>3, <2>4, IterationAfterCase DEF CaseCompleted, StateTypeOK
  <2>6. resultCounts' \in ResultCounts /\ completed' \in Nat
    BY <1>1, <1>3, addStatusType DEF CaseCompleted, StateTypeOK
  <2>7. StateTypeOK' /\ ControlTypeOK'
    BY <1>1, <1>3, <2>3, <2>5, <2>6
    DEF CaseCompleted, StateTypeOK, ControlTypeOK, heartbeatVars
  <2> QED
    BY <2>1, <2>7, TypeOKParts
<1> QED
  BY <1>2, <1>3

LEMMA FinishCallType ==
  ASSUME TypeOK, NEW s \in RunStatuses, FinishCall(s)
  PROVE  TypeOK'
<1>1. IOTypeOK /\ StateTypeOK /\ ControlTypeOK
  BY TypeOKParts
<1>2. IOTypeOK' /\ StateTypeOK' /\ ControlTypeOK'
  BY <1>1 DEF FinishCall, IOTypeOK, StateTypeOK, ControlTypeOK, stateVars, heartbeatVars
<1> QED
  BY <1>2, TypeOKParts

LEMMA FinishCommitType ==
  ASSUME TypeOK, NEW ok \in BOOLEAN, FinishCommit(ok)
  PROVE  TypeOK'
<1>1. IOTypeOK /\ StateTypeOK /\ ControlTypeOK
  BY TypeOKParts
<1>2. ControlTypeOK'
  BY <1>1 DEF FinishCommit, ControlTypeOK, heartbeatVars
<1>3. StateTypeOK'
  BY <1>1 DEF FinishCommit, StateTypeOK, stateVars, RunPhases
<1>4. heartbeatStop' \in BOOLEAN
  BY <1>1 DEF FinishCommit, IOTypeOK
<1>5. pub' \in PubState
  <2>1. \/ pub' = pub
        \/ \E io1, io2 \in P!WriteOutcomes : \E progress, last :
             pub' = P!PublishEvent(P!PublishEvent(pub, progress, FALSE, io1), last, TRUE, io2)
    BY DEF FinishCommit
  <2> QED
    BY <1>1, <2>1, PublishEventType DEF IOTypeOK
<1> QED
  BY <1>2, <1>3, <1>4, <1>5, TypeOKParts DEF IOTypeOK

LEMMA HeartbeatType ==
  ASSUME TypeOK, HeartbeatStep
  PROVE  TypeOK'
<1>1. IOTypeOK /\ StateTypeOK /\ ControlTypeOK
  BY TypeOKParts
<1>2. CASE HeartbeatSeesStop
  BY <1>1, <1>2, TypeOKParts
  DEF HeartbeatSeesStop, IOTypeOK, StateTypeOK, ControlTypeOK, stateVars
<1>3. CASE HeartbeatTick
  <2>1. ticks + 1 \in 0..MaxTicks
    BY <1>1, <1>3, PlanAssumption DEF HeartbeatTick, ControlTypeOK
  <2>2. ControlTypeOK'
    BY <1>1, <1>3, <2>1 DEF HeartbeatTick, ControlTypeOK
  <2>3. IOTypeOK' /\ StateTypeOK'
    BY <1>1, <1>3 DEF HeartbeatTick, IOTypeOK, StateTypeOK, stateVars
  <2> QED
    BY <2>2, <2>3, TypeOKParts
<1>4. ASSUME NEW ok \in BOOLEAN, Heartbeat(ok) PROVE TypeOK'
  <2>1. IOTypeOK'
    BY <1>1, <1>4, EmitKeepsType DEF Heartbeat, IOTypeOK, EmitType
  <2>2. StateTypeOK' /\ ControlTypeOK'
    BY <1>1, <1>4 DEF Heartbeat, StateTypeOK, ControlTypeOK, stateVars
  <2> QED
    BY <2>1, <2>2, TypeOKParts
<1> QED
  BY <1>2, <1>3, <1>4 DEF HeartbeatStep

LEMMA CloseType ==
  ASSUME TypeOK, NEW ok \in BOOLEAN, ClosePublisher(ok)
  PROVE  TypeOK'
<1>1. IOTypeOK /\ StateTypeOK /\ ControlTypeOK
  BY TypeOKParts
<1>2. IOTypeOK'
  BY <1>1, ClosePublisherType DEF ClosePublisher, IOTypeOK
<1>3. StateTypeOK' /\ ControlTypeOK'
  BY <1>1 DEF ClosePublisher, StateTypeOK, ControlTypeOK, stateVars, heartbeatVars
<1> QED
  BY <1>2, <1>3, TypeOKParts

(* The fields of the emitter, its publisher and its heartbeat keep their   *)
(* types under any calls, in any order, from any goroutines.               *)
THEOREM TypeCorrect == Spec => []TypeOK
<1>1. Init => TypeOK
  BY InitType
<1>2. TypeOK /\ [Next]_lifecycleVars => TypeOK'
  <2> SUFFICES ASSUME TypeOK, [Next]_lifecycleVars PROVE TypeOK'
    OBVIOUS
  <2>1. ASSUME NEW ok \in BOOLEAN, Start(ok) PROVE TypeOK'
    BY <2>1, StartType
  <2>2. ASSUME NEW ok \in BOOLEAN, NEW ph \in RunPhases, SetPhase(ph, ok) PROVE TypeOK'
    BY <2>2, SetPhaseType
  <2>3. ASSUME NEW ok \in BOOLEAN, NEW i \in Iterations, IterationStarted(i, ok) PROVE TypeOK'
    BY <2>3, IterationStartedType
  <2>4. ASSUME NEW ok \in BOOLEAN, NEW i \in Iterations, IterationCompleted(i, ok) PROVE TypeOK'
    BY <2>4, IterationCompletedType
  <2>5. ASSUME NEW ok \in BOOLEAN, NEW t \in Tasks, CaseStarted(t, ok) PROVE TypeOK'
    BY <2>5, CaseStartedType
  <2>6. ASSUME NEW ok \in BOOLEAN, NEW t \in Tasks, NEW s \in Outcomes, CaseCompleted(t, s, ok)
        PROVE  TypeOK'
    BY <2>6, CaseCompletedType, PlanAssumption DEF CaseStatuses
  <2>7. ASSUME NEW ok \in BOOLEAN, FinishCommit(ok) PROVE TypeOK'
    BY <2>7, FinishCommitType
  <2>8. ASSUME NEW ok \in BOOLEAN, ClosePublisher(ok) PROVE TypeOK'
    BY <2>8, CloseType
  <2>9. ASSUME NEW s \in RunStatuses, FinishCall(s) PROVE TypeOK'
    BY <2>9, FinishCallType
  <2>10. CASE HeartbeatStep
    BY <2>10, HeartbeatType
  <2>11. CASE UNCHANGED lifecycleVars
    BY <2>11, StutterType
  <2> QED
    BY <2>1, <2>2, <2>3, <2>4, <2>5, <2>6, <2>7, <2>8, <2>9, <2>10, <2>11 DEF Next
<1> QED
  BY <1>1, <1>2, PTL DEF Spec

-----------------------------------------------------------------------------
(* The counters.                                                           *)
LEMMA CompletedOfFinite ==
  ASSUME NEW S \in SUBSET Tasks
  PROVE  /\ IsFiniteSet(S) /\ IsFiniteSet(CompletedOf(S))
         /\ CompletedOf(S) \subseteq S
         /\ Cardinality(S) = Cardinality(CompletedOf(S)) => CompletedOf(S) = S
<1>1. CompletedOf(S) \in SUBSET S /\ IsFiniteSet(S)
  BY PlanAssumption, FS_Subset DEF CompletedOf
<1> QED
  BY <1>1, FS_Subset

(* One more task completed is one more in the set it belongs to.           *)
LEMMA CompletedGrows ==
  ASSUME StateTypeOK, NEW t \in Tasks, ~task[t].completed, NEW S \in SUBSET Tasks,
         task' = [task EXCEPT ![t].completed = TRUE]
  PROVE  /\ t \in S => /\ CompletedOf(S)' = CompletedOf(S) \cup {t}
                       /\ Cardinality(CompletedOf(S)') = Cardinality(CompletedOf(S)) + 1
         /\ t \notin S => CompletedOf(S)' = CompletedOf(S)
<1>1. \A u \in Tasks : task'[u].completed <=> (task[u].completed \/ u = t)
  BY DEF StateTypeOK
<1>2. t \in S => CompletedOf(S)' = CompletedOf(S) \cup {t}
  BY <1>1 DEF CompletedOf
<1>3. t \notin S => CompletedOf(S)' = CompletedOf(S)
  BY <1>1 DEF CompletedOf
<1>4. t \notin CompletedOf(S) /\ IsFiniteSet(CompletedOf(S))
  BY CompletedOfFinite DEF CompletedOf
<1>5. Cardinality(CompletedOf(S) \cup {t}) = Cardinality(CompletedOf(S)) + 1
  BY <1>4, FS_AddElement
<1> QED
  BY <1>2, <1>3, <1>5

(* The two halves of CountersAgree: the invocation and its iterations.     *)
RunCounts == completed = Cardinality(CompletedOf(Tasks)) /\ completed = Total(resultCounts)
IterationCounts ==
  \A i \in Iterations :
    /\ iteration[i].completedN = Cardinality(CompletedOf(TasksOf(i)))
    /\ iteration[i].completedN = Total(iteration[i].result)
    /\ iteration[i].completed => CompletedOf(TasksOf(i)) = TasksOf(i)

LEMMA CountersParts ==
  /\ CountersAgree <=> RunCounts /\ IterationCounts
  /\ CountersAgree' <=> RunCounts' /\ IterationCounts'
BY DEF CountersAgree, RunCounts, IterationCounts

LEMMA CountersFrame ==
  ASSUME CountersAgree, UNCHANGED <<task, iteration, completed, resultCounts>>
  PROVE  CountersAgree'
BY DEF CountersAgree, CompletedOf

LEMMA CaseCompletedCounts ==
  ASSUME TypeOK, CountersAgree, NEW t \in Tasks, NEW s \in CaseStatuses, NEW ok \in BOOLEAN,
         MayComplete(t, s), CaseCompleted(t, s, ok), ~Reject(ok)
  PROVE  CountersAgree'
<1> DEFINE j == IterationOf[t]
<1>1. StateTypeOK /\ RunCounts /\ IterationCounts /\ j \in Iterations /\ ~task[t].completed
  BY TypeOKParts, CountersParts, PlanAssumption DEF MayComplete
<1>2. /\ task' = [task EXCEPT ![t].completed = TRUE]
      /\ completed' = completed + 1 /\ resultCounts' = addStatus(resultCounts, s)
      /\ iteration' = [iteration EXCEPT ![j].completedN = @ + 1, ![j].result = addStatus(@, s)]
  BY DEF CaseCompleted
<1> HIDE DEF j
<1>3. RunCounts'
  <2>1. Cardinality(CompletedOf(Tasks)') = Cardinality(CompletedOf(Tasks)) + 1
    BY <1>1, <1>2, CompletedGrows
  <2>2. Total(resultCounts') = Total(resultCounts) + 1
    BY <1>1, <1>2, addStatusType DEF StateTypeOK
  <2> QED
    BY <1>1, <1>2, <2>1, <2>2 DEF RunCounts
<1>4. /\ \A i \in Iterations : /\ iteration'[i].completed = iteration[i].completed
                               /\ i # j => iteration'[i] = iteration[i]
      /\ iteration'[j].completedN = iteration[j].completedN + 1
      /\ iteration'[j].result = addStatus(iteration[j].result, s)
  BY <1>1, <1>2, IterationAfterCase DEF StateTypeOK
<1>5. IterationCounts'
  <2> SUFFICES ASSUME NEW i \in Iterations
               PROVE  /\ iteration'[i].completedN = Cardinality(CompletedOf(TasksOf(i))')
                      /\ iteration'[i].completedN = Total(iteration'[i].result)
                      /\ iteration'[i].completed => CompletedOf(TasksOf(i))' = TasksOf(i)
    BY DEF IterationCounts
  <2>1. TasksOf(i) \in SUBSET Tasks /\ (t \in TasksOf(i) <=> i = j)
    BY DEF TasksOf, j
  <2>2. CASE i = j
    <3>1. Cardinality(CompletedOf(TasksOf(i))') = Cardinality(CompletedOf(TasksOf(i))) + 1
      BY <1>1, <1>2, <2>1, <2>2, CompletedGrows
    <3>2. iteration[j] \in IterationStates
      BY <1>1 DEF StateTypeOK
    <3>3. Total(iteration'[j].result) = Total(iteration[j].result) + 1
      BY <1>4, <3>2, addStatusType DEF IterationStates
    <3>4. ~iteration[j].completed
      BY <1>1, <2>1, <2>2 DEF IterationCounts, CompletedOf
    <3> QED
      BY <1>1, <1>4, <2>2, <3>1, <3>3, <3>4 DEF IterationCounts
  <2>3. CASE i # j
    <3>1. CompletedOf(TasksOf(i))' = CompletedOf(TasksOf(i))
      BY <1>1, <1>2, <2>1, <2>3, CompletedGrows
    <3> QED
      BY <1>1, <1>4, <2>3, <3>1 DEF IterationCounts
  <2> QED
    BY <2>2, <2>3
<1> QED
  BY <1>3, <1>5, CountersParts

LEMMA IterationCompletedCounts ==
  ASSUME TypeOK, CountersAgree, NEW i \in Iterations, NEW ok \in BOOLEAN,
         MayEnd(i), IterationCompleted(i, ok), ~Reject(ok)
  PROVE  CountersAgree'
<1>1. StateTypeOK /\ RunCounts /\ IterationCounts
  BY TypeOKParts, CountersParts
<1>2. /\ iteration' = [iteration EXCEPT ![i].completed = TRUE]
      /\ UNCHANGED <<task, completed, resultCounts>>
  BY DEF IterationCompleted
<1>3. \A k \in Iterations : /\ iteration'[k].completedN = iteration[k].completedN
                            /\ iteration'[k].result = iteration[k].result
                            /\ iteration'[k].completed <=> (iteration[k].completed \/ k = i)
  BY <1>1, <1>2 DEF StateTypeOK, IterationStates
<1>4. \A S : CompletedOf(S)' = CompletedOf(S)
  BY <1>2 DEF CompletedOf
<1>5. CompletedOf(TasksOf(i)) = TasksOf(i)
  <2>1. TasksOf(i) \in SUBSET Tasks
    BY DEF TasksOf
  <2>2. Cardinality(TasksOf(i)) = Cardinality(CompletedOf(TasksOf(i)))
    BY <1>1 DEF MayEnd, IterationCounts
  <2> QED
    BY <2>1, <2>2, CompletedOfFinite
<1>6. RunCounts' /\ IterationCounts'
  BY <1>1, <1>2, <1>3, <1>4, <1>5 DEF RunCounts, IterationCounts
<1> QED
  BY <1>6, CountersParts

LEMMA CountersStep ==
  ASSUME TypeOK, CountersAgree, [Next]_lifecycleVars
  PROVE  CountersAgree'
<1>1. ASSUME NEW ok \in BOOLEAN, Start(ok) PROVE CountersAgree'
  BY <1>1, CountersFrame DEF Start, Reject, lifecycleVars, stateVars
<1>2. ASSUME NEW ok \in BOOLEAN, NEW ph \in RunPhases, SetPhase(ph, ok) PROVE CountersAgree'
  BY <1>2, CountersFrame DEF SetPhase, Reject, lifecycleVars, stateVars
<1>3. ASSUME NEW ok \in BOOLEAN, NEW i \in Iterations, IterationStarted(i, ok)
      PROVE  CountersAgree'
  <2>1. CASE Reject(ok)
    BY <2>1, CountersFrame DEF Reject, lifecycleVars, stateVars
  <2>2. CASE ~Reject(ok)
    <3>1. /\ iteration' = [iteration EXCEPT ![i].started = TRUE]
          /\ UNCHANGED <<task, completed, resultCounts>>
      BY <1>3, <2>2 DEF IterationStarted
    <3>2. \A k \in Iterations : /\ iteration'[k].completedN = iteration[k].completedN
                                /\ iteration'[k].result = iteration[k].result
                                /\ iteration'[k].completed = iteration[k].completed
      BY <3>1, TypeOKParts DEF StateTypeOK, IterationStates
    <3> QED
      BY <3>1, <3>2 DEF CountersAgree, CompletedOf
  <2> QED
    BY <2>1, <2>2
<1>4. ASSUME NEW ok \in BOOLEAN, NEW i \in Iterations, IterationCompleted(i, ok)
      PROVE  CountersAgree'
  <2>1. CASE Reject(ok)
    BY <2>1, CountersFrame DEF Reject, lifecycleVars, stateVars
  <2>2. CASE ~Reject(ok)
    BY <1>4, <2>2, IterationCompletedCounts DEF IterationCompleted
  <2> QED
    BY <2>1, <2>2
<1>5. ASSUME NEW ok \in BOOLEAN, NEW t \in Tasks, CaseStarted(t, ok) PROVE CountersAgree'
  <2>1. CASE Reject(ok)
    BY <2>1, CountersFrame DEF Reject, lifecycleVars, stateVars
  <2>2. CASE ~Reject(ok)
    <3>1. /\ task' = [task EXCEPT ![t].started = TRUE]
          /\ UNCHANGED <<iteration, completed, resultCounts>>
      BY <1>5, <2>2 DEF CaseStarted
    <3>2. \A u \in Tasks : task'[u].completed = task[u].completed
      BY <3>1, TypeOKParts DEF StateTypeOK
    <3>3. \A S \in SUBSET Tasks : CompletedOf(S)' = CompletedOf(S)
      BY <3>2 DEF CompletedOf
    <3>4. \A i \in Iterations : TasksOf(i) \in SUBSET Tasks
      BY DEF TasksOf
    <3> QED
      BY <3>1, <3>3, <3>4 DEF CountersAgree
  <2> QED
    BY <2>1, <2>2
<1>6. ASSUME NEW ok \in BOOLEAN, NEW t \in Tasks, NEW s \in Outcomes, CaseCompleted(t, s, ok)
      PROVE  CountersAgree'
  <2>1. CASE Reject(ok)
    BY <2>1, CountersFrame DEF Reject, lifecycleVars, stateVars
  <2>2. CASE ~Reject(ok)
    <3>1. s \in CaseStatuses
      BY PlanAssumption DEF CaseStatuses
    <3>2. MayComplete(t, s)
      BY <1>6, <2>2 DEF CaseCompleted
    <3> QED
      BY <1>6, <2>2, <3>1, <3>2, CaseCompletedCounts
  <2> QED
    BY <2>1, <2>2
<1>7. ASSUME NEW ok \in BOOLEAN, FinishCommit(ok) PROVE CountersAgree'
  BY <1>7, CountersFrame DEF FinishCommit, stateVars
<1>8. CASE \/ \E ok \in BOOLEAN : ClosePublisher(ok)
           \/ \E s \in RunStatuses : FinishCall(s)
           \/ HeartbeatStep
           \/ UNCHANGED lifecycleVars
  BY <1>8, CountersFrame DEF ClosePublisher, FinishCall, HeartbeatStep, HeartbeatSeesStop,
       HeartbeatTick, Heartbeat, stateVars, lifecycleVars
<1> QED
  BY <1>1, <1>2, <1>3, <1>4, <1>5, <1>6, <1>7, <1>8 DEF Next

(* No completion is lost or counted twice, for the run and for each        *)
(* iteration, whatever the interleaving of the task goroutines.            *)
THEOREM CountersCorrect == Spec => []CountersAgree
<1>1. Init => CountersAgree
  <2> SUFFICES ASSUME Init PROVE RunCounts /\ IterationCounts
    BY CountersParts
  <2>1. \A S \in SUBSET Tasks : CompletedOf(S) = {}
    BY DEF Init, CompletedOf
  <2>2. \A i \in Iterations : TasksOf(i) \in SUBSET Tasks
    BY DEF TasksOf
  <2>3. Total(NoResults) = 0
    BY DEF Total, NoResults, CaseStatuses
  <2> QED
    BY <2>1, <2>2, <2>3, FS_EmptySet DEF Init, RunCounts, IterationCounts
<1>2. TypeOK /\ CountersAgree /\ [Next]_lifecycleVars => CountersAgree'
  BY CountersStep
<1> QED
  BY <1>1, <1>2, TypeCorrect, PTL DEF Spec

-----------------------------------------------------------------------------
(* The safety of the emitter: the running set, the snapshots it publishes, *)
(* the end of the heartbeat and the finality of Finish.  The invariant     *)
(* adds how started, finished and the phase agree, and what the call of    *)
(* Finish knows of the heartbeat.                                          *)

(* ensureActiveLocked and ensureExecutingLocked read the same facts twice. *)
PhaseAgrees == /\ started <=> phase # "unset"
               /\ finished <=> phase = "finalizing"

(* Finish reads heartbeatStarted before it waits; no heartbeat can start   *)
(* after that, since Start happens once and Finish only after it.          *)
HeartbeatAgrees ==
  /\ heartbeat = "none" <=> ~heartbeatStarted
  /\ heartbeatStarted => started
  /\ finishing.pc # "idle" => started /\ finishing.waits = heartbeatStarted
  /\ HeartbeatJoined

IInv == TypeOK /\ CountersAgree /\ RunningAgrees /\ PhaseAgrees /\ HeartbeatAgrees

-----------------------------------------------------------------------------
LEMMA PhaseStep ==
  ASSUME TypeOK, PhaseAgrees, [Next]_lifecycleVars
  PROVE  PhaseAgrees'
<1> USE DEF PhaseAgrees
<1>1. ASSUME NEW ok \in BOOLEAN, Start(ok) PROVE PhaseAgrees'
  BY <1>1 DEF Start, Reject, lifecycleVars, stateVars
<1>2. ASSUME NEW ok \in BOOLEAN, NEW ph \in RunPhases, SetPhase(ph, ok) PROVE PhaseAgrees'
  BY <1>2 DEF SetPhase, MayEnter, Active, RunPhases, Reject, lifecycleVars, stateVars
<1>3. ASSUME NEW ok \in BOOLEAN, NEW i \in Iterations,
             IterationStarted(i, ok) \/ IterationCompleted(i, ok)
      PROVE  PhaseAgrees'
  BY <1>3 DEF IterationStarted, IterationCompleted, Reject, lifecycleVars, stateVars
<1>4. ASSUME NEW ok \in BOOLEAN, NEW t \in Tasks, CaseStarted(t, ok) PROVE PhaseAgrees'
  BY <1>4 DEF CaseStarted, Reject, lifecycleVars, stateVars
<1>5. ASSUME NEW ok \in BOOLEAN, NEW t \in Tasks, NEW s \in Outcomes, CaseCompleted(t, s, ok)
      PROVE  PhaseAgrees'
  BY <1>5 DEF CaseCompleted, Reject, lifecycleVars, stateVars
<1>6. ASSUME NEW ok \in BOOLEAN, FinishCommit(ok) PROVE PhaseAgrees'
  <2>1. CASE UNCHANGED stateVars
    BY <2>1 DEF stateVars
  <2>2. CASE Active /\ phase' = "finalizing" /\ finished' = TRUE /\ started' = started
    BY <2>2 DEF Active
  <2> QED
    BY <1>6, <2>1, <2>2 DEF FinishCommit
<1>7. CASE \/ \E ok \in BOOLEAN : ClosePublisher(ok)
           \/ \E s \in RunStatuses : FinishCall(s)
           \/ HeartbeatStep
           \/ UNCHANGED lifecycleVars
  BY <1>7 DEF ClosePublisher, FinishCall, HeartbeatStep, HeartbeatSeesStop, HeartbeatTick,
              Heartbeat, stateVars, lifecycleVars
<1> QED
  BY <1>1, <1>2, <1>3, <1>4, <1>5, <1>6, <1>7 DEF Next

-----------------------------------------------------------------------------
LEMMA RunningFrame ==
  ASSUME RunningAgrees, UNCHANGED <<activeTaskIDs, finished, task, iteration>>
  PROVE  RunningAgrees'
BY DEF RunningAgrees

(* Only the started flag of an iteration matters to the running set.       *)
LEMMA RunningFrameIteration ==
  ASSUME RunningAgrees, UNCHANGED <<activeTaskIDs, finished, task>>,
         \A i \in Iterations : iteration[i].started => iteration'[i].started
  PROVE  RunningAgrees'
BY PlanAssumption DEF RunningAgrees

LEMMA CaseStartedRunning ==
  ASSUME TypeOK, RunningAgrees, NEW t \in Tasks, NEW ok \in BOOLEAN,
         MayStart(t), CaseStarted(t, ok), ~Reject(ok)
  PROVE  RunningAgrees'
<1>1. /\ task' = [task EXCEPT ![t].started = TRUE]
      /\ activeTaskIDs' = activeTaskIDs \cup {t}
      /\ UNCHANGED <<finished, iteration>>
  BY DEF CaseStarted
<1>2. ~finished /\ ~task[t].started /\ iteration[IterationOf[t]].started
  BY DEF MayStart, Executing, Active
<1>3. \A u \in Tasks : /\ task'[u].started <=> (task[u].started \/ u = t)
                       /\ task'[u].completed = task[u].completed
  BY <1>1, TypeOKParts DEF StateTypeOK
<1>4. ~task[t].completed
  BY <1>2 DEF RunningAgrees
<1> QED
  BY <1>1, <1>2, <1>3, <1>4 DEF RunningAgrees

LEMMA CaseCompletedRunning ==
  ASSUME TypeOK, RunningAgrees, NEW t \in Tasks, NEW s \in CaseStatuses, NEW ok \in BOOLEAN,
         MayComplete(t, s), CaseCompleted(t, s, ok), ~Reject(ok)
  PROVE  RunningAgrees'
<1>1. /\ task' = [task EXCEPT ![t].completed = TRUE]
      /\ activeTaskIDs' = activeTaskIDs \ {t}
      /\ iteration' = [iteration EXCEPT ![IterationOf[t]].completedN = @ + 1,
                                        ![IterationOf[t]].result = addStatus(@, s)]
      /\ UNCHANGED finished
  BY DEF CaseCompleted
<1>2. ~finished /\ task[t].started
  BY DEF MayComplete, Executing, Active
<1>3. \A u \in Tasks : /\ task'[u].completed <=> (task[u].completed \/ u = t)
                       /\ task'[u].started = task[u].started
  BY <1>1, TypeOKParts DEF StateTypeOK
<1>4. \A i \in Iterations : iteration'[i].started = iteration[i].started
  BY <1>1, TypeOKParts, PlanAssumption, IterationAfterCase DEF StateTypeOK
<1> QED
  BY <1>1, <1>2, <1>3, <1>4, PlanAssumption DEF RunningAgrees

LEMMA RunningStep ==
  ASSUME TypeOK, PhaseAgrees, RunningAgrees, [Next]_lifecycleVars
  PROVE  RunningAgrees'
<1>1. ASSUME NEW ok \in BOOLEAN, Start(ok) PROVE RunningAgrees'
  BY <1>1, RunningFrame DEF Start, Reject, lifecycleVars, stateVars
<1>2. ASSUME NEW ok \in BOOLEAN, NEW ph \in RunPhases, SetPhase(ph, ok) PROVE RunningAgrees'
  BY <1>2, RunningFrame DEF SetPhase, Reject, lifecycleVars, stateVars
<1>3. ASSUME NEW ok \in BOOLEAN, NEW i \in Iterations,
             IterationStarted(i, ok) \/ IterationCompleted(i, ok)
      PROVE  RunningAgrees'
  <2>1. CASE Reject(ok)
    BY <2>1, RunningFrame DEF Reject, lifecycleVars, stateVars
  <2>2. CASE ~Reject(ok)
    <3>1. /\ \/ iteration' = [iteration EXCEPT ![i].started = TRUE]
             \/ iteration' = [iteration EXCEPT ![i].completed = TRUE]
          /\ UNCHANGED <<activeTaskIDs, finished, task>>
      BY <1>3, <2>2 DEF IterationStarted, IterationCompleted
    <3>2. \A k \in Iterations : iteration[k].started => iteration'[k].started
      BY <3>1, TypeOKParts DEF StateTypeOK, IterationStates
    <3> QED
      BY <3>1, <3>2, RunningFrameIteration
  <2> QED
    BY <2>1, <2>2
<1>4. ASSUME NEW ok \in BOOLEAN, NEW t \in Tasks, CaseStarted(t, ok) PROVE RunningAgrees'
  <2>1. CASE Reject(ok)
    BY <2>1, RunningFrame DEF Reject, lifecycleVars, stateVars
  <2>2. CASE ~Reject(ok)
    BY <1>4, <2>2, CaseStartedRunning DEF CaseStarted
  <2> QED
    BY <2>1, <2>2
<1>5. ASSUME NEW ok \in BOOLEAN, NEW t \in Tasks, NEW s \in Outcomes, CaseCompleted(t, s, ok)
      PROVE  RunningAgrees'
  <2>1. CASE Reject(ok)
    BY <2>1, RunningFrame DEF Reject, lifecycleVars, stateVars
  <2>2. CASE ~Reject(ok)
    <3>1. s \in CaseStatuses
      BY PlanAssumption DEF CaseStatuses
    <3>2. MayComplete(t, s)
      BY <1>5, <2>2 DEF CaseCompleted
    <3> QED
      BY <1>5, <2>2, <3>1, <3>2, CaseCompletedRunning
  <2> QED
    BY <2>1, <2>2
<1>6. ASSUME NEW ok \in BOOLEAN, FinishCommit(ok) PROVE RunningAgrees'
  <2>1. CASE UNCHANGED stateVars
    BY <2>1, RunningFrame DEF stateVars
  <2>2. CASE finished' = TRUE /\ activeTaskIDs' = {} /\ UNCHANGED <<task, iteration>>
    BY <2>2 DEF RunningAgrees
  <2> QED
    BY <1>6, <2>1, <2>2 DEF FinishCommit
<1>7. CASE \/ \E ok \in BOOLEAN : ClosePublisher(ok)
           \/ \E s \in RunStatuses : FinishCall(s)
           \/ HeartbeatStep
           \/ UNCHANGED lifecycleVars
  BY <1>7, RunningFrame DEF ClosePublisher, FinishCall, HeartbeatStep, HeartbeatSeesStop,
       HeartbeatTick, Heartbeat, stateVars, lifecycleVars
<1> QED
  BY <1>1, <1>2, <1>3, <1>4, <1>5, <1>6, <1>7 DEF Next

-----------------------------------------------------------------------------
LEMMA HeartbeatFrame ==
  ASSUME HeartbeatAgrees, UNCHANGED <<heartbeat, heartbeatStarted, finishing>>,
         started => started'
  PROVE  HeartbeatAgrees'
BY DEF HeartbeatAgrees, HeartbeatJoined

LEMMA HeartbeatInvStep ==
  ASSUME TypeOK, HeartbeatAgrees, [Next]_lifecycleVars
  PROVE  HeartbeatAgrees'
<1>0. ControlTypeOK
  BY TypeOKParts
<1>1. ASSUME NEW ok \in BOOLEAN, Start(ok) PROVE HeartbeatAgrees'
  <2>1. CASE Reject(ok)
    BY <2>1, HeartbeatFrame DEF Reject, lifecycleVars, stateVars, heartbeatVars
  <2>2. CASE ~Reject(ok)
    BY <1>0, <1>1, <2>2 DEF Start, HeartbeatAgrees, HeartbeatJoined, ControlTypeOK
  <2> QED
    BY <2>1, <2>2
<1>2. ASSUME NEW ok \in BOOLEAN, NEW ph \in RunPhases, SetPhase(ph, ok) PROVE HeartbeatAgrees'
  BY <1>2, HeartbeatFrame DEF SetPhase, Reject, lifecycleVars, stateVars, heartbeatVars
<1>3. ASSUME NEW ok \in BOOLEAN, NEW i \in Iterations,
             IterationStarted(i, ok) \/ IterationCompleted(i, ok)
      PROVE  HeartbeatAgrees'
  BY <1>3, HeartbeatFrame
  DEF IterationStarted, IterationCompleted, Reject, lifecycleVars, stateVars, heartbeatVars
<1>4. ASSUME NEW ok \in BOOLEAN, NEW t \in Tasks, CaseStarted(t, ok) PROVE HeartbeatAgrees'
  BY <1>4, HeartbeatFrame DEF CaseStarted, Reject, lifecycleVars, stateVars, heartbeatVars
<1>5. ASSUME NEW ok \in BOOLEAN, NEW t \in Tasks, NEW s \in Outcomes, CaseCompleted(t, s, ok)
      PROVE  HeartbeatAgrees'
  BY <1>5, HeartbeatFrame DEF CaseCompleted, Reject, lifecycleVars, stateVars, heartbeatVars
<1>6. ASSUME NEW ok \in BOOLEAN, FinishCommit(ok) PROVE HeartbeatAgrees'
  <2>1. /\ finishing.pc = "waiting" /\ (finishing.waits => heartbeat = "exited")
        /\ finishing' = [finishing EXCEPT !.pc = "returned"]
        /\ started' = started /\ UNCHANGED heartbeatVars
    BY <1>6 DEF FinishCommit, HeartbeatJoinedOrNone, stateVars
  <2> QED
    BY <1>0, <2>1 DEF HeartbeatAgrees, HeartbeatJoined, ControlTypeOK, heartbeatVars
<1>7. ASSUME started, NEW s \in RunStatuses, FinishCall(s) PROVE HeartbeatAgrees'
  BY <1>7 DEF FinishCall, HeartbeatAgrees, HeartbeatJoined, stateVars, heartbeatVars
<1>8. CASE HeartbeatStep
  BY <1>8 DEF HeartbeatStep, HeartbeatSeesStop, HeartbeatTick, Heartbeat, HeartbeatAgrees,
              HeartbeatJoined, stateVars
<1>9. CASE (\E ok \in BOOLEAN : ClosePublisher(ok)) \/ UNCHANGED lifecycleVars
  BY <1>9, HeartbeatFrame DEF ClosePublisher, lifecycleVars, stateVars, heartbeatVars
<1> QED
  BY <1>1, <1>2, <1>3, <1>4, <1>5, <1>6, <1>7, <1>8, <1>9 DEF Next

-----------------------------------------------------------------------------
THEOREM IInvCorrect == Spec => []IInv
<1>1. Init => RunningAgrees /\ PhaseAgrees /\ HeartbeatAgrees
  BY PlanAssumption DEF Init, RunningAgrees, PhaseAgrees, HeartbeatAgrees, HeartbeatJoined
<1>2. /\ TypeOK /\ RunningAgrees /\ PhaseAgrees /\ HeartbeatAgrees
      /\ [Next]_lifecycleVars
      => RunningAgrees' /\ PhaseAgrees' /\ HeartbeatAgrees'
  BY PhaseStep, RunningStep, HeartbeatInvStep
<1> QED
  BY <1>1, <1>2, TypeCorrect, CountersCorrect, PTL DEF Spec, IInv

(* The running set is what was started and not completed, until Finish.    *)
THEOREM RunningCorrect == Spec => []RunningAgrees
BY IInvCorrect, PTL DEF IInv

(* Completed and running tasks are different tasks of the plan, so no      *)
(* snapshot the emitter can build is refused by the publisher.             *)
LEMMA RunningFits ==
  ASSUME TypeOK, CountersAgree, RunningAgrees
  PROVE  /\ Cardinality(activeTaskIDs) \in Nat
         /\ completed + Cardinality(activeTaskIDs) <= TaskTotal
<1>1. activeTaskIDs \in SUBSET Tasks /\ CompletedOf(Tasks) \in SUBSET Tasks
  BY DEF TypeOK, CompletedOf
<1>2. IsFiniteSet(Tasks) /\ IsFiniteSet(activeTaskIDs) /\ IsFiniteSet(CompletedOf(Tasks))
  BY <1>1, PlanAssumption, FS_Subset
<1>3. activeTaskIDs \cap CompletedOf(Tasks) = {}
  BY DEF RunningAgrees, CompletedOf
<1>4. Cardinality(activeTaskIDs \cap CompletedOf(Tasks)) = 0
  BY <1>3, FS_EmptySet
<1>5. Cardinality(activeTaskIDs \cup CompletedOf(Tasks))
        = Cardinality(activeTaskIDs) + Cardinality(CompletedOf(Tasks))
            - Cardinality(activeTaskIDs \cap CompletedOf(Tasks))
  BY <1>2, FS_Union
<1>6. activeTaskIDs \cup CompletedOf(Tasks) \in SUBSET Tasks
  BY <1>1
<1>7. Cardinality(activeTaskIDs \cup CompletedOf(Tasks)) <= Cardinality(Tasks)
  BY <1>2, <1>6, FS_Subset
<1>8. /\ Cardinality(activeTaskIDs) \in Nat /\ Cardinality(CompletedOf(Tasks)) \in Nat
      /\ Cardinality(Tasks) \in Nat
  BY <1>2, FS_CardinalityType
<1> QED
  BY <1>4, <1>5, <1>7, <1>8 DEF CountersAgree, TaskTotal

(* Every snapshot that could be published passes validation, so none is    *)
(* silently missing from a healthy log.                                    *)
LEMMA SnapshotOfInv == IInv => SnapshotsAreValid
<1> SUFFICES ASSUME IInv, started PROVE CurrentProgress \in ValidPayloads
  BY DEF SnapshotsAreValid
<1>1. /\ Cardinality(activeTaskIDs) \in Nat
      /\ completed + Cardinality(activeTaskIDs) <= TaskTotal
  BY RunningFits DEF IInv
<1>2. phase \in RunPhases /\ completed \in Nat /\ resultCounts \in ResultCounts
  BY DEF IInv, TypeOK, PhaseAgrees
<1>3. completed = Total(resultCounts)
  BY DEF IInv, CountersAgree
<1>4. CurrentProgress \in RunProgressPayloads
  BY <1>1, <1>2 DEF CurrentProgress, Progress, RunProgressPayloads
<1>5. /\ CurrentProgress.phase = phase /\ CurrentProgress.completed = completed
      /\ CurrentProgress.running = Cardinality(activeTaskIDs)
      /\ CurrentProgress.counts = resultCounts
  BY DEF CurrentProgress, Progress
<1> QED
  BY <1>1, <1>2, <1>3, <1>4, <1>5 DEF ValidPayloads

(* No snapshot the heartbeat or a handler builds is refused.               *)
THEOREM SnapshotsCorrect == Spec => []SnapshotsAreValid
BY SnapshotOfInv, IInvCorrect, PTL

(* Once Finish has returned no heartbeat is left.                          *)
THEOREM HeartbeatJoinedCorrect == Spec => []HeartbeatJoined
BY IInvCorrect, PTL DEF IInv, HeartbeatAgrees

-----------------------------------------------------------------------------
(* After run_finished nothing is published and nothing counted, even by a  *)
(* task goroutine or a heartbeat that was already on its way.              *)
THEOREM FinishedIsFinalCorrect == Spec => FinishedIsFinal
<1> DEFINE Frozen == /\ pub'.log = pub.log
                     /\ UNCHANGED <<task, iteration, completed, resultCounts, phase>>
<1>1. ASSUME IInv, finished, [Next]_lifecycleVars PROVE Frozen
  <2>0. started /\ finished /\ ~Active /\ ~Executing
    BY <1>1 DEF IInv, PhaseAgrees, Active, Executing
  <2>1. ASSUME NEW ok, Reject(ok) PROVE Frozen
    BY <2>1 DEF Reject, lifecycleVars, stateVars
  <2>2. ASSUME NEW ok \in BOOLEAN,
               \/ Start(ok)
               \/ \E ph \in RunPhases : SetPhase(ph, ok)
               \/ \E i \in Iterations : IterationStarted(i, ok) \/ IterationCompleted(i, ok)
               \/ \E t \in Tasks : \/ CaseStarted(t, ok)
                                   \/ \E s \in Outcomes : CaseCompleted(t, s, ok)
        PROVE  Frozen
    <3>1. Reject(ok)
      BY <2>0, <2>2 DEF Start, SetPhase, IterationStarted, IterationCompleted, CaseStarted,
                        CaseCompleted, MayEnter, MayStart, MayComplete, MayEnd
    <3> QED
      BY <2>1, <3>1
  <2>3. ASSUME NEW ok \in BOOLEAN, FinishCommit(ok) PROVE Frozen
    BY <2>0, <2>3 DEF FinishCommit, stateVars
  <2>4. ASSUME NEW ok \in BOOLEAN, ClosePublisher(ok) PROVE Frozen
    <3>1. pub \in PubState
      BY <1>1, TypeOKParts DEF IInv, IOTypeOK
    <3>2. P!ClosePublisher(pub, ok).log = pub.log
      BY <3>1 DEF P!ClosePublisher, PubState, PP!PublisherState
    <3> QED
      BY <2>4, <3>2 DEF ClosePublisher, stateVars
  <2>5. CASE \/ \E s \in RunStatuses : FinishCall(s)
             \/ HeartbeatStep
             \/ UNCHANGED lifecycleVars
    BY <2>0, <2>5 DEF FinishCall, HeartbeatStep, HeartbeatSeesStop, HeartbeatTick, Heartbeat,
                      lifecycleVars, stateVars
  <2> QED
    BY <1>1, <2>2, <2>3, <2>4, <2>5 DEF Next
<1>2. IInv /\ [Next]_lifecycleVars => [finished => Frozen]_lifecycleVars
  BY <1>1
<1> QED
  BY <1>2, IInvCorrect, PTL DEF Spec, FinishedIsFinal

(* The counts, the phase and the flags of the tasks only ever advance.     *)
THEOREM MonotoneCorrect == Spec => Monotone
<1> DEFINE Advance ==
      /\ completed <= completed'
      /\ phaseRank[phase] <= phaseRank[phase']
      /\ \A t \in Tasks : /\ task[t].started => task'[t].started
                          /\ task[t].completed => task'[t].completed
<1>1. ASSUME IInv, [Next]_lifecycleVars PROVE Advance
  <2>0. /\ completed \in Nat /\ phase \in RunPhases \cup {"unset"}
        /\ task \in [Tasks -> [started : BOOLEAN, completed : BOOLEAN]]
        /\ PhaseAgrees
    BY <1>1 DEF IInv, TypeOK
  <2>1. \A ph \in RunPhases \cup {"unset"} : /\ phaseRank[ph] \in 0..3
                                             /\ phaseRank["finalizing"] = 3
                                             /\ phaseRank["unset"] = 0
    BY DEF phaseRank, RunPhases
  <2>2. ASSUME UNCHANGED <<completed, phase, task>> PROVE Advance
    BY <2>0, <2>1, <2>2
  <2>3. ASSUME NEW ok, Reject(ok) PROVE Advance
    BY <2>2, <2>3 DEF Reject, lifecycleVars, stateVars
  <2>4. ASSUME UNCHANGED <<completed, task>>, phase' \in RunPhases,
               phaseRank[phase] <= phaseRank[phase']
        PROVE  Advance
    BY <2>0, <2>4
  <2>5. ASSUME NEW ok \in BOOLEAN, Start(ok), ~Reject(ok) PROVE Advance
    BY <2>0, <2>1, <2>4, <2>5 DEF Start, PhaseAgrees, RunPhases
  <2>6. ASSUME NEW ok \in BOOLEAN, NEW ph \in RunPhases, SetPhase(ph, ok), ~Reject(ok)
        PROVE  Advance
    BY <2>0, <2>1, <2>4, <2>6 DEF SetPhase, MayEnter
  <2>7. ASSUME NEW ok \in BOOLEAN, NEW t \in Tasks, CaseStarted(t, ok), ~Reject(ok)
        PROVE  Advance
    <3>1. /\ task' = [task EXCEPT ![t].started = TRUE]
          /\ UNCHANGED <<completed, phase>>
      BY <2>7 DEF CaseStarted
    <3> QED
      BY <2>0, <2>1, <3>1
  <2>8. ASSUME NEW ok \in BOOLEAN, NEW t \in Tasks, NEW s \in Outcomes,
               CaseCompleted(t, s, ok), ~Reject(ok)
        PROVE  Advance
    <3>1. /\ task' = [task EXCEPT ![t].completed = TRUE]
          /\ completed' = completed + 1 /\ phase' = phase
      BY <2>8 DEF CaseCompleted
    <3> QED
      BY <2>0, <2>1, <3>1
  <2>9. ASSUME NEW ok \in BOOLEAN, FinishCommit(ok) PROVE Advance
    <3>1. CASE UNCHANGED stateVars
      BY <2>2, <3>1 DEF stateVars
    <3>2. CASE phase' = "finalizing" /\ UNCHANGED <<completed, task>>
      BY <2>0, <2>1, <2>4, <3>2 DEF RunPhases
    <3> QED
      BY <2>9, <3>1, <3>2 DEF FinishCommit
  <2>10. ASSUME NEW ok \in BOOLEAN, NEW i \in Iterations,
                IterationStarted(i, ok) \/ IterationCompleted(i, ok), ~Reject(ok)
         PROVE  Advance
    BY <2>2, <2>10 DEF IterationStarted, IterationCompleted
  <2>11. CASE \/ \E ok \in BOOLEAN : ClosePublisher(ok)
              \/ \E s \in RunStatuses : FinishCall(s)
              \/ HeartbeatStep
              \/ UNCHANGED lifecycleVars
    BY <2>2, <2>11 DEF ClosePublisher, FinishCall, HeartbeatStep, HeartbeatSeesStop,
                       HeartbeatTick, Heartbeat, lifecycleVars, stateVars
  <2> QED
    BY <1>1, <2>3, <2>5, <2>6, <2>7, <2>8, <2>9, <2>10, <2>11 DEF Next
<1>2. IInv /\ [Next]_lifecycleVars => [Advance]_lifecycleVars
  BY <1>1
<1> QED
  BY <1>2, IInvCorrect, PTL DEF Spec, Monotone

-----------------------------------------------------------------------------
(* The file behind the emitter.  A handler makes up to two calls of the    *)
(* publisher in one step, so the publisher's invariant is carried through  *)
(* each of them.                                                           *)
SoundLog(p) == PP!Sound(p)

LEMMA PublishKeepsLog ==
  ASSUME NEW p, SoundLog(p), NEW payload, NEW last \in BOOLEAN, NEW io \in P!WriteOutcomes
  PROVE  SoundLog(P!PublishEvent(p, payload, last, io))
<1>1. PP!Sound(PP!PublishEvent(p, payload, last, io))
  BY PP!PublishKeepsSound DEF SoundLog, P!WriteOutcomes, PP!WriteOutcomes
<1>2. PP!PublishEvent(p, payload, last, io) = P!PublishEvent(p, payload, last, io)
  BY DEF P!PublishEvent, PP!PublishEvent, P!Accepts, PP!Accepts, P!Failed, PP!Failed
<1> QED
  BY <1>1, <1>2 DEF SoundLog

LEMMA CloseKeepsLog ==
  ASSUME NEW p, SoundLog(p), NEW ok \in BOOLEAN
  PROVE  SoundLog(P!ClosePublisher(p, ok))
<1>1. PP!Sound(PP!ClosePublisher(p, ok))
  BY PP!CloseKeepsSound DEF SoundLog
<1> QED
  BY <1>1 DEF SoundLog, P!ClosePublisher, PP!ClosePublisher

LEMMA EmitKeepsLog ==
  ASSUME SoundLog(pub), NEW payload, NEW ok, Emit(payload, ok)
  PROVE  SoundLog(pub')
<1>1. PICK io \in P!WriteOutcomes : pub' = P!PublishEvent(pub, payload, FALSE, io)
  BY DEF Emit
<1> QED
  BY <1>1, PublishKeepsLog

LEMMA EmitBothKeepsLog ==
  ASSUME SoundLog(pub), NEW payload, NEW progress, NEW ok, EmitBoth(payload, progress, ok)
  PROVE  SoundLog(pub')
<1>1. PICK io1 \in P!WriteOutcomes, io2 \in P!WriteOutcomes :
        LET first == P!PublishEvent(pub, payload, FALSE, io1)
        IN  \/ pub' = P!PublishEvent(first, progress, FALSE, io2)
            \/ pub' = first
  BY DEF EmitBoth
<1>2. SoundLog(P!PublishEvent(pub, payload, FALSE, io1))
  BY PublishKeepsLog
<1> QED
  BY <1>1, <1>2, PublishKeepsLog

LEMMA FinishKeepsLog ==
  ASSUME SoundLog(pub), NEW ok, FinishCommit(ok)
  PROVE  SoundLog(pub')
<1>1. CASE pub' = pub
  BY <1>1
<1>2. CASE \E io1, io2 \in P!WriteOutcomes :
             \E progress, last :
               pub' = P!PublishEvent(P!PublishEvent(pub, progress, FALSE, io1), last, TRUE, io2)
  <2> PICK io1 \in P!WriteOutcomes, io2 \in P!WriteOutcomes :
        \E progress, last :
          pub' = P!PublishEvent(P!PublishEvent(pub, progress, FALSE, io1), last, TRUE, io2)
    BY <1>2
  <2> PICK progress, last :
        pub' = P!PublishEvent(P!PublishEvent(pub, progress, FALSE, io1), last, TRUE, io2)
    OBVIOUS
  <2>1. SoundLog(P!PublishEvent(pub, progress, FALSE, io1))
    BY PublishKeepsLog
  <2> QED
    BY <2>1, PublishKeepsLog
<1> QED
  BY <1>1, <1>2 DEF FinishCommit

LEMMA LogStep ==
  ASSUME SoundLog(pub), [Next]_lifecycleVars
  PROVE  SoundLog(pub')
<1>0. ASSUME NEW ok, Reject(ok) PROVE SoundLog(pub')
  BY <1>0 DEF Reject, lifecycleVars
<1>1. ASSUME NEW ok \in BOOLEAN, Start(ok) PROVE SoundLog(pub')
  BY <1>0, <1>1, EmitBothKeepsLog DEF Start
<1>2. ASSUME NEW ok \in BOOLEAN, NEW ph \in RunPhases, SetPhase(ph, ok) PROVE SoundLog(pub')
  BY <1>0, <1>2, EmitKeepsLog DEF SetPhase
<1>3. ASSUME NEW ok \in BOOLEAN, NEW i \in Iterations,
             IterationStarted(i, ok) \/ IterationCompleted(i, ok)
      PROVE  SoundLog(pub')
  BY <1>0, <1>3, EmitKeepsLog DEF IterationStarted, IterationCompleted
<1>4. ASSUME NEW ok \in BOOLEAN, NEW t \in Tasks, CaseStarted(t, ok) PROVE SoundLog(pub')
  BY <1>0, <1>4, EmitBothKeepsLog DEF CaseStarted
<1>5. ASSUME NEW ok \in BOOLEAN, NEW t \in Tasks, NEW s \in Outcomes, CaseCompleted(t, s, ok)
      PROVE  SoundLog(pub')
  BY <1>0, <1>5, EmitBothKeepsLog DEF CaseCompleted
<1>6. ASSUME NEW ok \in BOOLEAN, FinishCommit(ok) PROVE SoundLog(pub')
  BY <1>6, FinishKeepsLog
<1>7. ASSUME NEW ok \in BOOLEAN, ClosePublisher(ok) PROVE SoundLog(pub')
  BY <1>7, CloseKeepsLog DEF ClosePublisher
<1>8. ASSUME NEW ok \in BOOLEAN, Heartbeat(ok) PROVE SoundLog(pub')
  BY <1>8, EmitKeepsLog DEF Heartbeat
<1>9. CASE \/ \E s \in RunStatuses : FinishCall(s)
           \/ HeartbeatSeesStop \/ HeartbeatTick \/ UNCHANGED lifecycleVars
  BY <1>9 DEF FinishCall, HeartbeatSeesStop, HeartbeatTick, lifecycleVars
<1> QED
  BY <1>1, <1>2, <1>3, <1>4, <1>5, <1>6, <1>7, <1>8, <1>9 DEF Next, HeartbeatStep

LEMMA SoundLogCorrect == Spec => []SoundLog(pub)
<1>1. Init => SoundLog(pub)
  BY DEF Init, SoundLog, PP!Sound, PP!PublisherState, P!NewPublisher
<1>2. SoundLog(pub) /\ [Next]_lifecycleVars => SoundLog(pub)'
  BY LogStep
<1> QED
  BY <1>1, <1>2, PTL DEF Spec

(* Whatever calls reach the emitter and however the sink fails: the file   *)
(* is numbered from 1 without a gap, its final record is its last, and a   *)
(* torn file has none.                                                     *)
THEOREM LogIsSoundCorrect == Spec => []LogIsSound
<1>1. SoundLog(pub) => LogIsSound
  BY DEF SoundLog, PP!Sound, LogIsSound, P!LogContiguous, P!LastEventEndsLog, P!TornNeverFinal
<1> QED
  BY <1>1, SoundLogCorrect, PTL
-----------------------------------------------------------------------------
(* From here on sequence numbers must last: a publication refused for want *)
(* of a number leaves no error behind, and the log would go on without it. *)
(*                                                                         *)
(* A record for each event of a run: two of its start, its phase, two of   *)
(* the start and the end of each task, the start and the end of each       *)
(* iteration, a snapshot per tick, two of Finish.  MaxSafeInteger is       *)
(* 2^53 - 1 in the code.                                                   *)
MaxRecords == 5 + 4 * TaskTotal + 2 * Cardinality(Iterations) + MaxTicks
Room == MaxRecords <= MaxSafeInteger

Healthy(p) == p.err = {} /\ ~p.closed

(* What the run so far may have put into the log.                          *)
One(condition) == IF condition THEN 1 ELSE 0
StartedOf(S) == {t \in S : task[t].started}
TaskRecords == 2 * Cardinality(StartedOf(Tasks)) + 2 * Cardinality(CompletedOf(Tasks))
Opened == {i \in Iterations : iteration[i].started}
Ended == {i \in Iterations : iteration[i].completed}
IterationRecords == Cardinality(Opened) + Cardinality(Ended)
RunRecords == 2 * One(started) + One(phase \in {"executing", "finalizing"}) + 2 * One(finished)
Beats == ticks - One(heartbeat = "beat")

Budget == RunRecords + TaskRecords + IterationRecords + Beats

RoomInv == Healthy(pub) => /\ pub.nextSequence = Len(pub.log) + 1
                           /\ Len(pub.log) <= Budget

(* The log l tells what the emitter's variables say.                       *)
IterationsOf(l, type) == {e.iteration : e \in Protocol!Of(l, type)}

Agrees(l, tk, it, counts, ph) ==
  /\ l # <<>>
  /\ Protocol!StartedTasks(l) = {t \in Tasks : tk[t].started}
  /\ Protocol!CompletedTasks(l) = {t \in Tasks : tk[t].completed}
  /\ IsFiniteSet(Protocol!Of(l, "case_completed"))
  /\ Protocol!Groups(counts, l, Protocol!CompletedTasks(l))
  /\ \A i \in Iterations : Protocol!Groups(it[i].result, l, TasksOf(i))
  /\ IterationsOf(l, "iteration_started") = {i \in Iterations : it[i].started}
  /\ IterationsOf(l, "iteration_completed") = {i \in Iterations : it[i].completed}
  /\ \A q \in Protocol!Of(l, "run_progress") : phaseRank[q.phase] <= phaseRank[ph]

Unfinished(l) == Protocol!Of(l, "run_finished") = {}

(* Before Start there is nothing to tell.                                  *)
Fresh == ~started => /\ \A t \in Tasks : ~task[t].started /\ ~task[t].completed
                     /\ \A i \in Iterations : /\ ~iteration[i].started /\ ~iteration[i].completed
                                              /\ iteration[i].result = NoResults
                     /\ resultCounts = NoResults

StoryInv ==
  Healthy(pub) => /\ ~started => pub.log = <<>>
                  /\ started => Agrees(pub.log, task, iteration, resultCounts, phase)
                  /\ ~finished => Unfinished(pub.log)
                  /\ finished <=> pub.finalized

-----------------------------------------------------------------------------
(* What publishing the record r leaves of a healthy publisher p.           *)
Event(n, last, payload) == [sequence |-> n, lastEvent |-> last, payload |-> payload]
Record(p, payload, last) == Event(p.nextSequence, last, payload)

Delivered(q, log, number) == Healthy(q) /\ q.log = log /\ q.nextSequence = number

Fate(p, q, r, ok) ==
  \/ ok /\ Delivered(q, Append(p.log, r), p.nextSequence + 1) /\ q.finalized = r.lastEvent
  \/ ~ok /\ "publish" \in q.err /\ q.log \in {p.log, Append(p.log, r)}

LEMMA Publishing ==
  ASSUME NEW p \in PubState, NEW payload \in ValidPayloads, NEW last \in BOOLEAN,
         NEW io \in P!WriteOutcomes,
         Healthy(p), ~p.finalized, p.nextSequence <= MaxSafeInteger
  PROVE  Fate(p, P!PublishEvent(p, payload, last, io), Record(p, payload, last),
              P!Published(p, payload, io))
<1> DEFINE r == Record(p, payload, last)
           appended == [p EXCEPT !.log = Append(@, r)]
           q == P!PublishEvent(p, payload, last, io)
<1>1. P!Accepts(p, payload)
  BY DEF P!Accepts, Healthy
<1>2. q = CASE io = "written" -> [appended EXCEPT !.nextSequence = @ + 1, !.finalized = last]
            [] io = "late"    -> P!Failed(appended)
            [] io = "torn"    -> P!Failed([p EXCEPT !.torn = TRUE])
            [] OTHER          -> P!Failed(p)
  BY <1>1 DEF P!PublishEvent, Record, Event
<1>3. P!Published(p, payload, io) <=> io = "written"
  BY <1>1 DEF P!Published
<1>4. /\ appended.log = Append(p.log, r) /\ appended.closed = p.closed /\ appended.err = p.err
      /\ appended.nextSequence = p.nextSequence
      /\ appended \in [log : Seq(PP!Events) \cup {appended.log}, torn : BOOLEAN,
                       nextSequence : Nat \ {0}, finalized : BOOLEAN, closed : BOOLEAN,
                       err : SUBSET {"publish", "close"}]
  BY DEF PubState, PP!PublisherState
<1> HIDE DEF q, appended, r
<1>5. CASE io = "written"
  <2>1. q = [appended EXCEPT !.nextSequence = @ + 1, !.finalized = last]
    BY <1>2, <1>5
  <2>2. Delivered(q, Append(p.log, r), p.nextSequence + 1) /\ q.finalized = last
    BY <1>4, <2>1 DEF Delivered, Healthy
  <2> QED
    BY <1>3, <1>5, <2>2 DEF Fate, Record, Event, r, q
<1>6. CASE io # "written"
  <2>1. q \in {P!Failed(appended), P!Failed([p EXCEPT !.torn = TRUE]), P!Failed(p)}
    BY <1>2, <1>6
  <2>2. "publish" \in q.err /\ q.log \in {p.log, Append(p.log, r)}
    BY <1>4, <2>1 DEF P!Failed, PubState, PP!PublisherState
  <2> QED
    BY <1>3, <1>6, <2>2 DEF Fate, r, q
<1> QED
  BY <1>5, <1>6

LEMMA PublishingOnceOver ==
  ASSUME NEW p, NEW payload, NEW last, NEW io, ~Healthy(p)
  PROVE  P!PublishEvent(p, payload, last, io) = p /\ ~P!Published(p, payload, io)
BY DEF Healthy, P!PublishEvent, P!Published, P!Accepts

(* The two records of a handler that publishes twice.                      *)
BothFate(p, q, r1, r2, ok) ==
  \/ ok /\ Delivered(q, Append(Append(p.log, r1), r2), p.nextSequence + 2)
     /\ q.finalized = r2.lastEvent
  \/ ~ok /\ "publish" \in q.err
     /\ q.log \in {p.log, Append(p.log, r1), Append(Append(p.log, r1), r2)}

Second(p, payload, last) == Event(p.nextSequence + 1, last, payload)

LEMMA PublishingBoth ==
  ASSUME NEW p \in PubState, NEW payload \in ValidPayloads, NEW progress \in ValidPayloads,
         NEW last \in BOOLEAN, NEW io1 \in P!WriteOutcomes, NEW io2 \in P!WriteOutcomes,
         Healthy(p), ~p.finalized, p.nextSequence + 1 <= MaxSafeInteger
  PROVE  LET first == P!PublishEvent(p, payload, FALSE, io1)
             q     == P!PublishEvent(first, progress, last, io2)
             ok1   == P!Published(p, payload, io1)
             ok2   == P!Published(first, progress, io2)
         IN  /\ BothFate(p, q, Record(p, payload, FALSE), Second(p, progress, last), ok1 /\ ok2)
             /\ ~ok1 => /\ "publish" \in first.err
                        /\ first.log \in {p.log, Append(p.log, Record(p, payload, FALSE))}
<1> DEFINE first == P!PublishEvent(p, payload, FALSE, io1)
           q     == P!PublishEvent(first, progress, last, io2)
           ok1   == P!Published(p, payload, io1)
           ok2   == P!Published(first, progress, io2)
           r1    == Record(p, payload, FALSE)
<1>0. MaxSafeInteger \in Nat /\ p.nextSequence \in Nat
  BY PlanAssumption DEF PubState, PP!PublisherState
<1>1. Fate(p, first, r1, ok1) /\ first \in PubState
  <2>1. p.nextSequence <= MaxSafeInteger
    BY <1>0
  <2>2. Fate(p, first, r1, ok1)
    BY <2>1, Publishing
  <2>3. first \in PubState
    BY PublishEventType
  <2> QED
    BY <2>2, <2>3
<1>2. CASE ok1
  <2>1. /\ Healthy(first) /\ ~first.finalized /\ first.log = Append(p.log, r1)
        /\ first.nextSequence = p.nextSequence + 1
    BY <1>1, <1>2 DEF Fate, Delivered, Record, Event
  <2>2. Fate(first, q, Record(first, progress, last), ok2)
    BY <1>0, <1>1, <2>1, Publishing
  <2>3. Record(first, progress, last) = Second(p, progress, last)
    BY <2>1 DEF Record, Second, Event
  <2> DEFINE r2 == Second(p, progress, last)
  <2> HIDE DEF first, q, ok1, ok2, r1, r2
  <2>4. BothFate(p, q, r1, r2, ok1 /\ ok2)
    <3>1. Fate(first, q, r2, ok2)
      BY <2>2, <2>3 DEF r2
    <3>2. first.log = Append(p.log, r1) /\ first.nextSequence + 1 = p.nextSequence + 2
      BY <1>0, <2>1
    <3> QED
      BY <1>2, <3>1, <3>2 DEF Fate, BothFate, Delivered
  <2> QED
    BY <1>2, <2>4 DEF first, q, ok1, ok2, r1, r2
<1>3. CASE ~ok1
  <2>1. "publish" \in first.err /\ first.log \in {p.log, Append(p.log, r1)}
    BY <1>1, <1>3 DEF Fate
  <2>2. q = first
    BY <2>1, PublishingOnceOver DEF Healthy
  <2> QED
    BY <1>3, <2>1, <2>2 DEF BothFate
<1> QED
  BY <1>2, <1>3

LEMMA EmitFate ==
  ASSUME pub \in PubState, Healthy(pub), ~pub.finalized, pub.nextSequence <= MaxSafeInteger,
         NEW payload \in ValidPayloads, NEW ok, Emit(payload, ok)
  PROVE  Fate(pub, pub', Record(pub, payload, FALSE), ok)
BY Publishing DEF Emit

LEMMA EmitBothFate ==
  ASSUME pub \in PubState, Healthy(pub), ~pub.finalized, pub.nextSequence + 1 <= MaxSafeInteger,
         NEW payload \in ValidPayloads, NEW progress \in ValidPayloads, NEW ok,
         EmitBoth(payload, progress, ok)
  PROVE  BothFate(pub, pub', Record(pub, payload, FALSE), Second(pub, progress, FALSE), ok)
<1> PICK io1 \in P!WriteOutcomes, io2 \in P!WriteOutcomes :
       LET first == P!PublishEvent(pub, payload, FALSE, io1)
       IN  IF P!Published(pub, payload, io1)
           THEN /\ pub' = P!PublishEvent(first, progress, FALSE, io2)
                /\ ok = P!Published(first, progress, io2)
           ELSE pub' = first /\ ok = FALSE
  BY DEF EmitBoth
<1> DEFINE first == P!PublishEvent(pub, payload, FALSE, io1)
<1>1. /\ BothFate(pub, P!PublishEvent(first, progress, FALSE, io2), Record(pub, payload, FALSE),
                  Second(pub, progress, FALSE),
                  P!Published(pub, payload, io1) /\ P!Published(first, progress, io2))
      /\ ~P!Published(pub, payload, io1) =>
           /\ "publish" \in first.err
           /\ first.log \in {pub.log, Append(pub.log, Record(pub, payload, FALSE))}
  BY PublishingBoth
<1> QED
  BY <1>1 DEF BothFate

LEMMA EmitOnceOver ==
  ASSUME ~Healthy(pub), NEW payload, NEW progress, NEW ok,
         Emit(payload, ok) \/ EmitBoth(payload, progress, ok)
  PROVE  pub' = pub
<1>1. \A x, last, io : P!PublishEvent(pub, x, last, io) = pub /\ ~P!Published(pub, x, io)
  BY PublishingOnceOver
<1>2. CASE Emit(payload, ok)
  BY <1>1, <1>2 DEF Emit
<1>3. CASE EmitBoth(payload, progress, ok)
  BY <1>1, <1>3 DEF EmitBoth
<1> QED
  BY <1>2, <1>3

LEMMA FinishFate ==
  ASSUME pub \in PubState, Healthy(pub), ~pub.finalized, pub.nextSequence + 1 <= MaxSafeInteger,
         NEW payload \in ValidPayloads, NEW last \in ValidPayloads, NEW ok,
         \E io1, io2 \in P!WriteOutcomes :
           LET first == P!PublishEvent(pub, payload, FALSE, io1)
           IN  /\ pub' = P!PublishEvent(first, last, TRUE, io2)
               /\ ok = (P!Published(pub, payload, io1) /\ P!Published(first, last, io2))
  PROVE  BothFate(pub, pub', Record(pub, payload, FALSE), Second(pub, last, TRUE), ok)
BY PublishingBoth

-----------------------------------------------------------------------------
(* What one more record adds to a log.                                     *)
LEMMA OfAppend ==
  ASSUME NEW l \in Seq(P!Events), NEW r \in P!Events
  PROVE  /\ \A type : Protocol!Of(Append(l, r), type) =
                         IF r.payload.type = type THEN Protocol!Of(l, type) \cup {r.payload}
                                                  ELSE Protocol!Of(l, type)
         /\ Append(l, r) # <<>> /\ Len(Append(l, r)) = Len(l) + 1
         /\ Append(l, r)[Len(l) + 1] = r
         /\ \A k \in 1..Len(l) : Append(l, r)[k] = l[k]
         /\ Append(l, r) \in Seq(P!Events)
<1>1. /\ Len(Append(l, r)) = Len(l) + 1 /\ Append(l, r)[Len(l) + 1] = r /\ Len(l) \in Nat
      /\ \A k \in 1..Len(l) : Append(l, r)[k] = l[k]
      /\ DOMAIN Append(l, r) = 1..(Len(l) + 1) /\ DOMAIN l = 1..Len(l)
      /\ Append(l, r) \in Seq(P!Events)
  OBVIOUS
<1>2. {Append(l, r)[k].payload : k \in DOMAIN Append(l, r)}
        = {l[k].payload : k \in DOMAIN l} \cup {r.payload}
  BY <1>1
<1>3. Append(l, r) # <<>>
  BY <1>1
<1>4. ASSUME NEW type
      PROVE  Protocol!Of(Append(l, r), type) =
               IF r.payload.type = type THEN Protocol!Of(l, type) \cup {r.payload}
                                        ELSE Protocol!Of(l, type)
  <2>1. Protocol!Of(Append(l, r), type)
          = Protocol!Of(l, type) \cup {e \in {r.payload} : e.type = type}
    BY <1>2 DEF Protocol!Of
  <2> QED
    BY <2>1
<1> QED
  BY <1>1, <1>3, <1>4

LEMMA OfEmpty == \A type : Protocol!Of(<<>>, type) = {}
BY DEF Protocol!Of

(* The completions of C that a group of counters counts under s.           *)
Counted(C, done, s) == {c \in C : c.task \in done /\ c.status = s}

LEMMA SameCardinality == \A S : Protocol!Cardinality(S) = Cardinality(S)
BY DEF Protocol!Cardinality, Cardinality

LEMMA GroupsCount ==
  ASSUME NEW counts \in ResultCounts, NEW l, NEW done
  PROVE  Protocol!Groups(counts, l, done) <=>
           \A s \in CaseStatuses :
             counts[s] = Cardinality(Counted(Protocol!Of(l, "case_completed"), done, s))
<1>1. DOMAIN counts = CaseStatuses
  BY DEF ResultCounts
<1> QED
  BY <1>1, SameCardinality DEF Protocol!Groups, Counted

(* One more completion and the group of counters it belongs to.            *)
LEMMA OneMoreGroup ==
  ASSUME NEW counts \in ResultCounts, NEW l, NEW m, NEW e, NEW D, NEW E,
         e.status \in CaseStatuses,
         IsFiniteSet(Protocol!Of(l, "case_completed")),
         Protocol!Of(m, "case_completed") = Protocol!Of(l, "case_completed") \cup {e},
         \A c \in Protocol!Of(l, "case_completed") :
           c.task # e.task /\ (c.task \in D <=> c.task \in E),
         Protocol!Groups(counts, l, D)
  PROVE  /\ e.task \in E => Protocol!Groups(addStatus(counts, e.status), m, E)
         /\ e.task \notin E => Protocol!Groups(counts, m, E)
<1> DEFINE after == IF e.task \in E THEN addStatus(counts, e.status) ELSE counts
           C == Protocol!Of(l, "case_completed")
<1>1. after \in ResultCounts
  BY addStatusType
<1>2. \A s \in CaseStatuses : after[s] = IF e.task \in E /\ e.status = s THEN counts[s] + 1
                                                                          ELSE counts[s]
  BY DEF addStatus, ResultCounts
<1>3. \A s \in CaseStatuses : counts[s] = Cardinality(Counted(C, D, s))
  BY GroupsCount
<1>0. /\ IsFiniteSet(C) /\ Protocol!Of(m, "case_completed") = C \cup {e}
      /\ \A c \in C : c.task # e.task /\ (c.task \in D <=> c.task \in E)
  OBVIOUS
<1> HIDE DEF after, C
<1>4. ASSUME NEW s \in CaseStatuses
      PROVE  after[s] = Cardinality(Counted(Protocol!Of(m, "case_completed"), E, s))
  <2>1. IsFiniteSet(Counted(C, D, s)) /\ e \notin Counted(C, D, s)
    BY <1>0, FS_Subset DEF Counted
  <2>2. CASE e.task \in E /\ e.status = s
    <3>1. Counted(C \cup {e}, E, s) = Counted(C, D, s) \cup {e}
      BY <1>0, <2>2 DEF Counted
    <3>2. Cardinality(Counted(C \cup {e}, E, s)) = Cardinality(Counted(C, D, s)) + 1
      BY <2>1, <3>1, FS_AddElement
    <3>3. after[s] = counts[s] + 1 /\ counts[s] = Cardinality(Counted(C, D, s))
      BY <1>2, <1>3, <2>2
    <3> QED
      BY <1>0, <3>2, <3>3
  <2>3. CASE ~(e.task \in E /\ e.status = s)
    <3>1. Counted(C \cup {e}, E, s) = Counted(C, D, s)
      BY <1>0, <2>3 DEF Counted
    <3> QED
      BY <1>0, <1>2, <1>3, <2>3, <3>1
  <2> QED
    BY <2>2, <2>3
<1>5. Protocol!Groups(after, m, E)
  BY <1>1, <1>4, GroupsCount
<1> QED
  BY <1>5 DEF after

-----------------------------------------------------------------------------
(* Each kind of record is legal when the emitter publishes it, and the log *)
(* agrees with the emitter afterwards.                                     *)
TaskStates == [Tasks -> [started : BOOLEAN, completed : BOOLEAN]]

Tells(l, r, tk, it, counts, ph) ==
  /\ Protocol!Legal(l, r)
  /\ Agrees(Append(l, r), tk, it, counts, ph)
  /\ Unfinished(Append(l, r))

(* The groups of a log are those of its completions.                       *)
LEMMA SameGroups ==
  ASSUME NEW l, NEW m, Protocol!Of(m, "case_completed") = Protocol!Of(l, "case_completed")
  PROVE  /\ \A counts, done : Protocol!Groups(counts, m, done) <=> Protocol!Groups(counts, l, done)
         /\ Protocol!CompletedTasks(m) = Protocol!CompletedTasks(l)
BY DEF Protocol!Groups, Protocol!CompletedTasks

LEMMA LogType == IInv => pub.log \in Seq(P!Events)
BY TypeOKParts DEF IInv, IOTypeOK, PubState, PP!PublisherState, PP!Events, P!Events

LEMMA PhasesLogged ==
  ASSUME NEW l \in Seq(P!Events), NEW q \in Protocol!Of(l, "run_progress")
  PROVE  q.phase \in RunPhases /\ Protocol!Rank[q.phase] = phaseRank[q.phase]
<1>1. PICK k \in DOMAIN l : q = l[k].payload /\ q.type = "run_progress"
  BY DEF Protocol!Of
<1>2. l[k] \in P!Events
  OBVIOUS
<1>3. q \in ValidPayloads
  BY <1>1, <1>2 DEF P!Events
<1>4. q.phase \in RunPhases
  BY <1>1, <1>3 DEF ValidPayloads, RunStartedPayloads, RunProgressPayloads, RunFinishedPayloads,
       CaseCompletedPayloads, IterationStartedPayloads, IterationCompletedPayloads,
       CaseStartedPayloads
<1> QED
  BY <1>4 DEF RunPhases, phaseRank, Protocol!Rank

LEMMA CaseStartedLogged ==
  ASSUME NEW l \in Seq(P!Events), NEW e \in Protocol!Of(l, "case_started")
  PROVE  e = [type |-> "case_started", task |-> e.task]
<1>1. PICK k \in DOMAIN l : e = l[k].payload /\ e.type = "case_started"
  BY DEF Protocol!Of
<1>2. l[k] \in P!Events
  OBVIOUS
<1>3. e \in ValidPayloads
  BY <1>1, <1>2 DEF P!Events
<1>4. e \in CaseStartedPayloads
  BY <1>1, <1>3 DEF ValidPayloads, RunStartedPayloads, RunProgressPayloads, RunFinishedPayloads,
       CaseCompletedPayloads, IterationStartedPayloads, IterationCompletedPayloads
<1> QED
  BY <1>4 DEF CaseStartedPayloads

(* A later phase keeps the agreement.                                      *)
LEMMA LaterPhase ==
  ASSUME NEW l \in Seq(P!Events), NEW tk, NEW it, NEW counts,
         NEW ph \in RunPhases, NEW later \in RunPhases,
         Agrees(l, tk, it, counts, ph), phaseRank[ph] <= phaseRank[later]
  PROVE  Agrees(l, tk, it, counts, later)
<1>1. \A q \in Protocol!Of(l, "run_progress") : q.phase \in RunPhases
  BY PhasesLogged
<1>2. \A p \in RunPhases : phaseRank[p] \in Nat
  BY DEF RunPhases, phaseRank
<1> QED
  BY <1>1, <1>2 DEF Agrees

LEMMA TellsStart ==
  ASSUME NEW n \in Nat, NEW tk \in TaskStates, NEW it \in [Iterations -> IterationStates],
         \A t \in Tasks : ~tk[t].started /\ ~tk[t].completed,
         \A i \in Iterations : ~it[i].started /\ ~it[i].completed /\ it[i].result = NoResults,
         NEW total, [type |-> "run_started", taskTotal |-> TaskTotal, iterationsTotal |-> total]
                      \in ValidPayloads
  PROVE  Tells(<<>>, Event(n, FALSE, [type |-> "run_started", taskTotal |-> TaskTotal,
                                      iterationsTotal |-> total]),
               tk, it, NoResults, "preparing")
<1> DEFINE e == [type |-> "run_started", taskTotal |-> TaskTotal, iterationsTotal |-> total]
           r == Event(n, FALSE, e)
           l == Append(<<>>, r)
<1>1. e.type = "run_started" /\ r.payload = e /\ ~r.lastEvent /\ e.taskTotal = TaskTotal
      /\ r \in P!Events
  BY DEF Event, P!Events
<1> HIDE DEF e, r
<1>2. \A type : Protocol!Of(l, type) = {x \in {e} : x.type = type}
  <2> DEFINE empty == <<>>
  <2>1. empty \in Seq(P!Events) /\ l = Append(empty, r)
    OBVIOUS
  <2> HIDE DEF empty, l
  <2>2. \A type : Protocol!Of(l, type) = IF e.type = type THEN Protocol!Of(empty, type) \cup {e}
                                                         ELSE Protocol!Of(empty, type)
    BY <1>1, <2>1, OfAppend
  <2> QED
    BY <1>1, <2>2, OfEmpty DEF empty
<1>3. l # <<>>
  OBVIOUS
<1> HIDE DEF l
<1>4. Protocol!Legal(<<>>, r)
  BY <1>1, OfEmpty, SameCardinality DEF Protocol!Legal, TaskTotal
<1>5. /\ Protocol!Of(l, "case_completed") = {} /\ Protocol!Of(l, "case_started") = {}
      /\ Protocol!Of(l, "iteration_started") = {} /\ Protocol!Of(l, "iteration_completed") = {}
      /\ Protocol!Of(l, "run_progress") = {} /\ Protocol!Of(l, "run_finished") = {}
  BY <1>1, <1>2
<1>6. \A done : Protocol!Groups(NoResults, l, done)
  <2>1. \A done, s : Counted({}, done, s) = {}
    BY DEF Counted
  <2>2. NoResults \in ResultCounts /\ \A s \in CaseStatuses : NoResults[s] = 0
    BY DEF NoResults, ResultCounts
  <2> QED
    BY <1>5, <2>1, <2>2, GroupsCount, FS_EmptySet
<1>7. Agrees(l, tk, it, NoResults, "preparing") /\ Unfinished(l)
  BY <1>3, <1>5, <1>6, FS_EmptySet DEF Agrees, IterationsOf, Unfinished, Protocol!StartedTasks,
       Protocol!CompletedTasks
<1> QED
  BY <1>4, <1>7 DEF Tells, l, r, e

(* What the other records leave of the agreement: nothing but their own.   *)
LEMMA TellsProgress ==
  ASSUME NEW l \in Seq(P!Events), NEW n \in Nat, NEW tk \in TaskStates,
         NEW it \in [Iterations -> IterationStates], NEW counts \in ResultCounts,
         NEW ph \in RunPhases, NEW done, NEW active,
         Agrees(l, tk, it, counts, ph), Unfinished(l),
         done = Cardinality({t \in Tasks : tk[t].completed}),
         active = IF ph = "finalizing" THEN {}
                  ELSE {t \in Tasks : tk[t].started /\ ~tk[t].completed},
         Progress(ph, done, active, counts) \in ValidPayloads
  PROVE  Tells(l, Event(n, FALSE, Progress(ph, done, active, counts)), tk, it, counts, ph)
<1> DEFINE e == Progress(ph, done, active, counts)
           r == Event(n, FALSE, e)
           m == Append(l, r)
<1>1. /\ r \in P!Events /\ r.payload = e /\ ~r.lastEvent
      /\ e.type = "run_progress" /\ e.phase = ph /\ e.completed = done
      /\ e.running = Cardinality(active) /\ e.counts = counts
  BY DEF Event, P!Events, Progress
<1> HIDE DEF e, r
<1>2. \A type : Protocol!Of(m, type) = IF e.type = type THEN Protocol!Of(l, type) \cup {e}
                                                 ELSE Protocol!Of(l, type)
  BY <1>1, OfAppend
<1>3. m # <<>>
  BY <1>1, OfAppend
<1> HIDE DEF m
<1>4. /\ Protocol!Of(m, "case_completed") = Protocol!Of(l, "case_completed")
      /\ Protocol!Of(m, "case_started") = Protocol!Of(l, "case_started")
      /\ Protocol!Of(m, "iteration_started") = Protocol!Of(l, "iteration_started")
      /\ Protocol!Of(m, "iteration_completed") = Protocol!Of(l, "iteration_completed")
      /\ Protocol!Of(m, "run_progress") = Protocol!Of(l, "run_progress") \cup {e}
      /\ Protocol!Of(m, "run_finished") = Protocol!Of(l, "run_finished")
  BY <1>1, <1>2
<1>5. Protocol!LegalProgress(l, e)
  <2>1. e.completed = Protocol!Cardinality(Protocol!CompletedTasks(l))
    BY <1>1, SameCardinality DEF Agrees
  <2>2. Protocol!Groups(e.counts, l, Protocol!CompletedTasks(l))
    BY <1>1 DEF Agrees
  <2>3. \A q \in Protocol!Of(l, "run_progress") : Protocol!Rank[q.phase] <= Protocol!Rank[e.phase]
    BY <1>1, PhasesLogged DEF Agrees, RunPhases, phaseRank, Protocol!Rank
  <2>4. e.running = IF e.phase = "finalizing" THEN 0
                    ELSE Protocol!Cardinality(Protocol!StartedTasks(l) \ Protocol!CompletedTasks(l))
    <3>1. CASE ph = "finalizing"
      BY <1>1, <3>1, FS_EmptySet
    <3>2. CASE ph # "finalizing"
      <4>1. active = Protocol!StartedTasks(l) \ Protocol!CompletedTasks(l)
        BY <3>2 DEF Agrees
      <4> QED
        BY <1>1, <3>2, <4>1, SameCardinality
    <3> QED
      BY <3>1, <3>2
  <2> QED
    BY <2>1, <2>2, <2>3, <2>4 DEF Protocol!LegalProgress
<1>6. Protocol!Legal(l, r)
  BY <1>1, <1>5 DEF Protocol!Legal, Agrees, Unfinished
<1>7. Agrees(m, tk, it, counts, ph) /\ Unfinished(m)
  <2>1. \A q \in Protocol!Of(m, "run_progress") : phaseRank[q.phase] <= phaseRank[ph]
    BY <1>1, <1>4 DEF Agrees, RunPhases, phaseRank
  <2> QED
    BY <1>3, <1>4, <2>1, SameGroups DEF Agrees, IterationsOf, Unfinished, Protocol!StartedTasks
<1> QED
  BY <1>6, <1>7 DEF Tells, m, r, e

LEMMA TellsCaseStart ==
  ASSUME NEW l \in Seq(P!Events), NEW n \in Nat, NEW tk \in TaskStates,
         NEW it \in [Iterations -> IterationStates], NEW counts \in ResultCounts,
         NEW ph \in RunPhases, NEW t \in Tasks,
         Agrees(l, tk, it, counts, ph), Unfinished(l),
         ~tk[t].started, it[IterationOf[t]].started, ~it[IterationOf[t]].completed
  PROVE  Tells(l, Event(n, FALSE, [type |-> "case_started", task |-> t]),
               [tk EXCEPT ![t].started = TRUE], it, counts, ph)
<1> DEFINE e == [type |-> "case_started", task |-> t]
           r == Event(n, FALSE, e)
           m == Append(l, r)
           tk2 == [tk EXCEPT ![t].started = TRUE]
<1>1. r \in P!Events /\ r.payload = e /\ ~r.lastEvent /\ e.type = "case_started" /\ e.task = t
  BY DEF Event, P!Events, ValidPayloads, CaseStartedPayloads
<1>2. \A u \in Tasks : /\ tk2[u].started <=> (tk[u].started \/ u = t)
                       /\ tk2[u].completed = tk[u].completed
  BY DEF TaskStates
<1> HIDE DEF e, r, tk2
<1>3. \A type : Protocol!Of(m, type) = IF e.type = type THEN Protocol!Of(l, type) \cup {e}
                                                 ELSE Protocol!Of(l, type)
  BY <1>1, OfAppend
<1>4. m # <<>>
  BY <1>1, OfAppend
<1> HIDE DEF m
<1>5. /\ Protocol!Of(m, "case_completed") = Protocol!Of(l, "case_completed")
      /\ Protocol!Of(m, "case_started") = Protocol!Of(l, "case_started") \cup {e}
      /\ Protocol!Of(m, "iteration_started") = Protocol!Of(l, "iteration_started")
      /\ Protocol!Of(m, "iteration_completed") = Protocol!Of(l, "iteration_completed")
      /\ Protocol!Of(m, "run_progress") = Protocol!Of(l, "run_progress")
      /\ Protocol!Of(m, "run_finished") = Protocol!Of(l, "run_finished")
  BY <1>1, <1>3
<1>6. Protocol!Legal(l, r)
  <2>1. e.task \notin Protocol!StartedTasks(l)
    BY <1>1 DEF Agrees
  <2>2. IterationOf[e.task] \in Protocol!OpenIterations(l)
    BY <1>1, PlanAssumption DEF Agrees, IterationsOf, Protocol!OpenIterations
  <2> QED
    BY <1>1, <2>1, <2>2 DEF Protocol!Legal, Agrees, Unfinished
<1>7. Agrees(m, tk2, it, counts, ph) /\ Unfinished(m)
  <2>1. Protocol!StartedTasks(m) = {u \in Tasks : tk2[u].started}
    <3>1. Protocol!StartedTasks(m) = Protocol!StartedTasks(l) \cup {t}
      BY <1>1, <1>5 DEF Protocol!StartedTasks
    <3> QED
      BY <1>2, <3>1 DEF Agrees
  <2>2. Protocol!CompletedTasks(m) = {u \in Tasks : tk2[u].completed}
    BY <1>2, <1>5 DEF Agrees, Protocol!CompletedTasks
  <2> QED
    BY <1>4, <1>5, <2>1, <2>2, SameGroups DEF Agrees, IterationsOf, Unfinished
<1> QED
  BY <1>6, <1>7 DEF Tells, m, r, e, tk2

LEMMA TellsIterationStart ==
  ASSUME NEW l \in Seq(P!Events), NEW n \in Nat, NEW tk \in TaskStates,
         NEW it \in [Iterations -> IterationStates], NEW counts \in ResultCounts,
         NEW ph \in RunPhases, NEW i \in Iterations,
         Agrees(l, tk, it, counts, ph), Unfinished(l), ~it[i].started
  PROVE  Tells(l, Event(n, FALSE, [type |-> "iteration_started", iteration |-> i]),
               tk, [it EXCEPT ![i].started = TRUE], counts, ph)
<1> DEFINE e == [type |-> "iteration_started", iteration |-> i]
           r == Event(n, FALSE, e)
           m == Append(l, r)
           it2 == [it EXCEPT ![i].started = TRUE]
<1>1. /\ r \in P!Events /\ r.payload = e /\ ~r.lastEvent
      /\ e.type = "iteration_started" /\ e.iteration = i
  BY DEF Event, P!Events, ValidPayloads, IterationStartedPayloads
<1>2. \A j \in Iterations : /\ it2[j].started <=> (it[j].started \/ j = i)
                            /\ it2[j].completed = it[j].completed /\ it2[j].result = it[j].result
  BY DEF IterationStates
<1> HIDE DEF e, r, it2
<1>3. \A type : Protocol!Of(m, type) = IF e.type = type THEN Protocol!Of(l, type) \cup {e}
                                                 ELSE Protocol!Of(l, type)
  BY <1>1, OfAppend
<1>4. m # <<>>
  BY <1>1, OfAppend
<1> HIDE DEF m
<1>5. /\ Protocol!Of(m, "case_completed") = Protocol!Of(l, "case_completed")
      /\ Protocol!Of(m, "case_started") = Protocol!Of(l, "case_started")
      /\ Protocol!Of(m, "iteration_started") = Protocol!Of(l, "iteration_started") \cup {e}
      /\ Protocol!Of(m, "iteration_completed") = Protocol!Of(l, "iteration_completed")
      /\ Protocol!Of(m, "run_progress") = Protocol!Of(l, "run_progress")
      /\ Protocol!Of(m, "run_finished") = Protocol!Of(l, "run_finished")
  BY <1>1, <1>3
<1>6. Protocol!Legal(l, r)
  <2>1. Protocol!Of(l, "iteration_started") \cap {e} = {}
    BY <1>1 DEF Agrees, IterationsOf
  <2> QED
    BY <1>1, <2>1 DEF Protocol!Legal, Agrees, Unfinished
<1>7. Agrees(m, tk, it2, counts, ph) /\ Unfinished(m)
  <2>1. IterationsOf(m, "iteration_started") = {j \in Iterations : it2[j].started}
    <3>1. IterationsOf(m, "iteration_started") = IterationsOf(l, "iteration_started") \cup {i}
      BY <1>1, <1>5 DEF IterationsOf
    <3> QED
      BY <1>2, <3>1 DEF Agrees
  <2>2. IterationsOf(m, "iteration_completed") = {j \in Iterations : it2[j].completed}
    BY <1>2, <1>5 DEF Agrees, IterationsOf
  <2>3. \A j \in Iterations : Protocol!Groups(it2[j].result, m, TasksOf(j))
    BY <1>2, <1>5, SameGroups DEF Agrees
  <2> QED
    BY <1>4, <1>5, <2>1, <2>2, <2>3, SameGroups DEF Agrees, Unfinished, Protocol!StartedTasks
<1> QED
  BY <1>6, <1>7 DEF Tells, m, r, e, it2

LEMMA TellsCaseEnd ==
  ASSUME NEW l \in Seq(P!Events), NEW n \in Nat, NEW tk \in TaskStates,
         NEW it \in [Iterations -> IterationStates], NEW counts \in ResultCounts,
         NEW ph \in RunPhases, NEW t \in Tasks, NEW status \in CaseStatuses, NEW done \in Nat,
         NEW it2, \A i \in Iterations :
           /\ it2[i].started = it[i].started /\ it2[i].completed = it[i].completed
           /\ it2[i].result = IF i = IterationOf[t] THEN addStatus(it[i].result, status)
                                                   ELSE it[i].result,
         Agrees(l, tk, it, counts, ph), Unfinished(l),
         tk[t].started, ~tk[t].completed,
         it[IterationOf[t]].started, ~it[IterationOf[t]].completed,
         done = Cardinality({u \in Tasks : tk[u].completed}) + 1,
         [type |-> "case_completed", task |-> t, completed |-> done, status |-> status]
           \in ValidPayloads
  PROVE  Tells(l, Event(n, FALSE, [type |-> "case_completed", task |-> t, completed |-> done,
                                   status |-> status]),
               [tk EXCEPT ![t].completed = TRUE], it2, addStatus(counts, status), ph)
<1> DEFINE e == [type |-> "case_completed", task |-> t, completed |-> done, status |-> status]
           r == Event(n, FALSE, e)
           m == Append(l, r)
           tk2 == [tk EXCEPT ![t].completed = TRUE]
           C == Protocol!Of(l, "case_completed")
<1>1. /\ r \in P!Events /\ r.payload = e /\ ~r.lastEvent
      /\ e.type = "case_completed" /\ e.task = t /\ e.completed = done /\ e.status = status
  BY DEF Event, P!Events
<1>2. \A u \in Tasks : /\ tk2[u].completed <=> (tk[u].completed \/ u = t)
                       /\ tk2[u].started = tk[u].started
  BY DEF TaskStates
<1> HIDE DEF e, r, tk2
<1>3. \A type : Protocol!Of(m, type) = IF e.type = type THEN Protocol!Of(l, type) \cup {e}
                                                      ELSE Protocol!Of(l, type)
  BY <1>1, OfAppend
<1>4. m # <<>>
  BY <1>1, OfAppend
<1> HIDE DEF m
<1>5. /\ Protocol!Of(m, "case_completed") = C \cup {e}
      /\ Protocol!Of(m, "case_started") = Protocol!Of(l, "case_started")
      /\ Protocol!Of(m, "iteration_started") = Protocol!Of(l, "iteration_started")
      /\ Protocol!Of(m, "iteration_completed") = Protocol!Of(l, "iteration_completed")
      /\ Protocol!Of(m, "run_progress") = Protocol!Of(l, "run_progress")
      /\ Protocol!Of(m, "run_finished") = Protocol!Of(l, "run_finished")
  BY <1>1, <1>3
<1>6. Protocol!Legal(l, r)
  <2>1. e.task \in Protocol!StartedTasks(l) \ Protocol!CompletedTasks(l)
    BY <1>1 DEF Agrees
  <2>2. IterationOf[e.task] \in Protocol!OpenIterations(l)
    BY <1>1, PlanAssumption DEF Agrees, IterationsOf, Protocol!OpenIterations
  <2>3. e.completed = Protocol!Cardinality(Protocol!CompletedTasks(l)) + 1
    BY <1>1, SameCardinality DEF Agrees
  <2>4. Protocol!LegalCaseEnd(l, e)
    BY <2>1, <2>2, <2>3 DEF Protocol!LegalCaseEnd
  <2> QED
    BY <1>1, <2>4 DEF Protocol!Legal, Agrees, Unfinished
<1>7. Protocol!CompletedTasks(m) = Protocol!CompletedTasks(l) \cup {t}
  BY <1>1, <1>5 DEF Protocol!CompletedTasks
<1>8. IsFiniteSet(C) /\ (\A c \in C : c.task # e.task /\ c.task \in Protocol!CompletedTasks(l))
  <2>1. \A c \in C : c.task \in Protocol!CompletedTasks(l)
    BY DEF Protocol!CompletedTasks
  <2>2. t \notin Protocol!CompletedTasks(l)
    BY DEF Agrees
  <2> QED
    BY <1>1, <2>1, <2>2 DEF Agrees
<1>9. Protocol!Groups(addStatus(counts, status), m, Protocol!CompletedTasks(m))
  <2>1. \A c \in C : c.task \in Protocol!CompletedTasks(l) <=> c.task \in Protocol!CompletedTasks(m)
    BY <1>7, <1>8
  <2>2. e.task \in Protocol!CompletedTasks(m)
    BY <1>1, <1>7
  <2>3. Protocol!Groups(counts, l, Protocol!CompletedTasks(l))
    BY DEF Agrees
  <2>4. Protocol!Groups(addStatus(counts, e.status), m, Protocol!CompletedTasks(m))
    BY <1>1, <1>5, <1>8, <2>1, <2>2, <2>3, OneMoreGroup
  <2> QED
    BY <1>1, <2>4
<1>10. ASSUME NEW i \in Iterations PROVE Protocol!Groups(it2[i].result, m, TasksOf(i))
  <2>1. it[i].result \in ResultCounts /\ Protocol!Groups(it[i].result, l, TasksOf(i))
    BY DEF IterationStates, Agrees
  <2>2. /\ e.task \in TasksOf(i)
             => Protocol!Groups(addStatus(it[i].result, e.status), m, TasksOf(i))
        /\ e.task \notin TasksOf(i) => Protocol!Groups(it[i].result, m, TasksOf(i))
    BY <1>1, <1>5, <1>8, <2>1, OneMoreGroup
  <2>3. e.task \in TasksOf(i) <=> i = IterationOf[t]
    BY <1>1 DEF TasksOf
  <2> QED
    BY <1>1, <2>2, <2>3
<1>11. Agrees(m, tk2, it2, addStatus(counts, status), ph) /\ Unfinished(m)
  <2>1. Protocol!StartedTasks(m) = {u \in Tasks : tk2[u].started}
    BY <1>2, <1>5 DEF Agrees, Protocol!StartedTasks
  <2>2. Protocol!CompletedTasks(m) = {u \in Tasks : tk2[u].completed}
    BY <1>2, <1>7 DEF Agrees
  <2>3. IsFiniteSet(Protocol!Of(m, "case_completed"))
    BY <1>5, <1>8, FS_AddElement
  <2>4. /\ IterationsOf(m, "iteration_started") = {i \in Iterations : it2[i].started}
        /\ IterationsOf(m, "iteration_completed") = {i \in Iterations : it2[i].completed}
    BY <1>5 DEF Agrees, IterationsOf
  <2> QED
    BY <1>4, <1>5, <1>9, <1>10, <2>1, <2>2, <2>3, <2>4 DEF Agrees, Unfinished
<1> QED
  BY <1>6, <1>11 DEF Tells, m, r, e, tk2

LEMMA TellsIterationEnd ==
  ASSUME NEW l \in Seq(P!Events), NEW n \in Nat, NEW tk \in TaskStates,
         NEW it \in [Iterations -> IterationStates], NEW counts \in ResultCounts,
         NEW ph \in RunPhases, NEW i \in Iterations, NEW done \in Nat,
         Agrees(l, tk, it, counts, ph), Unfinished(l), it[i].started, ~it[i].completed,
         \A t \in TasksOf(i) : tk[t].completed
  PROVE  Tells(l, Event(n, FALSE, [type |-> "iteration_completed", iteration |-> i,
                                   completed |-> done, counts |-> it[i].result]),
               tk, [it EXCEPT ![i].completed = TRUE], counts, ph)
<1> DEFINE e == [type |-> "iteration_completed", iteration |-> i, completed |-> done,
                 counts |-> it[i].result]
           r == Event(n, FALSE, e)
           m == Append(l, r)
           it2 == [it EXCEPT ![i].completed = TRUE]
<1>1. /\ r \in P!Events /\ r.payload = e /\ ~r.lastEvent
      /\ e.type = "iteration_completed" /\ e.iteration = i /\ e.counts = it[i].result
  <2>1. e \in IterationCompletedPayloads
    BY DEF IterationCompletedPayloads, IterationStates
  <2> QED
    BY <2>1 DEF Event, P!Events, ValidPayloads
<1>2. \A j \in Iterations : /\ it2[j].completed <=> (it[j].completed \/ j = i)
                            /\ it2[j].started = it[j].started /\ it2[j].result = it[j].result
  BY DEF IterationStates
<1> HIDE DEF e, r, it2
<1>3. \A type : Protocol!Of(m, type) = IF e.type = type THEN Protocol!Of(l, type) \cup {e}
                                                      ELSE Protocol!Of(l, type)
  BY <1>1, OfAppend
<1>4. m # <<>>
  BY <1>1, OfAppend
<1> HIDE DEF m
<1>5. /\ Protocol!Of(m, "case_completed") = Protocol!Of(l, "case_completed")
      /\ Protocol!Of(m, "case_started") = Protocol!Of(l, "case_started")
      /\ Protocol!Of(m, "iteration_started") = Protocol!Of(l, "iteration_started")
      /\ Protocol!Of(m, "iteration_completed") = Protocol!Of(l, "iteration_completed") \cup {e}
      /\ Protocol!Of(m, "run_progress") = Protocol!Of(l, "run_progress")
      /\ Protocol!Of(m, "run_finished") = Protocol!Of(l, "run_finished")
  BY <1>1, <1>3
<1>6. Protocol!Legal(l, r)
  <2>1. e.iteration \in Protocol!OpenIterations(l)
    BY <1>1 DEF Agrees, IterationsOf, Protocol!OpenIterations
  <2>2. Protocol!TasksOf(e.iteration) \subseteq Protocol!CompletedTasks(l)
    BY <1>1 DEF Agrees, Protocol!TasksOf, TasksOf
  <2>3. Protocol!Groups(e.counts, l, Protocol!TasksOf(e.iteration))
    BY <1>1 DEF Agrees, Protocol!TasksOf, TasksOf
  <2>4. Protocol!LegalIterationEnd(l, e)
    BY <2>1, <2>2, <2>3 DEF Protocol!LegalIterationEnd
  <2> QED
    BY <1>1, <2>4 DEF Protocol!Legal, Agrees, Unfinished
<1>7. Agrees(m, tk, it2, counts, ph) /\ Unfinished(m)
  <2>1. IterationsOf(m, "iteration_completed") = {j \in Iterations : it2[j].completed}
    <3>1. IterationsOf(m, "iteration_completed") = IterationsOf(l, "iteration_completed") \cup {i}
      BY <1>1, <1>5 DEF IterationsOf
    <3> QED
      BY <1>2, <3>1 DEF Agrees
  <2>2. IterationsOf(m, "iteration_started") = {j \in Iterations : it2[j].started}
    BY <1>2, <1>5 DEF Agrees, IterationsOf
  <2>3. \A j \in Iterations : Protocol!Groups(it2[j].result, m, TasksOf(j))
    BY <1>2, <1>5, SameGroups DEF Agrees
  <2> QED
    BY <1>4, <1>5, <2>1, <2>2, <2>3, SameGroups DEF Agrees, Unfinished, Protocol!StartedTasks
<1> QED
  BY <1>6, <1>7 DEF Tells, m, r, e, it2

(* The final record: everything but that it is the last stays as it was.   *)
LEMMA TellsRunEnd ==
  ASSUME NEW l \in Seq(P!Events), NEW n \in Nat, NEW tk \in TaskStates,
         NEW it \in [Iterations -> IterationStates], NEW counts \in ResultCounts,
         NEW done \in Nat, NEW status \in RunStatuses,
         l[Len(l)].payload.type = "run_progress", l[Len(l)].payload.phase = "finalizing",
         Agrees(l, tk, it, counts, "finalizing"), Unfinished(l),
         done = Cardinality({t \in Tasks : tk[t].completed}), done = Total(counts),
         status = "COMPLETED" =>
           /\ \A t \in Tasks : tk[t].completed
           /\ \A i \in Iterations : it[i].completed
  PROVE  LET r == Event(n, TRUE, [type |-> "run_finished", status |-> status,
                                  completed |-> done, counts |-> counts])
         IN  /\ Protocol!Legal(l, r)
             /\ Agrees(Append(l, r), tk, it, counts, "finalizing")
<1> DEFINE e == [type |-> "run_finished", status |-> status, completed |-> done, counts |-> counts]
           r == Event(n, TRUE, e)
           m == Append(l, r)
<1>1. /\ r \in P!Events /\ r.payload = e /\ r.lastEvent /\ e.type = "run_finished"
      /\ e.completed = done /\ e.counts = counts /\ e.status = status
  <2>1. e \in ValidPayloads
    BY DEF RunFinishedPayloads, ValidPayloads
  <2> QED
    BY <2>1 DEF Event, P!Events
<1> HIDE DEF e, r
<1>2. \A type : Protocol!Of(m, type) = IF e.type = type THEN Protocol!Of(l, type) \cup {e}
                                                      ELSE Protocol!Of(l, type)
  BY <1>1, OfAppend
<1>3. m # <<>>
  BY <1>1, OfAppend
<1> HIDE DEF m
<1>4. /\ Protocol!Of(m, "case_completed") = Protocol!Of(l, "case_completed")
      /\ Protocol!Of(m, "case_started") = Protocol!Of(l, "case_started")
      /\ Protocol!Of(m, "iteration_started") = Protocol!Of(l, "iteration_started")
      /\ Protocol!Of(m, "iteration_completed") = Protocol!Of(l, "iteration_completed")
      /\ Protocol!Of(m, "run_progress") = Protocol!Of(l, "run_progress")
  BY <1>1, <1>2
<1>5. Protocol!LegalRunEnd(l, e)
  <2>1. e.completed = Protocol!Cardinality(Protocol!CompletedTasks(l))
    BY <1>1, SameCardinality DEF Agrees
  <2>2. Protocol!Groups(e.counts, l, Protocol!CompletedTasks(l))
    BY <1>1 DEF Agrees
  <2>3. e.status = "COMPLETED" => /\ Protocol!CompletedTasks(l) = Tasks
                                  /\ Iterations = IterationsOf(l, "iteration_completed")
    BY <1>1 DEF Agrees
  <2> QED
    BY <2>1, <2>2, <2>3 DEF Protocol!LegalRunEnd, IterationsOf
<1>6. Protocol!Legal(l, r)
  BY <1>1, <1>5 DEF Protocol!Legal, Agrees, Unfinished
<1>7. Agrees(m, tk, it, counts, "finalizing")
  BY <1>3, <1>4, SameGroups DEF Agrees, IterationsOf, Protocol!StartedTasks
<1> QED
  BY <1>6, <1>7 DEF m, r, e
-----------------------------------------------------------------------------
(* What one step of the emitter does to its log.                           *)
Grown(l, m) ==
  \/ m = l
  \/ \E r \in P!Events : m = Append(l, r) /\ Protocol!Legal(l, r)
  \/ \E r1, r2 \in P!Events : /\ m = Append(Append(l, r1), r2)
                              /\ Protocol!Legal(l, r1) /\ Protocol!Legal(Append(l, r1), r2)

Kept == RoomInv' /\ StoryInv' /\ Grown(pub.log, pub'.log)

(* A call the emitter accepts fails only with the sink.                    *)
Answered(ok) == Healthy(pub) /\ ~Reject(ok) /\ ok = FALSE => "publish" \in pub'.err

RoomFor(n) == /\ Budget \in Int /\ Budget' \in Int
              /\ Budget + n <= Budget' /\ Budget' <= MaxSafeInteger

(* Once over, a publisher adds nothing to its log and stays over.          *)
LEMMA KeptOnceOver ==
  ASSUME ~Healthy(pub'), pub'.log = pub.log
  PROVE  Kept
BY DEF Kept, RoomInv, StoryInv, Grown

(* A step that publishes nothing and counts nothing.                       *)
LEMMA KeptSilently ==
  ASSUME RoomInv, StoryInv, pub' = pub, RoomFor(0), pub \in PubState,
         UNCHANGED <<started, finished, phase, task, iteration, resultCounts>>
  PROVE  Kept
<1>1. Len(pub.log) \in Nat
  BY DEF PubState, PP!PublisherState
<1>2. RoomInv'
  BY <1>1 DEF RoomInv, RoomFor
<1>3. StoryInv'
  BY DEF StoryInv
<1> QED
  BY <1>2, <1>3 DEF Kept, Grown

LEMMA RecordType ==
  ASSUME pub \in PubState, NEW payload \in ValidPayloads, NEW last \in BOOLEAN
  PROVE  /\ Record(pub, payload, last) \in P!Events /\ Second(pub, payload, last) \in P!Events
         /\ Record(pub, payload, last).lastEvent = last
         /\ Second(pub, payload, last).lastEvent = last
BY DEF Record, Second, Event, P!Events, PubState, PP!PublisherState

LEMMA OneRecord ==
  ASSUME pub \in PubState, Healthy(pub), ~pub.finalized, RoomInv, RoomFor(1),
         NEW payload \in ValidPayloads, NEW ok \in BOOLEAN, Emit(payload, ok), started', ~finished',
         Tells(pub.log, Record(pub, payload, FALSE), task', iteration', resultCounts', phase')
  PROVE  Kept /\ (ok = FALSE => "publish" \in pub'.err)
<1> DEFINE r == Record(pub, payload, FALSE)
<1>1. Fate(pub, pub', r, ok)
  <2>1. pub.nextSequence <= MaxSafeInteger
    BY PlanAssumption DEF RoomInv, RoomFor, PubState, PP!PublisherState
  <2> QED
    BY <2>1, EmitFate
<1>2. /\ r \in P!Events /\ r.lastEvent = FALSE /\ pub.log \in Seq(P!Events)
      /\ Len(Append(pub.log, r)) = Len(pub.log) + 1 /\ Len(pub.log) \in Nat
      /\ pub.nextSequence = Len(pub.log) + 1 /\ Len(pub.log) <= Budget
  <2>1. pub.log \in Seq(P!Events) /\ Len(pub.log) \in Nat
    BY DEF PubState, PP!PublisherState, PP!Events, P!Events
  <2>2. r \in P!Events /\ r.lastEvent = FALSE
    BY RecordType
  <2> QED
    BY <2>1, <2>2, OfAppend DEF RoomInv
<1>3. Protocol!Legal(pub.log, r)
  BY DEF Tells
<1>4. Grown(pub.log, pub'.log)
  BY <1>1, <1>2, <1>3 DEF Fate, Delivered, Grown
<1>5. Healthy(pub') => /\ pub'.log = Append(pub.log, r) /\ ~pub'.finalized
                       /\ pub'.nextSequence = pub.nextSequence + 1
  BY <1>1, <1>2 DEF Fate, Delivered, Healthy
<1>6. RoomInv'
  BY <1>2, <1>5 DEF RoomInv, RoomFor
<1>7. StoryInv'
  BY <1>5 DEF StoryInv, Tells
<1>8. ok = FALSE => "publish" \in pub'.err
  BY <1>1 DEF Fate
<1> QED
  BY <1>4, <1>6, <1>7, <1>8 DEF Kept

(* Two records of one handler; the story they tell is the caller's.        *)
LEMMA TwoFates ==
  ASSUME pub \in PubState, Healthy(pub), RoomInv, RoomFor(2),
         NEW r1 \in P!Events, NEW r2 \in P!Events, NEW ok, BothFate(pub, pub', r1, r2, ok),
         Protocol!Legal(pub.log, r1), Protocol!Legal(Append(pub.log, r1), r2)
  PROVE  /\ RoomInv' /\ Grown(pub.log, pub'.log)
         /\ Healthy(pub') => /\ pub'.log = Append(Append(pub.log, r1), r2)
                             /\ pub'.finalized = r2.lastEvent
<1>1. /\ Len(Append(Append(pub.log, r1), r2)) = Len(pub.log) + 2 /\ Len(pub.log) \in Nat
      /\ pub.nextSequence = Len(pub.log) + 1 /\ Len(pub.log) <= Budget
  <2>1. pub.log \in Seq(P!Events) /\ Len(pub.log) \in Nat
    BY DEF PubState, PP!PublisherState, PP!Events, P!Events
  <2>2. /\ Append(pub.log, r1) \in Seq(P!Events) /\ Len(Append(pub.log, r1)) = Len(pub.log) + 1
    BY <2>1, OfAppend
  <2>3. Len(Append(Append(pub.log, r1), r2)) = Len(Append(pub.log, r1)) + 1
    BY <2>2, OfAppend
  <2> QED
    BY <2>1, <2>2, <2>3 DEF RoomInv
<1>2. Healthy(pub') => /\ pub'.log = Append(Append(pub.log, r1), r2)
                       /\ pub'.nextSequence = pub.nextSequence + 2
                       /\ pub'.finalized = r2.lastEvent
  BY DEF BothFate, Delivered, Healthy
<1>3. Grown(pub.log, pub'.log)
  BY DEF BothFate, Delivered, Grown
<1>4. RoomInv'
  BY <1>1, <1>2 DEF RoomInv, RoomFor
<1> QED
  BY <1>2, <1>3, <1>4

LEMMA TwoRecords ==
  ASSUME pub \in PubState, Healthy(pub), ~pub.finalized, RoomInv, RoomFor(2),
         NEW payload \in ValidPayloads, NEW progress \in ValidPayloads, NEW ok \in BOOLEAN,
         EmitBoth(payload, progress, ok), started', ~finished',
         Protocol!Legal(pub.log, Record(pub, payload, FALSE)),
         Tells(Append(pub.log, Record(pub, payload, FALSE)), Second(pub, progress, FALSE),
               task', iteration', resultCounts', phase')
  PROVE  Kept /\ (ok = FALSE => "publish" \in pub'.err)
<1> DEFINE r1 == Record(pub, payload, FALSE)
           r2 == Second(pub, progress, FALSE)
<1>1. BothFate(pub, pub', r1, r2, ok)
  <2>1. pub.nextSequence + 1 <= MaxSafeInteger
    BY PlanAssumption DEF RoomInv, RoomFor, PubState, PP!PublisherState
  <2> QED
    BY <2>1, EmitBothFate
<1>2. r1 \in P!Events /\ r2 \in P!Events /\ r2.lastEvent = FALSE
  BY RecordType
<1>3. Protocol!Legal(Append(pub.log, r1), r2)
  BY DEF Tells
<1> HIDE DEF r1, r2
<1>4. /\ RoomInv' /\ Grown(pub.log, pub'.log)
      /\ Healthy(pub') => pub'.log = Append(Append(pub.log, r1), r2) /\ pub'.finalized = FALSE
  BY <1>1, <1>2, <1>3, TwoFates DEF r1
<1>5. StoryInv'
  BY <1>4 DEF StoryInv, Tells, r1, r2
<1>6. ok = FALSE => "publish" \in pub'.err
  BY <1>1 DEF BothFate
<1> QED
  BY <1>4, <1>5, <1>6 DEF Kept
-----------------------------------------------------------------------------
(* How many records a run can have.                                        *)
LEMMA BudgetParts ==
  TypeOK => /\ Cardinality(StartedOf(Tasks)) \in 0..TaskTotal
            /\ Cardinality(CompletedOf(Tasks)) \in 0..TaskTotal
            /\ Cardinality(Opened) \in 0..Cardinality(Iterations)
            /\ Cardinality(Ended) \in 0..Cardinality(Iterations)
            /\ RunRecords \in 0..5
            /\ Beats \in Int /\ Beats <= MaxTicks
            /\ TaskTotal \in Nat /\ Cardinality(Iterations) \in Nat
<1> SUFFICES ASSUME TypeOK
             PROVE  /\ Cardinality(StartedOf(Tasks)) \in 0..TaskTotal
                    /\ Cardinality(CompletedOf(Tasks)) \in 0..TaskTotal
                    /\ Cardinality(Opened) \in 0..Cardinality(Iterations)
                    /\ Cardinality(Ended) \in 0..Cardinality(Iterations)
                    /\ RunRecords \in 0..5
                    /\ Beats \in Int /\ Beats <= MaxTicks
                    /\ TaskTotal \in Nat /\ Cardinality(Iterations) \in Nat
  OBVIOUS
<1>1. ASSUME NEW S, IsFiniteSet(S), NEW T \in SUBSET S
      PROVE  Cardinality(T) \in 0..Cardinality(S) /\ Cardinality(S) \in Nat
  BY <1>1, FS_Subset, FS_CardinalityType
<1>2. StartedOf(Tasks) \in SUBSET Tasks /\ CompletedOf(Tasks) \in SUBSET Tasks
  BY DEF StartedOf, CompletedOf
<1>3. Opened \in SUBSET Iterations /\ Ended \in SUBSET Iterations
  BY DEF Opened, Ended
<1>4. RunRecords \in 0..5
  BY DEF RunRecords, One
<1>5. Beats \in Int /\ Beats <= MaxTicks
  BY PlanAssumption DEF Beats, One, TypeOK
<1> QED
  BY <1>1, <1>2, <1>3, <1>4, <1>5, PlanAssumption DEF TaskTotal

LEMMA BudgetPartsNext == (TypeOK => Cardinality(CompletedOf(Tasks)) \in 0..TaskTotal)'
<1>1. TypeOK => Cardinality(CompletedOf(Tasks)) \in 0..TaskTotal
  BY BudgetParts
<1> QED
  BY <1>1, PTL

LEMMA BudgetBound ==
  ASSUME Room, TypeOK
  PROVE  Budget \in Int /\ Budget <= MaxSafeInteger
<1> DEFINE a == Cardinality(StartedOf(Tasks))
           b == Cardinality(CompletedOf(Tasks))
           c == Cardinality(Opened)
           d == Cardinality(Ended)
           e == Cardinality(Iterations)
<1>1. /\ a \in 0..TaskTotal /\ b \in 0..TaskTotal /\ c \in 0..e /\ d \in 0..e
      /\ RunRecords \in 0..5 /\ Beats \in Int /\ Beats <= MaxTicks
      /\ TaskTotal \in Nat /\ e \in Nat
  BY BudgetParts
<1>2. Budget = RunRecords + (2 * a + 2 * b) + (c + d) + Beats
  BY DEF Budget, TaskRecords, IterationRecords
<1>3. 5 + 4 * TaskTotal + 2 * e + MaxTicks <= MaxSafeInteger
  BY DEF Room, MaxRecords
<1> HIDE DEF a, b, c, d, e
<1> QED
  BY <1>1, <1>2, <1>3, PlanAssumption

LEMMA BudgetBoundNext == (Room /\ TypeOK => Budget \in Int /\ Budget <= MaxSafeInteger)'
<1>1. Room /\ TypeOK => Budget \in Int /\ Budget <= MaxSafeInteger
  BY BudgetBound
<1> QED
  BY <1>1, PTL

(* Each kind of record has its own allowance.                              *)
LEMMA RoomGrows ==
  ASSUME Room, TypeOK, TypeOK', NEW r \in Nat, NEW t \in Nat, NEW i \in Nat, NEW b \in Nat,
         NEW n, n = r + t + i + b,
         RunRecords' = RunRecords + r, TaskRecords' = TaskRecords + t,
         IterationRecords' = IterationRecords + i, Beats' = Beats + b
  PROVE  RoomFor(n)
<1>1. /\ Budget \in Int /\ Budget <= MaxSafeInteger
      /\ Budget' \in Int /\ Budget' <= MaxSafeInteger
  BY BudgetBound, BudgetBoundNext DEF Room, MaxRecords
<1>2. RunRecords \in Int /\ TaskRecords \in Int /\ IterationRecords \in Int /\ Beats \in Int
  BY BudgetParts DEF TaskRecords, IterationRecords
<1>3. Budget' = Budget + n
  BY <1>2 DEF Budget
<1> QED
  BY <1>1, <1>3 DEF RoomFor

LEMMA OneMore ==
  ASSUME NEW S, IsFiniteSet(S), NEW T \in SUBSET S, NEW x \in S, x \notin T
  PROVE  Cardinality(T \cup {x}) = Cardinality(T) + 1 /\ Cardinality(T) \in Nat
<1>1. IsFiniteSet(T)
  BY FS_Subset
<1> QED
  BY <1>1, FS_AddElement, FS_CardinalityType

-----------------------------------------------------------------------------
(* Before Start nothing happens.                                           *)
LEMMA FreshStep ==
  ASSUME Fresh, IInv, [Next]_lifecycleVars
  PROVE  Fresh'
<1>1. ASSUME UNCHANGED stateVars PROVE Fresh'
  BY <1>1 DEF Fresh, stateVars
<1>2. ASSUME started' PROVE Fresh'
  BY <1>2 DEF Fresh
<1>3. ASSUME ~started, Next PROVE started' \/ UNCHANGED stateVars
  <2>1. ~Active /\ ~Executing /\ \A ok : Reject(ok) => UNCHANGED stateVars
    BY <1>3 DEF Active, Executing, Reject, lifecycleVars
  <2>2. ASSUME NEW ok, Start(ok) PROVE started'
    BY <1>3, <2>2 DEF Start
  <2>3. ASSUME NEW ok,
               \/ \E ph \in RunPhases : SetPhase(ph, ok)
               \/ \E i \in Iterations : IterationStarted(i, ok) \/ IterationCompleted(i, ok)
               \/ \E t \in Tasks : \/ CaseStarted(t, ok)
                                   \/ \E s \in Outcomes : CaseCompleted(t, s, ok)
        PROVE  UNCHANGED stateVars
    BY <2>1, <2>3 DEF SetPhase, IterationStarted, IterationCompleted, CaseStarted,
                      CaseCompleted, MayEnter, MayStart, MayComplete, MayEnd
  <2>4. ASSUME NEW ok, FinishCommit(ok) \/ ClosePublisher(ok) PROVE UNCHANGED stateVars
    BY <2>1, <2>4 DEF FinishCommit, ClosePublisher
  <2>5. CASE HeartbeatStep
    BY <2>5 DEF HeartbeatStep, HeartbeatSeesStop, HeartbeatTick, Heartbeat
  <2> QED
    BY <1>3, <2>2, <2>3, <2>4, <2>5 DEF Next
<1>4. CASE started
  <2>1. ASSUME Next PROVE started'
    BY <1>4, <2>1 DEF Next, Start, SetPhase, IterationStarted, IterationCompleted, CaseStarted,
       CaseCompleted, FinishCommit, ClosePublisher, FinishCall, HeartbeatStep,
       HeartbeatSeesStop, HeartbeatTick, Heartbeat, Reject, lifecycleVars, stateVars
  <2> QED
    BY <1>1, <1>2, <2>1 DEF lifecycleVars
<1> QED
  BY <1>1, <1>2, <1>3, <1>4 DEF lifecycleVars

(* The snapshot of any state a handler reaches is legal there.             *)
LEMMA SnapshotValid == IInv /\ started => CurrentProgress \in ValidPayloads
BY SnapshotOfInv DEF SnapshotsAreValid

LEMMA SnapshotValidNext == (IInv /\ started => CurrentProgress \in ValidPayloads)'
BY SnapshotValid, PTL

LEMMA TellsSnapshot ==
  ASSUME IInv', started', NEW l \in Seq(P!Events), NEW n \in Nat,
         Agrees(l, task', iteration', resultCounts', phase'), Unfinished(l)
  PROVE  Tells(l, Event(n, FALSE, CurrentProgress'), task', iteration', resultCounts', phase')
<1>1. /\ task' \in TaskStates /\ iteration' \in [Iterations -> IterationStates]
      /\ resultCounts' \in ResultCounts /\ phase' \in RunPhases
  BY DEF IInv, TypeOK, PhaseAgrees, TaskStates
<1>2. completed' = Cardinality({t \in Tasks : task'[t].completed})
  BY DEF IInv, CountersAgree, CompletedOf
<1>3. activeTaskIDs' = IF phase' = "finalizing" THEN {}
                       ELSE {t \in Tasks : task'[t].started /\ ~task'[t].completed}
  BY DEF IInv, RunningAgrees, PhaseAgrees
<1>4. CurrentProgress' = Progress(phase', completed', activeTaskIDs', resultCounts')
  BY DEF CurrentProgress, Progress
<1>5. Progress(phase', completed', activeTaskIDs', resultCounts') \in ValidPayloads
  BY <1>4, SnapshotValidNext
<1> QED
  BY <1>1, <1>2, <1>3, <1>4, <1>5, TellsProgress
-----------------------------------------------------------------------------
(* Handler by handler.  Known is what each step may rely on.               *)
Known == Room /\ IInv /\ IInv' /\ RoomInv /\ Fresh /\ StoryInv

LEMMA KnownParts ==
  ASSUME Known
  PROVE  /\ Room /\ IInv /\ IInv' /\ RoomInv /\ Fresh /\ StoryInv
         /\ TypeOK /\ TypeOK' /\ pub \in PubState
         /\ pub.log \in Seq(P!Events) /\ pub.nextSequence \in Nat
         /\ task \in TaskStates /\ iteration \in [Iterations -> IterationStates]
         /\ resultCounts \in ResultCounts
         /\ started => phase \in RunPhases
         /\ RunRecords \in Int /\ TaskRecords \in Int /\ IterationRecords \in Int /\ Beats \in Int
<1>1. /\ Room /\ IInv /\ IInv' /\ RoomInv /\ Fresh /\ StoryInv /\ TypeOK /\ TypeOK'
  BY DEF Known, IInv
<1>2. pub \in PubState
  BY <1>1, TypeOKParts DEF IOTypeOK
<1>3. pub.log \in Seq(P!Events) /\ pub.nextSequence \in Nat
  BY <1>2 DEF PubState, PP!PublisherState, PP!Events, P!Events
<1>4. /\ task \in TaskStates /\ iteration \in [Iterations -> IterationStates]
      /\ resultCounts \in ResultCounts
      /\ started => phase \in RunPhases
  BY <1>1 DEF TypeOK, TaskStates, IInv, PhaseAgrees
<1>5. RunRecords \in Int /\ TaskRecords \in Int /\ IterationRecords \in Int /\ Beats \in Int
  BY <1>1, BudgetParts DEF TaskRecords, IterationRecords
<1> QED
  BY <1>1, <1>2, <1>3, <1>4, <1>5

LEMMA SilentKept ==
  ASSUME Known, UNCHANGED <<pub, started, finished, phase, task, iteration, resultCounts>>,
         NEW b \in Nat, Beats' = Beats + b
  PROVE  Kept
<1>1. RunRecords' = RunRecords /\ TaskRecords' = TaskRecords /\ IterationRecords' = IterationRecords
  BY DEF RunRecords, TaskRecords, IterationRecords, StartedOf, CompletedOf, Opened, Ended
<1>2. /\ RunRecords' = RunRecords + 0 /\ TaskRecords' = TaskRecords + 0
      /\ IterationRecords' = IterationRecords + 0
  BY <1>1, KnownParts
<1>3. RoomFor(b)
  BY <1>2, KnownParts, RoomGrows
<1>4. RoomFor(0)
  BY <1>3 DEF RoomFor
<1> QED
  BY <1>4, KnownParts, KeptSilently

LEMMA StutterKept ==
  ASSUME Known, UNCHANGED lifecycleVars
  PROVE  Kept
<1>1. Beats' = Beats + 0
  BY KnownParts DEF Beats, One, lifecycleVars, heartbeatVars
<1> QED
  BY <1>1, SilentKept DEF lifecycleVars, stateVars

LEMMA OnceOverKept ==
  ASSUME ~Healthy(pub), NEW payload, NEW progress, NEW ok,
         Emit(payload, ok) \/ EmitBoth(payload, progress, ok)
  PROVE  Kept
BY EmitOnceOver, KeptOnceOver

(* A healthy publisher is given a payload and the snapshot after it.       *)
LEMMA TwoRecordsKept ==
  ASSUME Known, Healthy(pub), ~pub.finalized, RoomFor(2), started', ~finished',
         NEW payload \in ValidPayloads, NEW progress, progress = CurrentProgress', NEW ok \in BOOLEAN,
         EmitBoth(payload, progress, ok),
         Tells(pub.log, Record(pub, payload, FALSE), task', iteration', resultCounts', phase')
  PROVE  Kept /\ (ok = FALSE => "publish" \in pub'.err)
<1> DEFINE r1 == Record(pub, payload, FALSE)
           m == Append(pub.log, r1)
<1>1. progress \in ValidPayloads
  BY KnownParts, SnapshotValidNext
<1>2. r1 \in P!Events
  BY KnownParts, RecordType
<1>3. m \in Seq(P!Events)
  BY <1>2, KnownParts, OfAppend
<1>4. /\ Protocol!Legal(pub.log, r1)
      /\ Agrees(m, task', iteration', resultCounts', phase') /\ Unfinished(m)
  BY DEF Tells
<1> HIDE DEF r1, m
<1>5. Tells(m, Second(pub, progress, FALSE), task', iteration', resultCounts', phase')
  <2>1. pub.nextSequence + 1 \in Nat
    BY KnownParts
  <2>2. Tells(m, Event(pub.nextSequence + 1, FALSE, CurrentProgress'),
              task', iteration', resultCounts', phase')
    BY <1>3, <1>4, <2>1, KnownParts, TellsSnapshot
  <2> QED
    BY <2>2 DEF Second
<1> QED
  BY <1>1, <1>4, <1>5, KnownParts, TwoRecords DEF r1, m

(* Or one payload, once.                                                   *)
LEMMA OneRecordKept ==
  ASSUME Known, Healthy(pub), ~pub.finalized, RoomFor(1), started', ~finished',
         NEW payload \in ValidPayloads, NEW ok \in BOOLEAN, Emit(payload, ok),
         Tells(pub.log, Record(pub, payload, FALSE), task', iteration', resultCounts', phase')
  PROVE  Kept /\ (ok = FALSE => "publish" \in pub'.err)
BY KnownParts, OneRecord

(* Which may itself be the snapshot.                                       *)
LEMMA SnapshotKept ==
  ASSUME Known, Healthy(pub), ~pub.finalized, RoomFor(1), started', ~finished',
         NEW progress, progress = CurrentProgress', NEW ok \in BOOLEAN, Emit(progress, ok),
         Agrees(pub.log, task', iteration', resultCounts', phase'), Unfinished(pub.log)
  PROVE  Kept /\ (ok = FALSE => "publish" \in pub'.err)
<1>1. progress \in ValidPayloads
  BY KnownParts, SnapshotValidNext
<1>2. Tells(pub.log, Event(pub.nextSequence, FALSE, CurrentProgress'),
            task', iteration', resultCounts', phase')
  BY KnownParts, TellsSnapshot
<1>3. Tells(pub.log, Record(pub, progress, FALSE), task', iteration', resultCounts', phase')
  BY <1>2 DEF Record
<1> QED
  BY <1>1, <1>3, OneRecordKept

LEMMA StartKept ==
  ASSUME Known, NEW ok \in BOOLEAN, Start(ok)
  PROVE  Kept
<1> DEFINE payload == [type |-> "run_started", taskTotal |-> TaskTotal,
                       iterationsTotal |-> Cardinality(Iterations)]
           progress == Progress("preparing", completed, activeTaskIDs, resultCounts)
<1>1. CASE Reject(ok)
  BY <1>1, StutterKept DEF Reject
<1>2. CASE ~started /\ EmitBoth(payload, progress, ok) /\ ~Healthy(pub)
  BY <1>2, OnceOverKept
<1>3. CASE ~Reject(ok) /\ Healthy(pub)
  <2>1. /\ ~started /\ started' /\ phase' = "preparing" /\ EmitBoth(payload, progress, ok)
        /\ UNCHANGED <<finished, task, iteration, completed, resultCounts, activeTaskIDs>>
        /\ Beats' = Beats
    <3>1. ~started /\ heartbeat' \in {"select", heartbeat} /\ ticks' = ticks
      BY <1>3 DEF Start
    <3>2. heartbeat # "beat"
      BY <3>1, KnownParts DEF IInv, HeartbeatAgrees
    <3>3. Beats' = Beats
      BY <3>1, <3>2 DEF Beats, One
    <3> QED
      BY <1>3, <3>1, <3>3 DEF Start
  <2>2. /\ pub.log = <<>> /\ ~finished /\ ~pub.finalized /\ resultCounts = NoResults
        /\ \A t \in Tasks : ~task[t].started /\ ~task[t].completed
        /\ \A i \in Iterations : /\ ~iteration[i].started /\ ~iteration[i].completed
                                 /\ iteration[i].result = NoResults
    BY <1>3, <2>1, KnownParts DEF StoryInv, Fresh, IInv, PhaseAgrees
  <2>3. payload \in ValidPayloads
    <3>1. TaskTotal \in Nat \ {0} /\ Cardinality(Iterations) \in Nat \ {0}
      BY PlanAssumption, FS_CardinalityType, FS_EmptySet DEF TaskTotal
    <3> QED
      BY <3>1 DEF ValidPayloads, RunStartedPayloads
  <2>4. progress = CurrentProgress'
    BY <2>1 DEF CurrentProgress, Progress
  <2> HIDE DEF payload, progress
  <2>5. Tells(pub.log, Record(pub, payload, FALSE), task', iteration', resultCounts', phase')
    BY <2>1, <2>2, <2>3, KnownParts, TellsStart DEF Record, payload
  <2>6. RoomFor(2)
    <3>1. /\ RunRecords' = RunRecords + 2
          /\ TaskRecords' = TaskRecords + 0 /\ IterationRecords' = IterationRecords + 0
      BY <2>1, <2>2, KnownParts DEF RunRecords, One, IInv, PhaseAgrees, TaskRecords,
         IterationRecords, StartedOf, CompletedOf, Opened, Ended
    <3>2. Beats' = Beats + 0
      BY <2>1, KnownParts
    <3> QED
      BY <3>1, <3>2, KnownParts, RoomGrows
  <2> QED
    BY <1>3, <2>1, <2>2, <2>3, <2>4, <2>5, <2>6, TwoRecordsKept
<1> QED
  BY <1>1, <1>2, <1>3 DEF Start

(* The story so far, for a handler that passed its checks.                 *)
LEMMA StorySoFar ==
  ASSUME Known, Healthy(pub), started, ~finished
  PROVE  /\ Agrees(pub.log, task, iteration, resultCounts, phase) /\ Unfinished(pub.log)
         /\ ~pub.finalized /\ phase \in {"preparing", "executing"}
<1>1. phase \in RunPhases /\ phase # "finalizing"
  BY KnownParts DEF IInv, PhaseAgrees
<1> QED
  BY <1>1, KnownParts DEF StoryInv, RunPhases

LEMMA SetPhaseKept ==
  ASSUME Known, NEW ok \in BOOLEAN, NEW ph \in RunPhases, SetPhase(ph, ok)
  PROVE  Kept /\ Answered(ok)
<1> DEFINE progress == Progress(ph, completed, activeTaskIDs, resultCounts)
<1>1. CASE Reject(ok)
  BY <1>1, StutterKept DEF Reject, Answered
<1>2. CASE Emit(progress, ok) /\ ~Healthy(pub)
  BY <1>2, OnceOverKept DEF Answered
<1>3. CASE ~Reject(ok) /\ Healthy(pub)
  <2>1. /\ started /\ ~finished /\ started' /\ ~finished' /\ phase' = ph
        /\ phaseRank[ph] > phaseRank[phase] /\ ph # "finalizing" /\ Emit(progress, ok)
        /\ UNCHANGED <<task, iteration, completed, resultCounts, activeTaskIDs>>
        /\ UNCHANGED heartbeatVars
    BY <1>3 DEF SetPhase, MayEnter, Active
  <2>2. progress = CurrentProgress'
    BY <2>1 DEF CurrentProgress, Progress
  <2> HIDE DEF progress
  <2>3. ph = "executing" /\ phase = "preparing"
    BY <1>3, <2>1, StorySoFar DEF RunPhases, phaseRank
  <2>4. Agrees(pub.log, task', iteration', resultCounts', phase')
    <3>1. Agrees(pub.log, task, iteration, resultCounts, phase) /\ phase \in RunPhases
      BY <1>3, <2>1, StorySoFar DEF RunPhases
    <3>2. phaseRank[phase] <= phaseRank[ph]
      BY <2>3 DEF phaseRank
    <3>3. Agrees(pub.log, task, iteration, resultCounts, ph)
      BY <3>1, <3>2, KnownParts, LaterPhase
    <3> QED
      BY <2>1, <3>3
  <2>5. RoomFor(1)
    <3>1. /\ RunRecords' = RunRecords + 1
          /\ TaskRecords' = TaskRecords + 0 /\ IterationRecords' = IterationRecords + 0
      BY <2>1, <2>3, KnownParts DEF RunRecords, One, TaskRecords, IterationRecords, StartedOf,
         CompletedOf, Opened, Ended
    <3>2. Beats' = Beats + 0
      BY <2>1, KnownParts DEF Beats, heartbeatVars
    <3> QED
      BY <3>1, <3>2, KnownParts, RoomGrows
  <2> QED
    BY <1>3, <2>1, <2>2, <2>4, <2>5, StorySoFar, SnapshotKept DEF Answered
<1> QED
  BY <1>1, <1>2, <1>3 DEF SetPhase

LEMMA IterationStartedKept ==
  ASSUME Known, NEW ok \in BOOLEAN, NEW i \in Iterations, IterationStarted(i, ok)
  PROVE  Kept /\ Answered(ok)
<1> DEFINE payload == [type |-> "iteration_started", iteration |-> i]
<1>1. CASE Reject(ok)
  BY <1>1, StutterKept DEF Reject, Answered
<1>2. CASE Emit(payload, ok) /\ ~Healthy(pub)
  BY <1>2, OnceOverKept DEF Answered
<1>3. CASE ~Reject(ok) /\ Healthy(pub)
  <2>1. /\ started /\ ~finished /\ started' /\ ~finished' /\ ~iteration[i].started
        /\ iteration' = [iteration EXCEPT ![i].started = TRUE] /\ Emit(payload, ok)
        /\ UNCHANGED <<phase, task, completed, resultCounts, activeTaskIDs, heartbeatVars>>
    BY <1>3 DEF IterationStarted, Executing, Active
  <2>2. payload \in ValidPayloads
    BY DEF ValidPayloads, IterationStartedPayloads
  <2>3. Tells(pub.log, Record(pub, payload, FALSE), task', iteration', resultCounts', phase')
    <3>1. phase \in RunPhases
      BY <2>1, KnownParts
    <3> QED
      BY <1>3, <2>1, <3>1, KnownParts, StorySoFar, TellsIterationStart DEF Record
  <2> HIDE DEF payload
  <2>4. RoomFor(1)
    <3>1. /\ Opened' = Opened \cup {i} /\ i \notin Opened /\ Ended' = Ended
          /\ Opened \in SUBSET Iterations
      BY <2>1, KnownParts DEF Opened, Ended, IterationStates
    <3>2. Cardinality(Opened)' = Cardinality(Opened) + 1
      BY <3>1, OneMore, PlanAssumption
    <3>3. IterationRecords' = IterationRecords + 1
      BY <3>1, <3>2, KnownParts, BudgetParts DEF IterationRecords
    <3>4. RunRecords' = RunRecords + 0 /\ TaskRecords' = TaskRecords + 0 /\ Beats' = Beats + 0
      BY <2>1, KnownParts DEF RunRecords, One, TaskRecords, StartedOf, CompletedOf, Beats,
         heartbeatVars
    <3> QED
      BY <3>3, <3>4, KnownParts, RoomGrows
  <2> QED
    BY <1>3, <2>1, <2>2, <2>3, <2>4, StorySoFar, OneRecordKept DEF Answered
<1> QED
  BY <1>1, <1>2, <1>3 DEF IterationStarted

LEMMA IterationCompletedKept ==
  ASSUME Known, NEW ok \in BOOLEAN, NEW i \in Iterations, IterationCompleted(i, ok)
  PROVE  Kept /\ Answered(ok)
<1> DEFINE payload == [type |-> "iteration_completed", iteration |-> i,
                       completed |-> completed, counts |-> iteration[i].result]
<1>1. CASE Reject(ok)
  BY <1>1, StutterKept DEF Reject, Answered
<1>2. CASE Emit(payload, ok) /\ ~Healthy(pub)
  BY <1>2, OnceOverKept DEF Answered
<1>3. CASE ~Reject(ok) /\ Healthy(pub)
  <2>1. /\ started /\ ~finished /\ started' /\ ~finished'
        /\ iteration[i].started /\ ~iteration[i].completed
        /\ iteration' = [iteration EXCEPT ![i].completed = TRUE] /\ Emit(payload, ok)
        /\ UNCHANGED <<phase, task, completed, resultCounts, activeTaskIDs, heartbeatVars>>
    BY <1>3 DEF IterationCompleted, MayEnd, Executing, Active
  <2>2. payload \in ValidPayloads
    <3>1. completed \in Nat /\ iteration[i].result \in ResultCounts
      BY KnownParts DEF TypeOK, IterationStates
    <3> QED
      BY <3>1 DEF ValidPayloads, IterationCompletedPayloads
  <2>3. \A t \in TasksOf(i) : task[t].completed
    <3>1. iteration'[i].completed /\ task' = task
      BY <2>1, KnownParts DEF IterationStates
    <3>2. CompletedOf(TasksOf(i))' = TasksOf(i)
      BY <3>1, KnownParts DEF IInv, CountersAgree
    <3> QED
      BY <3>1, <3>2 DEF CompletedOf
  <2>4. Tells(pub.log, Record(pub, payload, FALSE), task', iteration', resultCounts', phase')
    <3>1. phase \in RunPhases /\ completed \in Nat
      BY <2>1, KnownParts DEF TypeOK
    <3> QED
      BY <1>3, <2>1, <2>3, <3>1, KnownParts, StorySoFar, TellsIterationEnd DEF Record
  <2> HIDE DEF payload
  <2>5. RoomFor(1)
    <3>1. /\ Ended' = Ended \cup {i} /\ i \notin Ended /\ Opened' = Opened
          /\ Ended \in SUBSET Iterations
      BY <2>1, KnownParts DEF Opened, Ended, IterationStates
    <3>2. Cardinality(Ended)' = Cardinality(Ended) + 1
      BY <3>1, OneMore, PlanAssumption
    <3>3. IterationRecords' = IterationRecords + 1
      BY <3>1, <3>2, KnownParts, BudgetParts DEF IterationRecords
    <3>4. RunRecords' = RunRecords + 0 /\ TaskRecords' = TaskRecords + 0 /\ Beats' = Beats + 0
      BY <2>1, KnownParts DEF RunRecords, One, TaskRecords, StartedOf, CompletedOf, Beats,
         heartbeatVars
    <3> QED
      BY <3>3, <3>4, KnownParts, RoomGrows
  <2> QED
    BY <1>3, <2>1, <2>2, <2>4, <2>5, StorySoFar, OneRecordKept DEF Answered
<1> QED
  BY <1>1, <1>2, <1>3 DEF IterationCompleted

LEMMA CaseStartedKept ==
  ASSUME Known, NEW ok \in BOOLEAN, NEW t \in Tasks, CaseStarted(t, ok)
  PROVE  Kept /\ Answered(ok)
<1> DEFINE payload == [type |-> "case_started", task |-> t]
           progress == Progress(phase, completed, activeTaskIDs', resultCounts)
<1>1. CASE Reject(ok)
  BY <1>1, StutterKept DEF Reject, Answered
<1>2. CASE EmitBoth(payload, progress, ok) /\ ~Healthy(pub)
  BY <1>2, OnceOverKept DEF Answered
<1>3. CASE ~Reject(ok) /\ Healthy(pub)
  <2>1. /\ started /\ ~finished /\ started' /\ ~finished' /\ ~task[t].started
        /\ iteration[IterationOf[t]].started /\ ~iteration[IterationOf[t]].completed
        /\ task' = [task EXCEPT ![t].started = TRUE] /\ EmitBoth(payload, progress, ok)
        /\ UNCHANGED <<phase, iteration, completed, resultCounts, heartbeatVars>>
    BY <1>3 DEF CaseStarted, MayStart, Executing, Active
  <2>2. payload \in ValidPayloads
    BY DEF ValidPayloads, CaseStartedPayloads
  <2>3. progress = CurrentProgress'
    BY <2>1 DEF CurrentProgress, Progress
  <2>4. Tells(pub.log, Record(pub, payload, FALSE), task', iteration', resultCounts', phase')
    <3>1. phase \in RunPhases
      BY <2>1, KnownParts
    <3> QED
      BY <1>3, <2>1, <3>1, KnownParts, StorySoFar, TellsCaseStart DEF Record
  <2> HIDE DEF payload, progress
  <2>5. RoomFor(2)
    <3>1. /\ StartedOf(Tasks)' = StartedOf(Tasks) \cup {t} /\ t \notin StartedOf(Tasks)
          /\ StartedOf(Tasks) \in SUBSET Tasks /\ CompletedOf(Tasks)' = CompletedOf(Tasks)
      BY <2>1, KnownParts DEF StartedOf, CompletedOf, TaskStates
    <3>2. Cardinality(StartedOf(Tasks))' = Cardinality(StartedOf(Tasks)) + 1
      BY <3>1, OneMore, PlanAssumption
    <3>3. TaskRecords' = TaskRecords + 2
      BY <3>1, <3>2, KnownParts, BudgetParts DEF TaskRecords
    <3>4. /\ RunRecords' = RunRecords + 0 /\ IterationRecords' = IterationRecords + 0
          /\ Beats' = Beats + 0
      BY <2>1, KnownParts DEF RunRecords, One, IterationRecords, Opened, Ended, Beats,
         heartbeatVars
    <3> QED
      BY <3>3, <3>4, KnownParts, RoomGrows
  <2> QED
    BY <1>3, <2>1, <2>2, <2>3, <2>4, <2>5, StorySoFar, TwoRecordsKept DEF Answered
<1> QED
  BY <1>1, <1>2, <1>3 DEF CaseStarted

LEMMA CaseCompletedKept ==
  ASSUME Known, NEW ok \in BOOLEAN, NEW t \in Tasks, NEW s \in Outcomes,
         CaseCompleted(t, s, ok)
  PROVE  Kept /\ Answered(ok)
<1> DEFINE payload == [type |-> "case_completed", task |-> t, completed |-> completed',
                       status |-> s]
           progress == Progress(phase, completed', activeTaskIDs', resultCounts')
<1>1. CASE Reject(ok)
  BY <1>1, StutterKept DEF Reject, Answered
<1>2. CASE EmitBoth(payload, progress, ok) /\ ~Healthy(pub)
  BY <1>2, OnceOverKept DEF Answered
<1>3. CASE ~Reject(ok) /\ Healthy(pub)
  <2>1. /\ started /\ ~finished /\ started' /\ ~finished' /\ s \in CaseStatuses
        /\ task[t].started /\ ~task[t].completed
        /\ task' = [task EXCEPT ![t].completed = TRUE]
        /\ completed' = completed + 1 /\ resultCounts' = addStatus(resultCounts, s)
        /\ iteration' = [iteration EXCEPT ![IterationOf[t]].completedN = @ + 1,
                                          ![IterationOf[t]].result = addStatus(@, s)]
        /\ EmitBoth(payload, progress, ok)
        /\ UNCHANGED <<phase, heartbeatVars>>
    BY <1>3 DEF CaseCompleted, MayComplete, Executing, Active
  <2>2. progress = CurrentProgress'
    BY <2>1 DEF CurrentProgress, Progress
  <2>3. \A i \in Iterations :
          /\ iteration'[i].started = iteration[i].started
          /\ iteration'[i].completed = iteration[i].completed
          /\ iteration'[i].result = IF i = IterationOf[t] THEN addStatus(iteration[i].result, s)
                                                          ELSE iteration[i].result
    BY <2>1, KnownParts, PlanAssumption DEF IterationStates
  <2>4. iteration[IterationOf[t]].started /\ ~iteration[IterationOf[t]].completed
    <3>1. IterationOf[t] \in Iterations /\ t \in TasksOf(IterationOf[t])
      BY PlanAssumption DEF TasksOf
    <3>2. iteration[IterationOf[t]].started
      BY <2>1, KnownParts DEF IInv, RunningAgrees
    <3>3. t \notin CompletedOf(TasksOf(IterationOf[t]))
      BY <2>1 DEF CompletedOf
    <3> QED
      BY <3>1, <3>2, <3>3, KnownParts DEF IInv, CountersAgree
  <2>5. /\ completed' \in Nat /\ completed' <= TaskTotal
        /\ completed' = Cardinality({u \in Tasks : task[u].completed}) + 1
    <3>1. completed' = Cardinality(CompletedOf(Tasks))' /\ completed' \in Nat
      BY KnownParts DEF IInv, CountersAgree, TypeOK
    <3>2. Cardinality(CompletedOf(Tasks))' <= TaskTotal
      BY KnownParts, BudgetPartsNext DEF TaskTotal
    <3>3. completed = Cardinality({u \in Tasks : task[u].completed})
      BY KnownParts DEF IInv, CountersAgree, CompletedOf
    <3> QED
      BY <2>1, <3>1, <3>2, <3>3
  <2>6. payload \in ValidPayloads
    BY <2>1, <2>5 DEF ValidPayloads, CaseCompletedPayloads
  <2>7. Tells(pub.log, Record(pub, payload, FALSE), task', iteration', resultCounts', phase')
    <3>1. phase \in RunPhases
      BY <2>1, KnownParts
    <3>2. Agrees(pub.log, task, iteration, resultCounts, phase) /\ Unfinished(pub.log)
      BY <1>3, <2>1, StorySoFar
    <3>3. Tells(pub.log, Event(pub.nextSequence, FALSE, payload),
                [task EXCEPT ![t].completed = TRUE], iteration', addStatus(resultCounts, s), phase)
      BY <2>1, <2>3, <2>4, <2>5, <2>6, <3>1, <3>2, KnownParts, TellsCaseEnd
    <3> QED
      BY <2>1, <3>3 DEF Record
  <2> HIDE DEF payload, progress
  <2>8. RoomFor(2)
    <3>1. /\ CompletedOf(Tasks)' = CompletedOf(Tasks) \cup {t} /\ t \notin CompletedOf(Tasks)
          /\ CompletedOf(Tasks) \in SUBSET Tasks /\ StartedOf(Tasks)' = StartedOf(Tasks)
      BY <2>1, KnownParts DEF StartedOf, CompletedOf, TaskStates
    <3>2. Cardinality(CompletedOf(Tasks))' = Cardinality(CompletedOf(Tasks)) + 1
      BY <3>1, OneMore, PlanAssumption
    <3>3. TaskRecords' = TaskRecords + 2
      BY <3>1, <3>2, KnownParts, BudgetParts DEF TaskRecords
    <3>4. RunRecords' = RunRecords + 0 /\ Beats' = Beats + 0
      BY <2>1, KnownParts DEF RunRecords, One, Beats, heartbeatVars
    <3>5. Opened' = Opened /\ Ended' = Ended
      BY <2>3 DEF Opened, Ended
    <3>6. IterationRecords' = IterationRecords + 0
      BY <3>5, KnownParts DEF IterationRecords
    <3> QED
      BY <3>3, <3>4, <3>6, KnownParts, RoomGrows
  <2> QED
    BY <1>3, <2>1, <2>2, <2>6, <2>7, <2>8, StorySoFar, TwoRecordsKept DEF Answered
<1> QED
  BY <1>1, <1>2, <1>3 DEF CaseCompleted

LEMMA HeartbeatKept ==
  ASSUME Known, NEW ok \in BOOLEAN, Heartbeat(ok)
  PROVE  Kept
<1>1. Beats' = Beats + 1
  <2>1. heartbeat = "beat" /\ heartbeat' # "beat" /\ ticks' = ticks /\ ticks \in Nat
    BY KnownParts DEF Heartbeat, TypeOK
  <2> QED
    BY <2>1 DEF Beats, One
<1>2. UNCHANGED stateVars
  BY DEF Heartbeat
<1>3. CASE pub' = pub
  BY <1>1, <1>2, <1>3, SilentKept DEF stateVars
<1>4. CASE Emit(CurrentProgress, ok) /\ ~Healthy(pub)
  BY <1>4, OnceOverKept
<1>5. CASE Active /\ Emit(CurrentProgress, ok) /\ Healthy(pub)
  <2>1. started /\ ~finished /\ started' /\ ~finished'
    BY <1>2, <1>5 DEF Active, stateVars
  <2>2. CurrentProgress = CurrentProgress'
    BY <1>2 DEF CurrentProgress, Progress, stateVars
  <2>3. /\ Agrees(pub.log, task', iteration', resultCounts', phase') /\ Unfinished(pub.log)
        /\ ~pub.finalized
    BY <1>2, <1>5, <2>1, StorySoFar DEF stateVars
  <2>4. RoomFor(1)
    <3>1. /\ RunRecords' = RunRecords + 0
          /\ TaskRecords' = TaskRecords + 0 /\ IterationRecords' = IterationRecords + 0
      BY <1>2, KnownParts DEF RunRecords, One, TaskRecords, IterationRecords, StartedOf,
         CompletedOf, Opened, Ended, stateVars
    <3> QED
      BY <1>1, <3>1, KnownParts, RoomGrows
  <2> QED
    BY <1>5, <2>1, <2>2, <2>3, <2>4, SnapshotKept
<1> QED
  BY <1>3, <1>4, <1>5 DEF Heartbeat

LEMMA CloseKept ==
  ASSUME Known, NEW ok \in BOOLEAN, ClosePublisher(ok)
  PROVE  Kept
<1>1. pub' = P!ClosePublisher(pub, ok)
  BY DEF ClosePublisher
<1>2. ~Healthy(pub') /\ pub'.log = pub.log
  BY <1>1, KnownParts DEF P!ClosePublisher, Healthy, PubState, PP!PublisherState
<1> QED
  BY <1>2, KeptOnceOver

(* Finish publishes the last snapshot and the final record.                *)
LEMMA FinishCommitKept ==
  ASSUME Known, NEW ok \in BOOLEAN, FinishCommit(ok)
  PROVE  Kept
<1> DEFINE progress == Progress("finalizing", completed, {}, resultCounts)
           last == [type |-> "run_finished", status |-> finishing.status,
                    completed |-> completed, counts |-> resultCounts]
           Publishes ==
             \E io1, io2 \in P!WriteOutcomes :
               LET first == P!PublishEvent(pub, progress, FALSE, io1)
               IN  /\ pub' = P!PublishEvent(first, last, TRUE, io2)
                   /\ ok = (P!Published(pub, progress, io1) /\ P!Published(first, last, io2))
<1>1. CASE UNCHANGED <<pub, stateVars>>
  <2>1. Beats' = Beats + 0
    BY KnownParts DEF FinishCommit, Beats, heartbeatVars
  <2> QED
    BY <1>1, <2>1, SilentKept DEF stateVars
<1>2. CASE Publishes /\ ~Healthy(pub)
  <2>1. \A x, l, io : P!PublishEvent(pub, x, l, io) = pub
    BY <1>2, PublishingOnceOver
  <2>2. pub' = pub
    BY <1>2, <2>1
  <2> QED
    BY <1>2, <2>2, KeptOnceOver
<1>3. CASE /\ Active /\ (finishing.status = "COMPLETED" => CompleteRun)
           /\ phase' = "finalizing" /\ activeTaskIDs' = {} /\ finished' = TRUE
           /\ Publishes /\ Healthy(pub)
           /\ UNCHANGED <<started, task, iteration, completed, resultCounts, heartbeatVars>>
  <2>1. started /\ ~finished /\ started' /\ finished'
    BY <1>3 DEF Active
  <2>2. progress = CurrentProgress'
    BY <1>3, FS_EmptySet DEF CurrentProgress, Progress
  <2>3. /\ completed \in Nat /\ completed = Cardinality({t \in Tasks : task[t].completed})
        /\ completed = Total(resultCounts) /\ finishing.status \in RunStatuses
    BY KnownParts DEF IInv, CountersAgree, CompletedOf, TypeOK
  <2>4. last \in ValidPayloads
    BY <2>3, KnownParts DEF ValidPayloads, RunFinishedPayloads
  <2>5. progress \in ValidPayloads
    BY <2>1, <2>2, KnownParts, SnapshotValidNext
  <2>6. progress.type = "run_progress" /\ progress.phase = "finalizing"
    BY DEF Progress
  <2>7. finishing.status = "COMPLETED" => /\ \A t \in Tasks : task[t].completed
                                          /\ \A i \in Iterations : iteration[i].completed
    <3> SUFFICES ASSUME finishing.status = "COMPLETED"
                 PROVE  \A t \in Tasks : task[t].completed
      BY <1>3 DEF CompleteRun
    <3>1. Cardinality(Tasks) = Cardinality(CompletedOf(Tasks))
      BY <1>3, KnownParts DEF CompleteRun, TaskTotal, IInv, CountersAgree
    <3>2. CompletedOf(Tasks) = Tasks
      BY <3>1, CompletedOfFinite
    <3> QED
      BY <3>2 DEF CompletedOf
  <2>8. Agrees(pub.log, task', iteration', resultCounts', phase') /\ Unfinished(pub.log)
    <3>1. /\ Agrees(pub.log, task, iteration, resultCounts, phase) /\ Unfinished(pub.log)
          /\ phase \in RunPhases /\ "finalizing" \in RunPhases
          /\ phaseRank[phase] <= phaseRank["finalizing"]
      BY <1>3, <2>1, StorySoFar DEF RunPhases, phaseRank
    <3>2. Agrees(pub.log, task, iteration, resultCounts, "finalizing")
      BY <3>1, KnownParts, LaterPhase
    <3> QED
      BY <1>3, <3>1, <3>2
  <2> DEFINE r1 == Record(pub, progress, FALSE)
             r2 == Second(pub, last, TRUE)
             m  == Append(pub.log, r1)
  <2> HIDE DEF progress
  <2>9. /\ r1 \in P!Events /\ r2 \in P!Events /\ r2.lastEvent = TRUE
        /\ r1.payload = progress
    BY <2>4, <2>5, KnownParts, RecordType DEF Record, Event
  <2>10. m \in Seq(P!Events) /\ m[Len(m)] = r1
    <3>1. pub.log \in Seq(P!Events)
      BY KnownParts
    <3> HIDE DEF r1
    <3>2. m \in Seq(P!Events) /\ Len(m) = Len(pub.log) + 1 /\ m[Len(pub.log) + 1] = r1
      BY <2>9, <3>1, OfAppend
    <3> QED
      BY <3>2
  <2>11. Tells(pub.log, r1, task', iteration', resultCounts', phase')
    <3>1. Tells(pub.log, Event(pub.nextSequence, FALSE, CurrentProgress'),
                task', iteration', resultCounts', phase')
      BY <2>1, <2>8, KnownParts, TellsSnapshot
    <3> QED
      BY <2>2, <3>1 DEF Record
  <2> HIDE DEF r1, m
  <2>12. Agrees(m, task, iteration, resultCounts, "finalizing") /\ Unfinished(m)
    BY <1>3, <2>11 DEF Tells, m
  <2>13. Protocol!Legal(m, r2) /\ Agrees(Append(m, r2), task, iteration, resultCounts, "finalizing")
    <3>1. m[Len(m)].payload.type = "run_progress" /\ m[Len(m)].payload.phase = "finalizing"
      BY <2>6, <2>9, <2>10
    <3>2. pub.nextSequence + 1 \in Nat
      BY KnownParts
    <3> QED
      BY <2>3, <2>7, <2>10, <2>12, <3>1, <3>2, KnownParts, TellsRunEnd DEF Second
  <2>14. RoomFor(2)
    <3>1. TaskRecords' = TaskRecords + 0 /\ IterationRecords' = IterationRecords + 0
      BY <1>3, KnownParts DEF TaskRecords, IterationRecords, StartedOf, CompletedOf, Opened, Ended
    <3>2. Beats' = Beats + 0
      BY <1>3, KnownParts DEF Beats, heartbeatVars
    <3>3. RunRecords' = RunRecords + 2 \/ RunRecords' = RunRecords + 3
      BY <1>3, <2>1, KnownParts DEF RunRecords, One
    <3>4. RoomFor(2) \/ RoomFor(3)
      BY <3>1, <3>2, <3>3, KnownParts, RoomGrows
    <3> QED
      BY <3>4 DEF RoomFor
  <2>15. BothFate(pub, pub', r1, r2, ok)
    <3>1. pub.nextSequence + 1 <= MaxSafeInteger
      BY <1>3, <2>14, PlanAssumption, KnownParts DEF RoomInv, RoomFor, PubState, PP!PublisherState
    <3>2. ~pub.finalized
      BY <1>3, <2>1, StorySoFar
    <3> HIDE DEF last
    <3> QED
      BY <1>3, <2>4, <2>5, <3>1, <3>2, KnownParts, FinishFate DEF r1, r2
  <2> HIDE DEF r2
  <2>16. /\ RoomInv' /\ Grown(pub.log, pub'.log)
         /\ Healthy(pub') => pub'.log = Append(m, r2) /\ pub'.finalized = TRUE
    <3>1. Protocol!Legal(pub.log, r1)
      BY <2>11 DEF Tells
    <3> QED
      BY <1>3, <2>9, <2>13, <2>14, <2>15, <3>1, KnownParts, TwoFates DEF m
  <2>17. StoryInv'
    BY <1>3, <2>1, <2>13, <2>16 DEF StoryInv
  <2> QED
    BY <2>16, <2>17 DEF Kept
<1> QED
  BY <1>1, <1>2, <1>3 DEF FinishCommit

LEMMA KeptStep ==
  ASSUME Known, [Next]_lifecycleVars
  PROVE  Kept
<1>1. ASSUME NEW s \in RunStatuses, FinishCall(s) PROVE Kept
  <2>1. Beats' = Beats + 0
    BY <1>1, KnownParts DEF FinishCall, Beats, heartbeatVars
  <2> QED
    BY <1>1, <2>1, SilentKept DEF FinishCall, stateVars
<1>2. CASE HeartbeatSeesStop \/ HeartbeatTick
  <2>1. Beats' = Beats + 0
    <3>1. heartbeat = "select" /\ ticks \in Nat
      BY <1>2, KnownParts DEF HeartbeatSeesStop, HeartbeatTick, TypeOK
    <3>2. Beats = ticks
      BY <3>1 DEF Beats, One
    <3>3. \/ heartbeat' # "beat" /\ ticks' = ticks
          \/ heartbeat' = "beat" /\ ticks' = ticks + 1
      BY <1>2 DEF HeartbeatSeesStop, HeartbeatTick
    <3>4. Beats' = ticks
      BY <3>1, <3>3 DEF Beats, One
    <3> QED
      BY <3>1, <3>2, <3>4
  <2> QED
    BY <1>2, <2>1, SilentKept DEF HeartbeatSeesStop, HeartbeatTick, stateVars
<1> QED
  BY <1>1, <1>2, StutterKept, StartKept, SetPhaseKept, IterationStartedKept,
     IterationCompletedKept, CaseStartedKept, CaseCompletedKept, FinishCommitKept,
     HeartbeatKept, CloseKept DEF Next, HeartbeatStep

-----------------------------------------------------------------------------
ProtocolInv == RoomInv /\ Fresh /\ StoryInv

LEMMA ProtocolInvCorrect ==
  ASSUME Room
  PROVE  Spec => []ProtocolInv
<1>1. Init => ProtocolInv
  <2>1. Init => Fresh
    BY PlanAssumption DEF Init, Fresh
  <2>2. Init => StoryInv
    BY OfEmpty DEF Init, StoryInv, P!NewPublisher, Unfinished
  <2>3. Init => RoomInv
    <3> SUFFICES ASSUME Init PROVE RoomInv
      OBVIOUS
    <3>1. TypeOK
      BY InitType
    <3>2. /\ Cardinality(StartedOf(Tasks)) \in Nat /\ Cardinality(CompletedOf(Tasks)) \in Nat
          /\ Cardinality(Opened) \in Nat /\ Cardinality(Ended) \in Nat /\ RunRecords \in Nat
      BY <3>1, BudgetParts
    <3>3. Beats = 0
      BY DEF Init, Beats, One
    <3>4. Len(pub.log) = 0 /\ pub.nextSequence = 1
      BY DEF Init, P!NewPublisher
    <3> QED
      BY <3>2, <3>3, <3>4 DEF RoomInv, Budget, TaskRecords, IterationRecords
  <2> QED
    BY <2>1, <2>2, <2>3 DEF ProtocolInv
<1>2. IInv /\ IInv' /\ ProtocolInv /\ [Next]_lifecycleVars => ProtocolInv'
  BY KeptStep, FreshStep DEF ProtocolInv, Kept, Known
<1> QED
  BY <1>1, <1>2, IInvCorrect, PTL DEF Spec

(* While the publisher is healthy the log has a record for exactly the     *)
(* tasks the emitter has started and completed, it is not empty once the   *)
(* run has started, and it ends when the run has finished.                 *)
THEOREM LogTellsStateCorrect ==
  ASSUME Room
  PROVE  Spec => []LogTellsState
<1>1. IInv /\ ProtocolInv => LogTellsState
  <2> SUFFICES ASSUME IInv, ProtocolInv, Healthy(pub)
               PROVE  /\ started <=> pub.log # <<>>
                      /\ finished <=> pub.finalized
                      /\ \A t \in Tasks :
                           /\ task[t].started <=> Logged([type |-> "case_started", task |-> t])
                           /\ task[t].completed <=> CompletionLogged(t)
    BY DEF LogTellsState, Healthy
  <2>1. finished <=> pub.finalized
    BY DEF ProtocolInv, StoryInv
  <2>2. CASE ~started
    <3>1. pub.log = <<>> /\ \A t \in Tasks : ~task[t].started /\ ~task[t].completed
      BY <2>2 DEF ProtocolInv, StoryInv, Fresh
    <3> QED
      BY <2>1, <2>2, <3>1 DEF Logged, CompletionLogged
  <2>3. CASE started
    <3>1. Agrees(pub.log, task, iteration, resultCounts, phase)
      BY <2>3 DEF ProtocolInv, StoryInv
    <3>2. ASSUME NEW t \in Tasks
          PROVE  task[t].started <=> Logged([type |-> "case_started", task |-> t])
      <4>1. task[t].started <=> \E e \in Protocol!Of(pub.log, "case_started") : e.task = t
        BY <3>1 DEF Agrees, Protocol!StartedTasks
      <4>2. ASSUME NEW e \in Protocol!Of(pub.log, "case_started"), e.task = t
            PROVE  e = [type |-> "case_started", task |-> t]
        BY <4>2, CaseStartedLogged, LogType
      <4>3. Protocol!Of(pub.log, "case_started")
              = {e \in {pub.log[k].payload : k \in DOMAIN pub.log} : e.type = "case_started"}
        BY DEF Protocol!Of
      <4>4. [type |-> "case_started", task |-> t].type = "case_started"
            /\ [type |-> "case_started", task |-> t].task = t
        OBVIOUS
      <4> QED
        BY <4>1, <4>2, <4>3, <4>4 DEF Logged
    <3>3. ASSUME NEW t \in Tasks PROVE task[t].completed <=> CompletionLogged(t)
      BY <3>1, <3>3 DEF Agrees, Protocol!CompletedTasks, Protocol!Of, CompletionLogged
    <3> QED
      BY <2>1, <2>3, <3>1, <3>2, <3>3 DEF Agrees
  <2> QED
    BY <2>2, <2>3
<1> QED
  BY <1>1, IInvCorrect, ProtocolInvCorrect, PTL

-----------------------------------------------------------------------------
(* A log that grew is legal record by record for the consumer.             *)
LEMMA GrownIsGrowth ==
  ASSUME NEW l \in Seq(P!Events), NEW m, Grown(l, m)
  PROVE  \/ m = l
         \/ /\ Len(m) \in {Len(l) + 1, Len(l) + 2}
            /\ SubSeq(m, 1, Len(l)) = l
            /\ \A k \in (Len(l) + 1)..Len(m) : Protocol!Legal(SubSeq(m, 1, k - 1), m[k])
<1>0. Len(l) \in Nat
  OBVIOUS
<1>1. ASSUME NEW p \in Seq(P!Events), NEW r \in P!Events
      PROVE  SubSeq(Append(p, r), 1, Len(p)) = p
  OBVIOUS
<1>2. ASSUME NEW r \in P!Events, m = Append(l, r), Protocol!Legal(l, r)
      PROVE  /\ Len(m) = Len(l) + 1
             /\ SubSeq(m, 1, Len(l)) = l
             /\ \A k \in (Len(l) + 1)..Len(m) : Protocol!Legal(SubSeq(m, 1, k - 1), m[k])
  <2>1. Len(m) = Len(l) + 1 /\ m[Len(l) + 1] = r
    BY <1>2, OfAppend
  <2>2. SubSeq(m, 1, Len(l)) = l
    BY <1>1, <1>2
  <2>3. \A k \in (Len(l) + 1)..Len(m) : k = Len(l) + 1 /\ k - 1 = Len(l)
    BY <1>0, <2>1
  <2> QED
    BY <1>2, <2>1, <2>2, <2>3
<1>3. ASSUME NEW r1 \in P!Events, NEW r2 \in P!Events, m = Append(Append(l, r1), r2),
             Protocol!Legal(l, r1), Protocol!Legal(Append(l, r1), r2)
      PROVE  /\ Len(m) = Len(l) + 2
             /\ SubSeq(m, 1, Len(l)) = l
             /\ \A k \in (Len(l) + 1)..Len(m) : Protocol!Legal(SubSeq(m, 1, k - 1), m[k])
  <2> DEFINE n == Append(l, r1)
  <2>1. n \in Seq(P!Events) /\ Len(n) = Len(l) + 1 /\ n[Len(l) + 1] = r1
    BY OfAppend
  <2>2. SubSeq(n, 1, Len(l)) = l
    BY <1>1
  <2> HIDE DEF n
  <2>3. /\ Len(m) = Len(l) + 2 /\ m[Len(l) + 2] = r2
        /\ \A k \in 1..Len(n) : m[k] = n[k]
    <3>1. m = Append(n, r2)
      BY <1>3 DEF n
    <3>2. Len(m) = Len(n) + 1 /\ m[Len(n) + 1] = r2 /\ \A k \in 1..Len(n) : m[k] = n[k]
      BY <2>1, <3>1, OfAppend
    <3> QED
      BY <1>0, <2>1, <3>2
  <2>4. SubSeq(m, 1, Len(n)) = n
    BY <1>1, <1>3, <2>1 DEF n
  <2>5. SubSeq(m, 1, Len(l)) = SubSeq(n, 1, Len(l))
    BY <1>0, <2>1, <2>3
  <2>6. m[Len(l) + 1] = r1
    BY <1>0, <2>1, <2>3
  <2>7. \A k \in (Len(l) + 1)..Len(m) :
          \/ k = Len(l) + 1 /\ k - 1 = Len(l)
          \/ k = Len(l) + 2 /\ k - 1 = Len(n)
    BY <1>0, <2>1, <2>3
  <2> QED
    BY <1>3, <2>2, <2>3, <2>4, <2>5, <2>6, <2>7 DEF n
<1> QED
  BY <1>2, <1>3 DEF Grown

(* The emitter implements the consumer's protocol: each of its steps adds  *)
(* no record, or one or two that are legal after those before them.        *)
THEOREM ProtocolImplemented ==
  ASSUME Room
  PROVE  Spec => ImplementsProtocol
<1>1. Init => pub.log = <<>>
  BY DEF Init, P!NewPublisher
<1>2. IInv /\ IInv' /\ ProtocolInv /\ [Next]_lifecycleVars => [Protocol!Grow]_(pub.log)
  <2> SUFFICES ASSUME IInv, IInv', ProtocolInv, [Next]_lifecycleVars
               PROVE  [Protocol!Grow]_(pub.log)
    OBVIOUS
  <2>1. Grown(pub.log, pub'.log)
    BY KeptStep DEF Known, ProtocolInv, Kept
  <2> QED
    BY <2>1, LogType, GrownIsGrowth DEF Protocol!Grow
<1> QED
  BY <1>1, <1>2, IInvCorrect, ProtocolInvCorrect, PTL DEF Spec, ImplementsProtocol, Protocol!Spec
=============================================================================
