---------------------------- MODULE CommandProofs ----------------------------
(***************************************************************************)
(* The command with its runner and its task pool, for every plan, number of*)
(* tasks and concurrency, with a signal between any two steps: the pool    *)
(* keeps its promises in every iteration, a success is deserved, no call   *)
(* of the command is rejected by the emitter, and its log ends with a true *)
(* final record.                                                           *)
(***************************************************************************)
EXTENDS EvalCommand, LifecycleProofs

(* Where the runner has not handed the tasks of number to the pool yet.    *)
BeforeCall == {"starting", "abandoning", "loading", "executing", "iterating", "preparing",
               "announcing", "evaluating"}

(* Where number is an iteration of the plan.                               *)
InIteration == {"preparing", "announcing", "evaluating", "waiting", "completing", "writing"}

Places == BeforeCall \cup InIteration
            \cup {"joining", "choosing", "finishing", "closing", "exiting", "exited"}

Touched(t) == worker[t] # "none" \/ results[t] # NoResult

PoolTypes ==
  /\ cancelled \in BOOLEAN /\ staleSlot \in BOOLEAN
  /\ loop \in Pool!LoopSteps
  /\ scheduled \in Nat
  /\ worker \in [Tasks -> Pool!WorkerSteps]
  /\ results \in [Tasks -> Outcomes \cup {NoResult}]
  /\ main \in Places /\ number \in Nat \ {0}

(* The pool works only while the runner waits for it, on the tasks of the  *)
(* iteration the runner is at.                                             *)
PlaceInv ==
  /\ loop \in {"idle", "returned"} \/ main = "waiting"
  /\ main \in InIteration => number \in 1..Len(Plan)
  /\ main = "waiting" => order = Plan[number]
  /\ order = <<>> \/ \E i \in Iterations : order = Plan[i]

(* The tasks of later iterations are untouched.                            *)
FreshInv ==
  \A t \in Tasks : Touched(t) => IF main \in BeforeCall THEN IterationOf[t] < number
                                                        ELSE IterationOf[t] <= number

(* What was launched is a prefix of the order; everything that still works *)
(* is in it; and nothing works when the pool has returned.                 *)
PrefixInv ==
  /\ scheduled <= Len(order)
  /\ loop \in {"acquiring", "rechecking", "launching"} => scheduled < Len(order)
  /\ \A k \in 1..Len(order) : IF k <= scheduled THEN worker[order[k]] # "none"
                                                ELSE ~Touched(order[k])
  /\ \A t \in Tasks : worker[t] \notin {"none", "done"} => \E k \in 1..scheduled : order[k] = t
  /\ loop \in {"idle", "returned"} => \A t \in Tasks : worker[t] \in {"none", "done"}

WrittenInv ==
  \A t \in Tasks : worker[t] \in {"reporting", "releasing", "leaving", "done"}
                     => results[t] # NoResult

(* What the loop knows of the cancellation where it is.                    *)
LoopInv ==
  /\ staleSlot => cancelled
  /\ loop = "launching" => ~staleSlot
  /\ loop = "waiting" => cancelled \/ scheduled = Len(order)
  /\ loop = "returned" /\ evalErr = "none" => scheduled = Len(order)

Slots == sem = Cardinality(Pool!HoldingSlot)
                 + (IF loop \in {"rechecking", "launching"} THEN 1 ELSE 0)

PoolInv == PoolTypes /\ PlaceInv /\ FreshInv /\ PrefixInv /\ WrittenInv /\ LoopInv /\ Slots

-----------------------------------------------------------------------------
(* What the plan's assumption says of a sequence handed to the pool: it    *)
(* lists the tasks of its iteration, each once.                            *)
LEMMA PlanFacts ==
  ASSUME NEW i \in Iterations
  PROVE  /\ i \in 1..Len(Plan)
         /\ Plan[i] \in Seq(Tasks)
         /\ \A k \in 1..Len(Plan[i]) : Plan[i][k] \in Tasks /\ IterationOf[Plan[i][k]] = i
         /\ \A j, k \in 1..Len(Plan[i]) : Plan[i][j] = Plan[i][k] => j = k
         /\ \A t \in TasksOf(i) : \E k \in 1..Len(Plan[i]) : Plan[i][k] = t
<1>1. Plan \in Seq(Seq(Tasks)) /\ Iterations = DOMAIN Plan
  BY CommandPlanAssumption
<1>2. i \in 1..Len(Plan) /\ Plan[i] \in Seq(Tasks)
  BY <1>1
<1> DEFINE dom == 1..Len(Plan[i])
<1>3. dom = DOMAIN Plan[i] /\ Len(Plan[i]) \in Nat
  BY <1>2
<1>4. {Plan[i][k] : k \in dom} = TasksOf(i)
  BY <1>3, CommandPlanAssumption
<1>5. Plan[i] \in Surjection(dom, TasksOf(i))
  <2>1. Plan[i] \in [dom -> TasksOf(i)]
    BY <1>2, <1>3, <1>4
  <2> QED
    BY <2>1, <1>4 DEF Surjection
<1>6. Cardinality(dom) = Cardinality(TasksOf(i)) /\ IsFiniteSet(dom)
  <2>1. IsFiniteSet(dom) /\ Cardinality(dom) = Len(Plan[i])
    BY <1>3, FS_Interval
  <2> QED
    BY <2>1, CommandPlanAssumption
<1>7. Plan[i] \in Injection(dom, TasksOf(i))
  BY <1>5, <1>6, FS_SurjSameCardinalityImpliesInj
<1>8. \A k \in dom : Plan[i][k] \in Tasks /\ IterationOf[Plan[i][k]] = i
  BY <1>4 DEF TasksOf
<1>9. \A j, k \in dom : Plan[i][j] = Plan[i][k] => j = k
  BY <1>7 DEF Injection, IsInjective
<1>10. \A t \in TasksOf(i) : \E k \in dom : Plan[i][k] = t
  BY <1>4
<1> QED
  BY <1>2, <1>8, <1>9, <1>10

(* The pool's order, in every reachable state.                             *)
LEMMA OrderFacts ==
  ASSUME PoolTypes, PlaceInv
  PROVE  /\ Len(order) \in Nat
         /\ \A k \in 1..Len(order) : order[k] \in Tasks
         /\ \A j, k \in 1..Len(order) : order[j] = order[k] => j = k
         /\ main = "waiting" => \A k \in 1..Len(order) : IterationOf[order[k]] = number
<1>0. DOMAIN Plan = 1..Len(Plan) /\ DOMAIN Plan = Iterations
  BY CommandPlanAssumption
<1>1. CASE order = <<>>
  BY <1>1
<1>2. CASE \E i \in Iterations : order = Plan[i]
  <2> PICK i \in Iterations : order = Plan[i]
    BY <1>2
  <2>1. main = "waiting" => \A k \in 1..Len(order) : IterationOf[order[k]] = number
    <3> SUFFICES ASSUME main = "waiting"
                 PROVE  \A k \in 1..Len(order) : IterationOf[order[k]] = number
      OBVIOUS
    <3>1. number \in Iterations /\ order = Plan[number]
      BY <1>0 DEF PlaceInv, InIteration
    <3> QED
      BY <3>1, PlanFacts
  <2>2. Len(order) \in Nat
    BY PlanFacts
  <2>3. \A k \in 1..Len(order) : order[k] \in Tasks
    BY PlanFacts
  <2>4. \A j, k \in 1..Len(order) : order[j] = order[k] => j = k
    BY PlanFacts
  <2> QED
    BY <2>1, <2>2, <2>3, <2>4
<1> QED
  BY <1>1, <1>2 DEF PlaceInv

LEMMA IterationTypes ==
  /\ Iterations = 1..Len(Plan) /\ Len(Plan) \in Nat
  /\ \A t \in Tasks : IterationOf[t] \in Nat
<1>1. Iterations = 1..Len(Plan) /\ Len(Plan) \in Nat
  BY CommandPlanAssumption
<1> QED
  BY <1>1, PlanAssumption

LEMMA HoldingFinite == IsFiniteSet(Pool!HoldingSlot) /\ Cardinality(Pool!HoldingSlot) \in Nat
<1>1. Pool!HoldingSlot \in SUBSET Tasks /\ IsFiniteSet(Tasks)
  BY PlanAssumption DEF Pool!HoldingSlot
<1> QED
  BY <1>1, FS_Subset, FS_CardinalityType

-----------------------------------------------------------------------------
(* The steps of the command other than the call of the pool.               *)
Moves ==
  /\ main' \in Places \ {"waiting"}
  /\ main = "waiting" => loop = "returned"
  /\ \/ number' = number /\ (main' \in BeforeCall => main \in BeforeCall)
     \/ number' = number + 1 /\ main' \notin InIteration
  /\ main' \in InIteration => number' \in 1..Len(Plan)

LEMMA CommandMoves ==
  ASSUME PoolTypes, PlaceInv, CommandStep, ~CallEvaluator
  PROVE  Moves /\ UNCHANGED poolVars
<1> USE DEF Moves, Places, BeforeCall, InIteration, PoolTypes, At
<1>1. CASE StartStream     BY <1>1 DEF StartStream
<1>2. CASE AbandonStream   BY <1>2 DEF AbandonStream
<1>3. CASE LoadCredentials BY <1>3 DEF LoadCredentials
<1>4. CASE EnterExecuting  BY <1>4 DEF EnterExecuting
<1>5. CASE NextIteration
  BY <1>5, IterationTypes DEF NextIteration
<1>6. CASE SetupWorkspace    BY <1>6 DEF SetupWorkspace, PlaceInv
<1>7. CASE OnIterationStart  BY <1>7 DEF OnIterationStart, PlaceInv
<1>8. CASE EvaluatorReturned BY <1>8 DEF EvaluatorReturned, PlaceInv
<1>9. CASE OnIterationComplete BY <1>9 DEF OnIterationComplete, PlaceInv
<1>10. CASE WriteResults    BY <1>10 DEF WriteResults
<1>11. CASE JoinErrors      BY <1>11 DEF JoinErrors
<1>12. CASE ChooseStatus    BY <1>12 DEF ChooseStatus
<1>13. CASE FinishLifecycle BY <1>13 DEF FinishLifecycle
<1>14. CASE CloseStream     BY <1>14 DEF CloseStream
<1>15. CASE Exit            BY <1>15 DEF Exit
<1> QED
  BY <1>1, <1>2, <1>3, <1>4, <1>5, <1>6, <1>7, <1>8, <1>9, <1>10, <1>11, <1>12, <1>13,
     <1>14, <1>15 DEF CommandStep

LEMMA MovesKeep ==
  ASSUME PoolInv, Moves, UNCHANGED poolVars
  PROVE  PoolInv'
<1> USE DEF PoolInv
<1>0. UNCHANGED <<cancelled, loop, order, scheduled, sem, worker, results, evalErr, staleSlot>>
  BY DEF poolVars
<1>1. PoolTypes'
  BY <1>0 DEF PoolTypes, Moves
<1>2. PlaceInv'
  BY <1>0 DEF PlaceInv, Moves
<1>3. FreshInv'
  BY <1>0, IterationTypes DEF FreshInv, Touched, Moves, PoolTypes, BeforeCall, InIteration
<1>4. PrefixInv'
  BY <1>0 DEF PrefixInv, Touched
<1>5. WrittenInv'
  BY <1>0 DEF WrittenInv
<1>6. LoopInv'
  BY <1>0 DEF LoopInv
<1>7. Slots'
  BY <1>0 DEF Slots, Pool!HoldingSlot
<1> QED
  BY <1>1, <1>2, <1>3, <1>4, <1>5, <1>6, <1>7

(* The call: nothing of the iteration was touched before it.               *)
LEMMA CallKeeps ==
  ASSUME PoolInv, CallEvaluator
  PROVE  PoolInv'
<1> USE DEF PoolInv
<1>0. /\ main = "evaluating" /\ main' = "waiting" /\ number' = number
      /\ order' = Plan[number] /\ scheduled' = 0 /\ sem' = 0
      /\ UNCHANGED <<cancelled, worker, results, staleSlot>>
      /\ loop \in {"idle", "returned"}
      /\ loop' \in {"checking", "returned"}
      /\ loop' = "returned" => evalErr' # "none"
  BY DEF CallEvaluator, At, Pool!EvaluatePlan
<1>1. number \in Iterations /\ number \in 1..Len(Plan)
  BY <1>0, IterationTypes DEF PlaceInv, InIteration
<1>2. Plan[number] \in Seq(Tasks) /\ Len(order') \in Nat
  BY <1>0, <1>1, PlanFacts
<1>3. \A k \in 1..Len(order') : ~Touched(order'[k])
  <2> SUFFICES ASSUME NEW k \in 1..Len(order')
               PROVE  ~Touched(order'[k])
    OBVIOUS
  <2>1. order'[k] \in Tasks /\ IterationOf[order'[k]] = number
    BY <1>0, <1>1, PlanFacts
  <2> QED
    BY <2>1, <1>0 DEF FreshInv, BeforeCall, PoolTypes
<1>4. \A t \in Tasks : worker[t] \in {"none", "done"}
  BY <1>0 DEF PrefixInv
<1>5. PoolTypes'
  BY <1>0 DEF PoolTypes, Places, InIteration, Pool!LoopSteps
<1>6. PlaceInv'
  BY <1>0, <1>1 DEF PlaceInv, InIteration
<1>7. FreshInv'
  BY <1>0, IterationTypes DEF FreshInv, Touched, PoolTypes, BeforeCall
<1>8. PrefixInv'
  <2>1. (scheduled <= Len(order))'
    BY <1>0, <1>2
  <2>2. (\A k \in 1..Len(order) : IF k <= scheduled THEN worker[order[k]] # "none"
                                                    ELSE ~Touched(order[k]))'
    BY <1>0, <1>2, <1>3 DEF Touched
  <2> QED
    BY <2>1, <2>2, <1>0, <1>4 DEF PrefixInv
<1>9. WrittenInv'
  BY <1>0 DEF WrittenInv
<1>10. LoopInv'
  BY <1>0 DEF LoopInv
<1>11. Slots'
  <2>1. Pool!HoldingSlot' = {}
    BY <1>0, <1>4 DEF Pool!HoldingSlot
  <2> QED
    BY <2>1, <1>0, FS_EmptySet DEF Slots
<1> QED
  BY <1>5, <1>6, <1>7, <1>8, <1>9, <1>10, <1>11

-----------------------------------------------------------------------------
(* The loop's steps that launch nothing: the semaphore counts the slot it  *)
(* takes or gives back.                                                    *)
LEMMA LoopKeeps ==
  ASSUME PoolInv, UNCHANGED <<main, number>>,
         Pool!CheckContext \/ Pool!AcquireSlot \/ Pool!StopAcquiring \/ Pool!Recheck
  PROVE  PoolInv'
<1> USE DEF PoolInv
<1> USE DEF Pool!CheckContext, Pool!AcquireSlot, Pool!StopAcquiring, Pool!Recheck, Pool!Release
<1>0. /\ UNCHANGED <<main, number, cancelled, order, scheduled, worker, results, evalErr>>
      /\ loop \in {"checking", "acquiring", "rechecking"}
      /\ loop' \in {"waiting", "acquiring", "rechecking", "launching"}
      /\ loop' \in {"acquiring", "rechecking", "launching"} => scheduled < Len(order)
      /\ staleSlot' \in {staleSlot, cancelled}
      /\ loop' = "launching" => ~cancelled
      /\ loop' = "launching" => staleSlot' = staleSlot
      /\ loop' = "waiting" => cancelled \/ scheduled = Len(order)
  BY OrderFacts DEF PoolTypes, PrefixInv
<1>1. PoolTypes'
  BY <1>0 DEF PoolTypes, Pool!LoopSteps
<1>2. PlaceInv'
  BY <1>0 DEF PlaceInv
<1>3. FreshInv'
  BY <1>0 DEF FreshInv, Touched
<1>4. PrefixInv'
  BY <1>0 DEF PrefixInv, Touched
<1>5. WrittenInv'
  BY <1>0 DEF WrittenInv
<1>6. LoopInv'
  BY <1>0 DEF LoopInv
<1>7. Slots'
  <2>1. Pool!HoldingSlot' = Pool!HoldingSlot
    BY <1>0 DEF Pool!HoldingSlot
  <2>2. Cardinality(Pool!HoldingSlot) \in Nat
    BY HoldingFinite
  <2> QED
    BY <2>1, <2>2 DEF Slots
<1> QED
  BY <1>1, <1>2, <1>3, <1>4, <1>5, <1>6, <1>7

LEMMA CancelKeeps ==
  ASSUME PoolInv, UNCHANGED <<main, number>>, Pool!Cancel
  PROVE  PoolInv'
<1> USE DEF PoolInv, Pool!Cancel
<1>1. PoolTypes'
  BY DEF PoolTypes
<1>2. PlaceInv'
  BY DEF PlaceInv
<1>3. FreshInv' /\ PrefixInv' /\ WrittenInv'
  BY DEF FreshInv, PrefixInv, WrittenInv, Touched
<1>4. LoopInv'
  BY DEF LoopInv
<1>5. Slots'
  BY DEF Slots, Pool!HoldingSlot
<1> QED
  BY <1>1, <1>2, <1>3, <1>4, <1>5

(* A launch: the slot in hand becomes the slot of the next task.           *)
LEMMA LaunchKeeps ==
  ASSUME PoolInv, UNCHANGED <<main, number>>, Pool!Launch
  PROVE  PoolInv'
<1> USE DEF PoolInv
<1> DEFINE next == order[scheduled + 1]
<1>0. /\ loop = "launching" /\ loop' = "checking" /\ scheduled' = scheduled + 1
      /\ worker' = [worker EXCEPT ![next] = "launched"]
      /\ UNCHANGED <<main, number, cancelled, order, sem, results, evalErr, staleSlot>>
  BY DEF Pool!Launch
<1>1. scheduled \in Nat /\ scheduled < Len(order) /\ Len(order) \in Nat
  BY <1>0, OrderFacts DEF PrefixInv, PoolTypes
<1>2. scheduled + 1 \in 1..Len(order) /\ next \in Tasks
  BY <1>1, OrderFacts
<1>3. main = "waiting" /\ IterationOf[next] = number
  <2>1. main = "waiting"
    BY <1>0 DEF PlaceInv
  <2> QED
    BY <2>1, <1>2, OrderFacts
<1>4. worker[next] = "none" /\ results[next] = NoResult
  BY <1>1, <1>2 DEF PrefixInv, Touched
<1>5. worker \in [Tasks -> Pool!WorkerSteps]
  BY DEF PoolTypes
<1>6. worker'[next] = "launched" /\ \A t \in Tasks \ {next} : worker'[t] = worker[t]
  BY <1>0, <1>2, <1>5
<1>7. PoolTypes'
  <2>1. worker' \in [Tasks -> Pool!WorkerSteps]
    BY <1>0, <1>2, <1>5 DEF Pool!WorkerSteps
  <2> QED
    BY <2>1, <1>0 DEF PoolTypes, Pool!LoopSteps
<1>8. PlaceInv'
  BY <1>0, <1>3 DEF PlaceInv
<1>9. FreshInv'
  BY <1>0, <1>3, <1>6 DEF FreshInv, Touched, PoolTypes, BeforeCall
<1>10. PrefixInv'
  <2>1. (\A k \in 1..Len(order) : IF k <= scheduled THEN worker[order[k]] # "none"
                                                    ELSE ~Touched(order[k]))'
    <3> SUFFICES ASSUME NEW k \in 1..Len(order)
                 PROVE  IF k <= scheduled + 1 THEN worker'[order[k]] # "none"
                        ELSE worker'[order[k]] = "none" /\ results[order[k]] = NoResult
      BY <1>0 DEF Touched
    <3>1. order[k] \in Tasks /\ (order[k] = next => k = scheduled + 1)
      BY <1>2, OrderFacts
    <3> QED
      BY <3>1, <1>1, <1>6 DEF PrefixInv, Touched
  <2>2. (\A t \in Tasks : worker[t] \notin {"none", "done"}
                            => \E k \in 1..scheduled : order[k] = t)'
    <3> SUFFICES ASSUME NEW t \in Tasks, worker'[t] \notin {"none", "done"}
                 PROVE  \E k \in 1..(scheduled + 1) : order[k] = t
      BY <1>0
    <3>1. CASE t = next
      BY <3>1, <1>1
    <3>2. CASE t # next
      BY <3>2, <1>1, <1>6 DEF PrefixInv
    <3> QED
      BY <3>1, <3>2
  <2> QED
    BY <2>1, <2>2, <1>0, <1>1 DEF PrefixInv
<1>11. WrittenInv'
  BY <1>0, <1>6 DEF WrittenInv
<1>12. LoopInv'
  BY <1>0 DEF LoopInv
<1>13. Slots'
  <2>1. Pool!HoldingSlot' = Pool!HoldingSlot \cup {next} /\ next \notin Pool!HoldingSlot
    BY <1>2, <1>4, <1>6 DEF Pool!HoldingSlot
  <2>2. Cardinality(Pool!HoldingSlot') = Cardinality(Pool!HoldingSlot) + 1
    BY <2>1, HoldingFinite, FS_AddElement
  <2> QED
    BY <2>2, <1>0, HoldingFinite DEF Slots
<1> QED
  BY <1>7, <1>8, <1>9, <1>10, <1>11, <1>12, <1>13

(* The return: the wait group holds every goroutine that still works.      *)
LEMMA ReturnKeeps ==
  ASSUME PoolInv, UNCHANGED <<main, number>>, Pool!ReturnResults
  PROVE  PoolInv'
<1> USE DEF PoolInv
<1>0. /\ loop = "waiting" /\ loop' = "returned"
      /\ \A k \in 1..scheduled : worker[order[k]] = "done"
      /\ evalErr' = "none" => ~cancelled
      /\ UNCHANGED <<main, number, cancelled, order, scheduled, sem, worker, results, staleSlot>>
  BY DEF Pool!ReturnResults, Pool!WaitGroupZero, Pool!ContextError
<1>1. \A t \in Tasks : worker[t] \in {"none", "done"}
  BY <1>0 DEF PrefixInv
<1>2. PoolTypes'
  BY <1>0 DEF PoolTypes, Pool!LoopSteps
<1>3. PlaceInv'
  BY <1>0 DEF PlaceInv
<1>4. FreshInv' /\ WrittenInv'
  BY <1>0 DEF FreshInv, WrittenInv, Touched
<1>5. PrefixInv'
  BY <1>0, <1>1 DEF PrefixInv, Touched
<1>6. LoopInv'
  BY <1>0 DEF LoopInv
<1>7. Slots'
  BY <1>0 DEF Slots, Pool!HoldingSlot
<1> QED
  BY <1>2, <1>3, <1>4, <1>5, <1>6, <1>7

-----------------------------------------------------------------------------
(* A goroutine's step from one of its places to the next: the task was     *)
(* launched, so what was said of the order stays; the result it leaves is  *)
(* written, and the slot is given back exactly when it stops holding it.   *)
LEMMA WorkerKeeps ==
  ASSUME PoolInv, UNCHANGED <<main, number, cancelled, loop, order, scheduled, evalErr, staleSlot>>,
         NEW t \in Tasks, NEW from \in Pool!WorkerSteps \ {"none", "done"},
         NEW to \in Pool!WorkerSteps \ {"none"},
         Pool!WorkerStep(t, from, to),
         \/ results' = results
         \/ \E o \in Outcomes : results' = [results EXCEPT ![t] = o],
         to \in {"reporting", "releasing", "leaving", "done"} => results'[t] # NoResult,
         Slots'
  PROVE  PoolInv'
<1> USE DEF PoolInv
<1>0. worker[t] = from /\ worker' = [worker EXCEPT ![t] = to]
  BY DEF Pool!WorkerStep
<1>1. worker \in [Tasks -> Pool!WorkerSteps] /\ results \in [Tasks -> Outcomes \cup {NoResult}]
  BY DEF PoolTypes
<1>2. worker'[t] = to /\ \A u \in Tasks \ {t} : worker'[u] = worker[u] /\ results'[u] = results[u]
  BY <1>0, <1>1
<1>3. \A u \in Tasks : Touched(u)' => Touched(u)
  BY <1>0, <1>2 DEF Touched
<1>4. PoolTypes'
  <2>1. worker' \in [Tasks -> Pool!WorkerSteps]
    BY <1>0, <1>1
  <2>2. results' \in [Tasks -> Outcomes \cup {NoResult}]
    BY <1>1
  <2> QED
    BY <2>1, <2>2 DEF PoolTypes
<1>5. PlaceInv'
  BY DEF PlaceInv
<1>6. FreshInv'
  BY <1>3 DEF FreshInv
<1>7. PrefixInv'
  <2>1. loop \notin {"idle", "returned"}
    BY <1>0 DEF PrefixInv
  <2>2. \A k \in 1..Len(order) : order[k] \in Tasks
    BY OrderFacts
  <2>3. (\A k \in 1..Len(order) : IF k <= scheduled THEN worker[order[k]] # "none"
                                                    ELSE ~Touched(order[k]))'
    BY <1>2, <1>3, <2>2 DEF PrefixInv
  <2>4. (\A u \in Tasks : worker[u] \notin {"none", "done"}
                            => \E k \in 1..scheduled : order[k] = u)'
    BY <1>0, <1>2 DEF PrefixInv
  <2> QED
    BY <2>1, <2>3, <2>4 DEF PrefixInv
<1>8. WrittenInv'
  BY <1>2 DEF WrittenInv
<1>9. LoopInv'
  BY DEF LoopInv
<1> QED
  BY <1>4, <1>5, <1>6, <1>7, <1>8, <1>9

LEMMA SlotHeld ==
  ASSUME PoolInv, NEW t \in Tasks, NEW from, NEW to, Pool!WorkerStep(t, from, to),
         UNCHANGED <<sem, loop>>,
         from \in {"launched", "running", "reporting", "releasing"}
           <=> to \in {"launched", "running", "reporting", "releasing"}
  PROVE  Slots'
<1>1. Pool!HoldingSlot' = Pool!HoldingSlot
  BY DEF Pool!HoldingSlot, Pool!WorkerStep, PoolInv, PoolTypes
<1> QED
  BY <1>1 DEF Slots, PoolInv

LEMMA SlotReleased ==
  ASSUME PoolInv, NEW t \in Tasks, Pool!WorkerStep(t, "releasing", "leaving"),
         sem' = sem - 1, loop' = loop
  PROVE  Slots'
<1>1. Pool!HoldingSlot' = Pool!HoldingSlot \ {t} /\ t \in Pool!HoldingSlot
  BY DEF Pool!HoldingSlot, Pool!WorkerStep, PoolInv, PoolTypes
<1>2. Cardinality(Pool!HoldingSlot') = Cardinality(Pool!HoldingSlot) - 1
  BY <1>1, HoldingFinite, FS_RemoveElement
<1> QED
  BY <1>2, HoldingFinite DEF Slots, PoolInv

LEMMA TaskKeeps ==
  ASSUME PoolInv, UNCHANGED <<main, number>>, NEW t \in Tasks,
         Pool!TaskStarts(t) \/ Pool!TaskCompletes(t) \/ Pool!WorkerWork(t)
  PROVE  PoolInv'
<1> USE DEF Pool!WorkerSteps
<1>0. \A u \in Tasks : worker[u] \in {"reporting", "releasing", "leaving"} => results[u] # NoResult
  BY DEF PoolInv, WrittenInv
<1>1. CASE Pool!TaskStarts(t)
  <2>1. Slots'
    BY <1>1, SlotHeld DEF Pool!TaskStarts
  <2> QED
    BY <1>1, <2>1, WorkerKeeps DEF Pool!TaskStarts
<1>2. CASE Pool!ExecuteCase(t)
  <2>1. Slots'
    BY <1>2, SlotHeld DEF Pool!ExecuteCase
  <2>2. results'[t] # NoResult
    BY <1>2, CommandPlanAssumption DEF Pool!ExecuteCase, PoolInv, PoolTypes
  <2> QED
    BY <1>2, <2>1, <2>2, WorkerKeeps DEF Pool!ExecuteCase
<1>3. CASE Pool!TaskCompletes(t)
  <2>1. Slots' /\ results'[t] # NoResult
    BY <1>0, <1>3, SlotHeld DEF Pool!TaskCompletes, Pool!WorkerStep
  <2> QED
    BY <1>3, <2>1, WorkerKeeps DEF Pool!TaskCompletes
<1>4. CASE Pool!ReleaseSlot(t)
  <2>1. Slots' /\ results'[t] # NoResult
    BY <1>0, <1>4, SlotReleased DEF Pool!ReleaseSlot, Pool!Release, Pool!WorkerStep
  <2> QED
    BY <1>4, <2>1, WorkerKeeps DEF Pool!ReleaseSlot
<1>5. CASE Pool!WorkerDone(t)
  <2>1. Slots' /\ results'[t] # NoResult
    BY <1>0, <1>5, SlotHeld DEF Pool!WorkerDone, Pool!WorkerStep
  <2> QED
    BY <1>5, <2>1, WorkerKeeps DEF Pool!WorkerDone
<1> QED
  BY <1>1, <1>2, <1>3, <1>4, <1>5 DEF Pool!WorkerWork

-----------------------------------------------------------------------------
LEMMA PoolInvInit == CommandInit => PoolInv
<1> SUFFICES ASSUME CommandInit
             PROVE  PoolInv
  OBVIOUS
<1>0. /\ cancelled = FALSE /\ loop = "idle" /\ order = <<>> /\ scheduled = 0 /\ sem = 0
      /\ worker = [t \in Tasks |-> "none"] /\ results = [t \in Tasks |-> NoResult]
      /\ evalErr = "none" /\ staleSlot = FALSE /\ main = "starting" /\ number = 1
  BY DEF CommandInit, Pool!Init
<1>1. PoolTypes
  <2>1. worker \in [Tasks -> Pool!WorkerSteps]
    BY <1>0 DEF Pool!WorkerSteps
  <2>2. results \in [Tasks -> Outcomes \cup {NoResult}]
    BY <1>0
  <2>3. loop \in Pool!LoopSteps /\ main \in Places
    BY <1>0 DEF Places, BeforeCall, Pool!LoopSteps
  <2>4. cancelled \in BOOLEAN /\ staleSlot \in BOOLEAN
    BY <1>0
  <2>5. scheduled \in Nat /\ number \in Nat \ {0}
    BY <1>0
  <2> QED
    BY <2>1, <2>2, <2>3, <2>4, <2>5 DEF PoolTypes
<1>2. PlaceInv /\ FreshInv
  BY <1>0 DEF PlaceInv, FreshInv, Touched, InIteration
<1>3. PrefixInv
  BY <1>0 DEF PrefixInv, Touched
<1>4. WrittenInv /\ LoopInv
  BY <1>0 DEF WrittenInv, LoopInv
<1>5. Slots
  <2>1. Pool!HoldingSlot = {}
    BY <1>0 DEF Pool!HoldingSlot
  <2> QED
    BY <2>1, <1>0, FS_EmptySet DEF Slots
<1> QED
  BY <1>1, <1>2, <1>3, <1>4, <1>5 DEF PoolInv

LEMMA PoolInvStep == PoolInv /\ [CommandNext]_vars => PoolInv'
<1> SUFFICES ASSUME PoolInv, [CommandNext]_vars
             PROVE  PoolInv'
  OBVIOUS
<1>1. CASE CommandStep
  BY <1>1, CommandMoves, MovesKeep, CallKeeps DEF PoolInv
<1>2. CASE PoolStep
  BY <1>2, LoopKeeps, LaunchKeeps, ReturnKeeps DEF PoolStep, Pool!LoopStep, commandVars
<1>3. CASE Beat \/ UNCHANGED vars
  <2>1. UNCHANGED <<poolVars, main, number>>
    BY <1>3 DEF Beat, vars, commandVars
  <2> QED
    BY <2>1 DEF PoolInv, PoolTypes, PlaceInv, FreshInv, PrefixInv, WrittenInv, LoopInv, Slots,
                Touched, poolVars, Pool!HoldingSlot
<1>4. ASSUME NEW t \in Tasks, TaskStep(t)
      PROVE  PoolInv'
  <2>1. /\ UNCHANGED <<main, number>>
        /\ Pool!TaskStarts(t) \/ Pool!TaskCompletes(t) \/ Pool!WorkerWork(t)
    BY <1>4 DEF TaskStep, OnTaskStart, OnTaskComplete, commandVars
  <2> QED
    BY <2>1, TaskKeeps
<1>5. CASE Signal
  BY <1>5, CancelKeeps DEF Signal, commandVars
<1> QED
  BY <1>1, <1>2, <1>3, <1>4, <1>5 DEF CommandNext

(* The inductive invariant of the pool inside the command.                 *)
THEOREM PoolInvCorrect == CommandSpec => []PoolInv
<1> QED
  BY PoolInvInit, PoolInvStep, PTL DEF CommandSpec

(* For every plan, number of tasks and concurrency, with a cancellation    *)
(* between any two steps: the semaphore counts the goroutines that hold a  *)
(* slot, what EvaluatePlan returns is complete and settled, a slot taken   *)
(* after the cancellation launches nothing, and a nil error means that all *)
(* tasks ran.                                                              *)
THEOREM PoolIsSoundCorrect == CommandSpec => []PoolIsSound
<1>1. PoolInv => PoolIsSound
  <2> SUFFICES ASSUME PoolInv
               PROVE  PoolIsSound
    OBVIOUS
  <2> USE DEF PoolInv
  <2>1. Pool!SlotsAccounted
    BY DEF Slots, Pool!SlotsAccounted, Cardinality, Pool!Cardinality
  <2>2. Pool!ResultsSettled
    <3> SUFFICES ASSUME loop = "returned", NEW k \in DOMAIN order
                 PROVE  IF k <= scheduled
                        THEN worker[order[k]] = "done" /\ results[order[k]] # NoResult
                        ELSE worker[order[k]] = "none" /\ results[order[k]] = NoResult
      BY DEF Pool!ResultsSettled
    <3>1. DOMAIN order = 1..Len(order)
      BY IterationTypes, PlanFacts DEF PlaceInv
    <3>2. order[k] \in Tasks /\ worker[order[k]] \in {"none", "done"}
      BY <3>1, OrderFacts DEF PrefixInv
    <3> QED
      BY <3>1, <3>2 DEF PrefixInv, WrittenInv, Touched
  <2>3. Pool!NoLaunchOnStaleSlot
    BY DEF LoopInv, Pool!NoLaunchOnStaleSlot
  <2>4. Pool!NilErrorMeansAllRan
    BY DEF LoopInv, Pool!NilErrorMeansAllRan
  <2> QED
    BY <2>1, <2>2, <2>3, <2>4 DEF PoolIsSound
<1> QED
  BY <1>1, PoolInvCorrect, PTL

-----------------------------------------------------------------------------
(* The command calls the emitter, and nothing else touches it.  Finish is  *)
(* called only after Start, with a run status; a completion carries the    *)
(* status the task left in its slot; an iteration is one of the plan.      *)
StartedInv == main # "starting" => started

LEMMA StartedStays ==
  ASSUME [Next]_lifecycleVars
  PROVE  started => started'
<1>1. ASSUME NEW ok \in BOOLEAN,
             \/ Start(ok)
             \/ \E ph \in RunPhases : SetPhase(ph, ok)
             \/ \E i \in Iterations : IterationStarted(i, ok) \/ IterationCompleted(i, ok)
      PROVE  started => started'
  BY <1>1 DEF Start, SetPhase, IterationStarted, IterationCompleted, Reject, lifecycleVars,
              stateVars
<1>2. ASSUME NEW ok \in BOOLEAN, NEW t \in Tasks,
             CaseStarted(t, ok) \/ \E s \in Outcomes : CaseCompleted(t, s, ok)
      PROVE  started' = started
  BY <1>2 DEF CaseStarted, CaseCompleted, Reject, lifecycleVars, stateVars
<1>3. ASSUME NEW ok \in BOOLEAN, FinishCommit(ok)
      PROVE  started' = started
  BY <1>3 DEF FinishCommit, stateVars
<1>4. CASE \/ \E ok \in BOOLEAN : ClosePublisher(ok)
           \/ \E s \in RunStatuses : FinishCall(s)
           \/ HeartbeatStep
           \/ UNCHANGED lifecycleVars
  BY <1>4 DEF ClosePublisher, FinishCall, HeartbeatStep, HeartbeatSeesStop, HeartbeatTick,
              Heartbeat, stateVars, lifecycleVars
<1> QED
  BY <1>1, <1>2, <1>3, <1>4 DEF Next

LEMMA CommandStepCalls ==
  ASSUME PoolInv, StartedInv, CommandStep
  PROVE  [Next]_lifecycleVars
<1>1. CASE StartStream     BY <1>1 DEF StartStream, Next
<1>2. CASE AbandonStream   BY <1>2 DEF AbandonStream, Next
<1>3. CASE EnterExecuting  BY <1>3 DEF EnterExecuting, Next, RunPhases
<1>4. CASE OnIterationStart
  <2>1. number \in Iterations
    BY <1>4, IterationTypes DEF OnIterationStart, At, PoolInv, PlaceInv, InIteration
  <2> QED
    BY <1>4, <2>1 DEF OnIterationStart, Next
<1>5. CASE OnIterationComplete
  <2>1. number \in Iterations
    BY <1>5, IterationTypes DEF OnIterationComplete, At, PoolInv, PlaceInv, InIteration
  <2> QED
    BY <1>5, <2>1 DEF OnIterationComplete, Next
<1>6. CASE ChooseStatus
  <2>1. started /\ eventRunStatus \in RunStatuses
    BY <1>6 DEF ChooseStatus, At, StartedInv, eventRunStatus, RunStatuses
  <2> QED
    BY <1>6, <2>1 DEF ChooseStatus, Next
<1>7. CASE FinishLifecycle BY <1>7 DEF FinishLifecycle, Next
<1>8. CASE CloseStream     BY <1>8 DEF CloseStream, Next
<1>9. CASE \/ LoadCredentials \/ NextIteration \/ SetupWorkspace \/ CallEvaluator
           \/ EvaluatorReturned \/ WriteResults \/ JoinErrors \/ Exit
  BY <1>9 DEF LoadCredentials, NextIteration, SetupWorkspace, CallEvaluator, EvaluatorReturned,
              WriteResults, JoinErrors, Exit
<1> QED
  BY <1>1, <1>2, <1>3, <1>4, <1>5, <1>6, <1>7, <1>8, <1>9 DEF CommandStep

LEMMA TaskStepCalls ==
  ASSUME PoolInv, NEW t \in Tasks, TaskStep(t)
  PROVE  [Next]_lifecycleVars
<1>1. CASE OnTaskStart(t)
  BY <1>1 DEF OnTaskStart, Next
<1>2. CASE OnTaskComplete(t)
  <2>1. worker[t] = "reporting"
    BY <1>2 DEF OnTaskComplete, Pool!TaskCompletes, Pool!WorkerStep
  <2>2. results[t] \in Outcomes
    BY <2>1 DEF PoolInv, PoolTypes, WrittenInv
  <2> QED
    BY <1>2, <2>2 DEF OnTaskComplete, Next
<1>3. CASE UNCHANGED lifecycleVars
  BY <1>3
<1> QED
  BY <1>1, <1>2, <1>3 DEF TaskStep

LEMMA CommandCalls ==
  ASSUME PoolInv, StartedInv, [CommandNext]_vars
  PROVE  [Next]_lifecycleVars /\ StartedInv'
<1>1. [Next]_lifecycleVars
  <2>1. CASE CommandStep
    BY <2>1, CommandStepCalls
  <2>2. CASE Beat
    BY <2>2 DEF Beat, Next
  <2>3. CASE \E t \in Tasks : TaskStep(t)
    BY <2>3, TaskStepCalls
  <2>4. CASE PoolStep \/ Signal \/ UNCHANGED vars
    BY <2>4 DEF PoolStep, Signal, vars
  <2> QED
    BY <2>1, <2>2, <2>3, <2>4 DEF CommandNext
<1>2. main = "starting" => main' = "starting" \/ started'
  <2> SUFFICES ASSUME main = "starting", main' # "starting"
               PROVE  started'
    OBVIOUS
  <2>1. CommandStep
    BY DEF CommandNext, vars, commandVars, PoolStep, Beat, Signal, TaskStep, OnTaskStart,
           OnTaskComplete
  <2>2. StartStream
    BY <2>1 DEF CommandStep, At, AbandonStream, LoadCredentials, EnterExecuting, NextIteration,
                SetupWorkspace, OnIterationStart, CallEvaluator, EvaluatorReturned,
                OnIterationComplete, WriteResults, JoinErrors, ChooseStatus, FinishLifecycle,
                CloseStream, Exit
  <2> QED
    BY <2>2 DEF StartStream, Start, Reject, lifecycleVars, stateVars
<1> QED
  BY <1>1, <1>2, StartedStays DEF StartedInv

(* The command is one of the environments the emitter was specified for:   *)
(* every behaviour of the command is one of Lifecycle.                     *)
THEOREM CommandUsesLifecycle == CommandSpec => Spec
<1>1. CommandInit => Init /\ StartedInv
  BY DEF CommandInit, StartedInv
<1>2. PoolInv /\ StartedInv /\ [CommandNext]_vars => StartedInv' /\ [Next]_lifecycleVars
  BY CommandCalls
<1> QED
  BY <1>1, <1>2, PoolInvCorrect, PTL DEF CommandSpec, Spec

(* So what holds of the emitter under any calls holds inside the command:  *)
(* whatever is cancelled or fails, its counters and its running set are    *)
(* true, every snapshot is valid, no heartbeat outlives Finish, nothing    *)
(* follows it, and the file keeps the reader's contract.                   *)
THEOREM CommandLogCorrect ==
  CommandSpec => /\ [](CountersAgree /\ RunningAgrees /\ SnapshotsAreValid)
                 /\ [](HeartbeatJoined /\ LogIsSound)
                 /\ FinishedIsFinal /\ Monotone
BY CommandUsesLifecycle, CountersCorrect, RunningCorrect, SnapshotsCorrect,
   HeartbeatJoinedCorrect, LogIsSoundCorrect, FinishedIsFinalCorrect, MonotoneCorrect, PTL

-----------------------------------------------------------------------------
(* What the exit status of the command is worth, for every plan, outcome   *)
(* of the tasks, sink fault and moment of a signal: a command that reports *)
(* success ran everything it planned and delivered the log it was asked    *)
(* for.                                                                    *)

(* Iterations behind the runner are done, and the one that is being        *)
(* completed too.                                                          *)
Behind(t) == \/ IterationOf[t] < number
             \/ IterationOf[t] = number /\ main \in {"completing", "writing"}
DoneInv == \A t \in Tasks : Behind(t) => worker[t] = "done"

(* Until an error drops them, their results are kept.                      *)
ReportInv ==
  invocationErr = "none" =>
    \A t \in Tasks : \/ IterationOf[t] < number
                     \/ IterationOf[t] = number /\ main = "writing"
                     => t \in reported

(* Without an error the loop is left only at its end.                      *)
Ending == {"joining", "choosing", "finishing", "closing", "exiting"}
EndInv == main \in Ending /\ invocationErr = "none" => number > Len(Plan)

(* What a clean Finish and Close leave behind, until the command exits.    *)
FinishInv ==
  /\ finishErr \in BOOLEAN
  /\ main \in {"closing", "exiting"} /\ ~finishErr => finished /\ pub.finalized
  /\ main = "exiting" /\ ~finishErr => pub.err = {}

OutcomeInv == DoneInv /\ ReportInv /\ EndInv /\ FinishInv /\ SuccessIsDeserved

-----------------------------------------------------------------------------
(* A step that leaves the results alone keeps the invariant, unless it     *)
(* completes an iteration or comes near the end of the command.            *)
LEMMA PlainStep ==
  ASSUME OutcomeInv, UNCHANGED <<number, worker, reported, finishErr>>,
         main' \notin {"completing", "writing", "closing", "exiting"},
         invocationErr' = "none" => invocationErr = "none",
         main' \in Ending /\ invocationErr' = "none" => number > Len(Plan),
         exit' # "success"
  PROVE  OutcomeInv'
<1> USE DEF OutcomeInv
<1>1. DoneInv'
  BY DEF DoneInv, Behind
<1>2. ReportInv'
  BY DEF ReportInv
<1>3. EndInv'
  BY DEF EndInv
<1>4. FinishInv'
  BY DEF FinishInv
<1>5. SuccessIsDeserved'
  BY DEF SuccessIsDeserved
<1> QED
  BY <1>1, <1>2, <1>3, <1>4, <1>5

LEMMA EarlySteps ==
  ASSUME PoolInv, OutcomeInv, exit = "none",
         \/ StartStream \/ AbandonStream \/ LoadCredentials \/ EnterExecuting \/ NextIteration
         \/ SetupWorkspace \/ OnIterationStart \/ CallEvaluator \/ ChooseStatus
  PROVE  OutcomeInv'
<1> DEFINE Plain == /\ UNCHANGED <<number, worker, reported, finishErr>>
                    /\ main' \notin {"completing", "writing", "closing", "exiting"}
                    /\ invocationErr' = "none" => invocationErr = "none"
                    /\ main' \in Ending /\ invocationErr' = "none" => number > Len(Plan)
                    /\ exit' # "success"
<1>1. Plain
  <2> USE DEF At, Ending, poolVars
  <2>1. CASE StartStream      BY <2>1 DEF StartStream
  <2>2. CASE AbandonStream    BY <2>2 DEF AbandonStream
  <2>3. CASE LoadCredentials  BY <2>3 DEF LoadCredentials
  <2>4. CASE EnterExecuting   BY <2>4 DEF EnterExecuting
  <2>5. CASE NextIteration    BY <2>5 DEF NextIteration
  <2>6. CASE SetupWorkspace   BY <2>6 DEF SetupWorkspace
  <2>7. CASE OnIterationStart BY <2>7 DEF OnIterationStart
  <2>8. CASE CallEvaluator    BY <2>8 DEF CallEvaluator, Pool!EvaluatePlan
  <2>9. CASE ChooseStatus     BY <2>9 DEF ChooseStatus, OutcomeInv, EndInv
  <2> QED
    BY <2>1, <2>2, <2>3, <2>4, <2>5, <2>6, <2>7, <2>8, <2>9
<1> QED
  BY <1>1, PlainStep

(* The evaluator's nil error means that the whole iteration is done.       *)
LEMMA ReturnedSteps ==
  ASSUME PoolInv, OutcomeInv, exit = "none", EvaluatorReturned
  PROVE  OutcomeInv'
<1>0. /\ main = "waiting" /\ loop = "returned"
      /\ UNCHANGED <<poolVars, number, reported, finishErr, exit>>
      /\ \/ evalErr = "none" /\ main' = "completing" /\ invocationErr' = invocationErr
         \/ main' = "joining" /\ invocationErr' # "none"
  BY DEF EvaluatorReturned
<1>1. CASE main' = "joining" /\ invocationErr' # "none"
  BY <1>0, <1>1, PlainStep DEF poolVars, Ending
<1>2. CASE evalErr = "none" /\ main' = "completing" /\ invocationErr' = invocationErr
  <2>1. number \in Iterations /\ order = Plan[number]
    BY <1>0, IterationTypes DEF PoolInv, PlaceInv, InIteration
  <2>2. \A t \in TasksOf(number) : worker[t] = "done"
    <3> SUFFICES ASSUME NEW t \in TasksOf(number)
                 PROVE  worker[t] = "done"
      OBVIOUS
    <3>1. PICK k \in 1..Len(order) : order[k] = t
      BY <2>1, PlanFacts
    <3>2. scheduled = Len(order)
      BY <1>0, <1>2 DEF PoolInv, LoopInv
    <3>3. worker[t] # "none"
      BY <3>1, <3>2 DEF PoolInv, PrefixInv
    <3> QED
      BY <1>0, <3>3 DEF PoolInv, PrefixInv, TasksOf
  <2>3. DoneInv'
    BY <1>0, <1>2, <2>2 DEF poolVars, OutcomeInv, DoneInv, Behind, TasksOf
  <2>4. ReportInv' /\ EndInv' /\ FinishInv' /\ SuccessIsDeserved'
    BY <1>0, <1>2 DEF OutcomeInv, ReportInv, EndInv, Ending, FinishInv, SuccessIsDeserved
  <2> QED
    BY <2>3, <2>4 DEF OutcomeInv
<1> QED
  BY <1>0, <1>1, <1>2

LEMMA IterationSteps ==
  ASSUME PoolInv, OutcomeInv, exit = "none", OnIterationComplete \/ WriteResults \/ JoinErrors
  PROVE  OutcomeInv'
<1> USE DEF OutcomeInv, At
<1>1. UNCHANGED <<worker, finishErr, exit>>
  BY DEF OnIterationComplete, WriteResults, JoinErrors, poolVars
<1>2. CASE OnIterationComplete
  <2>1. /\ main = "completing" /\ main' = "writing" /\ reported' = reported \cup TasksOf(number)
        /\ UNCHANGED <<number, invocationErr>>
    BY <1>2 DEF OnIterationComplete
  <2>2. DoneInv'
    BY <1>1, <2>1 DEF DoneInv, Behind
  <2>3. ReportInv'
    BY <2>1 DEF ReportInv, TasksOf
  <2> QED
    BY <1>1, <2>1, <2>2, <2>3 DEF EndInv, Ending, FinishInv, SuccessIsDeserved
<1>3. CASE WriteResults
  <2>1. /\ main = "writing" /\ main' = "iterating" /\ number' = number + 1
        /\ UNCHANGED <<reported, invocationErr>>
    BY <1>3 DEF WriteResults
  <2>2. \A t \in Tasks : IterationOf[t] < number + 1
                           => IterationOf[t] < number \/ IterationOf[t] = number
    BY IterationTypes DEF PoolInv, PoolTypes
  <2>3. DoneInv' /\ ReportInv'
    BY <1>1, <2>1, <2>2 DEF DoneInv, Behind, ReportInv
  <2> QED
    BY <1>1, <2>1, <2>3 DEF EndInv, Ending, FinishInv, SuccessIsDeserved
<1>4. CASE JoinErrors
  <2>1. /\ main = "joining" /\ main' = "choosing" /\ number' = number
        /\ invocationErr' = "none" => invocationErr = "none" /\ reported' = reported
    BY <1>4 DEF JoinErrors
  <2>2. DoneInv' /\ ReportInv'
    BY <1>1, <2>1 DEF DoneInv, Behind, ReportInv
  <2> QED
    BY <1>1, <2>1, <2>2 DEF EndInv, Ending, FinishInv, SuccessIsDeserved
<1> QED
  BY <1>2, <1>3, <1>4

-----------------------------------------------------------------------------
(* Finish returned nil: run_finished is in the file as its final record.   *)
LEMMA LastPublished ==
  ASSUME NEW p \in PubState, NEW payload, NEW io \in P!WriteOutcomes, P!Published(p, payload, io)
  PROVE  P!PublishEvent(p, payload, TRUE, io).finalized
<1> DEFINE appended == [p EXCEPT !.log = Append(@, [sequence |-> p.nextSequence,
                                                    lastEvent |-> TRUE, payload |-> payload])]
<1>1. P!PublishEvent(p, payload, TRUE, io)
        = [appended EXCEPT !.nextSequence = @ + 1, !.finalized = TRUE]
  BY DEF P!PublishEvent, P!Published
<1>2. DOMAIN p = {"log", "torn", "nextSequence", "finalized", "closed", "err"}
  BY DEF PubState, PP!PublisherState
<1>3. DOMAIN appended = DOMAIN p
  OBVIOUS
<1> HIDE DEF appended
<1> QED
  BY <1>1, <1>2, <1>3

LEMMA CleanFinish ==
  ASSUME SoundLog(pub), FinishCommit(TRUE)
  PROVE  finished' /\ pub'.finalized
<1>1. PICK io1 \in P!WriteOutcomes, io2 \in P!WriteOutcomes :
        \E progress, last :
          /\ finished' = TRUE
          /\ P!Published(P!PublishEvent(pub, progress, FALSE, io1), last, io2)
          /\ pub' = P!PublishEvent(P!PublishEvent(pub, progress, FALSE, io1), last, TRUE, io2)
  BY DEF FinishCommit
<1>2. PICK progress, last :
          /\ finished' = TRUE
          /\ P!Published(P!PublishEvent(pub, progress, FALSE, io1), last, io2)
          /\ pub' = P!PublishEvent(P!PublishEvent(pub, progress, FALSE, io1), last, TRUE, io2)
  BY <1>1
<1>3. P!PublishEvent(pub, progress, FALSE, io1) \in PubState
  BY PublishEventType DEF SoundLog, PP!Sound, PubState
<1> QED
  BY <1>2, <1>3, LastPublished

LEMMA LateSteps ==
  ASSUME PoolInv, OutcomeInv, SoundLog(pub), exit = "none", FinishLifecycle \/ CloseStream \/ Exit
  PROVE  OutcomeInv'
<1> USE DEF OutcomeInv, At
<1>1. /\ UNCHANGED <<number, worker, results, reported, invocationErr>>
      /\ main' \notin {"completing", "writing"} /\ main \in Ending
  BY DEF FinishLifecycle, CloseStream, Exit, poolVars, Ending
<1>2. DoneInv'
  BY <1>1 DEF DoneInv, Behind
<1>3. ReportInv' /\ EndInv'
  BY <1>1 DEF ReportInv, EndInv, Ending
<1>4. CASE FinishLifecycle
  <2> PICK ok \in BOOLEAN : /\ FinishCommit(ok) /\ finishErr' = ~ok
                            /\ main' = "closing" /\ exit' = exit
    BY <1>4 DEF FinishLifecycle
  <2>1. ok => finished' /\ pub'.finalized
    BY CleanFinish
  <2>2. FinishInv'
    BY <2>1 DEF FinishInv
  <2> QED
    BY <1>2, <1>3, <2>2 DEF SuccessIsDeserved
<1>5. CASE CloseStream
  <2> PICK ok \in BOOLEAN : /\ ClosePublisher(ok) /\ finishErr' = (finishErr \/ pub'.err # {})
                            /\ main = "closing" /\ main' = "exiting" /\ exit' = exit
    BY <1>5 DEF CloseStream
  <2>1. pub'.finalized = pub.finalized /\ finished' = finished
    BY DEF ClosePublisher, P!ClosePublisher, SoundLog, PP!Sound, PP!PublisherState, stateVars
  <2>2. FinishInv'
    BY <2>1 DEF FinishInv
  <2> QED
    BY <1>2, <1>3, <2>2 DEF SuccessIsDeserved
<1>6. CASE Exit
  <2>1. /\ main = "exiting" /\ main' = "exited" /\ pub' = pub /\ finishErr' = finishErr
        /\ exit' = "success" => ~CommandFails
    BY <1>6 DEF Exit, lifecycleVars
  <2>2. FinishInv'
    BY <2>1 DEF FinishInv
  <2>3. SuccessIsDeserved'
    <3> SUFFICES ASSUME ~CommandFails
                 PROVE  /\ \A t \in Tasks : results[t] # NoResult
                        /\ \A t \in Tasks \ Baseline : results[t] \in {"PASS", "SKIP"}
                        /\ pub.finalized /\ pub.err = {}
      BY <1>1, <2>1 DEF SuccessIsDeserved
    <3>1. /\ invocationErr = "none" /\ ~finishErr
          /\ \A t \in reported \ Baseline : results[t] \notin {"FAIL", "ERROR"}
      BY DEF CommandFails
    <3>2. number > Len(Plan)
      BY <2>1, <3>1 DEF EndInv, Ending
    <3>3. \A t \in Tasks : IterationOf[t] < number
      BY <3>2, IterationTypes, PlanAssumption DEF PoolInv, PoolTypes
    <3>4. \A t \in Tasks : t \in reported /\ worker[t] = "done"
      BY <3>1, <3>3 DEF ReportInv, DoneInv, Behind
    <3>5. \A t \in Tasks : results[t] \in {"PASS", "FAIL", "ERROR", "SKIP"} /\ results[t] # NoResult
      BY <3>4, PlanAssumption DEF PoolInv, PoolTypes, WrittenInv
    <3> QED
      BY <2>1, <3>1, <3>4, <3>5 DEF FinishInv
  <2> QED
    BY <1>2, <1>3, <2>2, <2>3
<1> QED
  BY <1>4, <1>5, <1>6

-----------------------------------------------------------------------------
(* The goroutines beside the command: tasks run only while the runner      *)
(* waits for the pool, and a heartbeat that comes after Finish publishes   *)
(* nothing.                                                                *)
LEMMA FrameStep ==
  ASSUME OutcomeInv, UNCHANGED <<main, number, reported, invocationErr, finishErr, exit>>,
         exit = "none",
         \A t \in Tasks : worker[t] = "done" => worker'[t] = "done",
         main \in {"closing", "exiting"} /\ finished => pub' = pub /\ finished' = finished
  PROVE  OutcomeInv'
BY DEF OutcomeInv, DoneInv, Behind, ReportInv, EndInv, FinishInv, SuccessIsDeserved

LEMMA PoolSteps ==
  ASSUME PoolInv, OutcomeInv, exit = "none", PoolStep \/ Signal
  PROVE  OutcomeInv'
<1>1. UNCHANGED <<lifecycleVars, commandVars>>
  BY DEF PoolStep, Signal
<1>2. ASSUME NEW t \in Tasks, worker[t] = "done" PROVE worker'[t] = "done"
  <2>1. CASE Pool!Launch
    <3>1. scheduled + 1 \in 1..Len(order) /\ scheduled \in Nat
      BY <2>1, OrderFacts DEF Pool!Launch, PoolInv, PrefixInv, PoolTypes
    <3>2. worker[order[scheduled + 1]] = "none"
      BY <3>1 DEF PoolInv, PrefixInv, Touched
    <3> QED
      BY <1>2, <2>1, <3>2 DEF Pool!Launch, PoolInv, PoolTypes
  <2>2. CASE worker' = worker
    BY <1>2, <2>2
  <2> QED
    BY <2>1, <2>2 DEF PoolStep, Signal, Pool!LoopStep, Pool!CheckContext, Pool!AcquireSlot,
                      Pool!StopAcquiring, Pool!Recheck, Pool!ReturnResults, Pool!Cancel
<1> QED
  BY <1>1, <1>2, FrameStep DEF commandVars, lifecycleVars, stateVars

LEMMA TaskSteps ==
  ASSUME PoolInv, OutcomeInv, exit = "none", NEW t \in Tasks, TaskStep(t)
  PROVE  OutcomeInv'
<1>1. PICK from \in {"launched", "running", "reporting", "releasing", "leaving"},
           to \in Pool!WorkerSteps : Pool!WorkerStep(t, from, to)
  BY DEF TaskStep, OnTaskStart, OnTaskComplete, Pool!WorkerWork, Pool!TaskStarts,
         Pool!TaskCompletes, Pool!ExecuteCase, Pool!ReleaseSlot, Pool!WorkerDone, Pool!WorkerSteps
<1>2. UNCHANGED <<main, number, reported, invocationErr, finishErr, exit>>
  BY DEF TaskStep, OnTaskStart, OnTaskComplete, commandVars
<1>3. main = "waiting"
  BY <1>1 DEF Pool!WorkerStep, PoolInv, PlaceInv, PrefixInv
<1>4. \A u \in Tasks : worker[u] = "done" => worker'[u] = "done"
  BY <1>1 DEF Pool!WorkerStep, PoolInv, PoolTypes
<1> QED
  BY <1>2, <1>3, <1>4, FrameStep

LEMMA BeatSteps ==
  ASSUME PoolInv, OutcomeInv, exit = "none", Beat
  PROVE  OutcomeInv'
<1>1. UNCHANGED <<poolVars, commandVars>> /\ HeartbeatStep
  BY DEF Beat
<1>2. finished' = finished /\ (finished => pub' = pub)
  BY <1>1 DEF HeartbeatStep, HeartbeatSeesStop, HeartbeatTick, Heartbeat, Active, stateVars
<1> QED
  BY <1>1, <1>2, FrameStep DEF poolVars, commandVars

LEMMA OutcomeStep ==
  ASSUME PoolInv, SoundLog(pub), OutcomeInv, [CommandNext]_vars
  PROVE  OutcomeInv'
<1>1. CASE exit = "none" /\ CommandStep
  BY <1>1, EarlySteps, ReturnedSteps, IterationSteps, LateSteps DEF CommandStep
<1>2. CASE exit = "none" /\ (PoolStep \/ Signal)
  BY <1>2, PoolSteps
<1>3. CASE exit = "none" /\ \E t \in Tasks : TaskStep(t)
  BY <1>3, TaskSteps
<1>4. CASE exit = "none" /\ Beat
  BY <1>4, BeatSteps
<1>5. CASE UNCHANGED vars
  BY <1>5 DEF vars, poolVars, commandVars, lifecycleVars, stateVars, OutcomeInv, DoneInv, Behind,
              ReportInv, EndInv, FinishInv, SuccessIsDeserved
<1> QED
  BY <1>1, <1>2, <1>3, <1>4, <1>5 DEF CommandNext, Signal

THEOREM OutcomeInvCorrect == CommandSpec => []OutcomeInv
<1>1. CommandInit => OutcomeInv
  <2> SUFFICES ASSUME CommandInit PROVE OutcomeInv
    OBVIOUS
  <2>1. /\ main = "starting" /\ number = 1 /\ exit = "none" /\ finishErr = FALSE
    BY DEF CommandInit
  <2>2. \A t \in Tasks : ~(IterationOf[t] < 1)
    BY IterationTypes, PlanAssumption
  <2> QED
    BY <2>1, <2>2 DEF OutcomeInv, DoneInv, Behind, ReportInv, EndInv, Ending, FinishInv,
                      SuccessIsDeserved
<1>2. PoolInv /\ SoundLog(pub) /\ OutcomeInv /\ [CommandNext]_vars => OutcomeInv'
  BY OutcomeStep
<1> QED
  BY <1>1, <1>2, PoolInvCorrect, CommandUsesLifecycle, SoundLogCorrect, PTL DEF CommandSpec

(* A command that exits with success has a result for every planned task,  *)
(* none of them but a baseline's a failure, and a log that reached its     *)
(* final record without an error: for every plan, concurrency and sink,    *)
(* wherever a signal, a failed call or a full disk came in between.        *)
THEOREM SuccessIsDeservedCorrect == CommandSpec => []SuccessIsDeserved
BY OutcomeInvCorrect, PTL DEF OutcomeInv

-----------------------------------------------------------------------------
(* The calls the command makes.  The emitter's phase, iterations and tasks *)
(* follow the runner and the goroutines, so it accepts every call; and the *)
(* counters it closes with are those of the results.                       *)

(* How far the command is with the log.                                    *)
Finishing == {"finishing", "closing", "exiting", "exited"}
Announced == {"evaluating", "waiting", "completing", "writing"}
Unannounced == BeforeCall \ {"evaluating"}

(* The emitter is in the phase the command put it in, and its stream open. *)
RunInv ==
  /\ main = "starting" => ~started
  /\ main \in {"loading", "executing"} => phase = "preparing"
  /\ main \in InIteration \cup {"iterating"} => phase = "executing"
  /\ main \notin {"abandoning", "closing", "exiting", "exited"} => ~finished
  /\ main \notin {"exiting", "exited"} => ~pub.closed
  /\ "close" \in pub.err => pub.closed

(* The emitter's iterations follow the runner, its tasks the goroutines.   *)
FlagInv ==
  /\ \A i \in Iterations :
       /\ (i < number \/ (i = number /\ main \in Announced)) => iteration[i].started
       /\ iteration[i].started => (i < number \/ (i = number /\ main \notin Unannounced))
       /\ iteration[i].completed <=> (i < number \/ (i = number /\ main = "writing"))
  /\ \A t \in Tasks :
       /\ task[t].started <=> worker[t] \notin {"none", "launched"}
       /\ task[t].completed <=> worker[t] \in {"releasing", "leaving", "done"}

(* The counters group the results of the tasks that completed.             *)
ResultInv ==
  /\ reported \subseteq Tasks
  /\ \A s \in CaseStatuses :
       resultCounts[s] = Cardinality({t \in Tasks : task[t].completed /\ results[t] = s})

(* A status of COMPLETED is given to a run that left its loop at its end.  *)
StatusInv ==
  /\ invocationErr \in {"none", "error", "cancelled"}
  /\ evalErr \in {"none", "error", "cancelled"}
  /\ finishing.pc # "idle" /\ finishing.status = "COMPLETED" =>
       main \in Finishing /\ invocationErr = "none" /\ number > Len(Plan)
       /\ Tasks \subseteq reported
  /\ main = "finishing" => finishing.pc = "waiting"

LogInv ==
  /\ adapterErr => "publish" \in pub.err
  /\ main \in {"closing", "exiting"} => finished
  /\ main \in {"closing", "exiting"} /\ "publish" \notin pub.err => pub.finalized

CallInv == RunInv /\ FlagInv /\ ResultInv /\ StatusInv /\ LogInv

-----------------------------------------------------------------------------
(* What a call leaves of the publisher's state: a publication error stays, *)
(* and only Close closes it.                                               *)
Calm(p, q) == /\ q.closed = p.closed
              /\ "publish" \in p.err => "publish" \in q.err
              /\ "close" \in q.err => "close" \in p.err

LEMMA PublishCalm ==
  ASSUME NEW p \in PubState, NEW payload, NEW last \in BOOLEAN, NEW io \in P!WriteOutcomes
  PROVE  Calm(p, P!PublishEvent(p, payload, last, io))
<1> DEFINE appended == [p EXCEPT !.log = Append(@, [sequence |-> p.nextSequence,
                                                    lastEvent |-> last, payload |-> payload])]
<1>1. \/ P!PublishEvent(p, payload, last, io) = p
      \/ /\ p.err = {}
         /\ P!PublishEvent(p, payload, last, io)
              \in {[appended EXCEPT !.nextSequence = @ + 1, !.finalized = last],
                   P!Failed(appended), P!Failed([p EXCEPT !.torn = TRUE]), P!Failed(p)}
  BY DEF P!PublishEvent, P!Accepts
<1>2. /\ appended.closed = p.closed /\ appended.err = p.err
      /\ DOMAIN appended = {"log", "torn", "nextSequence", "finalized", "closed", "err"}
      /\ DOMAIN p = {"log", "torn", "nextSequence", "finalized", "closed", "err"}
  BY DEF PubState, PP!PublisherState
<1>3. Calm(p, p)
  BY DEF Calm
<1>4. ASSUME p.err = {}
      PROVE  /\ Calm(p, [appended EXCEPT !.nextSequence = @ + 1, !.finalized = last])
             /\ Calm(p, P!Failed(appended)) /\ Calm(p, P!Failed(p))
             /\ Calm(p, P!Failed([p EXCEPT !.torn = TRUE]))
  <2> HIDE DEF appended
  <2>1. Calm(p, [appended EXCEPT !.nextSequence = @ + 1, !.finalized = last])
    BY <1>2, <1>4 DEF Calm
  <2>2. Calm(p, P!Failed(appended)) /\ Calm(p, P!Failed(p))
    BY <1>2, <1>4 DEF Calm, P!Failed
  <2>3. Calm(p, P!Failed([p EXCEPT !.torn = TRUE]))
    BY <1>2, <1>4 DEF Calm, P!Failed
  <2> QED
    BY <2>1, <2>2, <2>3
<1> HIDE DEF appended
<1> QED
  BY <1>1, <1>3, <1>4

LEMMA TwoCalm ==
  ASSUME NEW p \in PubState, NEW payload, NEW next, NEW last \in BOOLEAN,
         NEW io1 \in P!WriteOutcomes, NEW io2 \in P!WriteOutcomes
  PROVE  Calm(p, P!PublishEvent(P!PublishEvent(p, payload, FALSE, io1), next, last, io2))
<1> DEFINE first == P!PublishEvent(p, payload, FALSE, io1)
<1>1. first \in PubState /\ Calm(p, first)
  BY PublishEventType, PublishCalm
<1> HIDE DEF first
<1>2. Calm(first, P!PublishEvent(first, next, last, io2))
  BY <1>1, PublishCalm
<1> QED
  BY <1>1, <1>2 DEF Calm, first

LEMMA EmitCalm ==
  ASSUME pub \in PubState, NEW payload, NEW progress, NEW ok,
         Emit(payload, ok) \/ EmitBoth(payload, progress, ok)
  PROVE  Calm(pub, pub')
<1>1. ASSUME NEW io \in P!WriteOutcomes, pub' = P!PublishEvent(pub, payload, FALSE, io)
      PROVE  Calm(pub, pub')
  BY <1>1, PublishCalm
<1>2. ASSUME NEW io1 \in P!WriteOutcomes, NEW io2 \in P!WriteOutcomes,
             pub' = P!PublishEvent(P!PublishEvent(pub, payload, FALSE, io1), progress, FALSE, io2)
      PROVE  Calm(pub, pub')
  BY <1>2, TwoCalm
<1>3. CASE Emit(payload, ok)
  BY <1>1, <1>3 DEF Emit
<1>4. CASE EmitBoth(payload, progress, ok)
  <2>1. PICK io1 \in P!WriteOutcomes, io2 \in P!WriteOutcomes :
           \/ pub' = P!PublishEvent(P!PublishEvent(pub, payload, FALSE, io1), progress, FALSE, io2)
           \/ pub' = P!PublishEvent(pub, payload, FALSE, io1)
    BY <1>4 DEF EmitBoth
  <2> QED
    BY <1>1, <1>2, <2>1
<1> QED
  BY <1>3, <1>4

LEMMA FinishCalm ==
  ASSUME pub \in PubState, NEW ok, FinishCommit(ok)
  PROVE  Calm(pub, pub')
<1>1. CASE pub' = pub
  BY <1>1 DEF Calm
<1>2. ASSUME pub' # pub PROVE Calm(pub, pub')
  <2>1. PICK io1 \in P!WriteOutcomes, io2 \in P!WriteOutcomes :
           \E progress, last :
             pub' = P!PublishEvent(P!PublishEvent(pub, progress, FALSE, io1), last, TRUE, io2)
    BY <1>2 DEF FinishCommit
  <2> QED
    BY <2>1, TwoCalm
<1> QED
  BY <1>1, <1>2

LEMMA BeatCalm ==
  ASSUME pub \in PubState, HeartbeatStep
  PROVE  Calm(pub, pub') /\ (finished => pub' = pub)
<1>1. CASE pub' = pub
  BY <1>1 DEF Calm
<1>2. ASSUME NEW ok, Active, Emit(CurrentProgress, ok) PROVE Calm(pub, pub') /\ ~finished
  BY <1>2, EmitCalm DEF Active
<1> QED
  BY <1>1, <1>2 DEF HeartbeatStep, HeartbeatSeesStop, HeartbeatTick, Heartbeat

LEMMA CloseEffect ==
  ASSUME pub \in PubState, NEW ok, ClosePublisher(ok)
  PROVE  /\ pub'.closed /\ pub'.finalized = pub.finalized
         /\ "publish" \in pub'.err <=> "publish" \in pub.err
BY DEF ClosePublisher, P!ClosePublisher, PubState, PP!PublisherState

-----------------------------------------------------------------------------
(* What the invariants the calls rest on say, by name.                     *)
Held == IInv /\ ProtocolInv /\ PoolInv /\ OutcomeInv /\ StartedInv
Ground == Room /\ Held /\ IInv' /\ ProtocolInv'

LEMMA GroundFacts ==
  ASSUME Ground
  PROVE  /\ Known /\ pub \in PubState /\ pub' \in PubState
         /\ task \in TaskStates /\ iteration \in [Iterations -> IterationStates]
         /\ resultCounts \in ResultCounts
         /\ worker \in [Tasks -> Pool!WorkerSteps]
         /\ results \in [Tasks -> Outcomes \cup {NoResult}]
         /\ number \in Nat \ {0}
<1>1. Known /\ PoolTypes /\ TypeOK /\ TypeOK'
  BY DEF Ground, Held, Known, ProtocolInv, PoolInv, IInv
<1>2. pub \in PubState /\ pub' \in PubState
  BY <1>1, TypeOKParts DEF IOTypeOK
<1> QED
  BY <1>1, <1>2, KnownParts DEF PoolTypes

(* The adapter remembers a failed call.                                    *)
LEMMA RecordKeeps ==
  ASSUME CallInv, pub \in PubState, ~pub.closed, Calm(pub, pub'), NEW ok \in BOOLEAN,
         record(ok), ~Reject(ok), Answered(ok)
  PROVE  adapterErr' => "publish" \in pub'.err
<1>1. pub.err = {} \/ "publish" \in pub.err
  BY DEF CallInv, RunInv, PubState, PP!PublisherState
<1>2. adapterErr => "publish" \in pub'.err
  BY DEF CallInv, LogInv, Calm
<1>3. ok = FALSE => "publish" \in pub'.err
  BY <1>1 DEF Answered, Healthy, Calm
<1> QED
  BY <1>2, <1>3 DEF record

-----------------------------------------------------------------------------
(* What keeps each part of the invariant.                                  *)
LEMMA RunFrame ==
  ASSUME CallInv, UNCHANGED <<phase, started, finished>>, Calm(pub, pub'),
         main' \in InIteration \cup {"iterating", "joining", "choosing", "finishing"},
         main \in InIteration \cup {"iterating", "joining", "choosing", "finishing"},
         main' \in InIteration \cup {"iterating"} => main \in InIteration \cup {"iterating"},
         adapterErr' => "publish" \in pub'.err
  PROVE  RunInv' /\ LogInv'
BY DEF CallInv, RunInv, LogInv, Calm, InIteration

LEMMA FlagMove ==
  ASSUME CallInv, UNCHANGED <<task, iteration, worker, number>>,
         main' = "writing" <=> main = "writing",
         main' \in Announced => main \in Announced,
         main' \in Unannounced => main \in Unannounced
  PROVE  FlagInv'
BY DEF CallInv, FlagInv

LEMMA ResultFrame ==
  ASSUME CallInv, UNCHANGED <<task, results, resultCounts>>, reported' \subseteq Tasks
  PROVE  ResultInv'
BY DEF CallInv, ResultInv

LEMMA StatusFrame ==
  ASSUME CallInv, UNCHANGED <<finishing, evalErr>>,
         invocationErr' \in {"none", "error", "cancelled"},
         main \in Finishing => /\ main' \in Finishing \ {"finishing"}
                               /\ UNCHANGED <<invocationErr, number, reported>>,
         main' # "finishing"
  PROVE  StatusInv'
BY DEF CallInv, StatusInv, Finishing

-----------------------------------------------------------------------------
(* The steps of the command that make no call.                             *)
Quiet == \/ LoadCredentials \/ NextIteration \/ SetupWorkspace \/ CallEvaluator
         \/ EvaluatorReturned \/ WriteResults \/ JoinErrors \/ Exit

LEMMA QuietMoves ==
  ASSUME CallInv, PoolInv, Quiet
  PROVE  /\ UNCHANGED <<lifecycleVars, worker, results, adapterErr>>
         /\ reported' \subseteq Tasks
         /\ invocationErr' \in {"none", "error", "cancelled"}
         /\ \/ main \notin Finishing /\ main' \notin Finishing
            \/ main = "exiting" /\ main' = "exited"
               /\ UNCHANGED <<invocationErr, number, reported, evalErr>>
         /\ main' \in {"loading", "executing"} => main \in {"loading", "executing"}
         /\ main' \in InIteration \cup {"iterating"} => main \in InIteration \cup {"iterating"}
         /\ main' \notin {"starting", "abandoning", "closing", "exiting"}
         /\ main # "abandoning"
<1> USE DEF At, Finishing, InIteration, CallInv
<1>1. CASE LoadCredentials BY <1>1 DEF LoadCredentials, poolVars, StatusInv, ResultInv
<1>2. CASE NextIteration   BY <1>2 DEF NextIteration, poolVars, StatusInv, ResultInv
<1>3. CASE SetupWorkspace  BY <1>3 DEF SetupWorkspace, poolVars, StatusInv, ResultInv
<1>4. CASE CallEvaluator
  BY <1>4 DEF CallEvaluator, Pool!EvaluatePlan, StatusInv, ResultInv
<1>5. CASE EvaluatorReturned
  BY <1>5 DEF EvaluatorReturned, poolVars, StatusInv, ResultInv
<1>6. CASE WriteResults    BY <1>6 DEF WriteResults, poolVars, StatusInv, ResultInv
<1>7. CASE JoinErrors      BY <1>7 DEF JoinErrors, poolVars, StatusInv, ResultInv
<1>8. CASE Exit            BY <1>8 DEF Exit, poolVars, StatusInv, ResultInv
<1> QED
  BY <1>1, <1>2, <1>3, <1>4, <1>5, <1>6, <1>7, <1>8 DEF Quiet

LEMMA QuietFlags ==
  ASSUME CallInv, PoolInv, Quiet
  PROVE  FlagInv'
<1>1. CASE WriteResults
  <2>1. /\ main = "writing" /\ main' = "iterating" /\ number' = number + 1
        /\ UNCHANGED <<task, iteration, worker>>
    BY <1>1 DEF WriteResults, At, poolVars, lifecycleVars, stateVars
  <2>2. \A i \in Iterations : i < number + 1 <=> i < number \/ i = number
    BY IterationTypes DEF PoolInv, PoolTypes
  <2>3. "writing" \in Announced /\ "iterating" \in Unannounced /\ "iterating" \notin Announced
    BY DEF Announced, Unannounced, BeforeCall
  <2> QED
    BY <2>1, <2>2, <2>3 DEF CallInv, FlagInv
<1>2. CASE ~WriteResults
  <2>1. /\ UNCHANGED <<task, iteration, worker, number>>
        /\ main' = "writing" <=> main = "writing"
        /\ main' \in Announced => main \in Announced
        /\ main' \in Unannounced => main \in Unannounced
    <3> USE DEF At, Announced, Unannounced, BeforeCall
    <3>1. UNCHANGED <<task, iteration, worker>>
      BY QuietMoves DEF lifecycleVars, stateVars
    <3>2. CASE LoadCredentials   BY <3>1, <3>2 DEF LoadCredentials
    <3>3. CASE NextIteration     BY <3>1, <3>3 DEF NextIteration
    <3>4. CASE SetupWorkspace    BY <3>1, <3>4 DEF SetupWorkspace
    <3>5. CASE CallEvaluator     BY <3>1, <3>5 DEF CallEvaluator
    <3>6. CASE EvaluatorReturned BY <3>1, <3>6 DEF EvaluatorReturned
    <3>7. CASE JoinErrors        BY <3>1, <3>7 DEF JoinErrors
    <3>8. CASE Exit              BY <3>1, <3>8 DEF Exit
    <3> QED
      BY <1>2, <3>2, <3>3, <3>4, <3>5, <3>6, <3>7, <3>8 DEF Quiet
  <2> QED
    BY <2>1, FlagMove
<1> QED
  BY <1>1, <1>2

LEMMA QuietKeeps ==
  ASSUME CallInv, PoolInv, Quiet
  PROVE  CallInv'
<1>0. /\ UNCHANGED <<pub, started, finished, phase, task, resultCounts, finishing, adapterErr>>
      /\ UNCHANGED results
  BY QuietMoves DEF lifecycleVars, stateVars
<1>1. RunInv' /\ LogInv'
  <2>1. /\ main' \in {"loading", "executing"} => main \in {"loading", "executing"}
        /\ main' \in InIteration \cup {"iterating"} => main \in InIteration \cup {"iterating"}
        /\ main' \notin {"starting", "abandoning", "closing", "exiting"}
        /\ main # "abandoning"
        /\ main' = "exited" \/ main \notin Finishing
    BY QuietMoves DEF Finishing
  <2> QED
    BY <1>0, <2>1 DEF CallInv, RunInv, LogInv, Finishing
<1>2. ResultInv'
  BY <1>0, QuietMoves, ResultFrame
<1>3. StatusInv'
  <2>1. CASE main = "exiting"
    BY <1>0, <2>1, QuietMoves DEF CallInv, StatusInv, Finishing
  <2>2. CASE main \notin Finishing /\ main' \notin Finishing
    <3>1. evalErr' \in {"none", "error", "cancelled"}
      <4>1. evalErr' = evalErr \/ CallEvaluator
        BY DEF Quiet, LoadCredentials, NextIteration, SetupWorkspace, EvaluatorReturned,
               WriteResults, JoinErrors, Exit, poolVars
      <4>2. CallEvaluator => evalErr' \in {"none", "error", "cancelled"}
        BY DEF CallEvaluator, Pool!EvaluatePlan
      <4> QED
        BY <4>1, <4>2 DEF CallInv, StatusInv
    <3> QED
      BY <1>0, <2>2, <3>1, QuietMoves DEF CallInv, StatusInv, Finishing
  <2> QED
    BY <2>1, <2>2, QuietMoves
<1> QED
  BY <1>1, <1>2, <1>3, QuietFlags DEF CallInv

-----------------------------------------------------------------------------
(* The calls, each in a state where the emitter accepts it.                *)
LEMMA StartKeeps ==
  ASSUME Ground, CallInv, StartStream
  PROVE  CallInv'
<1>1. PICK ok \in BOOLEAN :
        /\ main = "starting" /\ Start(ok)
        /\ main' = IF ok THEN "loading" ELSE "abandoning"
        /\ UNCHANGED <<poolVars, number, reported, invocationErr, adapterErr, finishErr, exit>>
  BY DEF StartStream
<1>2. ~started /\ main' \in {"loading", "abandoning"}
  BY <1>1 DEF CallInv, RunInv
<1>3. /\ phase' = "preparing"
      /\ UNCHANGED <<finished, task, iteration, resultCounts, finishing>>
      /\ \E payload, progress : EmitBoth(payload, progress, ok)
  BY <1>1, <1>2 DEF Start
<1>4. Calm(pub, pub')
  BY <1>3, GroundFacts, EmitCalm
<1>5. UNCHANGED <<worker, results, evalErr, number, reported, invocationErr, adapterErr>>
  BY <1>1 DEF poolVars
<1>6. RunInv' /\ LogInv'
  BY <1>1, <1>2, <1>3, <1>4, <1>5 DEF CallInv, RunInv, LogInv, Calm, InIteration
<1>7. FlagInv'
  BY <1>1, <1>2, <1>3, <1>5, FlagMove DEF Announced, Unannounced, BeforeCall
<1>8. ResultInv'
  BY <1>3, <1>5, ResultFrame DEF CallInv, ResultInv
<1>9. StatusInv'
  BY <1>1, <1>2, <1>3, <1>5, StatusFrame DEF CallInv, StatusInv, Finishing
<1> QED
  BY <1>6, <1>7, <1>8, <1>9 DEF CallInv

LEMMA AbandonKeeps ==
  ASSUME Ground, CallInv, AbandonStream
  PROVE  CallInv'
<1>1. PICK ok \in BOOLEAN :
        /\ main = "abandoning" /\ main' = "exited" /\ ClosePublisher(ok)
        /\ UNCHANGED <<poolVars, number, reported, invocationErr, adapterErr, finishErr>>
  BY DEF AbandonStream, At
<1>2. UNCHANGED <<started, finished, phase, task, iteration, resultCounts, finishing>>
  BY <1>1 DEF ClosePublisher, stateVars
<1>3. pub'.closed /\ ("publish" \in pub.err => "publish" \in pub'.err)
  BY <1>1, GroundFacts, CloseEffect
<1>4. UNCHANGED <<worker, results, evalErr, number, reported, invocationErr, adapterErr>>
  BY <1>1 DEF poolVars
<1>5. RunInv' /\ LogInv'
  BY <1>1, <1>2, <1>3, <1>4 DEF CallInv, RunInv, LogInv, InIteration
<1>6. FlagInv'
  BY <1>1, <1>2, <1>4, FlagMove DEF Announced, Unannounced, BeforeCall
<1>7. ResultInv'
  BY <1>2, <1>4, ResultFrame DEF CallInv, ResultInv
<1>8. StatusInv'
  BY <1>1, <1>2, <1>4, StatusFrame DEF CallInv, StatusInv, Finishing
<1> QED
  BY <1>5, <1>6, <1>7, <1>8 DEF CallInv

LEMMA ExecutingKeeps ==
  ASSUME Ground, CallInv, EnterExecuting
  PROVE  CallInv'
<1>1. PICK ok \in BOOLEAN :
        /\ main = "executing" /\ main' = "iterating"
        /\ SetPhase("executing", ok) /\ record(ok)
        /\ UNCHANGED <<poolVars, number, reported, invocationErr, finishErr, exit>>
  BY DEF EnterExecuting, At
<1>2. MayEnter("executing")
  BY <1>1 DEF MayEnter, Active, RunPhases, phaseRank, CallInv, RunInv, Ground, Held, StartedInv
<1>3. /\ phase' = "executing"
      /\ UNCHANGED <<started, finished, task, iteration, resultCounts, finishing>>
      /\ \E payload : Emit(payload, ok)
  BY <1>1, <1>2 DEF SetPhase
<1>4. Calm(pub, pub') /\ ~pub.closed /\ ~Reject(ok)
  <2>1. ~Reject(ok)
    BY <1>1, <1>3 DEF Reject, lifecycleVars, stateVars, CallInv, RunInv
  <2> QED
    BY <1>1, <1>3, <2>1, GroundFacts, EmitCalm DEF CallInv, RunInv
<1>5. Answered(ok)
  BY <1>1, GroundFacts, SetPhaseKept DEF RunPhases
<1>6. UNCHANGED <<worker, results, evalErr, number, reported, invocationErr>>
  BY <1>1 DEF poolVars
<1>7. adapterErr' => "publish" \in pub'.err
  BY <1>1, <1>4, <1>5, GroundFacts, RecordKeeps
<1>8. RunInv' /\ LogInv'
  BY <1>1, <1>3, <1>4, <1>7 DEF CallInv, RunInv, LogInv, Calm, InIteration
<1>9. FlagInv'
  BY <1>1, <1>3, <1>6, FlagMove DEF Announced, Unannounced, BeforeCall
<1>10. ResultInv'
  BY <1>3, <1>6, ResultFrame DEF CallInv, ResultInv
<1>11. StatusInv'
  BY <1>1, <1>3, <1>6, StatusFrame DEF CallInv, StatusInv, Finishing
<1> QED
  BY <1>8, <1>9, <1>10, <1>11 DEF CallInv

LEMMA IterationStartKeeps ==
  ASSUME Ground, CallInv, OnIterationStart
  PROVE  CallInv'
<1>1. PICK ok \in BOOLEAN :
        /\ main = "announcing" /\ main' = "evaluating"
        /\ IterationStarted(number, ok) /\ record(ok)
        /\ UNCHANGED <<poolVars, number, reported, invocationErr, finishErr, exit>>
  BY DEF OnIterationStart, At
<1>2. /\ number \in Iterations /\ ~iteration[number].started /\ Executing
  <2>1. number \in Iterations
    BY <1>1, IterationTypes DEF Ground, Held, PoolInv, PlaceInv, InIteration
  <2>2. ~iteration[number].started
    BY <1>1, <2>1, IterationTypes DEF CallInv, FlagInv, Unannounced, BeforeCall
  <2>3. Executing
    BY <1>1 DEF Executing, Active, CallInv, RunInv, InIteration, Ground, Held, StartedInv
  <2> QED
    BY <2>1, <2>2, <2>3
<1>3. /\ iteration' = [iteration EXCEPT ![number].started = TRUE]
      /\ UNCHANGED <<started, finished, phase, task, resultCounts, finishing>>
      /\ \E payload : Emit(payload, ok)
  BY <1>1, <1>2 DEF IterationStarted
<1>4. /\ iteration'[number].started /\ iteration'[number].completed = iteration[number].completed
      /\ \A i \in Iterations \ {number} : iteration'[i] = iteration[i]
  BY <1>2, <1>3, GroundFacts DEF IterationStates
<1>5. Calm(pub, pub') /\ ~pub.closed /\ ~Reject(ok)
  <2>1. ~Reject(ok)
    BY <1>2, <1>4 DEF Reject, lifecycleVars, stateVars
  <2> QED
    BY <1>1, <1>3, <2>1, GroundFacts, EmitCalm DEF CallInv, RunInv
<1>6. Answered(ok)
  BY <1>1, <1>2, GroundFacts, IterationStartedKept
<1>7. UNCHANGED <<worker, results, evalErr, number, reported, invocationErr>>
  BY <1>1 DEF poolVars
<1>8. adapterErr' => "publish" \in pub'.err
  BY <1>1, <1>5, <1>6, GroundFacts, RecordKeeps
<1>9. RunInv' /\ LogInv'
  BY <1>1, <1>3, <1>5, <1>8, RunFrame DEF InIteration
<1>10. FlagInv'
  <2>1. \A i \in Iterations \ {number} : i # number
    OBVIOUS
  <2>2. "evaluating" \in Announced /\ "evaluating" \notin Unannounced
    BY DEF Announced, Unannounced
  <2> QED
    BY <1>1, <1>2, <1>3, <1>4, <1>7, <2>2, IterationTypes DEF CallInv, FlagInv
<1>11. ResultInv'
  BY <1>3, <1>7, ResultFrame DEF CallInv, ResultInv
<1>12. StatusInv'
  BY <1>1, <1>3, <1>7, StatusFrame DEF CallInv, StatusInv, Finishing
<1> QED
  BY <1>9, <1>10, <1>11, <1>12 DEF CallInv

(* The tasks of an iteration that is behind the runner have completed.     *)
LEMMA BehindCompleted ==
  ASSUME Ground, CallInv, NEW t \in Tasks, Behind(t)
  PROVE  task[t].completed
BY DEF Ground, Held, OutcomeInv, DoneInv, CallInv, FlagInv

LEMMA IterationEndKeeps ==
  ASSUME Ground, CallInv, OnIterationComplete
  PROVE  CallInv'
<1>1. PICK ok \in BOOLEAN :
        /\ main = "completing" /\ main' = "writing"
        /\ IterationCompleted(number, ok) /\ record(ok)
        /\ reported' = reported \cup TasksOf(number)
        /\ UNCHANGED <<poolVars, number, invocationErr, finishErr, exit>>
  BY DEF OnIterationComplete, At
<1>2. number \in Iterations /\ MayEnd(number)
  <2>1. number \in Iterations
    BY <1>1, IterationTypes DEF Ground, Held, PoolInv, PlaceInv, InIteration
  <2>2. iteration[number].started /\ ~iteration[number].completed
    BY <1>1, <2>1, IterationTypes DEF CallInv, FlagInv, Announced
  <2>3. Executing
    BY <1>1 DEF Executing, Active, CallInv, RunInv, InIteration, Ground, Held, StartedInv
  <2>4. CompletedOf(TasksOf(number)) = TasksOf(number)
    BY <1>1, BehindCompleted DEF CompletedOf, TasksOf, Behind
  <2>5. iteration[number].completedN = Cardinality(TasksOf(number))
    BY <2>1, <2>4 DEF Ground, Held, IInv, CountersAgree
  <2> QED
    BY <2>1, <2>2, <2>3, <2>5 DEF MayEnd
<1>3. /\ iteration' = [iteration EXCEPT ![number].completed = TRUE]
      /\ UNCHANGED <<started, finished, phase, task, resultCounts, finishing>>
      /\ \E payload : Emit(payload, ok)
  BY <1>1, <1>2 DEF IterationCompleted
<1>4. /\ iteration'[number].completed /\ iteration'[number].started = iteration[number].started
      /\ \A i \in Iterations \ {number} : iteration'[i] = iteration[i]
  BY <1>2, <1>3, GroundFacts DEF IterationStates
<1>5. Calm(pub, pub') /\ ~pub.closed /\ ~Reject(ok)
  <2>1. ~Reject(ok)
    BY <1>2, <1>4 DEF Reject, lifecycleVars, stateVars, MayEnd
  <2> QED
    BY <1>1, <1>3, <2>1, GroundFacts, EmitCalm DEF CallInv, RunInv
<1>6. Answered(ok)
  BY <1>1, <1>2, GroundFacts, IterationCompletedKept
<1>7. UNCHANGED <<worker, results, evalErr, number, invocationErr>>
  BY <1>1 DEF poolVars
<1>8. adapterErr' => "publish" \in pub'.err
  BY <1>1, <1>5, <1>6, GroundFacts, RecordKeeps
<1>9. RunInv' /\ LogInv'
  BY <1>1, <1>3, <1>5, <1>8, RunFrame DEF InIteration
<1>10. FlagInv'
  <2>1. {"completing", "writing"} \subseteq Announced \ Unannounced
    BY DEF Announced, Unannounced, BeforeCall
  <2> QED
    BY <1>1, <1>2, <1>3, <1>4, <1>7, <2>1, IterationTypes DEF CallInv, FlagInv
<1>11. ResultInv'
  BY <1>1, <1>3, <1>7, ResultFrame DEF CallInv, ResultInv, TasksOf
<1>12. StatusInv'
  BY <1>1, <1>3, <1>7, StatusFrame DEF CallInv, StatusInv, Finishing
<1> QED
  BY <1>9, <1>10, <1>11, <1>12 DEF CallInv

-----------------------------------------------------------------------------
(* A goroutine that works does so for the runner's current iteration.      *)
LEMMA WorkingHere ==
  ASSUME Ground, NEW t \in Tasks, worker[t] \notin {"none", "done"}
  PROVE  main = "waiting" /\ IterationOf[t] = number /\ number \in Iterations
<1>1. main = "waiting"
  BY DEF Ground, Held, PoolInv, PlaceInv, PrefixInv
<1>2. PICK k \in 1..scheduled : order[k] = t
  BY DEF Ground, Held, PoolInv, PrefixInv
<1>3. k \in 1..Len(order)
  BY <1>2, OrderFacts DEF Ground, Held, PoolInv, PrefixInv, PoolTypes
<1>4. IterationOf[t] = number
  BY <1>1, <1>2, <1>3, OrderFacts DEF Ground, Held, PoolInv
<1>5. number \in Iterations
  BY <1>1, IterationTypes DEF Ground, Held, PoolInv, PlaceInv, InIteration
<1> QED
  BY <1>1, <1>4, <1>5

LEMMA TaskStartKeeps ==
  ASSUME Ground, CallInv, NEW t \in Tasks, OnTaskStart(t)
  PROVE  CallInv'
<1>1. PICK ok \in BOOLEAN :
        /\ Pool!TaskStarts(t) /\ CaseStarted(t, ok) /\ record(ok)
        /\ UNCHANGED <<main, number, reported, invocationErr, finishErr, exit>>
  BY DEF OnTaskStart
<1>2. /\ worker[t] = "launched" /\ worker' = [worker EXCEPT ![t] = "running"]
      /\ UNCHANGED <<results, evalErr>>
  BY <1>1 DEF Pool!TaskStarts, Pool!WorkerStep
<1>3. main = "waiting" /\ IterationOf[t] = number /\ number \in Iterations
  BY <1>2, WorkingHere
<1>4. MayStart(t)
  <2>1. Executing
    BY <1>3 DEF Executing, Active, CallInv, RunInv, InIteration, Ground, Held, StartedInv
  <2>2. iteration[number].started /\ ~iteration[number].completed
    BY <1>3, IterationTypes DEF CallInv, FlagInv, Announced
  <2>3. ~task[t].started
    BY <1>2 DEF CallInv, FlagInv
  <2> QED
    BY <1>3, <2>1, <2>2, <2>3 DEF MayStart
<1>5. /\ task' = [task EXCEPT ![t].started = TRUE]
      /\ UNCHANGED <<started, finished, phase, iteration, resultCounts, finishing>>
      /\ \E payload, progress : EmitBoth(payload, progress, ok)
  BY <1>1, <1>4 DEF CaseStarted
<1>6. /\ task'[t].started /\ task'[t].completed = task[t].completed
      /\ \A u \in Tasks \ {t} : task'[u] = task[u]
  BY <1>5, GroundFacts DEF TaskStates
<1>7. Calm(pub, pub') /\ ~pub.closed /\ ~Reject(ok)
  <2>1. ~Reject(ok)
    BY <1>4, <1>6 DEF Reject, lifecycleVars, stateVars, MayStart
  <2> QED
    BY <1>3, <1>5, <2>1, GroundFacts, EmitCalm DEF CallInv, RunInv
<1>8. Answered(ok)
  BY <1>1, GroundFacts, CaseStartedKept
<1>9. adapterErr' => "publish" \in pub'.err
  BY <1>1, <1>7, <1>8, GroundFacts, RecordKeeps
<1>10. RunInv' /\ LogInv'
  BY <1>1, <1>3, <1>5, <1>7, <1>9, RunFrame DEF InIteration
<1>11. FlagInv'
  <2>1. worker'[t] = "running" /\ \A u \in Tasks \ {t} : worker'[u] = worker[u]
    BY <1>2, GroundFacts
  <2> QED
    BY <1>1, <1>2, <1>5, <1>6, <2>1 DEF CallInv, FlagInv
<1>12. ResultInv'
  <2>1. \A u \in Tasks : task'[u].completed = task[u].completed
    BY <1>6
  <2> QED
    BY <1>1, <1>2, <1>5, <2>1 DEF CallInv, ResultInv
<1>13. StatusInv'
  BY <1>1, <1>2, <1>3, <1>5, StatusFrame DEF CallInv, StatusInv, Finishing
<1> QED
  BY <1>10, <1>11, <1>12, <1>13 DEF CallInv

(* The result the task left is counted once, under its status.             *)
LEMMA CountKept ==
  ASSUME Ground, CallInv, NEW t \in Tasks, ~task[t].completed, results[t] \in Outcomes,
         resultCounts' = addStatus(resultCounts, results[t]), results' = results,
         task'[t].completed, \A u \in Tasks \ {t} : task'[u] = task[u],
         reported' \subseteq Tasks
  PROVE  ResultInv'
<1> DEFINE Having(s) == {u \in Tasks : task[u].completed /\ results[u] = s}
<1>1. results[t] \in CaseStatuses
  BY PlanAssumption DEF CaseStatuses
<1>2. ASSUME NEW s \in CaseStatuses
      PROVE  resultCounts'[s] = Cardinality({u \in Tasks : task'[u].completed /\ results'[u] = s})
  <2>1. Having(s) \in SUBSET Tasks /\ t \notin Having(s)
    OBVIOUS
  <2>2. resultCounts[s] = Cardinality(Having(s))
    BY DEF CallInv, ResultInv
  <2>3. CASE results[t] = s
    <3>1. {u \in Tasks : task'[u].completed /\ results'[u] = s} = Having(s) \cup {t}
      BY <2>3
    <3>2. Cardinality(Having(s) \cup {t}) = Cardinality(Having(s)) + 1
      <4> HIDE DEF Having
      <4> QED
        BY <2>1, OneMore, PlanAssumption
    <3>3. resultCounts'[s] = resultCounts[s] + 1
      BY <1>1, <2>3, GroundFacts DEF addStatus, ResultCounts
    <3> QED
      BY <2>2, <3>1, <3>2, <3>3
  <2>4. CASE results[t] # s
    <3>1. {u \in Tasks : task'[u].completed /\ results'[u] = s} = Having(s)
      BY <2>4
    <3>2. resultCounts'[s] = resultCounts[s]
      BY <1>1, <2>4, GroundFacts DEF addStatus, ResultCounts
    <3> QED
      BY <2>2, <3>1, <3>2
  <2> QED
    BY <2>3, <2>4
<1> QED
  BY <1>2 DEF ResultInv

LEMMA TaskEndKeeps ==
  ASSUME Ground, CallInv, NEW t \in Tasks, OnTaskComplete(t)
  PROVE  CallInv'
<1>1. PICK ok \in BOOLEAN :
        /\ Pool!TaskCompletes(t) /\ CaseCompleted(t, results[t], ok) /\ record(ok)
        /\ UNCHANGED <<main, number, reported, invocationErr, finishErr, exit>>
  BY DEF OnTaskComplete
<1>2. /\ worker[t] = "reporting" /\ worker' = [worker EXCEPT ![t] = "releasing"]
      /\ UNCHANGED <<results, evalErr>>
  BY <1>1 DEF Pool!TaskCompletes, Pool!WorkerStep
<1>3. main = "waiting" /\ IterationOf[t] = number /\ number \in Iterations
  BY <1>2, WorkingHere
<1>4. results[t] \in Outcomes
  BY <1>2, GroundFacts DEF Ground, Held, PoolInv, WrittenInv
<1>5. MayComplete(t, results[t])
  <2>1. Executing
    BY <1>3 DEF Executing, Active, CallInv, RunInv, InIteration, Ground, Held, StartedInv
  <2>2. task[t].started /\ ~task[t].completed
    BY <1>2 DEF CallInv, FlagInv
  <2> QED
    BY <1>4, <2>1, <2>2, PlanAssumption DEF MayComplete, CaseStatuses
<1>6. /\ task' = [task EXCEPT ![t].completed = TRUE]
      /\ resultCounts' = addStatus(resultCounts, results[t])
      /\ iteration' = [iteration EXCEPT ![IterationOf[t]].completedN = @ + 1,
                                        ![IterationOf[t]].result = addStatus(@, results[t])]
      /\ UNCHANGED <<started, finished, phase, finishing>>
      /\ \E payload, progress : EmitBoth(payload, progress, ok)
  BY <1>1, <1>5 DEF CaseCompleted
<1>7. /\ task'[t].completed /\ task'[t].started = task[t].started
      /\ \A u \in Tasks \ {t} : task'[u] = task[u]
  BY <1>6, GroundFacts DEF TaskStates
<1>8. \A i \in Iterations : /\ iteration'[i].started = iteration[i].started
                            /\ iteration'[i].completed = iteration[i].completed
  BY <1>3, <1>6, GroundFacts DEF IterationStates
<1>9. Calm(pub, pub') /\ ~pub.closed /\ ~Reject(ok)
  <2>1. ~Reject(ok)
    BY <1>5, <1>7 DEF Reject, lifecycleVars, stateVars, MayComplete
  <2> QED
    BY <1>3, <1>6, <2>1, GroundFacts, EmitCalm DEF CallInv, RunInv
<1>10. Answered(ok)
  BY <1>1, <1>4, GroundFacts, CaseCompletedKept
<1>11. adapterErr' => "publish" \in pub'.err
  BY <1>1, <1>9, <1>10, GroundFacts, RecordKeeps
<1>12. RunInv' /\ LogInv'
  BY <1>1, <1>3, <1>6, <1>9, <1>11, RunFrame DEF InIteration
<1>13. FlagInv'
  <2>1. worker'[t] = "releasing" /\ \A u \in Tasks \ {t} : worker'[u] = worker[u]
    BY <1>2, GroundFacts
  <2> QED
    BY <1>1, <1>2, <1>7, <1>8, <2>1 DEF CallInv, FlagInv
<1>14. ResultInv'
  BY <1>1, <1>2, <1>4, <1>5, <1>6, <1>7, CountKept DEF MayComplete, CallInv, ResultInv
<1>15. StatusInv'
  BY <1>1, <1>2, <1>3, <1>6, StatusFrame DEF CallInv, StatusInv, Finishing
<1> QED
  BY <1>12, <1>13, <1>14, <1>15 DEF CallInv

-----------------------------------------------------------------------------
(* The end: a run called COMPLETED left its loop at its end, so Finish     *)
(* accepts it; and Finish closes the emitter for every other status.       *)
LEMMA ChooseKeeps ==
  ASSUME Ground, CallInv, ChooseStatus
  PROVE  CallInv'
<1>1. /\ main = "choosing" /\ main' = "finishing" /\ FinishCall(eventRunStatus)
      /\ UNCHANGED <<poolVars, number, reported, invocationErr, adapterErr>>
  BY DEF ChooseStatus, At
<1>2. /\ UNCHANGED <<pub, started, finished, phase, task, iteration, resultCounts>>
      /\ finishing'.pc = "waiting" /\ finishing'.status = eventRunStatus
  BY <1>1 DEF FinishCall, stateVars
<1>3. UNCHANGED <<worker, results, evalErr>>
  BY <1>1 DEF poolVars
<1>4. RunInv' /\ LogInv'
  BY <1>1, <1>2, RunFrame DEF Calm, CallInv, LogInv, InIteration
<1>5. FlagInv'
  BY <1>1, <1>2, <1>3, FlagMove DEF Announced, Unannounced, BeforeCall
<1>6. ResultInv'
  BY <1>1, <1>2, <1>3, ResultFrame DEF CallInv, ResultInv
<1>7. eventRunStatus = "COMPLETED" => invocationErr = "none"
  BY DEF eventRunStatus, CallInv, StatusInv
<1>8. invocationErr = "none" => number > Len(Plan) /\ Tasks \subseteq reported
  <2> SUFFICES ASSUME invocationErr = "none"
               PROVE  number > Len(Plan) /\ Tasks \subseteq reported
    OBVIOUS
  <2>1. number > Len(Plan)
    BY <1>1 DEF Ground, Held, OutcomeInv, EndInv, Ending
  <2>2. \A t \in Tasks : IterationOf[t] < number
    BY <2>1, IterationTypes, PlanAssumption, GroundFacts
  <2> QED
    BY <2>1, <2>2 DEF Ground, Held, OutcomeInv, ReportInv
<1>9. StatusInv'
  BY <1>1, <1>2, <1>3, <1>7, <1>8 DEF CallInv, StatusInv, Finishing
<1> QED
  BY <1>4, <1>5, <1>6, <1>9 DEF CallInv

(* With every iteration behind the runner, the emitter's run is complete.  *)
LEMMA RunComplete ==
  ASSUME Ground, CallInv, number > Len(Plan)
  PROVE  CompleteRun /\ \A t \in Tasks : task[t].completed
<1>1. (\A t \in Tasks : IterationOf[t] < number) /\ \A i \in Iterations : i < number
  BY IterationTypes, PlanAssumption, GroundFacts
<1>2. \A t \in Tasks : task[t].completed
  BY <1>1, BehindCompleted DEF Behind
<1>3. CompletedOf(Tasks) = Tasks
  BY <1>2 DEF CompletedOf
<1>4. completed = TaskTotal
  BY <1>3 DEF Ground, Held, IInv, CountersAgree, TaskTotal
<1>5. \A i \in Iterations : iteration[i].completed
  BY <1>1 DEF CallInv, FlagInv
<1> QED
  BY <1>2, <1>4, <1>5 DEF CompleteRun

LEMMA FinishKeeps ==
  ASSUME Ground, CallInv, FinishLifecycle
  PROVE  CallInv'
<1>1. PICK ok \in BOOLEAN :
        /\ main = "finishing" /\ main' = "closing" /\ FinishCommit(ok)
        /\ UNCHANGED <<poolVars, number, reported, invocationErr, adapterErr>>
  BY DEF FinishLifecycle, At
<1>2. finishing.pc = "waiting" /\ ~finished /\ ~pub.closed
  BY <1>1 DEF CallInv, StatusInv, RunInv
<1>3. Active
  BY <1>1, <1>2 DEF Active, Ground, Held, StartedInv
<1>4. finishing.status = "COMPLETED" => CompleteRun
  BY <1>2, RunComplete DEF CallInv, StatusInv
<1>5. finished' /\ UNCHANGED <<started, task, iteration, resultCounts>>
  BY <1>1, <1>3, <1>4 DEF FinishCommit
<1>6. finishing'.status = finishing.status /\ finishing'.pc = "returned"
  <2>1. finishing \in [pc : {"idle", "waiting", "returned"}, status : RunStatuses,
                       waits : BOOLEAN]
    BY DEF Ground, Held, IInv, TypeOK
  <2> QED
    BY <1>1, <2>1 DEF FinishCommit
<1>7. Calm(pub, pub')
  BY <1>1, GroundFacts, FinishCalm
<1>8. UNCHANGED <<worker, results, evalErr, number, reported, invocationErr, adapterErr>>
  BY <1>1 DEF poolVars
<1>9. RunInv'
  BY <1>1, <1>2, <1>5, <1>7 DEF CallInv, RunInv, Calm, InIteration
<1>10. LogInv'
  <2>1. "publish" \notin pub'.err => Healthy(pub')
    BY <1>1, <1>7, <1>2, GroundFacts DEF Healthy, Calm, CallInv, RunInv, PubState,
       PP!PublisherState
  <2>2. "publish" \notin pub'.err => pub'.finalized
    BY <1>5, <2>1 DEF Ground, Held, ProtocolInv, StoryInv, Healthy
  <2>3. adapterErr' => "publish" \in pub'.err
    BY <1>7, <1>8 DEF CallInv, LogInv, Calm
  <2> QED
    BY <1>5, <2>2, <2>3 DEF LogInv
<1>11. FlagInv'
  BY <1>1, <1>5, <1>8, FlagMove DEF Announced, Unannounced, BeforeCall
<1>12. ResultInv'
  BY <1>5, <1>8, ResultFrame DEF CallInv, ResultInv
<1>13. StatusInv'
  BY <1>1, <1>2, <1>6, <1>8 DEF CallInv, StatusInv, Finishing
<1> QED
  BY <1>9, <1>10, <1>11, <1>12, <1>13 DEF CallInv

LEMMA CloseKeeps ==
  ASSUME Ground, CallInv, CloseStream
  PROVE  CallInv'
<1>1. PICK ok \in BOOLEAN :
        /\ main = "closing" /\ main' = "exiting" /\ ClosePublisher(ok)
        /\ UNCHANGED <<poolVars, number, reported, invocationErr, adapterErr>>
  BY DEF CloseStream, At
<1>2. UNCHANGED <<started, finished, phase, task, iteration, resultCounts, finishing>>
  BY <1>1 DEF ClosePublisher, stateVars
<1>3. /\ pub'.closed /\ pub'.finalized = pub.finalized
      /\ "publish" \in pub'.err <=> "publish" \in pub.err
  BY <1>1, GroundFacts, CloseEffect
<1>4. UNCHANGED <<worker, results, evalErr, number, reported, invocationErr, adapterErr>>
  BY <1>1 DEF poolVars
<1>5. RunInv' /\ LogInv'
  BY <1>1, <1>2, <1>3, <1>4 DEF CallInv, RunInv, LogInv, InIteration
<1>6. FlagInv'
  BY <1>1, <1>2, <1>4, FlagMove DEF Announced, Unannounced, BeforeCall
<1>7. ResultInv'
  BY <1>2, <1>4, ResultFrame DEF CallInv, ResultInv
<1>8. StatusInv'
  BY <1>1, <1>2, <1>4, StatusFrame DEF CallInv, StatusInv, Finishing
<1> QED
  BY <1>5, <1>6, <1>7, <1>8 DEF CallInv

-----------------------------------------------------------------------------
(* The steps of the pool and of the heartbeat.                             *)
LEMMA PoolFrame ==
  ASSUME CallInv, UNCHANGED <<lifecycleVars, commandVars>>,
         evalErr' \in {"none", "error", "cancelled"},
         \A t \in Tasks :
           /\ worker'[t] \in {"none", "launched"} <=> worker[t] \in {"none", "launched"}
           /\ worker'[t] \in {"releasing", "leaving", "done"}
                <=> worker[t] \in {"releasing", "leaving", "done"},
         \A t \in Tasks : task[t].completed => results'[t] = results[t]
  PROVE  CallInv'
<1>0. /\ UNCHANGED <<pub, started, finished, phase, task, iteration, resultCounts, finishing>>
      /\ UNCHANGED <<main, number, reported, invocationErr, adapterErr>>
  BY DEF lifecycleVars, stateVars, commandVars
<1>1. RunInv' /\ LogInv'
  BY <1>0 DEF CallInv, RunInv, LogInv
<1>2. FlagInv'
  BY <1>0 DEF CallInv, FlagInv
<1>3. ResultInv'
  <2>1. ASSUME NEW s
        PROVE  {t \in Tasks : task'[t].completed /\ results'[t] = s}
                 = {t \in Tasks : task[t].completed /\ results[t] = s}
    BY <1>0
  <2> QED
    BY <1>0, <2>1 DEF CallInv, ResultInv
<1>4. StatusInv'
  BY <1>0 DEF CallInv, StatusInv
<1> QED
  BY <1>1, <1>2, <1>3, <1>4 DEF CallInv

LEMMA PoolKeeps ==
  ASSUME Ground, CallInv, PoolStep \/ Signal
  PROVE  CallInv'
<1>1. UNCHANGED <<lifecycleVars, commandVars, results>>
  BY DEF PoolStep, Signal, Pool!LoopStep, Pool!CheckContext, Pool!AcquireSlot,
         Pool!StopAcquiring, Pool!Recheck, Pool!Launch, Pool!ReturnResults, Pool!Cancel
<1>2. evalErr' \in {"none", "error", "cancelled"}
  BY DEF PoolStep, Signal, Pool!LoopStep, Pool!CheckContext, Pool!AcquireSlot,
         Pool!StopAcquiring, Pool!Recheck, Pool!Launch, Pool!ReturnResults, Pool!Cancel,
         Pool!ContextError, CallInv, StatusInv
<1>3. CASE Pool!Launch
  <2>1. scheduled + 1 \in 1..Len(order) /\ ~(scheduled + 1 <= scheduled)
    BY <1>3, OrderFacts DEF Pool!Launch, Ground, Held, PoolInv, PrefixInv, PoolTypes
  <2>2. worker[order[scheduled + 1]] = "none"
    BY <2>1 DEF Ground, Held, PoolInv, PrefixInv, Touched
  <2>3. worker' = [worker EXCEPT ![order[scheduled + 1]] = "launched"]
    BY <1>3 DEF Pool!Launch
  <2>4. \A t \in Tasks : \/ worker'[t] = worker[t]
                         \/ worker[t] = "none" /\ worker'[t] = "launched"
    BY <2>2, <2>3, GroundFacts
  <2> QED
    BY <1>1, <1>2, <2>4, PoolFrame
<1>4. CASE worker' = worker
  BY <1>1, <1>2, <1>4, PoolFrame
<1> QED
  BY <1>3, <1>4 DEF PoolStep, Signal, Pool!LoopStep, Pool!CheckContext, Pool!AcquireSlot,
                    Pool!StopAcquiring, Pool!Recheck, Pool!ReturnResults, Pool!Cancel

LEMMA WorkKeeps ==
  ASSUME Ground, CallInv, NEW t \in Tasks, Pool!WorkerWork(t),
         UNCHANGED <<lifecycleVars, commandVars>>
  PROVE  CallInv'
<1>1. evalErr' \in {"none", "error", "cancelled"}
  BY DEF Pool!WorkerWork, Pool!ExecuteCase, Pool!ReleaseSlot, Pool!WorkerDone, CallInv, StatusInv
<1>2. PICK from, to : /\ worker[t] = from /\ worker' = [worker EXCEPT ![t] = to]
                      /\ \/ from = "running" /\ to = "reporting"
                         \/ from = "releasing" /\ to = "leaving"
                         \/ from = "leaving" /\ to = "done"
  BY DEF Pool!WorkerWork, Pool!ExecuteCase, Pool!ReleaseSlot, Pool!WorkerDone, Pool!WorkerStep
<1>3. worker'[t] = to /\ \A u \in Tasks \ {t} : worker'[u] = worker[u]
  BY <1>2, GroundFacts
<1>4. \/ results' = results
      \/ worker[t] = "running" /\ \E o \in Outcomes : results' = [results EXCEPT ![t] = o]
  BY DEF Pool!WorkerWork, Pool!ExecuteCase, Pool!ReleaseSlot, Pool!WorkerDone, Pool!WorkerStep
<1>5. \A u \in Tasks : task[u].completed => results'[u] = results[u]
  BY <1>4, GroundFacts DEF CallInv, FlagInv
<1> QED
  BY <1>1, <1>2, <1>3, <1>5, PoolFrame

LEMMA BeatKeeps ==
  ASSUME Ground, CallInv, Beat
  PROVE  CallInv'
<1>1. /\ UNCHANGED <<main, number, reported, invocationErr, adapterErr, worker, results, evalErr>>
      /\ HeartbeatStep
  BY DEF Beat, poolVars, commandVars
<1>2. UNCHANGED <<started, finished, phase, task, iteration, resultCounts, finishing>>
  BY <1>1 DEF HeartbeatStep, HeartbeatSeesStop, HeartbeatTick, Heartbeat, stateVars
<1>3. Calm(pub, pub') /\ (finished => pub' = pub)
  BY <1>1, GroundFacts, BeatCalm
<1>4. RunInv' /\ LogInv'
  BY <1>1, <1>2, <1>3 DEF CallInv, RunInv, LogInv, Calm
<1>5. FlagInv' /\ ResultInv' /\ StatusInv'
  BY <1>1, <1>2 DEF CallInv, FlagInv, ResultInv, StatusInv
<1> QED
  BY <1>4, <1>5 DEF CallInv

LEMMA StillKeeps ==
  ASSUME CallInv, UNCHANGED vars
  PROVE  CallInv'
BY DEF vars, lifecycleVars, stateVars, poolVars, commandVars, CallInv, RunInv, FlagInv,
       ResultInv, StatusInv, LogInv

LEMMA CallStep ==
  ASSUME Ground, CallInv, [CommandNext]_vars
  PROVE  CallInv'
<1>1. CASE CommandStep
  <2>1. CASE Quiet
    BY <2>1, QuietKeeps DEF Ground, Held
  <2> QED
    BY <1>1, <2>1, StartKeeps, AbandonKeeps, ExecutingKeeps, IterationStartKeeps,
       IterationEndKeeps, ChooseKeeps, FinishKeeps, CloseKeeps DEF CommandStep, Quiet
<1>2. ASSUME NEW t \in Tasks, TaskStep(t) PROVE CallInv'
  BY <1>2, TaskStartKeeps, TaskEndKeeps, WorkKeeps DEF TaskStep
<1> QED
  BY <1>1, <1>2, PoolKeeps, BeatKeeps, StillKeeps DEF CommandNext

LEMMA CallInvInit == CommandInit => CallInv
<1> SUFFICES ASSUME CommandInit PROVE CallInv
  OBVIOUS
<1>1. /\ main = "starting" /\ number = 1 /\ reported = {} /\ invocationErr = "none"
      /\ adapterErr = FALSE /\ evalErr = "none" /\ worker = [t \in Tasks |-> "none"]
      /\ started = FALSE /\ finished = FALSE /\ pub.closed = FALSE /\ pub.err = {}
      /\ finishing.pc = "idle" /\ resultCounts = NoResults
      /\ task = [t \in Tasks |-> [started |-> FALSE, completed |-> FALSE]]
      /\ iteration = [i \in Iterations |-> [started |-> FALSE, completed |-> FALSE,
                                            completedN |-> 0, result |-> NoResults]]
  BY DEF CommandInit, Init, Pool!Init, P!NewPublisher
<1>2. RunInv /\ LogInv
  BY <1>1 DEF RunInv, LogInv, InIteration
<1>3. FlagInv
  <2>1. "starting" \notin Announced /\ \A i \in Iterations : ~(i < 1)
    BY IterationTypes DEF Announced
  <2> QED
    BY <1>1, <2>1 DEF FlagInv
<1>4. ResultInv
  <2>1. ASSUME NEW s \in CaseStatuses
        PROVE  resultCounts[s] = Cardinality({t \in Tasks : task[t].completed /\ results[t] = s})
    <3>1. {t \in Tasks : task[t].completed /\ results[t] = s} = {}
      BY <1>1
    <3> QED
      BY <1>1, <3>1, FS_EmptySet DEF NoResults
  <2> QED
    BY <1>1, <2>1 DEF ResultInv
<1>5. StatusInv
  BY <1>1 DEF StatusInv
<1> QED
  BY <1>2, <1>3, <1>4, <1>5 DEF CallInv

LEMMA HeldCorrect ==
  ASSUME Room
  PROVE  CommandSpec => []Held
<1>1. CommandInit => StartedInv
  BY DEF CommandInit, StartedInv
<1>2. PoolInv /\ StartedInv /\ [CommandNext]_vars => StartedInv'
  BY CommandCalls
<1>3. CommandSpec => []StartedInv
  BY <1>1, <1>2, PoolInvCorrect, PTL DEF CommandSpec
<1>4. CommandSpec => [](IInv /\ ProtocolInv)
  BY CommandUsesLifecycle, IInvCorrect, ProtocolInvCorrect, PTL
<1> QED
  BY <1>3, <1>4, PoolInvCorrect, OutcomeInvCorrect, PTL DEF Held

(* The command, its goroutines and the emitter agree on where they are     *)
(* after every step.                                                       *)
THEOREM CallInvCorrect ==
  ASSUME Room
  PROVE  CommandSpec => []CallInv
<1>1. CommandInit => CallInv
  BY CallInvInit
<1>2. Held /\ Held' /\ CallInv /\ [CommandNext]_vars => CallInv'
  BY CallStep DEF Ground, Held
<1> QED
  BY <1>1, <1>2, HeldCorrect, PTL DEF CommandSpec

(* The emitter rejects no call of the command: an error the adapter holds  *)
(* is the sink's, for every plan and every interleaving of the runner, the *)
(* tasks, the heartbeat and a signal; and when the command chooses the     *)
(* status of the run no goroutine is left that could call again.           *)
THEOREM CallsAreLegalCorrect ==
  ASSUME Room
  PROVE  CommandSpec => []CallsAreLegal
<1>1. Held /\ CallInv => CallsAreLegal
  <2> SUFFICES ASSUME Held, CallInv PROVE CallsAreLegal
    OBVIOUS
  <2>1. adapterErr => "publish" \in pub.err
    BY DEF CallInv, LogInv
  <2>2. main # "waiting" => \A t \in Tasks : worker[t] \in {"none", "done"}
    BY DEF Held, PoolInv, PlaceInv, PrefixInv
  <2> QED
    BY <2>1, <2>2 DEF CallsAreLegal
<1> QED
  BY <1>1, HeldCorrect, CallInvCorrect, PTL

(* Once the command has closed the stream of a run that started, the final *)
(* record is in a log no write of which failed, whatever the run ended     *)
(* with; and a run whose status is COMPLETED has reported every planned    *)
(* task, with the counters the log closed with.                            *)
THEOREM FinalRecordIsTrueCorrect ==
  ASSUME Room
  PROVE  CommandSpec => []FinalRecordIsTrue
<1>1. Held /\ CallInv => FinalRecordIsTrue
  <2> SUFFICES ASSUME Held, CallInv PROVE FinalRecordIsTrue
    OBVIOUS
  <2>1. main \in {"closing", "exiting"} /\ "publish" \notin pub.err => pub.finalized
    BY DEF CallInv, LogInv
  <2>2. ASSUME finishing.pc = "returned", finishing.status = "COMPLETED"
        PROVE  /\ reported = Tasks
               /\ \A s \in CaseStatuses :
                    resultCounts[s] = Cardinality({t \in Tasks : results[t] = s})
    <3>1. number > Len(Plan) /\ reported = Tasks
      BY <2>2 DEF CallInv, StatusInv, ResultInv
    <3>2. \A t \in Tasks : IterationOf[t] < number
      BY <3>1, IterationTypes, PlanAssumption DEF Held, PoolInv, PoolTypes
    <3>3. \A t \in Tasks : task[t].completed
      BY <3>2 DEF Held, OutcomeInv, DoneInv, Behind, CallInv, FlagInv
    <3>4. ASSUME NEW s
          PROVE  {t \in Tasks : task[t].completed /\ results[t] = s}
                   = {t \in Tasks : results[t] = s}
      BY <3>3
    <3> QED
      BY <3>1, <3>4 DEF CallInv, ResultInv
  <2> QED
    BY <2>1, <2>2 DEF FinalRecordIsTrue
<1> QED
  BY <1>1, HeldCorrect, CallInvCorrect, PTL
=============================================================================
