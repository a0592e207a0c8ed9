------------------------------ MODULE TaskPool ------------------------------
(***************************************************************************)
(* defaultEvaluator.EvaluatePlan (internal/evaluator/evaluator.go): the    *)
(* loop that hands the tasks of one iteration to goroutines under a        *)
(* counting semaphore, stops launching when its context is cancelled, and  *)
(* waits for what it launched.  executeCase is one step with any outcome:  *)
(* CaseAttempts takes it apart.  The observer calls of a goroutine are the *)
(* steps TaskStarts and TaskCompletes, which EvalCommand joins with the    *)
(* event log.                                                              *)
(***************************************************************************)
EXTENDS Naturals, FiniteSets, Sequences

CONSTANTS Tasks, Outcomes, Concurrency, NoResult

VARIABLES
  cancelled,   \* ctx.Err() # nil
  loop,        \* where the scheduling loop is
  order,       \* the tasks of this call, in plan order
  scheduled,   \* how many of them have been launched
  sem,         \* slots taken
  worker,      \* what the goroutine of each task is doing
  results,     \* the slot of each task
  evalErr,     \* what EvaluatePlan returned besides the results
  staleSlot    \* history: the slot in hand was taken after the cancellation

poolVars == <<cancelled, loop, order, scheduled, sem, worker, results, evalErr, staleSlot>>

WorkerSteps == {"none", "launched", "running", "reporting", "releasing", "leaving", "done"}
LoopSteps   == {"idle", "checking", "acquiring", "rechecking", "launching", "waiting", "returned"}

HoldingSlot == {t \in Tasks : worker[t] \in {"launched", "running", "reporting", "releasing"}}

Init == /\ cancelled = FALSE
        /\ loop = "idle" /\ order = <<>> /\ scheduled = 0 /\ sem = 0
        /\ worker = [t \in Tasks |-> "none"]
        /\ results = [t \in Tasks |-> NoResult]
        /\ evalErr = "none" /\ staleSlot = FALSE

Cancel == /\ ~cancelled /\ cancelled' = TRUE
          /\ UNCHANGED <<loop, order, scheduled, sem, worker, results, evalErr, staleSlot>>

-----------------------------------------------------------------------------
(* EvaluatePlan is called with the tasks ts: a cancelled context or a      *)
(* failed credential check ends it before anything is launched.            *)
EvaluatePlan(ts) ==
  /\ loop \in {"idle", "returned"}
  /\ order' = ts /\ scheduled' = 0 /\ sem' = 0
  /\ \/ ~cancelled /\ loop' = "checking" /\ evalErr' = "none"
     \/ cancelled /\ loop' = "returned" /\ evalErr' = "cancelled"
     \/ ~cancelled /\ loop' = "returned" /\ evalErr' = "error"
  /\ UNCHANGED <<cancelled, worker, results, staleSlot>>

(* A slot is given back; the slips give two back, or none.                 *)
SlipReleaseNone == UNCHANGED sem
Release == sem' = sem - 1

CheckContext ==
  /\ loop = "checking"
  /\ loop' = IF scheduled = Len(order) \/ cancelled THEN "waiting" ELSE "acquiring"
  /\ UNCHANGED <<cancelled, order, scheduled, sem, worker, results, evalErr, staleSlot>>

(* The select: a free slot or the cancellation, either one when both are   *)
(* ready.                                                                  *)
AcquireSlot == /\ loop = "acquiring" /\ sem < Concurrency
               /\ sem' = sem + 1 /\ loop' = "rechecking" /\ staleSlot' = cancelled
               /\ UNCHANGED <<cancelled, order, scheduled, worker, results, evalErr>>

StopAcquiring == /\ loop = "acquiring" /\ cancelled
                 /\ loop' = "waiting"
                 /\ UNCHANGED <<cancelled, order, scheduled, sem, worker, results, evalErr, staleSlot>>

SlipNoRecheck == /\ loop = "rechecking" /\ loop' = "launching"
                 /\ UNCHANGED <<cancelled, order, scheduled, sem, worker, results, evalErr, staleSlot>>

(* Cancellation may have raced with the slot: give the slot back.          *)
Recheck == /\ loop = "rechecking"
           /\ IF cancelled
              THEN Release /\ loop' = "waiting"
              ELSE loop' = "launching" /\ UNCHANGED sem
           /\ UNCHANGED <<cancelled, order, scheduled, worker, results, evalErr, staleSlot>>

Launch == /\ loop = "launching"
          /\ worker' = [worker EXCEPT ![order[scheduled + 1]] = "launched"]
          /\ scheduled' = scheduled + 1
          /\ loop' = "checking"
          /\ UNCHANGED <<cancelled, order, sem, results, evalErr, staleSlot>>

WaitGroupZero == \A k \in 1..scheduled : worker[order[k]] = "done"

SlipNilError == "none"
ContextError == IF cancelled THEN "cancelled" ELSE "none"

(* wg.Wait, then the results launched so far and ctx.Err().                *)
ReturnResults == /\ loop = "waiting" /\ WaitGroupZero
                 /\ loop' = "returned"
                 /\ evalErr' = ContextError
                 /\ UNCHANGED <<cancelled, order, scheduled, sem, worker, results, staleSlot>>

-----------------------------------------------------------------------------
WorkerStep(t, from, to) == worker[t] = from /\ worker' = [worker EXCEPT ![t] = to]

TaskStarts(t) == /\ WorkerStep(t, "launched", "running")
                 /\ UNCHANGED <<cancelled, loop, order, scheduled, sem, results, evalErr, staleSlot>>

ExecuteCase(t) == /\ WorkerStep(t, "running", "reporting")
                  /\ \E o \in Outcomes : results' = [results EXCEPT ![t] = o]
                  /\ UNCHANGED <<cancelled, loop, order, scheduled, sem, evalErr, staleSlot>>

TaskCompletes(t) == /\ WorkerStep(t, "reporting", "releasing")
                    /\ UNCHANGED <<cancelled, loop, order, scheduled, sem, results, evalErr, staleSlot>>

(* The deferred calls run last-in first-out: the slot, then the WaitGroup. *)
ReleaseSlot(t) == /\ WorkerStep(t, "releasing", "leaving")
                  /\ Release
                  /\ UNCHANGED <<cancelled, loop, order, scheduled, results, evalErr, staleSlot>>

WorkerDone(t) == /\ WorkerStep(t, "leaving", "done")
                 /\ UNCHANGED <<cancelled, loop, order, scheduled, sem, results, evalErr, staleSlot>>

-----------------------------------------------------------------------------
LoopStep == CheckContext \/ AcquireSlot \/ StopAcquiring \/ Recheck \/ Launch \/ ReturnResults

WorkerWork(t) == ExecuteCase(t) \/ ReleaseSlot(t) \/ WorkerDone(t)

Next == \/ Cancel \/ LoopStep
        \/ loop = "idle" /\ \E ts \in {s \in [1..Cardinality(Tasks) -> Tasks] :
                                          \A j, k \in DOMAIN s : s[j] = s[k] => j = k} :
                              EvaluatePlan(ts)
        \/ \E t \in Tasks : TaskStarts(t) \/ TaskCompletes(t) \/ WorkerWork(t)

Spec == Init /\ [][Next]_poolVars

(* The loop and every goroutine are scheduled, and executeCase returns.    *)
FairSpec == /\ Spec
            /\ WF_poolVars(LoopStep)
            /\ \A t \in Tasks : WF_poolVars(TaskStarts(t) \/ TaskCompletes(t) \/ WorkerWork(t))

-----------------------------------------------------------------------------
TypeOK == /\ cancelled \in BOOLEAN /\ staleSlot \in BOOLEAN
          /\ loop \in LoopSteps
          /\ order \in Seq(Tasks)
          /\ scheduled \in 0..Len(order)
          /\ sem \in 0..Concurrency
          /\ worker \in [Tasks -> WorkerSteps]
          /\ results \in [Tasks -> Outcomes \cup {NoResult}]
          /\ evalErr \in {"none", "error", "cancelled"}

(* The semaphore counts exactly the goroutines between launch and release, *)
(* and the slot the loop holds: no path loses or returns a slot twice, so  *)
(* no more than Concurrency cases ever run.                                *)
SlotsAccounted ==
  sem = Cardinality(HoldingSlot) + (IF loop \in {"rechecking", "launching"} THEN 1 ELSE 0)

(* When EvaluatePlan returns, every launched task has written its slot and *)
(* reported, and no other slot of the call was touched: results[:scheduled]*)
(* is complete and nothing still writes to it.                             *)
ResultsSettled ==
  loop = "returned" /\ order # <<>> =>
    \A k \in DOMAIN order :
      IF k <= scheduled THEN worker[order[k]] = "done" /\ results[order[k]] # NoResult
                        ELSE worker[order[k]] = "none" /\ results[order[k]] = NoResult

(* A slot that became free only after the cancellation starts no task.     *)
NoLaunchOnStaleSlot == loop = "launching" => ~staleSlot

(* Nil error means all of the tasks ran: only a cancellation or a failed   *)
(* check leaves a task out.                                                *)
NilErrorMeansAllRan == loop = "returned" /\ evalErr = "none" => scheduled = Len(order)

(* Whatever is cancelled and whenever, EvaluatePlan returns and leaves no  *)
(* goroutine behind.                                                       *)
PoolReturns == loop = "checking" ~> loop = "returned" /\ HoldingSlot = {}
=============================================================================
