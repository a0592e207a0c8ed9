---------------------------- MODULE RunProtocol ----------------------------
(***************************************************************************)
(* What a consumer of the event log may conclude from the records alone:   *)
(* every record is legal after the records before it.  The counters of a   *)
(* snapshot are those one gets by counting the case events that precede    *)
(* it, so a consumer that replays the log never meets a total that moves   *)
(* backwards, a task that ends twice or a run that is complete with work   *)
(* outstanding.                                                            *)
(***************************************************************************)
EXTENDS Naturals, FiniteSets, Sequences

CONSTANTS Tasks, Iterations, IterationOf

VARIABLE log

Of(prefix, type) == {e \in {prefix[k].payload : k \in DOMAIN prefix} : e.type = type}

StartedTasks(prefix)   == {e.task : e \in Of(prefix, "case_started")}
CompletedTasks(prefix) == {e.task : e \in Of(prefix, "case_completed")}
OpenIterations(prefix) ==
  {e.iteration : e \in Of(prefix, "iteration_started")}
    \ {e.iteration : e \in Of(prefix, "iteration_completed")}

TasksOf(i) == {t \in Tasks : IterationOf[t] = i}

(* counts groups the outcomes of the tasks in done.                        *)
Groups(counts, prefix, done) ==
  \A s \in DOMAIN counts :
    counts[s] = Cardinality({e \in Of(prefix, "case_completed") : e.task \in done /\ e.status = s})

Rank == [preparing |-> 1, executing |-> 2, finalizing |-> 3]

LegalProgress(prefix, e) ==
  LET done == CompletedTasks(prefix)
  IN  /\ e.completed = Cardinality(done)
      /\ Groups(e.counts, prefix, done)
      /\ \A q \in Of(prefix, "run_progress") : Rank[q.phase] <= Rank[e.phase]
      /\ e.running = IF e.phase = "finalizing" THEN 0
                     ELSE Cardinality(StartedTasks(prefix) \ done)

LegalIterationEnd(prefix, e) ==
  /\ e.iteration \in OpenIterations(prefix)
  /\ TasksOf(e.iteration) \subseteq CompletedTasks(prefix)
  /\ Groups(e.counts, prefix, TasksOf(e.iteration))

LegalCaseEnd(prefix, e) ==
  /\ e.task \in StartedTasks(prefix) \ CompletedTasks(prefix)
  /\ IterationOf[e.task] \in OpenIterations(prefix)
  /\ e.completed = Cardinality(CompletedTasks(prefix)) + 1

LegalRunEnd(prefix, e) ==
  /\ e.completed = Cardinality(CompletedTasks(prefix))
  /\ Groups(e.counts, prefix, CompletedTasks(prefix))
  /\ prefix[Len(prefix)].payload.type = "run_progress"
  /\ prefix[Len(prefix)].payload.phase = "finalizing"
  /\ e.status = "COMPLETED" =>
       /\ CompletedTasks(prefix) = Tasks
       /\ Iterations = {q.iteration : q \in Of(prefix, "iteration_completed")}

(* The record after prefix is one a consumer may see there.                *)
Legal(prefix, record) ==
  LET e == record.payload IN
  /\ (e.type = "run_started") <=> (prefix = <<>>)
  /\ record.lastEvent <=> (e.type = "run_finished")
  /\ Of(prefix, "run_finished") = {}
  /\ CASE e.type = "run_started"         -> e.taskTotal = Cardinality(Tasks)
       [] e.type = "run_progress"        -> LegalProgress(prefix, e)
       [] e.type = "iteration_started"   -> Of(prefix, "iteration_started") \cap {e} = {}
       [] e.type = "case_started"        -> /\ e.task \notin StartedTasks(prefix)
                                            /\ IterationOf[e.task] \in OpenIterations(prefix)
       [] e.type = "case_completed"      -> LegalCaseEnd(prefix, e)
       [] e.type = "iteration_completed" -> LegalIterationEnd(prefix, e)
       [] e.type = "run_finished"        -> LegalRunEnd(prefix, e)

(* The log grows by one or two legal records.                              *)
Grow == /\ Len(log') \in {Len(log) + 1, Len(log) + 2}
        /\ SubSeq(log', 1, Len(log)) = log
        /\ \A k \in (Len(log) + 1)..Len(log') : Legal(SubSeq(log', 1, k - 1), log'[k])

Spec == log = <<>> /\ [][Grow]_log
=============================================================================
