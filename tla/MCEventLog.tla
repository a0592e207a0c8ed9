----------------------------- MODULE MCEventLog -----------------------------
(* The event log for model checking, side by side as two families of       *)
(* behaviours that share no state: the lifecycle emitter over the atomic   *)
(* publisher, for one iteration whose two tasks run concurrently, and the  *)
(* sink that makes a call of the publisher atomic.  While one runs, the    *)
(* other is over.                                                          *)
EXTENDS Lifecycle, JSONLSink

CONSTANTS t1, t2

OneIteration == {1}
TasksTogether == [t \in {t1, t2} |-> 1]

(* A run whose first record was refused, finished and closed; a process    *)
(* that was killed at once.                                                *)
LifecycleOver ==
  /\ pub = [P!NewPublisher EXCEPT !.closed = TRUE, !.err = {"publish"}]
  /\ started = TRUE /\ finished = TRUE /\ phase = "finalizing"
  /\ task = [t \in Tasks |-> [started |-> FALSE, completed |-> FALSE]]
  /\ iteration = [i \in Iterations |-> [started |-> FALSE, completed |-> FALSE,
                                        completedN |-> 0, result |-> NoResults]]
  /\ completed = 0 /\ resultCounts = NoResults /\ activeTaskIDs = {}
  /\ heartbeatStarted = FALSE /\ heartbeatStop = TRUE /\ heartbeat = "none" /\ ticks = 0
  /\ finishing = [pc |-> "returned", status |-> "ERROR", waits |-> FALSE]

SinkKilled ==
  /\ mu = NoCaller /\ pc = [c \in Callers |-> "idle"]
  /\ call = [c \in Callers |-> [payload |-> CHOOSE p \in Lines : TRUE, last |-> FALSE]]
  /\ remaining = 0 /\ file = <<>> /\ partial = 0
  /\ nextSequence = 1 /\ finalized = FALSE /\ closed = FALSE /\ err = {} /\ alive = FALSE

MCInit == \/ Init /\ SinkKilled
          \/ LifecycleOver /\ SinkInit
MCNext == \/ Next /\ UNCHANGED sinkVars
          \/ SinkNext /\ UNCHANGED lifecycleVars
MCSpec == MCInit /\ [][MCNext]_<<lifecycleVars, sinkVars>> /\ Fairness /\ SinkFairness
=============================================================================
