----------------------------- MODULE LocalExec -----------------------------
(***************************************************************************)
(* NoneRuntime.Exec (internal/runtime/none.go, none_exec_unix.go): a shell *)
(* command in a process group of its own, os/exec waiting for its leader   *)
(* and then for its output pipes, the SIGTERM to the group when the        *)
(* context expires, and the goroutine that escalates to SIGKILL unless the *)
(* wait is over first.  The group has the leader and at most one           *)
(* descendant, which may hold the pipes and may ignore SIGTERM.            *)
(***************************************************************************)
EXTENDS Integers

CONSTANT ExitCodes       \* the codes a command may leave by itself

VARIABLES
  expired,     \* ctx.Err() # nil
  leader,      \* "none", "running", "exited" by itself, or "signalled"
  leaderCode,  \* the code it exited with
  child,       \* the descendant
  termSent,    \* Cancel has signalled the group
  grace,       \* the escalation goroutine
  wait,        \* where cmd.Wait is
  runErr,      \* what runCmd returned
  execResult   \* what Exec returned

execVars == <<leader, leaderCode, child, termSent, grace, wait, runErr, execResult>>

NoResult == [code |-> 0, err |-> "pending"]
Gone     == [alive |-> FALSE, ignoresTerm |-> FALSE, holdsPipes |-> FALSE]
Children == [alive : BOOLEAN, ignoresTerm : BOOLEAN, holdsPipes : BOOLEAN]

Init == /\ leader = "none" /\ leaderCode = 0 /\ child = Gone /\ termSent = FALSE /\ grace = "off"
        /\ wait = "idle" /\ runErr = "nil" /\ execResult = NoResult

LeaderExited == leader \notin {"none", "running"}
PipesOpen    == child.alive /\ child.holdsPipes

(* cmd.Start: what the command does to its group is its own choice.        *)
Start ==
  /\ wait = "idle"
  /\ \/ /\ leader' = "running" /\ wait' = "waiting" /\ runErr' = "nil"
        /\ child' \in {c \in Children : c.alive \/ c = Gone}
     \/ leader' = "none" /\ wait' = "returned" /\ runErr' = "other" /\ child' = Gone
  /\ leaderCode' = 0 /\ termSent' = FALSE /\ grace' = "off" /\ execResult' = NoResult

(* Processes of the group end by themselves, also from a SIGTERM handler.  *)
LeaderExits == /\ leader = "running"
               /\ \/ leader' = "exited" /\ leaderCode' \in ExitCodes
                  \/ termSent /\ leader' = "signalled" /\ leaderCode' = -1
               /\ UNCHANGED <<child, termSent, grace, wait, runErr, execResult>>

ChildExits == /\ child.alive /\ (termSent => ~child.ignoresTerm)
              /\ child' = Gone
              /\ UNCHANGED <<leader, leaderCode, termSent, grace, wait, runErr, execResult>>

(* cmd.Cancel, which os/exec calls at most once and only until Wait has    *)
(* seen the leader exit.                                                   *)
SignalGroup == /\ expired /\ wait = "waiting" /\ ~termSent
               /\ termSent' = TRUE /\ grace' = "waiting"
               /\ UNCHANGED <<leader, leaderCode, child, wait, runErr, execResult>>

(* The timer of the escalation: the whole group is killed.                 *)
Escalate == /\ grace = "waiting"
            /\ grace' = "fired"
            /\ leader' = IF LeaderExited THEN leader ELSE "signalled"
            /\ leaderCode' = IF LeaderExited THEN leaderCode ELSE -1
            /\ child' = Gone
            /\ UNCHANGED <<termSent, wait, runErr, execResult>>

(* done was closed first: the group leader is reaped, nothing is sent.     *)
GiveUpEscalation == /\ grace = "waiting" /\ wait \in {"returned", "idle"}
                    /\ grace' = "stopped"
                    /\ UNCHANGED <<leader, leaderCode, child, termSent, wait, runErr, execResult>>

(* cmd.Wait sees the leader's end ...                                      *)
ReapLeader == /\ wait = "waiting" /\ LeaderExited
              /\ wait' = "draining"
              /\ runErr' = CASE leaderCode # 0 -> "exit"
                             [] leaderCode = 0 /\ termSent -> "context"
                             [] OTHER -> "nil"
              /\ UNCHANGED <<leader, leaderCode, child, termSent, grace, execResult>>

(* ... then the end of the pipes, or no more than WaitDelay.               *)
PipesClosed == /\ wait = "draining" /\ ~PipesOpen
               /\ wait' = "returned"
               /\ UNCHANGED <<leader, leaderCode, child, termSent, grace, runErr, execResult>>

(* noneExecKillGrace (1s) is below noneExecWaitDelay (2s), and both run    *)
(* from the cancellation.                                                  *)
DelayElapsed == wait = "draining" /\ PipesOpen /\ grace # "waiting"

StopDraining == /\ DelayElapsed
                /\ wait' = "returned"
                /\ runErr' = IF runErr = "nil" THEN "waitDelay" ELSE runErr
                /\ UNCHANGED <<leader, leaderCode, child, termSent, grace, execResult>>

(* classifyExecError: ctx.Err() is read only now.                          *)
classifyExecError(err, ctxDone, code) ==
  CASE err = "nil"                    -> [code |-> 0, err |-> "nil"]
    [] err # "nil" /\ ctxDone         -> [code |-> -1, err |-> "context"]
    [] err = "exit" /\ ~ctxDone       -> [code |-> code, err |-> "nil"]
    [] err = "waitDelay" /\ ~ctxDone  -> [code |-> 0, err |-> "nil"]
    [] OTHER                          -> [code |-> -1, err |-> "other"]

Classify == /\ wait = "returned" /\ execResult = NoResult
            /\ execResult' = classifyExecError(runErr, expired, leaderCode)
            /\ UNCHANGED <<leader, leaderCode, child, termSent, grace, wait, runErr>>

ExecSteps == \/ SignalGroup \/ ReapLeader \/ PipesClosed \/ StopDraining \/ Classify

-----------------------------------------------------------------------------
(* Exit 0 is reported only for a leader that exited 0 by itself and was    *)
(* never signalled, another code only for the code it left, and a context  *)
(* error only after the context expired.                                   *)
ReportedAsItEnded ==
  execResult # NoResult =>
    /\ execResult = [code |-> 0, err |-> "nil"] => leader = "exited" /\ ~termSent
    /\ execResult.err = "nil" => leader = "exited" /\ execResult.code = leaderCode
    /\ execResult.err = "context" => expired

(* When a cancelled command's Exec has returned, no process of the group   *)
(* holds its output pipes any more: nothing is written to a buffer that    *)
(* has been read.  A descendant that closed them and ignores SIGTERM does  *)
(* survive, because the escalation ends with the leader.                   *)
CancelledGroupEnds == execResult # NoResult /\ termSent => ~PipesOpen

(* The same without the pipes: when Exec of a command that was told to end *)
(* has returned and the escalation is over, no descendant that ignores     *)
(* SIGTERM is left running.                                                *)
GroupIsGone == execResult # NoResult /\ termSent /\ grace # "waiting"
                 => ~(child.alive /\ child.ignoresTerm)
=============================================================================
