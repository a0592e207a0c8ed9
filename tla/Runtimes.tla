------------------------------ MODULE Runtimes ------------------------------
(***************************************************************************)
(* The runtimes of internal/runtime (none.go, docker.go, opensandbox.go)   *)
(* behind the interface of runtime.go, used the way prepareRuntimeForCase  *)
(* and executeCase use them: NewRuntime, Create, some calls, one Close     *)
(* whose error is ignored, and the runtime is dropped.  What the daemon or *)
(* the sandbox service has is kept apart from what the handle knows: a     *)
(* command may fail, and it may also take effect and still report an       *)
(* error, which is what a context that expires meanwhile does to it.       *)
(* LocalExec and DownloadPool are the two calls with goroutines of their   *)
(* own.                                                                    *)
(***************************************************************************)
EXTENDS RemotePaths, Integers, FiniteSets

CONSTANTS Kinds, Policies, Paths, ExitCodes, SearchResults, Parallelisms,
          MaxCalls                    \* bound: calls between Create and Close

ASSUME RuntimesAssumption == /\ Kinds \subseteq {"none", "docker", "opensandbox"}
                             /\ Policies \subseteq {"unset", "deny_all", "allow_declared"}
                             /\ 0 \in ExitCodes /\ ExitCodes \subseteq Int /\ MaxCalls \in Nat
                             /\ Paths \subseteq [abs : BOOLEAN, segs : Seq(STRING)]
                             /\ SearchResults \subseteq
                                  Seq([path : [abs : BOOLEAN, segs : Seq(STRING)], mode : Int])

VARIABLES
  config,     \* type, image or template set, network policy, Delete = ~keep
  pc,         \* where the caller is
  handle,     \* containerID # "", sandbox # nil, workspace # ""
  started,    \* DockerRuntime.started
  remote,     \* the container, sandbox or directory itself
  workdir,    \* its workspace directory exists
  network,    \* the egress it was created with
  orphan,     \* history: its creation reported an error but took effect
  ret,        \* what the last call returned
  report,     \* the last exec or transfer: what happened, and what was said of it
  calls,      \* calls made
  expired, leader, leaderCode, child, termSent, grace, wait, runErr, execResult,       \* LocalExec
  files, sender, next, worker, errCh, cancelled, written, outcome          \* DownloadPool

Workspace == Abs(<<"workspace">>)
HostDir   == Abs(<<"host">>)

Local == INSTANCE LocalExec
Pool  == INSTANCE DownloadPool WITH Source <- Workspace, Target <- HostDir

execVars == <<leader, leaderCode, child, termSent, grace, wait, runErr, execResult>>
poolVars == <<files, sender, next, worker, errCh, cancelled, written, outcome>>
backend  == <<handle, started, remote, workdir, network, orphan>>
vars     == <<config, pc, backend, ret, report, calls, expired, execVars, poolVars>>

Configs  == [kind : Kinds, image : BOOLEAN, policy : Policies, keep : BOOLEAN]
Outcomes == {"ok", "failed", "cut"}     \* cut: took effect, and reported an error
NoReport == [cause |-> "none", left |-> 0, code |-> 0, err |-> "nil",
             path |-> Refused, given |-> NoPath]

Init == /\ config \in Configs
        /\ pc = "new" /\ handle = FALSE /\ started = FALSE /\ remote = "absent"
        /\ workdir = FALSE /\ network = "unset" /\ orphan = FALSE
        /\ ret = "nil" /\ report = NoReport /\ calls = 0 /\ expired = FALSE
        /\ Local!Init /\ Pool!Init

Alive == remote \in {"made", "running", "stopped"}

Is(kind) == config.kind = kind
At(kind, step) == Is(kind) /\ pc = step
Goto(step, result) == pc' = step /\ ret' = result
NoIO == UNCHANGED <<config, report, calls, expired, execVars, poolVars>>

-----------------------------------------------------------------------------
(* NewRuntime: docker has no way to allow only declared egress.            *)
Constructible == Is("docker") => config.image /\ config.policy # "allow_declared"

NewRuntime == /\ pc = "new"
              /\ IF Constructible THEN Goto("creating", "nil") ELSE Goto("discarded", "error")
              /\ NoIO /\ UNCHANGED backend

(* NoneRuntime.Create: a fresh temporary directory.                        *)
NoneCreate == /\ At("none", "creating")
              /\ \/ /\ Goto("ready", "nil")
                    /\ handle' = TRUE /\ remote' = "running" /\ workdir' = TRUE
                 \/ Goto("failed", "error") /\ UNCHANGED <<handle, remote, workdir>>
              /\ NoIO /\ UNCHANGED <<started, network, orphan>>

-----------------------------------------------------------------------------
(* DockerRuntime.Create, which holds the mutex: docker create, docker      *)
(* start, mkdir in the container; a failure of the last two removes it.    *)
dockerNetwork == IF config.policy = "deny_all" THEN "none" ELSE "open"

DockerCreate(o) ==
  /\ At("docker", "creating")
  /\ IF o = "ok" THEN Goto("starting", "nil") ELSE Goto("failed", "error")
  /\ handle' = (o = "ok") /\ orphan' = (o = "cut")
  /\ remote' = IF o = "failed" THEN "absent" ELSE "made"
  /\ network' = dockerNetwork
  /\ NoIO /\ UNCHANGED <<started, workdir>>

DockerCreateStart(o) ==
  /\ At("docker", "starting")
  /\ IF o = "ok" THEN Goto("mkdir", "nil") ELSE Goto("rollback", "error")
  /\ started' = (o = "ok")
  /\ remote' = IF o = "failed" THEN remote ELSE "running"
  /\ NoIO /\ UNCHANGED <<handle, workdir, network, orphan>>

DockerMkdir(o) ==
  /\ At("docker", "mkdir")
  /\ IF o = "ok" THEN Goto("ready", "nil") ELSE Goto("rollback", "error")
  /\ workdir' = (o # "failed")
  /\ NoIO /\ UNCHANGED <<handle, started, remote, network, orphan>>

(* rollbackRemove, detached from the context: only a removal that reported *)
(* success forgets the container.                                          *)
SlipForgetAnyway(o) == FALSE
StillHeld(o) == o # "ok"

DockerRollback(o) ==
  /\ At("docker", "rollback")
  /\ Goto("failed", "error")
  /\ remote' = IF o = "failed" THEN remote ELSE "removed"
  /\ handle' = StillHeld(o) /\ started' = (started /\ o # "ok")
  /\ NoIO /\ UNCHANGED <<workdir, network, orphan>>

-----------------------------------------------------------------------------
(* OpenSandboxRuntime.Create and createOpenSandboxCompat: create, connect, *)
(* make the workspace.  Settings that are missing end it first.            *)
sandboxNetwork == CASE config.policy = "deny_all"       -> "none"
                    [] config.policy = "allow_declared" -> "declared"
                    [] OTHER                            -> "open"

SandboxUnconfigured == /\ At("opensandbox", "creating")     \* base URL, API key or image
                       /\ Goto("failed", "error")
                       /\ NoIO /\ UNCHANGED backend

SandboxCreate(o) ==
  /\ At("opensandbox", "creating") /\ config.image
  /\ IF o = "ok" THEN Goto("connecting", "nil") ELSE Goto("failed", "error")
  /\ remote' = IF o = "failed" THEN "absent" ELSE "running"
  /\ orphan' = (o = "cut") /\ network' = sandboxNetwork
  /\ NoIO /\ UNCHANGED <<handle, started, workdir>>

SandboxConnect(o) ==
  /\ At("opensandbox", "connecting")
  /\ IF o = "ok" THEN Goto("mkdir", "nil") ELSE Goto("deleting", "error")
  /\ handle' = (o = "ok")
  /\ NoIO /\ UNCHANGED <<started, remote, workdir, network, orphan>>

(* DeleteSandbox outlives the context; its error is dropped.               *)
SandboxDelete(o) ==
  /\ At("opensandbox", "deleting")
  /\ Goto("failed", "error")
  /\ remote' = IF o = "failed" THEN remote ELSE "removed"
  /\ orphan' = (o = "failed")
  /\ NoIO /\ UNCHANGED <<handle, started, workdir, network>>

(* ensureDirectory: the directory API, or mkdir and test in a shell.       *)
ensureDirectory(api, shell) == api = "ok" \/ shell = "ok"

SandboxMkdir(api, shell) ==
  /\ At("opensandbox", "mkdir")
  /\ IF ensureDirectory(api, shell) THEN Goto("ready", "nil") ELSE Goto("cleanup", "error")
  /\ workdir' = (api # "failed" \/ shell # "failed")
  /\ NoIO /\ UNCHANGED <<handle, started, remote, network, orphan>>

(* closeSandbox: Kill keeps the handle when it fails; a kept sandbox and a *)
(* client that does not close are let go.                                  *)
closeSandbox(o) ==
  /\ handle' = (handle /\ ~config.keep /\ o # "ok")
  /\ remote' = IF handle /\ ~config.keep /\ o # "failed" THEN "removed" ELSE remote
  /\ UNCHANGED <<started, workdir, network, orphan>>

SandboxCleanup(o) == /\ At("opensandbox", "cleanup")
                     /\ closeSandbox(o) /\ Goto("failed", "error") /\ NoIO

CreateStep == \/ NoneCreate \/ SandboxUnconfigured
              \/ \E o \in Outcomes : \/ DockerCreate(o) \/ DockerCreateStart(o) \/ DockerMkdir(o)
                                     \/ DockerRollback(o) \/ SandboxCreate(o) \/ SandboxConnect(o)
                                     \/ SandboxDelete(o) \/ SandboxCleanup(o)
                                     \/ \E shell \in Outcomes : SandboxMkdir(o, shell)

-----------------------------------------------------------------------------
(* Close, which the caller makes once, after a failed Create too.          *)
DockerClose(o) ==
  /\ IF ~handle \/ o = "ok" THEN Goto("discarded", "nil") ELSE Goto("discarded", "error")
  /\ handle' = (handle /\ o # "ok") /\ started' = (started /\ handle /\ o # "ok")
  /\ remote' = CASE ~handle \/ o = "failed" -> remote
                 [] handle /\ o # "failed" /\ config.keep -> "stopped"
                 [] OTHER -> "removed"
  /\ UNCHANGED <<workdir, network, orphan>>

SandboxClose(o, client) ==
  /\ closeSandbox(o)
  /\ Goto("discarded", IF ~handle THEN "nil"
                       ELSE IF (config.keep \/ o = "ok") /\ client = "ok" THEN "nil" ELSE "error")

NoneClose(o) ==
  LET removes == handle /\ ~config.keep
  IN  /\ remote' = IF removes /\ o # "failed" THEN "removed" ELSE remote
      /\ Goto("discarded", IF removes /\ o # "ok" THEN "error" ELSE "nil")
      /\ UNCHANGED <<handle, started, workdir, network, orphan>>

Close == /\ pc \in {"ready", "failed"}
         /\ \E o, client \in Outcomes : \/ Is("docker") /\ DockerClose(o)
                                        \/ Is("opensandbox") /\ SandboxClose(o, client)
                                        \/ Is("none") /\ NoneClose(o)
         /\ NoIO

-----------------------------------------------------------------------------
(* Calls on a runtime that was created.                                    *)
Calling == pc = "ready" /\ calls < MaxCalls /\ calls' = calls + 1

(* Start and Stop: docker remembers whether it is started, the sandbox is  *)
(* asked; neither does anything for the host.                              *)
StartRuntime(o) ==
  /\ Calling
  /\ LET acts == Is("docker") /\ ~started
     IN  /\ started' = (started \/ (acts /\ o = "ok"))
         /\ remote' = IF acts /\ o # "failed" THEN "running" ELSE remote
         /\ ret' = IF (acts \/ Is("opensandbox")) /\ o # "ok" THEN "error" ELSE "nil"
  /\ UNCHANGED <<config, pc, handle, workdir, network, orphan, report, expired, execVars, poolVars>>

StopRuntime(o) ==
  /\ Calling
  /\ LET acts == (Is("docker") /\ started) \/ Is("opensandbox")
     IN  /\ started' = (started /\ ~(acts /\ o = "ok"))
         /\ remote' = IF acts /\ o # "failed" THEN "stopped" ELSE remote
         /\ ret' = IF acts /\ o # "ok" THEN "error" ELSE "nil"
  /\ UNCHANGED <<config, pc, handle, workdir, network, orphan, report, expired, execVars, poolVars>>

(* What `docker exec` may answer: the command's own exit, a fault of the   *)
(* daemon on stderr, a CLI that did not run, or was killed with the        *)
(* context; a container that is not running can only be a fault.           *)
DockerAnswers ==
  (IF remote = "running"
   THEN {[cause |-> "command", exit |-> c, stderr |-> "plain", runErr |-> "exit"] : c \in ExitCodes}
   ELSE {})
    \cup {[cause |-> "daemon", exit |-> 1, stderr |-> "daemon", runErr |-> "exit"],
          [cause |-> "cli", exit |-> -1, stderr |-> "plain", runErr |-> "other"]}
    \cup (IF expired
          THEN {[cause |-> "context", exit |-> -1, stderr |-> "plain", runErr |-> "exit"]}
          ELSE {})

(* runDockerCommand and classifyExecResult.                                *)
SlipExitCodeOnly(ctxDone, code, stderr, err) ==
  IF code = -1 /\ ctxDone THEN "context" ELSE err
classifyExecResult(ctxDone, code, stderr, err) ==
  CASE code = -1 /\ ctxDone                                   -> "context"
    [] ~(code = -1 /\ ctxDone) /\ err # "nil"                 -> "error"
    [] err = "nil" /\ code # 0 /\ stderr = "daemon"           -> "error"
    [] OTHER                                                  -> "nil"

DockerExec(a) ==
  LET ran == Local!classifyExecError(IF a.exit = 0 THEN "nil" ELSE a.runErr, expired, a.exit)
  IN  [cause |-> a.cause, left |-> a.exit, code |-> ran.code,
       err |-> classifyExecResult(expired, ran.code, a.stderr, ran.err),
       path |-> Refused, given |-> NoPath]

(* The SDK: an exit, an execution that ended without one, no execution at  *)
(* all, an error.  A missing exit code reads as 0, no execution as -1.     *)
SandboxAnswers ==
  {[cause |-> "command", exit |-> c] : c \in ExitCodes}
    \cup {[cause |-> "noExit", exit |-> 0], [cause |-> "nothing", exit |-> -1],
          [cause |-> "sdk", exit |-> 0]}

SandboxExec(a) ==
  [cause |-> a.cause, left |-> a.exit,
   code |-> IF a.cause \in {"sdk", "nothing"} THEN -1 ELSE a.exit,
   err |-> IF a.cause = "sdk" THEN "error" ELSE "nil", path |-> Refused, given |-> NoPath]

Exec ==
  /\ Calling
  /\ \/ Is("docker") /\ \E a \in DockerAnswers : report' = DockerExec(a)
     \/ Is("opensandbox") /\ \E a \in SandboxAnswers : report' = SandboxExec(a)
  /\ ret' = report'.err
  /\ UNCHANGED <<config, pc, backend, expired, execVars, poolVars>>

LocalStart == /\ Calling /\ Is("none") /\ Local!Start /\ pc' = "executing" /\ report' = NoReport
              /\ UNCHANGED <<config, backend, ret, expired, poolVars>>

(* A finished call leaves nothing but what it returned and its survivors.  *)
LocalReturn == /\ pc = "executing" /\ execResult # Local!NoResult
               /\ Goto("ready", execResult.err)
               /\ wait' = "idle" /\ execResult' = Local!NoResult /\ runErr' = "nil"
               /\ leader' = "none" /\ leaderCode' = 0 /\ termSent' = FALSE
               /\ UNCHANGED <<config, backend, report, calls, expired, poolVars, child, grace>>

LocalStep == /\ pc = "executing" /\ Local!ExecSteps
             /\ UNCHANGED <<config, pc, backend, ret, report, calls, expired, poolVars>>

GroupStep == /\ Local!LeaderExits \/ Local!ChildExits
             /\ UNCHANGED <<config, pc, backend, ret, report, calls, expired, poolVars>>

EscalationStep == /\ Local!Escalate \/ Local!GiveUpEscalation
                  /\ UNCHANGED <<config, pc, backend, ret, report, calls, expired, poolVars>>

(* Upload and download of one path: the directory that must exist, then    *)
(* the copy; the sandbox copies an upload in batches, the first that fails *)
(* ends it.                                                                *)
Transferred(p, end, succeeds) ==
  /\ Calling
  /\ report' = [NoReport EXCEPT !.cause = "transfer", !.given = p, !.path = end]
  /\ ret' = IF succeeds THEN "nil" ELSE "error"
  /\ UNCHANGED <<config, pc, backend, expired, execVars, poolVars>>

DockerTransfer(p, mkdir, copy) ==
  Is("docker") /\ LET end == dockerPath(Workspace, p)
                  IN  Transferred(p, end, end.ok /\ mkdir = "ok" /\ copy = "ok")

SandboxTransfer(p, mkdir, batches) ==
  Is("opensandbox") /\ Transferred(p, sandboxPath(Workspace, p),
                                   mkdir = "ok" /\ \A k \in DOMAIN batches : batches[k] = "ok")

HostTransfer(p, mkdir, copy) ==
  Is("none") /\ Transferred(p, hostPath(Workspace, p), mkdir = "ok" /\ copy = "ok")

SandboxDownloadDir == /\ Calling /\ Is("opensandbox") /\ sender = "idle"
                      /\ \E n \in Parallelisms : Pool!DownloadDir(n)
                      /\ Goto("downloading", "nil") /\ report' = NoReport
                      /\ UNCHANGED <<config, backend, expired, execVars>>

DownloadStep == /\ pc = "downloading" /\ Pool!PoolStep
                /\ UNCHANGED <<config, pc, backend, ret, report, calls, expired, execVars>>

DownloadReturns == /\ pc = "downloading" /\ sender = "returned"
                   /\ Goto("ready", outcome)
                   /\ sender' = "idle" /\ files' = <<>> /\ worker' = <<>> /\ written' = <<>>
                   /\ next' = 1 /\ errCh' = "none" /\ cancelled' = FALSE /\ outcome' = "pending"
                   /\ UNCHANGED <<config, backend, report, calls, expired, execVars>>

(* The case deadline, a cancellation, or the timeout of the call.          *)
Expire == /\ ~expired /\ pc # "discarded" /\ expired' = TRUE
          /\ UNCHANGED <<config, pc, backend, ret, report, calls, execVars, poolVars>>

-----------------------------------------------------------------------------
Step == \/ NewRuntime \/ CreateStep \/ Close
        \/ \E o \in Outcomes : StartRuntime(o) \/ StopRuntime(o)
        \/ Exec \/ LocalStart \/ LocalReturn \/ LocalStep
        \/ \E p \in Paths, mkdir, copy, second \in {"ok", "failed"} :
             \/ DockerTransfer(p, mkdir, copy) \/ SandboxTransfer(p, mkdir, <<copy, second>>)
             \/ HostTransfer(p, mkdir, copy)
        \/ SandboxDownloadDir \/ DownloadStep \/ DownloadReturns

Next == Step \/ GroupStep \/ EscalationStep \/ Expire

Spec == Init /\ [][Next]_vars

(* Commands return, goroutines are scheduled, timers fire.  Nothing makes  *)
(* a process end, or a context expire, that is not killed.                 *)
Fairness == /\ WF_vars(LocalStep) /\ WF_vars(DownloadStep)
            /\ WF_vars(LocalReturn) /\ WF_vars(DownloadReturns)
            /\ WF_vars(EscalationStep)

FairSpec == Spec /\ Fairness

-----------------------------------------------------------------------------
(* A container, sandbox or directory that should be deleted is known to    *)
(* the handle for as long as it exists, except one whose creation itself   *)
(* reported an error; and the runtime is dropped with it only when the     *)
(* Close that should have removed it failed.  A Create that returned nil   *)
(* left a running runtime with its workspace, and with no more egress than *)
(* the policy allows.                                                      *)
HandleTellsTheTruth ==
  /\ Alive /\ ~config.keep =>
       /\ handle \/ orphan \/ At("opensandbox", "connecting") \/ At("opensandbox", "deleting")
       /\ pc = "discarded" => orphan \/ ret = "error"
  /\ pc = "ready" /\ calls = 0 =>
       /\ handle /\ remote = "running" /\ workdir
       /\ Is("docker") \/ Is("opensandbox") =>
            CASE config.policy = "deny_all"       -> network = "none"
              [] config.policy = "allow_declared" -> network \in {"none", "declared"}
              [] OTHER                            -> TRUE

(* On the host and in a container Exec returns nil only with an exit code  *)
(* that the command itself left, and an error only when it is not the      *)
(* command's: a fault of the daemon, the CLI, the SDK or the context is    *)
(* never scored as a failing command.  The sandbox service has two answers *)
(* that do come back with nil and a code nobody left, and no others: an    *)
(* execution that ended without an exit code is scored as 0, and no        *)
(* execution at all as -1, although Exec itself logs the latter as a       *)
(* failure of the sandbox.                                                 *)
ExecIsHonest ==
  /\ Local!ReportedAsItEnded /\ Local!CancelledGroupEnds
  /\ report.cause \in {"daemon", "cli", "sdk", "context"} => report.err # "nil"
  /\ report.cause = "command" =>
       IF report.err = "nil" THEN report.code = report.left
                             ELSE report.err = "context" /\ expired
  /\ report.cause \in {"noExit", "nothing"} =>
       Is("opensandbox") /\ report.code = (IF report.cause = "noExit" THEN 0 ELSE -1)

(* What none.go:221-222 promises: a timed-out command's descendants do not *)
(* outlive it.                                                             *)
TimedOutGroupIsGone == Local!GroupIsGone

(* Files land where they should: a download is whole or reports why, and a *)
(* relative path of a docker transfer stays inside the workspace.          *)
TransfersAreWhole ==
  /\ Pool!DownloadIsWhole
  /\ report.cause = "transfer" /\ Is("docker") /\ report.path.ok /\ ~report.given.abs
       => Inside(Workspace, report.path.path)

(* A download always returns, whichever workers fail and whenever the      *)
(* context expires, and an exec returns once its context has expired, even *)
(* if the command ignores SIGTERM and holds its pipes.                     *)
CallsReturn == /\ pc = "downloading" ~> pc # "downloading"
               /\ pc = "executing" /\ expired ~> pc # "executing"
=============================================================================
