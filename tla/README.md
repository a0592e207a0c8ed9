# skill-up in TLA+

skill-up evaluates agent skills: it runs the cases of an evaluation plan against
an agent (a CLI or HTTP engine) inside a runtime (the local machine, Docker or
OpenSandbox), judges the sessions and writes reports. With `--event-log` the run
also leaves a live, append-only JSONL protocol of what it does.

This directory models the program from the moment a plan is computed to the exit
status: the event log, the command, the task pool, the pipeline of a case, and
below it the runtimes, the agents and the judges. TLC checks the models on small
instances; TLAPS proves the central invariants for every instance. Paths below are
relative to the repository (`internal/...` is `src/internal/...` in
`PROJECT.json`).

Contents: [inventory](#inventory) · [modules](#modules) · [runs](#runs-and-bounds) ·
[fairness](#fairness) · [proofs](#proofs) · [findings](#findings) ·
[abstractions](#abstractions-worth-knowing) · [not modelled](#not-modelled) ·
[plan](#plan)

## Inventory

| Component (source) | State | Operations | Hard behaviour | What makes it correct |
|---|---|---|---|---|
| Event publisher (`evalevent/publisher.go`) | next sequence, finalized, closed, sticky error, under one mutex | Publish, PublishLast, Close | failed writes, calls in any order | records numbered without gap; nothing after the last event, an error or Close |
| JSONL sink (`evalevent/jsonl.go`) | file, closed flag, mutex | Publish (loop of short writes), Close | kill between two writes, error after the newline | a call is atomic for readers; torn records can be attributed |
| Event lifecycle (`evalevent/lifecycle.go`) | phase, task and iteration flags, running set, counters, heartbeat goroutine | Start, SetPhase, IterationStarted/Completed, CaseStarted/Completed, Finish, heartbeat | goroutines report concurrently; Finish waits for a goroutine that needs its mutex | counters = flags = log; valid snapshots; no publication after Finish; Finish returns |
| Run command (`cli/run_events.go`) | the stream, invocation error, adapter error, exit status | start stream, load, execute, choose status, finish, exit | a signal at any point; context read twice | final record on every path; exit 0 and COMPLETED are deserved |
| Runner (`runner/runner.go`) | current iteration, collected results | EvaluatePlan loop, workspace, reports | iteration cut short | results and log agree |
| Evaluator: pool (`evaluator/evaluator.go` EvaluatePlan) | semaphore, WaitGroup, result slots | schedule, acquire, recheck, launch, wait | select races with cancellation | no slot lost or doubled; results settled on return |
| Evaluator: case (`executeCase`, `executeCaseOnce`) | attempt, deadline, runtime handle, artifacts, result | provision, create, setup, run agent, collect, expect, judge, close, retry | deadline against cancellation, partial failure, shared MCP `sync.Once` | runtime closed once per creation; retries follow the policy; coherent results |
| Evaluator: multi-turn (`evaluator/multiturn.go`) | session id, captured variables, turn results, transcript and token bases | one turn at a time with condition and captures | engines that re-read a cumulative session | one conversation, nothing counted twice |
| Runtimes (`runtime/none.go`, `docker.go`, `opensandbox.go`) | container or sandbox handle, process groups, download workers | Create, Start, Stop, Close, Exec, transfers | half-done creations, kills, worker pools | nothing forgotten, exit codes are the command's own, downloads whole |
| Built-in agents (`agent/codex.go`, `claude_code.go`, `qodercli.go`, `qwen_code.go`, `cli.go`) | one call: scratch directory, session files found, result | Run, RunTurn; Install, Check, InspectRuntime, InstallMCP, InstallSkill | CLIs that fail after answering, lossy directory names, cut lines | the answer is of this run; a failure is reported; a transcript is well-formed |
| Custom engines (`agent/custom*.go`) | one call: input and output files, request | Run over both transports | left-over output files, limits, exit codes | the answer is what this call produced |
| Judges (`judge/*`, `evaluateCaseSession`) | one call; the agent judge has a correction retry | expectations, rules, script, agent judge | its own timeout under the case deadline, usage reported twice | a verdict is earned, sessions counted once, timeouts blamed rightly |
| Configuration, credentials, reports, CLI | none at run time | load, validate, merge, render | sequential | precedence and validation rules |

How they interact. The **command** opens the stream, hands an adapter to the
**runner** and the **evaluator**, and closes the stream at the end. The runner
calls the evaluator's pool once per iteration; the **pool** starts a goroutine
per task; each goroutine calls the adapter when its case starts and ends, and
runs the **case pipeline** between the two, which owns a **runtime**, calls an
**agent** and then a **judge**, which may be an agent of its own in the same
runtime. All adapter calls, and the ticks of the heartbeat goroutine, go to the
**lifecycle**, which serialises them under its mutex and passes records to the
**publisher**, which serialises them under its own and hands them to the **sink**.
A signal cancels one context that all of these share; only the final record is
written under a context that cannot be cancelled.

`PROJECT.json` lists every component with its sources and every hazard with its
line.

## Modules

Abstract specifications, which promise something to a reader who does not know
the implementation:

* `EventStream` - a log that grows by records 1, 2, 3, ..., never changes what it
  holds, and does not grow once it is over.
* `RunProtocol` - what a *consumer* may conclude from the records alone: each
  record is legal after the records before it (phases, nesting of iterations and
  cases, counters that equal what counting the earlier records gives,
  `run_finished` last and, when COMPLETED, with nothing outstanding).

The event log and the command:

* `Publisher` - the publisher over its sink. The state is the record `pub`; the
  operators `PublishEvent` and `ClosePublisher` are one serialised call each and
  are what `Lifecycle` uses too, so that both work on the same definition. A
  write may be refused before its first byte (`refused`), stop in the middle
  (`torn`) or report an error after the complete line (`late`).
* `JSONLSink` - the same calls taken apart: goroutines contend for the mutex,
  the holder writes a record in as many pieces as the file accepts, a piece may
  fail, and the process may be killed between two pieces. It implements
  `Publisher`, which is what justifies treating a call as one step elsewhere.
* `Lifecycle` - the emitter. Each handler holds `l.mu` from beginning to end and
  is one action; a handler that emits two events emits them in one action, the
  second only if the first succeeded (in Finish both are attempted, as in the
  code). Finish and the heartbeat wait for one another outside the mutex, so
  they are several actions. On its own the module lets *any* goroutine make
  *any* call at any time, legal or not.
* `TaskPool` - EvaluatePlan of the evaluator: one action per step of the
  scheduling loop (the select, the recheck after it, the launch, the wait) and
  one per step of a goroutine; `defer` order is kept.
* `EvalCommand` - the command, the runner's loop, `TaskPool` (by INSTANCE) and
  `Lifecycle` (by EXTENDS) together, with a signal between any two steps. The
  adapter of `run_events.go` is the conjunction of a step with the lifecycle call
  it makes, and `record`, which remembers the first rejected call. The state
  changes of a lifecycle handler and of the goroutine that calls it are one step:
  the goroutine holds no lock of the pool while it calls and touches nothing
  shared between the two.

A case:

* `CaseAttempts` - one case: its attempts under their deadlines, the retry
  policy and the pipeline of one attempt. The other cases appear only through
  the MCP configuration they share. `TaskPool!ExecuteCase` is this module in one
  step; its steps in turn stand for the modules below.
* `MultiTurn` - the turns of one case, sent one by one to an engine that resumes a
  session: placeholders, the answer, its session id, the cutting of its
  transcript and usage into turns, condition, captures, and the status read off
  the turn results at the end. `CaseAttempts!RunAgent` is this module in one step.

The runtimes:

* `RemotePaths` - `path.Clean` and `path.Join` on segments, and the checks that
  keep a transfer inside the workspace.
* `LocalExec` - `Exec` of the local runtime: a process group with a leader and a
  descendant that may hold the pipes and ignore SIGTERM, os/exec's wait for the
  process and then for the pipes, the escalation goroutine, and the
  classification of the error afterwards.
* `DownloadPool` - OpenSandbox's `DownloadDir`: a sender, an unbuffered channel,
  the workers, a channel of one error and the context it cancels.
* `Runtimes` - the three runtimes behind their interface, used the way the
  evaluator uses them. What the daemon or service has (`remote`) is kept apart
  from what the handle knows (`handle`): every command may fail, or take effect
  and report an error. `LocalExec` and `DownloadPool` are instances whose steps run
  inside an `Exec` or a download.

The agents:

* `EngineOutput` - what codex, Claude Code, Qoder and Qwen Code make of a stream or
  a session file: pure operators over sequences of records, with junk and
  over-long lines.
* `SessionLookup` - which session file of a home is taken for this run's.
* `Engines` - one call of Run or RunTurn of a built-in agent, from its preparation
  to its cleanup. `Statements` and `Resuming` list each agent's statements and `call.at`
  is the place among them, so that the shared skeleton and each agent's own statements
  are one set of actions.
* `CustomEngines` - one call of a custom engine over either transport;
  `assembleResult`, which both share, decides what is an answer.
* `EngineInstall` - making an agent ready: installation, version, MCP servers and
  the upload of a skill with its filters.

The judges:

* `JudgeAnswer` - what the agent judge accepts as an answer, and how assertions
  become a verdict. `JudgeRules` - the rule judge's rules and the expectations.
  `JudgeContext` - merging of judge configurations, and what an agent judge is given
  to read within its budgets.
* `Judging` - the judge phase of a case around these operators: expectations, the
  judge the configuration names, and for an agent judge both calls, its timer, the
  case's context, artifacts and usage.

Modules whose name begins with `MC` give the constants of a module their values. Four of
them put machines that share no variable side by side: `MCEventLog` the lifecycle and the
sink, `MCEvaluator` the command, the case and the conversation, `MCRuntimes` the runtimes
and the judge phase, `MCEngines` the calls of `Engines`, of `CustomEngines` and the setup
of `EngineInstall`. Their initial condition is a disjunction: in each disjunct one machine
starts and the others stand in a final state, in which they can do nothing; a behaviour is
therefore a behaviour of that one machine, and one run checks the families one after the
other rather than their product. For this the specifications of the machines have names
of their own (`SinkSpec`, `CaseSpec`, `TurnsSpec`, `JudgeSpec`, `EnginesSpec`,
`CustomSpec`, `SetupSpec`, `CommandSpec`). `MCJudging` holds four families of
configurations (rules, expectations, agent judges, context).

Operators whose name begins with `Slip` are not part of any specification. Each
is a variant of the definition that follows it, changed the way a plausible
mistake in that code would change it (a missing unlock, a forgotten guard, an
early return). Put in the place of the real definition it makes TLC report a
violated property; `PROJECT.json` (`mutants`) pairs them. They show that the
properties are sensitive to the code.

Modules whose name ends in `Proofs` hold theorems, see [Proofs](#proofs).

## Runs and bounds

| Run | Configuration | Shows |
|---|---|---|
| `MCEventLog` | sink: two goroutines, records of three bytes, numbers up to 2, kill; lifecycle: one iteration with two concurrent tasks, outcomes PASS/ERROR, writes torn or failing late, one tick | refinement of `Publisher`; unterminated bytes are explained; every call returns; counters, running set, snapshots, log = state, a sound log, heartbeat joined, nothing after Finish, monotonicity, refinement of `RunProtocol`, Finish returns |
| `MCEvaluator` | command: two iterations (two tasks, one of them a baseline; one task), two slots, refused writes, signal anywhere; case: two retries on timeout, all judge types, all combinations of expect/exit code/own MCP/turns; conversation: every case of up to three turns, both kinds of engines, two texts a turn may have | calls of the adapter are legal, the pool is sound, the final record is true, exit 0 deserved, the command ends; runtime balance with artifacts, retries, coherent results, shared provisioning, return of a case; turns and verdict accounted for, one conversation, transcript and usage counted once |
| `MCRuntimes` | three runtimes, three egress policies, up to two calls between Create and Close, three files per download with two workers or the default number, relative and absolute paths; judge phase: every pair of 32 rules, each rule after a first turn that failed, 48 sets of expectations, agent judges on three kinds of engines and with invalid replies, 384 contexts | handles know what exists, exit codes are honest, downloads whole and inside, calls return; verdicts are earned, sessions counted once, the judge reads its material |
| `MCEngines` | five agents over six homes, windows of two and one token, a conversation id that is part of another, and every outcome below; custom engines at their limits; setups with and without pins | the conversation is ours, failures reported, transcripts sound, custom answers of this run, agents ready |
| `MCEvalCommandCancel` | one iteration of two tasks | violation, see Findings |
| `CaseDeadline` | script judge, no retry | violation, see Findings |
| `JudgeTimeout` | an agent judge with a timer | violation, see Findings |
| `LocalGroup` | one Exec of the local runtime | violation, see Findings |
| `MultiTurnLost` | whole sessions, session files that may be unreadable | violation, see Findings |
| `MultiTurnSkip`, `MultiTurnAnew` | cases of up to three turns | violations, see Findings |
| `CustomLeftover` | the configuration of `MCEngines` | violation, see Findings |

What the properties of the last families say:

* `ResultsCoherent` - a case has a verdict or an error and never both, passes only on an
  agent that ran without one, and the error blames the case's own timeout only if the
  attempt ended because that deadline fired.
* `VerdictDeserved` - a case goes to the judge only if every turn was answered and none
  failed, or one failed under skip_remaining; it is FAIL only for a failed turn. What a
  skip_remaining on the last turn deserves is left open here and is a finding.
* `OneConversation` - a session id that was known once survives an answer without one.
* `HandleTellsTheTruth` - a container or sandbox that should be deleted is known to
  the handle for as long as it exists, unless its creation itself reported an
  error; a Create that returned nil left it running, with its workspace, and with no
  more egress than the policy.
* `ExecIsHonest` - on the host and in a container a nil error comes with the command's
  own exit code, and a fault of daemon, CLI, SDK or context is never scored as a failing
  command. OpenSandbox has two answers that the code does score so, and the property
  states them: an execution without an exit code is 0, no execution at all is -1. When a
  cancelled command's Exec has returned, no process of its group holds the output pipes;
  that one may still be running is a finding.
* `TransfersAreWhole` - a download that returned nil has every file that was found; every
  file it created was created with the mode of one found at that place, and inside the
  target (that the host's umask may take bits away, and that a file which was there before
  keeps its own mode, is outside the model); a relative path of a docker transfer stays
  inside the workspace.
* `VerdictIsEarned` - a pass meets every expectation; under rules it meets no two
  opposite ones, none about a turn that was skipped or failed, and no failure rule; under an
  agent it rests on a valid answer to every criterion that reaches the threshold, of a
  call that was not cancelled. A valid answer is thrown away only for a cancellation.
* `SessionsCounted` - an agent judge's usage is that of its two calls, however the
  engine reports it, and the files of either can be read with that call's content.
* `JudgeReadsItsMaterial` - nothing over the budget is inlined, what the budget cuts or
  keeps out is in a file in full (the configured `max_turns` and `max_lines` shorten a text
  before, for good), and while the judge is asked it has its own skills and
  none of those the judged run was given by default.
* `ConversationIsOurs` - the session file of Claude Code, Qoder and Qwen Code was written
  in the call's own workspace, unless no candidate says where it was written (no file of
  Qwen Code does); and an older file is not read when the CLI just wrote the newest one and
  it says so. Nothing is claimed of a run that wrote no session file, which may be
  answered from an older one of its workspace, nor of codex: it looks for a file with the
  printed id anywhere in its name and takes the first, so an id that is part of another
  may find the other's.
* `FailuresReported` - a call without errors had a CLI that ended by itself with code 0
  and printed no record that could not be read; and Claude Code said no refusal within the
  last 4096 (authentication) or 2048 bytes (rate limit) of its stderr, its stdout or its
  final message. A refusal that more output follows, from a CLI that exits 0, is returned
  as an answer. Nothing temporary stays but what could not be removed.
* `AnswersAreSound` - the final message of codex and Qwen Code is something the assistant
  says in the transcript, and on codex's stdout every result of a tool follows a call of
  its id and turn.
* `CustomAnswerIsThisRuns` - what a fixture or an earlier run left at the output path is
  not taken for the answer, unless removing it failed or the path is the input's; errors
  and exit codes agree; the files of a result are in the workspace or its directory.
* `ReadyAgent` - a setup without errors found the version that was asked for, registered
  every server once and as last described, and uploaded every skill file that the
  filters want; nothing kept out is ever uploaded.

Why the bounds are enough. Sequence numbers matter only in relation to their
maximum: the sink of `MCEventLog` reaches it, the others stay below it. Three bytes are the
smallest record that can be cut at two places. Two concurrent tasks are what makes
completions race; a third in a second iteration is what makes counters of one
iteration differ from those of the run; two tasks on two slots and one that waits for
the cancellation are what the select can confuse, and `PoolIsSound` is proved for any
number. Three turns have one that is resumed, one that is cut out of a session with
two before it, and one left to skip; two texts let turns say the same or not, which
is all the comparison of transcripts can see. One tick lets a heartbeat be before,
within and after every other step; `ticks` exists only to bound the heartbeat, and no
property reads it; the command is checked without ticks, because what the heartbeat
may do to the log is checked and proved of the lifecycle under any calls. Two retries
have a first, a middle and a last attempt. Sink faults are reduced in the larger runs
to those that leave different states there: after any fault the publisher refuses
everything, so the command needs only one. Three files on two workers make one
worker take a second file; the process group has a leader and one descendant, the
two roles `os/exec` distinguishes. Agents' outputs go up to three records after the
ones every stream begins with, which is enough for a call to be started, completed,
completed without start, or cut by the next turn; each record of a format that the
parsers treat differently occurs. A text of claude is a sequence of tokens and the scan
windows are two tokens and one, so that a refusal is inside both, between them or before
both. Artifact sizes stand at, below and above both caps.

One type invariant is checked (`Lifecycle!TypeOK`); the others that the proofs need are
parts of their inductive invariants.

`CHECK_DEADLOCK FALSE` is set where the program stops: the command has exited, the
case or its conversation has returned, the call of an agent or judge is over, the
runtime is dropped, the process was killed.

## Fairness

* A goroutine that can run is scheduled (weak fairness of each goroutine's
  steps). Calls into the outside world are steps that always end; hanging engines
  are cut by the deadline, which the code has, and a hanging *file* is outside
  what the code handles.
* `sync.Mutex` hands over to a waiter after one millisecond (starvation mode):
  strong fairness of entering the critical section in `JSONLSink`.
* The heartbeat's `select` picks among ready cases at random: it may prefer the
  ticker any finite number of times but takes the closed stop channel in the end.
  Strong fairness of that one step, `HeartbeatSeesStop`, and of nothing else in
  that goroutine.
* In `Runtimes` the goroutines of a local Exec and of a download are scheduled, and the
  one-second timer of the escalation (`noneExecKillGrace`) fires (weak fairness of `EscalationStep`). A
  command is not assumed to end: `CallsReturn` claims the return of an Exec only once
  its context has expired, and of a download always.
* No fairness is assumed of signals, faults, deadlines or callers.

## Proofs

Eight modules prove theorems that hold for every value of the constants (any plan,
number of tasks, retries, turns, faults and bounds), from the named assumptions of the
modules they extend and, where the text below says so, from one stated as a hypothesis.

*Publisher* (`PublisherProofs`). Numbering is not inductive by itself: a write that
failed late has used a number that `nextSequence` does not know of. `NumberingInv` says
that as long as no write has failed, `nextSequence = Len(log) + 1` and nothing is torn;
after a failure the sticky error keeps the log from growing, so nothing more need be
known. The invariant is stated of a record (`Sound(p)`), with a lemma each that a
publish and a close keep it, so that every module with a publisher can use it. From it
follow `PublisherSafety`, `PublisherFrozen` and the refinement
`PublisherImplementsStream`: an accepted record maps to `Extend`, a failure or Close to
`Cut`, a rejected call to a stutter.

*Sink* (`JSONLSinkProofs`). `SinkImplementsPublisher`: the byte-level loop of any number
of goroutines, read as complete lines, is `Publisher`. The write of a last byte, or a
failed write, is the step of the publisher; every other step is a stutter. The invariant
behind it is that only the holder of the mutex writes, and that while its record is on
its way the reasons for which it was let in still hold (`InFlightInv`).

*Lifecycle* (`LifecycleProofs`). `CountersAgree` relates counters that are only
incremented to cardinalities of sets of flags; it is inductive together with `TypeOK`,
the work being that completing a task adds exactly one member to exactly one iteration's
set (`CompletedGrows`). The inductive invariant `IInv` adds

* `RunningAgrees` - the running set is what the flags say;
* `PhaseAgrees` - `started` and `finished` are functions of the phase, which the
  guards of the handlers test in different ways;
* `HeartbeatAgrees` - what Finish read of the heartbeat before it waited is still
  true when it goes on: a heartbeat starts only in Start, which happens once and
  before any Finish;
* `SoundLog` - `PublisherProofs!Sound` of the emitter's own publisher.

With these, `SnapshotsCorrect` shows that the arithmetic of the publisher's
validation (completed + running within the total, counts that add up) can never
refuse a snapshot, `HeartbeatJoinedCorrect` that no heartbeat outlives Finish,
`FinishedIsFinalCorrect` that nothing is published after it, and `LogIsSoundCorrect`
that the file keeps the reader's contract under any calls.

What the log *says* is a different matter: a publication refused for want of a sequence
number leaves no sticky error, and the log would go on without the record. The second
half of the module therefore takes the hypothesis `Room`: the records a plan can give
rise to, one per tick of the heartbeat among them, are at most 2^53 - 1. That this is
enough is itself an invariant (`RoomInv`): the length of a healthy log is at most
`Budget`, a sum over the flags that are set, each of which is set once. Beside it
`StoryInv` says that a healthy log tells exactly what the emitter's variables say: the
tasks and iterations with a start or an end record, the counts per status, the phase of
the last snapshot. Each handler appends its records to both sides at once; from that
follow `LogTellsStateCorrect` and, because no record is appended that is not legal after
those before it (`Grown`), the refinement `ProtocolImplemented`: the emitter, under any
calls, implements the protocol of `RunProtocol` that a consumer relies on.

*Command* (`CommandProofs`). `PoolInv` says where the runner and the pool can be together:
what was launched is a prefix of the iteration's order, what still works is in it, tasks
of later iterations are untouched, and the semaphore is the number of goroutines holding
a slot, plus one while the loop is between acquiring and launching. `PoolIsSoundCorrect`
follows. `CommandUsesLifecycle` shows that every behaviour of the command is one of
`Lifecycle`, which was specified for an environment that calls anything at any time;
hence `CommandLogCorrect`, all of the lifecycle's theorems inside the command.
`OutcomeInv` carries on from there what an exit status of 0 needs
(`SuccessIsDeservedCorrect`): iterations behind the runner are done, their results are
kept as long as there is no error, the loop is left without one only at its end, and a
clean Finish and Close leave a finalized log without errors. `CallInv`, under `Room`, ties
the emitter's flags to the runner's place and to each goroutine's (a task has started for
the emitter exactly when its goroutine is past its announcement, and so on); no guard of a
handler can then be false when the command calls it. `CallsAreLegalCorrect` and
`FinalRecordIsTrueCorrect` follow.

*Case* (`EvaluatorProofs`). `CaseInv` has one part per theorem: where the pipeline is tells
what it holds (`PipelineInv`, for `RuntimesBalancedCorrect`), the history has one result
per attempt that ended and each but the last is retryable (`HistoryInv`), who leaves the
pipeline has a verdict or an error (`ResultInv`), and past its provisioning a case that
shares the MCP configuration has seen it ready (`ProvisionedInv`).

*Conversation* (`EvaluatorProofs`). For cases of any length: while the case runs every
turn before this one was answered and completed (`Progress`), and the evaluator knows no
session only as long as no answer named one (`Unnamed`). `TurnsAccountedCorrect`,
`VerdictDeservedCorrect` and `OneConversationCorrect` follow (the second says
nothing of a skip_remaining on the last turn); the work is that a message
joins exactly one conversation (`MessageAdded`) and that the status read back off the
results is the one that ended the case (`StatusOfFailed`). `CountedOnceCorrect` has the
hypothesis that every session file can be read, without which the property is false (run
`MultiTurnLost`). `CountInv` says what the evaluator holds after n answers: a transcript
of n turns in order, a usage of 1 + ... + n (`UsageOfCounting`), and, to compare the next
answer with, the whole conversation so far or the last turn of it. That a tail is cut off
where it should be rests on texts that are pairwise different, counted as a cardinality.

*Runtimes* (`RuntimeProofs`). The three runtimes share a module and its steps; each of the
three theorems needs only the part of the state it is about, and `StepParts` says once what
a step does to each part.

* `HandleCorrect`: `HandleInv` says for every place in Create, Exec and Discard what exists
  on the other side and which network policy it was created under. Exempt is the orphan of
  a creation that took effect and reported an error: nothing in the code knows it.
* `ExecIsHonestCorrect`: `ExecInv` is about the process group and the goroutine of a local
  Exec: who was signalled was signalled after the context expired, an error of `Wait` is
  about a leader that ended, and a stopped grace timer has a returned Wait. Of docker and
  opensandbox, `CallHonest` says where each report comes from; opensandbox's two answers
  that no command gave are part of the statement.
* `TransfersAreWholeCorrect`: `PoolInv` says of every file that was handed over that it
  is settled, or that a worker has it, or that an error is kept; and that what is on the
  host is one of them with its mode (`Kept`), and every target below the host's
  directory. The latter needs `path.Clean` of paths of any length. Its recursive
  function is unfolded by an induction over lengths in the form the prover takes: a
  shortest counterexample (`Least`, `SeqLeast`), from the well-foundedness of the
  naturals. `RuntimesAssumption` gives the constants `Paths` and `SearchResults` the
  types that this needs.

*Judge* (`JudgingProofs`), for any rules, expectations, texts, budgets, replies and files.
`JudgingAssumption` gives the configured cases their types and says that numbers are not
negative (the validator refuses them) and that engines do not report files under the
host's directories of the two attempts.

* `JudgeReadsItsMaterialCorrect`: each text that is inlined, cut or written satisfies
  `Readable` on its own (`TextReadable`), whatever sum of sizes `Bytes` computes
  (`SumsExist`, again by a shortest counterexample).
* `VerdictIsEarnedCorrect`: `ExpectInv` and `RulesInv` keep, past their check, what it found;
  that opposite rules exclude each other (`OpposedExclude`) and that a rule about a turn
  needs a completed one (`MetTurnCompleted`) are facts about the rules alone. For agents,
  `CallInv` ties the sessions and errors that the judge holds to what its calls did, and
  `ValidCovers` counts: as many different known criteria as there are criteria are all of
  them.
* `SessionsCountedCorrect`: `Counts` says what a call costs and tells, whether its engine
  resumes, reports usage cumulatively, both or neither, so that the comparison of
  transcripts adds exactly what is not yet in (`SessionAdds`). `FilesInv` follows a file
  from the engine's report to its place in the attempt's directory, which no later
  download, second call or collection overwrites (`FilesCall`, `FilesPersist`,
  `CollectKeeps`).

*Agents* (`AgentProofs`), for any set of agents, workspaces and homes, and for everything
their CLIs may print and leave behind.

* *Parsers.* `After` folds a parser's step over the lines of an output as a function of how
  much was read. That a property survives is proved of one line at a time, and then of any
  number of lines by the first one that would break it (`ReadingStays`, from `Least`).
  `CodexParsed` keeps three facts together: every result of a tool follows its call, every
  call under way is in the transcript with the turn it is remembered with, and the final
  message is one the assistant says; the second is what makes the first hold for a call
  that ends after another turn began. `ClaudeParsed` and `QwenParsed` say of any session
  file when its final message may be empty and where it comes from.
* *Calls.* `EnginesInv` has, beside the three properties, `EnginesType`; `OrderInv`, that
  the place of a call among its statements tells what it has done (nothing is read before
  the CLI ran, nothing temporary exists before the statement that makes it);
  `CodexReadInv`, what codex has read at each place, which the parser theorems give and
  preferring the session file or the last message must keep; and `OthersReadInv`, the same
  for the other agents. `ConversationIsOursCorrect`, `FailuresReportedCorrect` and
  `AnswersAreSoundCorrect` follow, with the exemptions named with the runs: directories
  without a recorded place, older files of the same workspace, codex's lookup, and what
  is said before the scan windows. That the smaller window lies in the larger
  (`WindowsNested`) is all that is assumed of them.
* *Custom engines.* `CustomAnswerCorrect`: the output path holds something of the engine's
  once it was cleared, unless clearing it failed or the input is there (`OutputInv`), and
  a result is there only when it is assembled, with the input recorded as the
  framework's own (`RawInv`).
* *Setup.* `ReadyAgentCorrect`: each step behind the setup left what it checked (`FoundInv`),
  the servers registered are the last descriptions among those already done
  (`ServersInv`), and what is uploaded is listed, and all of it when the setup
  ends without an error (`SkillInv`).

Assumed of the constants: a session file records its writer's own working directory or
none (`SessionFile`: `cwd` is `owner` or blank), exit codes are numbers and lines have the
fields their parsers read (`OutcomesKnown`, `HomesKnown`), a workspace has a name, a payload
that an engine gives is its own (`OutputsKnown`), and the paths of a skill's entries are
paths of names (`PlansReadable`). Nothing is assumed of the number, order or content of
lines, files, servers or artifacts.

*Only model-checked*: all liveness, which is outside the prover, and that the operators of
the agents compute what a reference would: their theorems say what their results satisfy.
Every invariant and every action property that a passing run checks is also proved.

## Findings

* **A run logged as CANCELLED that succeeds** (`MCEvalCommandCancel`).
  `runEvalWithEventLog` reads `ctx.Err()` twice at its end, once for the
  invocation error and once, inside `eventRunStatus`, for the final record. A
  signal between the two yields a log that ends in CANCELLED and a command that
  prints its summary and exits 0.
* **A case deadline reported as the script's** (`CaseDeadline`). The script judge
  tests the context of the script, a child of the attempt's. When the case
  deadline fires while the script runs, the case is FAIL with "script timed out"
  instead of ERROR, is not annotated, and is not retried under
  `retry_on: timeout`.
* **One unreadable session file doubles a conversation** (`MultiTurnLost`). The
  tail of a whole session is recognized by the answer before it. When that answer
  came from stdout, because its session file could not be read, the next one does
  not start with it, and all earlier turns and their tokens are counted again.
* **A foreign deadline blamed on the judge's timer** (`JudgeTimeout`). The error of the
  judge's context is read only after the attempt's artifacts were persisted. When
  the engine returned a deadline of its own and the case's context ends during the
  persistence, the error is labelled with `judge.timeout_seconds`, a timer that never
  fired; the comments at `judge/agent_judge.go:158` and `:735` say this is ruled out.

* **A descendant that outlives its timed-out command** (`LocalGroup`). The goroutine that
  would send SIGKILL after one second ends as soon as `Wait` returns. When the leader obeys
  SIGTERM and a descendant neither obeys it nor holds the pipes, `Wait` returns at once and
  the descendant is never signalled again; `runtime/none.go:221-222` and
  `runtime/none_exec_unix.go:28-29` promise that the whole group ends.
* **skip_remaining on the last turn** (`MultiTurnSkip`). `multiTurnStatus` knows
  skip_remaining only by the skipped turns behind the failed one. On the last turn there
  are none, and the case is FAIL without a judge; docs/guide/writing-evals.md:602-603 says
  that the result depends on what the judge sees.
* **A turn without a session to go to** (`MultiTurnAnew`). An answer without a session id
  only logs a warning, and the next turn opens a new conversation, where
  docs/design/multi-turn-conversation-implementation-plan.md:170-171 wants a case execution
  error. The warning is also given when an id is known from earlier, and is wrong there:
  the evaluator resumes that conversation.
* **A left-over answer** (`CustomLeftover`). `agent/custom_local.go:46-47` promises that
  left-over output is never mistaken for this call's; a removal that fails is only logged,
  and a command that writes nothing is then answered with the old file.

Smaller divergences and oddities met while modelling, visible in the definitions and
without a run of their own:

* A case that ends at an unresolved placeholder returns the last answer of the engine
  for its session, where every other path returns the aggregate (`SubstituteTemplate`;
  docs/design/multi-turn-conversation-implementation-plan.md:234 wants every turn
  preserved).
* `agent/claude_code.go:854-907` stops reading a session silently at a line longer than
  its scanner's limit; what was read before is the answer.
* Words such as "rate limit" in a legitimate answer mark a Claude Code run as refused.
* A skill whose `evals` is a plain file loses every entry after it, because the walk
  returns SkipDir for a file (`EvalsIsFile` in `EngineInstall`).
* `runtime/opensandbox.go:775` reads a missing exit code as 0, and a missing execution
  comes back from Exec as exit code -1 with a nil error, although the span calls it a
  failure of the sandbox.
* Codex without a configured version is installed at the default of
  `codexDefaultVersion`, and what is there is replaced unless it is that one; but when the
  PATH probe failed, an older system installation stays in front, and nothing checks.
* Two artifacts whose base names are equal overwrite one another
  (`judge/agent_judge.go:350`, `agent/custom.go:706`).
* The exit status of `find` is ignored when attachments are collected
  (`agent/custom_http_files.go:167`).
* docs/design/agent-configuration.md (item 4) makes a provider's model variable a default
  for when neither configuration nor command line selects a model;
  `credential/agent_init.go` lets it override the configuration.

## Abstractions worth knowing

* Payload fields, wording and time stamps are left out; a payload keeps the
  fields that the protocol's rules relate.
* `CaseAttempts` abstracts the agent and the judge to their outcomes and keeps
  the order in which they touch the runtime, the artifacts and the result.
* `MultiTurn` takes the messages of a turn as one, with a `text` that the code
  compares and the turn it came from, which the code cannot see. The built-in
  engines report whole sessions; engines that report single turns are those that
  comments and tests of `multiturn.go` provide for. `CountedOnce` is claimed for
  sessions that were resumed throughout and for turn reports that differ: a
  conversation that began anew, or two turns with the same messages, cannot be
  told from a cumulative transcript by comparing messages. What conditions and
  extractors match is a choice, as the answer is; the k-th turn costs k tokens, so
  that a sum tells which turns are in it.
* Errors are members of {error, timeout}: what `errors.Is(err,
  context.DeadlineExceeded)` can tell apart is all that the retry policy reads.
* `Iterations`, `Plan` and the iteration of a task are constants, as the plan is
  computed before the stream starts.
* Texts are sequences of tokens in the agents and sets of words in the rule judge;
  text that is only white space is the text without tokens. Whether a pattern occurs
  in a text is a choice of the configuration. A line of an agent's output is a record
  with the fields its parser reads.
* An engine that counts usage cumulatively returns the whole transcript with it, as
  the built-in ones do.
* Qoder's final answer may come from its envelope and be missing from its transcript;
  `AnswersAreSound` allows that and only that.
* A skill installed by a template command of the configuration is installed in full:
  the filters belong to the upload.
* `PartOf` relates two conversation ids of which a file name with one matches codex's
  pattern for the other.
* Session files are older than this call or written by it; which of two is newer is all
  that their modification times say.

## Not modelled

Three hazards of modelled code have no property. A record published under a cancelled
context (`cli/run_events.go:514`) would set the publisher's sticky error like a failing
file does; the model does not record why a sink refused, so it cannot tell them apart. A
container whose `docker create` was cut off (`runtime/docker.go:123`) is the orphan that
`HandleTellsTheTruth` exempts: no handle ever names it. And a process that failed by itself
while its context expired (`runtime/none.go:326`) is reported as killed by the context on
purpose, since the error shows no more than a signal.

Command lines, quoting, templates and environment overlays of the agents; the masking
of API keys; warnings about credentials; configuration files, their validation and the
selection of models; the contents of reports; fixtures and the workspace diff; static
security checks; observability. They are sequential code on strings and files without
state that another goroutine sees, and are listed with their reasons in `PROJECT.json`.

## Plan

Done: the event log down to its bytes, the command with runner and pool, the case
pipeline and its conversations, the three runtimes, built-in and custom agents with
their installation, and the judge phase; proofs of the publisher, the sink, the
lifecycle, the command, the case, the conversation, the runtimes, the judge phase and the
agents.

Left, in this order:

1. Operators for plan construction and for the precedence of models, credentials and
   user configuration, checked against reference definitions.
2. The composition of `CaseAttempts` with `Judging`, to take the blame of a timeout from
   the judge's context to the retry of the case.
