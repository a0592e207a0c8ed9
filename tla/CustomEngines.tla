---------------------------- MODULE CustomEngines ----------------------------
(* One call of Run of a custom engine: a command of the user's in the      *)
(* runtime (transport local) or a POST to a service of the user's (http).  *)
(* Both hand the same outcome to assembleResult, which decides what is an  *)
(* answer and what is a failure.                                           *)
(*                                                                         *)
(* A payload is what a file, a stdout or a response body holds: [kind,     *)
(* exit, final, trans, turns, generated, files, by]: kind "absent",        *)
(* "empty", "junk" (no JSON), "no exit code" or "result", by who wrote it: *)
(* "engine", "framework" or "earlier" (a fixture, a previous run).  Read   *)
(* as a text it is its final.  A file is <<where, name>>, where "ws" (the  *)
(* workspace), "dir" (the case's artifact directory) or "host" (outside).  *)
(* An artifact is [name, sources, from, path, inline]: how many sources it *)
(* sets, the one it sets ("path", "inline", "url"), the file of a path,    *)
(* the size of what it holds inline.                                       *)
EXTENDS EngineOutput, FiniteSetsExt

CONSTANTS Payloads,          (* what an engine may say                      *)
          CustomPlans,       (* configurations, see below                   *)
          MaxInline,         (* cap on one inline artifact                  *)
          MaxInlineTotal,    (* cap on all of them                          *)
          FileSize,          (* workspace file -> size, for http requests   *)
          MaxUpload          (* cap on the files of an http request         *)

(* A plan is [transport, block, format, output, left, limit, caseLimit,    *)
(* attach, dir]: block whether the transport's own section is present, output   *)
(* "" (stdout), "own" or "input" (the path of the input file), left what   *)
(* the output path holds before the call, attach the files of an http      *)
(* request: a sequence of [matches, required], dir whether the case has an *)
(* artifact directory.                                                     *)
ASSUME CapsOrdered == MaxInline \in Nat /\ MaxInlineTotal \in Nat /\ MaxInline <= MaxInlineTotal
ASSUME OutputsKnown ==
  /\ \A p \in CustomPlans : p.output \in {Blank, "own", "input"} /\ p.left.by # "framework"
  /\ \A p \in Payloads : p.by = "engine"

VARIABLES
  custom,    (* [plan, step, timeout]                                       *)
  output,    (* what the configured output path holds                       *)
  outcome,   (* the transport's outcome                                     *)
  ended      (* what Run returned: [done, exit, final, trans, turns, errs]  *)
customVars == <<custom, output, outcome, ended>>

Absent == [kind |-> "absent", exit |-> 0, final |-> <<>>, trans |-> <<>>, turns |-> 0,
           generated |-> {}, files |-> <<>>, by |-> "engine"]
SessionInput == [Absent EXCEPT !.kind = "no exit code", !.by = "framework"]
Silent == [raw |-> Absent, stdout |-> Absent, exit |-> 0, fails |-> FALSE, recorded |-> {},
           cleared |-> FALSE, uncleared |-> FALSE]
Nothing == [done |-> FALSE, exit |-> 0, final |-> <<>>, trans |-> <<>>, turns |-> 0,
            errs |-> {}, from |-> Absent, files |-> {}]
Asked == <<Message("user", Blank, <<"prompt">>, 1)>>      (* the messages of the case *)

CustomInit ==
  /\ custom \in {[plan |-> p, step |-> "prepare", timeout |-> 0] : p \in CustomPlans}
  /\ output = custom.plan.left
  /\ outcome = Silent /\ ended = Nothing

Plan == custom.plan
AtStep(s) == ~ended.done /\ custom.step = s
Goto(s) == custom' = [custom EXCEPT !.step = s]

(* errorResult: an error is never returned with exit code 0.               *)
errorExit(code) == IF code = 0 THEN 1 ELSE code
Abandon(why) == ended' = [Nothing EXCEPT !.done = TRUE, !.exit = errorExit(0), !.errs = {why}]

-----------------------------------------------------------------------------
(* prepareRun: the smaller of the two timeouts that are set; the session   *)
(* input and every template are rendered here or the call is abandoned.    *)
EffectiveTimeout(limit, caseLimit) ==
  IF limit <= 0 THEN caseLimit
  ELSE IF caseLimit > 0 /\ caseLimit < limit THEN caseLimit ELSE limit

PrepareRun ==
  /\ AtStep("prepare")
  /\ \/ /\ Plan.transport \in {"local", "http"} /\ Plan.block
        /\ custom' = [custom EXCEPT !.step = Plan.transport,
                        !.timeout = EffectiveTimeout(Plan.limit, Plan.caseLimit)]
        /\ UNCHANGED ended
     \/ Abandon("setup") /\ UNCHANGED custom
  /\ UNCHANGED <<output, outcome>>

(* The input file is written, over whatever the output path holds when     *)
(* they are the same.  Paths outside the workspace are refused.            *)
WriteInput ==
  /\ AtStep("local")
  /\ \/ /\ Goto("clear")
        /\ output' = IF Plan.output = "input" THEN SessionInput ELSE output
        /\ UNCHANGED ended
     \/ Abandon("input") /\ UNCHANGED <<custom, output>>
  /\ UNCHANGED outcome

SlipKeepsStaleOutput ==
  /\ AtStep("clear")
  /\ Goto("exec")
  /\ UNCHANGED <<output, outcome, ended>>

(* clearStaleOutputFile: only a configured output file that is not the     *)
(* input; a failure to remove it is not an error (uncleared remembers it). *)
(* Exec may report an error after the removal.                             *)
ClearStaleOutputFile ==
  /\ AtStep("clear")
  /\ Goto("exec")
  /\ \/ Plan.output # "own" /\ UNCHANGED <<output, outcome>>
     \/ /\ Plan.output = "own"
        /\ output' = Absent
        /\ outcome' \in {outcome, [outcome EXCEPT !.cleared = output.kind # "absent"]}
     \/ /\ Plan.output = "own"
        /\ outcome' = [outcome EXCEPT !.uncleared = TRUE]
        /\ UNCHANGED output
  /\ UNCHANGED ended

(* The command, its arguments, directory and environment are rendered; a   *)
(* template, a directory outside the workspace or the engine's API key in  *)
(* the command line abandons the call.                                     *)
BuildLocalExecRefuses == Abandon("command") /\ UNCHANGED <<custom, output, outcome>>

(* The command may write the output file, print, exit with any code, and   *)
(* its Exec may fail: the deadline, a lost connection.                     *)
ExecCustom ==
  /\ AtStep("exec")
  /\ \/ /\ Goto("read")
        /\ \E printed \in Payloads \cup {Absent}, exit \in {0, 2}, fails \in BOOLEAN,
              written \in {output} \cup (IF Plan.output = Blank THEN {} ELSE Payloads) :
             /\ output' = written
             /\ outcome' = [outcome EXCEPT !.stdout = printed, !.exit = exit, !.fails = fails]
        /\ UNCHANGED ended
     \/ BuildLocalExecRefuses

(* readRawResult: the output file when one is configured, can be read and  *)
(* is not empty, else stdout.  The input file is recorded as the           *)
(* framework's own, the output file when it was produced or cleared.       *)
Recorded(produced) ==
  {<<"ws", "input">>} \cup (IF produced \/ outcome.cleared THEN {<<"ws", "output">>} ELSE {})

ReadRawResult ==
  /\ AtStep("read")
  /\ Goto("assemble")
  /\ \/ outcome' = [outcome EXCEPT !.raw = outcome.stdout, !.recorded = Recorded(FALSE)]
     \/ /\ Plan.output # Blank /\ output.kind # "absent"
        /\ outcome' = [outcome EXCEPT !.recorded = Recorded(TRUE),
                          !.raw = IF output.kind = "empty" THEN outcome.stdout ELSE output]
  /\ UNCHANGED <<output, ended>>

-----------------------------------------------------------------------------
(* http: the files to attach.  An entry that matches nothing is an error   *)
(* unless it is marked as not required; a file matched twice is sent once. *)
expandHTTPFiles(entries) == UNION {entries[i].matches : i \in DOMAIN entries}
Unmatched(entries) ==
  {i \in DOMAIN entries : entries[i].matches = {} /\ entries[i].required}
UploadSize(files) == MapThenSumSet(LAMBDA f : FileSize[f], files)

(* The request is built, or the call abandoned: a template, a key in the   *)
(* URL, a method, a listing or a download of a file may refuse it.         *)
BuildRequest ==
  /\ AtStep("http")
  /\ \/ /\ Unmatched(Plan.attach) = {}
        /\ UploadSize(expandHTTPFiles(Plan.attach)) <= MaxUpload
        /\ Goto("request") /\ UNCHANGED ended
     \/ Abandon("request") /\ UNCHANGED custom
  /\ UNCHANGED <<output, outcome>>

(* No response, one that cannot be read or is too large leaves nothing; a  *)
(* status that is no success is a failure whatever its body says.          *)
DoRequest ==
  /\ AtStep("request")
  /\ Goto("assemble")
  /\ \/ outcome' = [outcome EXCEPT !.exit = 1, !.fails = TRUE]
     \/ \E body \in Payloads, status \in {200, 500} :
          outcome' = [outcome EXCEPT !.raw = body, !.stdout = body,
                        !.exit = IF status = 200 THEN 0 ELSE status,
                        !.fails = status # 200]
  /\ UNCHANGED <<output, ended>>

-----------------------------------------------------------------------------
(* The result.  Artifacts are accepted or refused as a whole.              *)
InlineSize(files, n) == After(LAMBDA sum, f : sum + f.inline, 0, SubSeq(files, 1, n))
validateArtifactFiles(files) ==
  \A i \in DOMAIN files : /\ files[i].name # Blank /\ files[i].sources = 1
                          /\ files[i].inline <= MaxInline
                          /\ InlineSize(files, i) <= MaxInlineTotal

(* collectArtifacts: what an artifact may add to the files of the result.  *)
(* A path outside the workspace adds nothing; one inside is added as it    *)
(* is, and its copy under another name when that was made; what is inline  *)
(* or behind a url is added when it was written.  All of it best effort.   *)
InWorkspace(files) == {f \in files : f[1] = "ws"}
Deposited(f) == {{}} \cup (IF Plan.dir THEN {{<<"dir", f.name>>}} ELSE {})
Registers(f) ==
  CASE f.from = "path" /\ f.path[1] # "ws" -> {{}}
    [] f.from = "path" /\ f.path[1] = "ws" ->
         {{f.path} \cup copy : copy \in IF f.name = f.path[2] THEN {{}} ELSE Deposited(f)}
    [] OTHER -> Deposited(f)
collectArtifacts(p) ==
  {InWorkspace(p.generated) \cup UNION {c[i] : i \in DOMAIN p.files} :
     c \in {d \in [DOMAIN p.files -> UNION {Registers(p.files[i]) : i \in DOMAIN p.files}] :
              \A i \in DOMAIN p.files : d[i] \in Registers(p.files[i])}}

deriveTurns(trans) == IF codexTurns(trans) > 0 THEN codexTurns(trans) ELSE countTurns(trans)
minimalCustomTranscript(final) ==
  Asked \o (IF final = <<>> THEN <<>>
            ELSE <<Message("assistant", Blank, final, Greater(codexTurns(Asked), 1))>>)

Parsable(p) == p.kind = "result" /\ validateArtifactFiles(p.files)

parseSessionResult(p) ==
  LET final == IF p.final = <<>> THEN FinalAssistantMessage(p.trans) ELSE p.final
      trans == IF p.trans = <<>> THEN minimalCustomTranscript(final) ELSE p.trans
  IN  [exit |-> p.exit, final |-> final, trans |-> trans,
       turns |-> IF p.turns = 0 THEN deriveTurns(trans) ELSE p.turns]

(* buildResult: the text format takes stdout as it is and never fails.     *)
Parsed == Plan.format = "text" \/ Parsable(outcome.raw)
buildResult ==
  IF Plan.format = "text"
  THEN [exit |-> outcome.exit, final |-> outcome.stdout.final, turns |-> 0,
        trans |-> minimalCustomTranscript(outcome.stdout.final)]
  ELSE IF Parsed THEN parseSessionResult(outcome.raw)
  ELSE [exit |-> errorExit(0), final |-> <<>>, trans |-> <<>>, turns |-> 0]

(* A failed run may still carry an answer, never an exit code of 0.        *)
RunFailed == outcome.fails \/ outcome.exit # 0
AssembledExit ==
  CASE outcome.fails /\ (~Parsed \/ buildResult.exit = 0) -> errorExit(outcome.exit)
    [] ~outcome.fails /\ outcome.exit # 0                 -> outcome.exit
    [] OTHER                                              -> buildResult.exit
AssembledErrors ==
  CASE outcome.fails                               -> {"exec"}
    [] ~outcome.fails /\ outcome.exit # 0          -> {"exit"}
    [] ~RunFailed /\ ~Parsed                       -> {"result"}
    [] ~RunFailed /\ Parsed /\ AssembledExit # 0   -> {"reported"}
    [] OTHER                                       -> {}

AssembleResult ==
  /\ AtStep("assemble")
  /\ \E files \in IF Plan.format = "text" \/ ~Parsed THEN {{}} ELSE collectArtifacts(outcome.raw) :
       ended' = [done |-> TRUE, exit |-> AssembledExit, errs |-> AssembledErrors,
                 final |-> buildResult.final, turns |-> buildResult.turns,
                 trans |-> IF outcome.fails /\ ~Parsed THEN minimalCustomTranscript(<<>>)
                           ELSE buildResult.trans,
                 from |-> IF ~Parsed THEN Absent
                          ELSE IF Plan.format = "text" THEN outcome.stdout ELSE outcome.raw,
                 files |-> files \cup outcome.recorded]
  /\ UNCHANGED <<custom, output, outcome>>

-----------------------------------------------------------------------------
(* What a fixture or an earlier run left at the output path is not taken   *)
(* for the answer of this run when it could be removed (when not, see      *)
(* LeftoverIsNoAnswer), and what the framework wrote only when the output  *)
(* path is the input's; a result without errors says exit code 0 and is    *)
(* one the engine gave in a run that succeeded, and every failure carries  *)
(* both an error and another exit code.  The files of the result are in    *)
(* the workspace or in the artifact directory, when there is one, and      *)
(* those the framework wrote are among them.                               *)
CustomAnswerIsThisRuns ==
  ended.done =>
    /\ ended.from.by = "earlier"   => outcome.uncleared
    /\ ended.from.by = "framework" => Plan.output = "input"
    /\ (ended.errs = {}) <=> (ended.exit = 0)
    /\ ended.errs = {} => ~RunFailed /\ (Plan.format = "text" \/ ended.from.kind = "result")
    /\ \A f \in ended.files : f[1] = "ws" \/ (f[1] = "dir" /\ Plan.dir)
    /\ outcome.raw # Absent /\ Plan.transport = "local" => <<"ws", "input">> \in ended.files

(* What custom_local.go:46 says of the removal of an old output file: a    *)
(* result left by a fixture or a previous run is never mistaken for this   *)
(* invocation's output.  The code goes on when the removal failed.         *)
LeftoverIsNoAnswer == ended.done => ended.from.by # "earlier"

CustomNext ==
  \/ PrepareRun \/ WriteInput \/ ClearStaleOutputFile \/ ExecCustom \/ ReadRawResult
  \/ BuildRequest \/ DoRequest \/ AssembleResult
CustomSpec == CustomInit /\ [][CustomNext]_customVars
=============================================================================
