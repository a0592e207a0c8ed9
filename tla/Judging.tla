------------------------------ MODULE Judging ------------------------------
(***************************************************************************)
(* The judge phase of one case: evaluateCaseSession of the evaluator       *)
(* (expectations, creation of the judge, collection of what it left        *)
(* behind) around the judge of internal/judge that the configuration       *)
(* names: rules, a script, or an agent that is asked once and, when its    *)
(* answer is not valid, once more.  The context may end at any point, by   *)
(* the case's deadline or a signal (parentErr) or by the judge's own       *)
(* timer.                                                                  *)
(***************************************************************************)
EXTENDS JudgeRules, JudgeContext

CONSTANT Plans    \* the configured cases, the runs they judge, and what the sessions of
                  \* an agent judge may reply and leave behind (replies, fileSets)

FilePaths == STRING \X STRING      \* a directory and a base name

(* Numbers that are not set are 0, negative ones are refused when the      *)
(* configuration is loaded.  "own" stands for the attempt's directory, so  *)
(* that no path is in one of the host's; engines name their files after    *)
(* what is in them, never like the judge's own.                            *)
ASSUME JudgingAssumption ==
  /\ DefaultMaxBytes \in Nat \ {0}
  /\ \A p \in Plans :
       /\ p.global \in JudgeConfigs /\ p.case \in JudgeConfigs
       /\ p.criteria \in Nat
       /\ p.engine \in [resumes : BOOLEAN, cumulative : BOOLEAN, id : STRING]
       /\ DOMAIN p.input.turns = 1..Len(p.input.turns) /\ Len(p.input.turns) \in Nat
       /\ \A k \in TextKeys : p.texts[k] \in Seq(Nat)
       /\ p.replies \subseteq Replies
       /\ p.fileSets \subseteq SUBSET FilePaths
       /\ \A files \in p.fileSets : \A f \in files :
            f[1] \notin {"run", "retry"} /\ f[2] \notin {"response-1", "response-2"}

VARIABLES
  plan,        \* the configuration and the run of this case; never changes
  step,        \* where the judge phase is
  parentErr,   \* Err() of the context the phase was given
  ctxErr,      \* Err() of the judge's own context
  timerFired,  \* history: that context ended by its own timer
  attempt,     \* the agent judge's call in hand
  call,        \* what that call returned: its session, its error, parentErr then
  sessions,    \* the sessions of both calls, as persisted
  disk,        \* files: the content at each path
  skills,      \* skills installed in the runtime, by target directory
  materials,   \* what the agent judge was given to read
  verdict,     \* what the case ends with
  history      \* what each call really did: its tokens, files and fate

judgeVars == <<plan, step, parentErr, ctxErr, timerFired, attempt, call, sessions, disk, skills,
               materials, verdict, history>>

Errors == {"nil", "failure", "deadline", "canceled"}
Config == MergeJudgeConfig(plan.global, plan.case)
Expect == MergeExpect(plan.defaults, plan.expect)
Calls  == {1, 2}

(* DefaultPassThreshold is 70 %.                                            *)
Threshold == IF Config.threshold = <<>> THEN 70 ELSE Config.threshold[1]

NoReply   == [shape |-> "blank", keys |-> "exact", present |-> FALSE, results |-> <<>>]
NoSession == [present |-> FALSE, id |-> "", reply |-> NoReply, tokens |-> 0,
              transcript |-> <<>>, files |-> {}]
NoCall    == [session |-> NoSession, err |-> "nil", parent |-> "nil", resumed |-> FALSE]
NoVerdict == [status |-> "none", passed |-> 0, total |-> 0, session |-> NoSession,
              label |-> FALSE]

(* The files with those of `new` written.                                  *)
Stored(new) == [p \in DOMAIN new \cup DOMAIN disk |-> IF p \in DOMAIN new THEN new[p] ELSE disk[p]]

JudgeInit == /\ plan \in Plans
             /\ step = "expect"
             /\ parentErr = "nil" /\ ctxErr = "nil" /\ timerFired = FALSE /\ attempt = 1
             /\ call = NoCall /\ sessions = [n \in Calls |-> NoSession]
             /\ disk = <<>>     \* the function without a file
             /\ skills = plan.runSkills
             /\ materials = <<>>
             /\ verdict = NoVerdict
             /\ history = [n \in Calls |->
                             [made |-> FALSE, err |-> "nil", files |-> {}, lost |-> {}]]

contextVars == <<parentErr, ctxErr, timerFired>>
agentVars   == <<attempt, call, sessions, disk, materials, history>>

(* The phase ends without a judge's session, or goes on to collect what    *)
(* the session of the verdict reports.                                     *)
Verdict(result, session, label) ==
  [status |-> result.status, passed |-> result.passed, total |-> result.total,
   session |-> session, label |-> label]

End(result) == verdict' = Verdict(result, NoSession, FALSE) /\ step' = "done"
Fail == End(NewErrorResult)

-----------------------------------------------------------------------------
(* The context the phase runs under ends; the judge's own ends with it.    *)
ParentEnds ==
  /\ step # "done" /\ parentErr = "nil"
  /\ parentErr' \in {"deadline", "canceled"}
  /\ ctxErr' = IF ctxErr = "nil" THEN parentErr' ELSE ctxErr
  /\ UNCHANGED <<plan, step, timerFired, skills, verdict, agentVars>>

JudgeTimer ==
  /\ step \notin {"expect", "create", "collect", "done"} /\ ctxErr = "nil"
  /\ \/ Config.type = "script"
     \/ Config.timeout # <<>> /\ Config.timeout[1] > 0
  /\ ctxErr' = "deadline" /\ timerFired' = TRUE
  /\ UNCHANGED <<plan, step, parentErr, skills, verdict, agentVars>>

(* runExpectPreCheck: a failed expectation is the verdict.                 *)
CheckExpect ==
  /\ step = "expect"
  /\ LET assertions == ExpectAssertions(Expect, plan.input)
     IN  IF NewResult(assertions).status = "FAIL" THEN End(NewResult(assertions))
         ELSE step' = "create" /\ UNCHANGED verdict
  /\ UNCHANGED <<plan, skills, contextVars, agentVars>>

(* The verdict's counts with the expectations' passed assertions in front. *)
WithExpect(result) ==
  LET n == TotalOf(ExpectAssertions(Expect, plan.input))
  IN  [result EXCEPT !.passed = @ + n, !.total = @ + n]

(* The run's skills that skill-up put at their default place: what the     *)
(* judge must not see.                                                     *)
RemovedSkills == IF plan.withSkill /\ plan.posix THEN plan.defaultTargets ELSE {}

(* A slip that installs before it removes.                                 *)
SlipInstallThenRemove(installed) == (installed \cup plan.judgeSkills) \ RemovedSkills

PreparedSkills(installed) == (installed \ RemovedSkills) \cup plan.judgeSkills

(* newJudgeForCase and the dispatch of NewJudge.  Resolving the judge's    *)
(* agent, removing and installing skills may fail.                         *)
CreateJudge ==
  /\ step = "create"
  /\ UNCHANGED <<plan, contextVars, agentVars>>
  /\ \/ /\ Config.type = ""
        /\ End(WithExpect(NewResult(<<>>))) /\ UNCHANGED skills
     \/ /\ Config.type = "rule_based"
        /\ step' = "rules" /\ UNCHANGED <<verdict, skills>>
     \/ /\ Config.type = "script"
        /\ IF plan.script = "" THEN Fail ELSE step' = "upload" /\ UNCHANGED verdict
        /\ UNCHANGED skills
     \/ /\ Config.type = "agent_judge"
        /\ skills' = PreparedSkills(skills)
        /\ IF plan.criteria = 0 THEN End(WithExpect(NewResult(<<>>)))
           ELSE step' = "materialize" /\ UNCHANGED verdict
     \/ /\ Config.type = "agent_judge" /\ Fail      \* any of the three failed half-way
        /\ skills' \in {skills, skills \ RemovedSkills}
     \/ Config.type = "other" /\ Fail /\ UNCHANGED skills

(* RuleBasedJudge.Evaluate.                                                *)
EvaluateRules ==
  /\ step = "rules"
  /\ End(WithExpect(NewResult(RuleAssertions(plan.failure, plan.success, plan.input))))
  /\ UNCHANGED <<plan, skills, contextVars, agentVars>>

-----------------------------------------------------------------------------
(* ScriptJudge.Evaluate: the script and the transcript are uploaded, the   *)
(* script runs, its directory is removed by a command of its own context.  *)
UploadScript ==
  /\ step = "upload"
  /\ UNCHANGED <<plan, skills, contextVars, attempt, call, sessions, materials, history>>
  /\ \/ step' = "exec" /\ disk' = Stored([p \in {<<"tmp", "script">>} |-> 1]) /\ UNCHANGED verdict
     \/ Fail /\ UNCHANGED disk                      \* no runtime, no plan, or no upload

(* The uploaded script is gone unless the removal itself failed.           *)
Cleaned == disk' \in {disk, <<>>}

(* Exec returned: exit is the script's exit code, 0 also when it never     *)
(* ran.                                                                    *)
RunScript ==
  /\ step = "exec"
  /\ \E exit \in {0, 1}, err \in {"nil", "failure"} :
       CASE err # "nil" /\ ctxErr = "deadline" -> End(WithExpect(NewResult(<<FALSE>>)))
         [] err # "nil" /\ ctxErr # "deadline" /\ exit = 0 -> Fail
         [] OTHER -> End(WithExpect(NewResult(<<exit = 0>>)))
  /\ Cleaned
  /\ UNCHANGED <<plan, skills, contextVars, attempt, call, sessions, materials, history>>

-----------------------------------------------------------------------------
(* AgentJudge.Evaluate.  Files are named <<directory, base>>: "run" and    *)
(* "retry" are the host's directories of the two attempts ("own" in a      *)
(* report: that of the attempt in hand), the others belong to the runtime. *)
(* A content is the call and the path it came from.                        *)
Directory(n) == IF n = 1 THEN "run" ELSE "retry"
Response(n)  == <<"run", IF n = 1 THEN "response-1" ELSE "response-2">>

Materialize ==
  /\ step = "materialize"
  /\ UNCHANGED <<plan, skills, contextVars, attempt, call, sessions, disk, history>>
  /\ \/ /\ Supported(Config.context, plan.texts) /\ AttachmentsReadable(Config.context)
        /\ materials' = Materials(Config.context, plan.texts)
        /\ step' = "call" /\ UNCHANGED verdict
     \/ Fail /\ UNCHANGED materials                 \* also: a file or an upload failed

(* The engine can resume a session and has the id of the first one.        *)
Resumes == attempt = 2 /\ plan.engine.resumes /\ sessions[1].id # ""

(* Each call costs one token and one message.  An engine whose usage is    *)
(* cumulative reports what the resumed session has used since it began,    *)
(* with its whole transcript.                                              *)
SessionOf(reply, files) ==
  LET whole == Resumes /\ plan.engine.cumulative
  IN  [present |-> TRUE, id |-> plan.engine.id, reply |-> reply, files |-> files,
       tokens |-> IF whole THEN sessions[1].tokens + 1 ELSE 1,
       transcript |-> IF whole THEN Append(sessions[1].transcript, attempt) ELSE <<attempt>>]

(* What a call's error may be: "deadline" also when a shorter deadline of  *)
(* the engine's own expired.                                               *)
PossibleErrors == {"nil", "failure", "deadline"} \cup {ctxErr}

CallReturns ==
  /\ step = "call"
  /\ \E err \in PossibleErrors :
       \/ /\ call' = [session |-> NoSession, err |-> IF err = "nil" THEN "failure" ELSE err,
                      parent |-> parentErr, resumed |-> Resumes]
          /\ UNCHANGED <<disk, history>>
       \/ \E reply \in plan.replies, reported \in plan.fileSets :
            LET files == {IF p[1] = "own" THEN <<Directory(attempt), p[2]>> ELSE p : p \in reported}
            IN  /\ call' = [session |-> SessionOf(reply, files), err |-> err,
                            parent |-> parentErr, resumed |-> Resumes]
                /\ disk' = Stored([p \in files |-> <<attempt, p>>])
                /\ history' = [history EXCEPT ![attempt] =
                                 [made |-> TRUE, err |-> err, files |-> files, lost |-> {}]]
  /\ step' = "persist"
  /\ UNCHANGED <<plan, skills, contextVars, attempt, sessions, materials, verdict>>

(* Where a reported file is kept: under its base name in the attempt's own *)
(* directory.  The slip uses one directory for both attempts.              *)
SlipOneDirectory(p) == <<"run", p[2]>>

Target(p) == <<Directory(attempt), p[2]>>

(* persistAgentJudgeAttemptArtifacts: the reported files outside the       *)
(* attempt's directory are downloaded into it, but those of `lost`, which  *)
(* keep their paths; of two with one name either may be the one kept.  The *)
(* final message is stored as a file too.                                  *)
PersistArtifacts ==
  /\ step = "persist"
  /\ step' = "weigh"
  /\ UNCHANGED <<plan, skills, contextVars, attempt, call, materials, verdict>>
  /\ LET s       == call.session
         outside == {p \in s.files : p[1] # Directory(attempt)}
     IN  IF ~s.present \/ ~plan.artifacts
         THEN sessions' = [sessions EXCEPT ![attempt] = s] /\ UNCHANGED <<disk, history>>
         ELSE \E lost \in SUBSET outside :
              \E source \in {f \in [{Target(p) : p \in outside \ lost} -> outside \ lost] :
                               \A t \in DOMAIN f : Target(f[t]) = t} :
                /\ sessions' = [sessions EXCEPT ![attempt] =
                     [s EXCEPT !.files = (s.files \ (outside \ lost)) \cup DOMAIN source
                                         \cup {Response(attempt)}]]
                /\ disk' = Stored([t \in DOMAIN source \cup {Response(attempt)} |->
                                    IF t = Response(attempt) THEN <<attempt, t>>
                                    ELSE disk[source[t]]])
                /\ history' = [history EXCEPT ![attempt].lost = lost]

-----------------------------------------------------------------------------
(* canRecoverAgentJudgeResult: an answer counts in spite of the call's     *)
(* error unless the call was cancelled.                                    *)
SlipRecoverCancelled(returned) == returned.session.present /\ returned.session.reply.shape # "blank"

Recoverable(returned) == /\ returned.session.present
                         /\ returned.session.reply.shape # "blank"
                         /\ returned.err # "canceled"

(* annotateTimeoutError, called only if the parent was alive when the call *)
(* returned: ctx.Err() is read now.                                        *)
BlamedOnTimeout(returned) ==
  /\ returned.parent = "nil"
  /\ Config.timeout # <<>> /\ Config.timeout[1] > 0
  /\ returned.err = "deadline"
  /\ ctxErr # "nil"

(* aggregateAgentJudgeSessions: the usage of a resumed session whose       *)
(* transcript begins with the first one's includes that one's.             *)
Extends(first, second) ==
  /\ first.transcript # <<>>
  /\ Len(first.transcript) <= Len(second.transcript)
  /\ \A i \in DOMAIN first.transcript : second.transcript[i] = first.transcript[i]

SlipAlwaysSum(first, second, resumed) ==
  [second EXCEPT !.tokens = first.tokens + @, !.files = first.files \cup @]

Aggregate(first, second, resumed) ==
  IF ~second.present THEN first
  ELSE [second EXCEPT !.tokens = IF resumed /\ Extends(first, second)
                                 THEN IF first.tokens > @ THEN first.tokens ELSE @
                                 ELSE first.tokens + @,
                      !.files = first.files \cup @]

Session == IF attempt = 1 THEN sessions[1] ELSE Aggregate(sessions[1], sessions[2], call.resumed)

Conclude(result, label) == /\ verdict' = Verdict(result, Session, label)
                           /\ step' = "collect"
                           /\ UNCHANGED attempt

(* The rest of Evaluate after a call: an error of the call, a valid        *)
(* answer, or a second call with what was wrong with the first.            *)
Weigh ==
  /\ step = "weigh"
  /\ LET reply == sessions[attempt].reply
     IN  CASE call.err # "nil" /\ ~Recoverable(call) ->
                Conclude(NewErrorResult, BlamedOnTimeout(call))
           [] (call.err = "nil" \/ Recoverable(call)) /\ Valid(plan.criteria, reply) ->
                Conclude(WithExpect(BuildResult(Ordered(reply), Threshold)), FALSE)
           [] OTHER ->
                IF attempt = 2 \/ ctxErr # "nil" THEN Conclude(NewErrorResult, FALSE)
                ELSE attempt' = 2 /\ step' = "call" /\ UNCHANGED verdict
  /\ UNCHANGED <<plan, skills, contextVars, call, sessions, disk, materials, history>>

(* ensureArtifactsInOutputDir: what is not in the output directory yet is  *)
(* downloaded under its base name, unless a file of that name is there.    *)
Collect ==
  /\ step = "collect"
  /\ \E got \in SUBSET {p \in verdict.session.files : /\ p[1] \notin {"run", "retry"}
                                                      /\ <<"run", p[2]>> \notin DOMAIN disk} :
       disk' = Stored([t \in {<<"run", p[2]>> : p \in got} |->
                         disk[CHOOSE p \in got : p[2] = t[2]]])
  /\ step' = "done"
  /\ UNCHANGED <<plan, skills, contextVars, attempt, call, sessions, materials, verdict, history>>

JudgeNext == \/ ParentEnds \/ JudgeTimer
             \/ CheckExpect \/ CreateJudge \/ EvaluateRules
             \/ UploadScript \/ RunScript
             \/ Materialize \/ CallReturns \/ PersistArtifacts \/ Weigh \/ Collect

JudgeSpec == JudgeInit /\ [][JudgeNext]_judgeVars

-----------------------------------------------------------------------------
Asked == step \in {"collect", "done"} /\ \E n \in Calls : history[n].made

(* Success rules that exclude each other.                                  *)
Opposed(r, s) ==
  /\ r.turn = s.turn
  /\ \/ /\ FieldOf(r) = "turn_response_contains" /\ FieldOf(s) = "turn_response_not_contains"
        /\ Items(r.all) \cap Items(s.not) # {}
     \/ /\ FieldOf(r) = "tool_called_in_turn" /\ FieldOf(s) = "tool_not_called_in_turn"
        /\ r.name = s.name
     \/ /\ FieldOf(r) = "files_exist" /\ FieldOf(s) = "files_not_exist"
        /\ Items(r.paths) \cap Items(s.paths) # {}

TurnFields == {"turn_response_contains", "turn_response_not_contains",
               "tool_called_in_turn", "tool_not_called_in_turn"}
Completed(n) == \E i \in DOMAIN plan.input.turns :
                  plan.input.turns[i].number = n /\ plan.input.turns[i].status = "completed"

(* A case passes only by what its judge was asked.  Rules: none of two     *)
(* opposite rules, none about a turn that was skipped or failed, and no    *)
(* failure rule.  An agent: a valid answer to every criterion that reaches *)
(* the threshold, of a call that was not cancelled; and a valid answer is  *)
(* never thrown away, also when the deadline fired while it arrived, but   *)
(* for a cancellation.                                                     *)
VerdictIsEarned ==
  /\ verdict.status = "PASS" => \A f \in ConfiguredRules(Expect) : Fulfilled(f, Expect, plan.input)
  /\ verdict.status = "PASS" /\ Config.type = "rule_based" =>
       /\ \A i, j \in DOMAIN plan.success : ~Opposed(plan.success[i], plan.success[j])
       /\ \A i \in DOMAIN plan.success :
            FieldOf(plan.success[i]) \in TurnFields => Completed(plan.success[i].turn)
       /\ \A i \in DOMAIN plan.failure : ~Met(plan.failure[i], plan.input)
  /\ Asked =>
       LET reply == sessions[attempt].reply
           good  == {c \in 1..plan.criteria : Ordered(reply)[c]}
       IN  /\ verdict.status \in {"PASS", "FAIL"} =>
                /\ history[attempt].err # "canceled"
                /\ DOMAIN Ordered(reply) = 1..plan.criteria
                /\ (verdict.status = "PASS") <=>
                     (100 * Cardinality(good) >= Threshold * plan.criteria)
           /\ verdict.status = "ERROR" =>
                \A n \in 1..attempt : /\ history[n].made /\ Valid(plan.criteria, sessions[n].reply)
                                      => history[n].err = "canceled"

(* What both calls used and left behind is accounted for once: the         *)
(* verdict's session has the tokens of every call that returned one, and a *)
(* file of either call can be read under a path of its own with the        *)
(* content of that call, unless its download failed or two files of one    *)
(* call have the same name.                                                *)
SessionsCounted ==
  step = "done" /\ verdict.session.present =>
    /\ verdict.session.tokens = Cardinality({n \in Calls : history[n].made})
    /\ plan.artifacts =>
         \A n \in Calls : \A p \in history[n].files \ history[n].lost :
           (\A q \in history[n].files : q[2] = p[2] => q = p) =>
             \E kept \in verdict.session.files : kept \in DOMAIN disk /\ disk[kept] = <<n, p>>

(* The judge reads what it was configured to read: nothing over the budget *)
(* is inlined, what is cut to the budget or not inlined is in a file in    *)
(* full (max_turns and max_lines cut a text before that, file included),   *)
(* only empty or unwanted texts are missing, and while it is asked it has  *)
(* its own skills and none of those the judged run was given by default.   *)
JudgeReadsItsMaterial ==
  step \in {"call", "persist", "weigh"} =>
    /\ \A k \in DOMAIN materials :
         LET m == materials[k] IN
         /\ m.inline <= Effective(Config.context).maxBytes
         /\ m.inline < m.original => m.file = m.original
         /\ m.mode = "omit" => \/ plan.texts[k] = <<>>
                               \/ Effective(Config.context).mode[k] = "omit"
    /\ plan.judgeSkills \subseteq skills
    /\ skills \cap RemovedSkills \subseteq plan.judgeSkills

(* An error is blamed on judge.timeout_seconds only if that timer fired.   *)
TimeoutBlamedRightly == verdict.label => timerFired
=============================================================================
