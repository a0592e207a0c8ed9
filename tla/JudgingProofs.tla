---------------------------- MODULE JudgingProofs ----------------------------
(***************************************************************************)
(* The judge phase for any configuration, replies and files: what the      *)
(* judge reads, that a verdict is earned, and that what its calls used     *)
(* and left behind is counted once.                                        *)
(***************************************************************************)
EXTENDS Judging, SequenceTheorems, FiniteSetTheorems, WellFoundedInduction, TLAPS

Before == {"expect", "create", "rules", "upload", "exec", "materialize"}
Asking == {"call", "persist", "weigh"}
Over2  == {"collect", "done"}
Steps  == Before \cup Asking \cup Over2

(* The provers do not know that "run" is a string.                         *)
AllPaths == (STRING \cup {"run", "retry"}) \X (STRING \cup {"response-1", "response-2"})

Sessions == [present : BOOLEAN, id : STRING \cup {""}, reply : Replies, tokens : Nat,
             transcript : Seq(Nat), files : SUBSET AllPaths]
Returns  == [session : Sessions, err : Errors, parent : Errors, resumed : BOOLEAN]
Fates    == [made : BOOLEAN, err : Errors, files : SUBSET AllPaths, lost : SUBSET AllPaths]

TypeInv ==
  /\ plan \in Plans /\ step \in Steps /\ attempt \in Calls
  /\ parentErr \in Errors /\ ctxErr \in Errors
  /\ call \in Returns
  /\ sessions \in [Calls -> Sessions]
  /\ history \in [Calls -> Fates]

(* Each step belongs to one type of judge, and up to the last there is no  *)
(* verdict.                                                                *)
PlaceInv ==
  /\ step = "rules" => Config.type = "rule_based"
  /\ step \in {"upload", "exec"} => Config.type = "script"
  /\ step \in {"materialize", "collect"} \cup Asking =>
       Config.type = "agent_judge" /\ plan.criteria # 0
  /\ step \in Before \cup Asking => verdict = NoVerdict

(* Past their check the expectations are met, or the case has failed.      *)
ExpectInv ==
  \/ step = "expect"
  \/ \A f \in ConfiguredRules(Expect) : Fulfilled(f, Expect, plan.input)
  \/ step = "done" /\ verdict.status = "FAIL"

RulesInv ==
  verdict.status = "PASS" /\ Config.type = "rule_based" =>
    NewResult(RuleAssertions(plan.failure, plan.success, plan.input)).status = "PASS"

(* The judge's material and its skills, from when they are there.          *)
Readable(k) ==
  LET m == materials[k] IN
  /\ m.inline <= Effective(Config.context).maxBytes
  /\ m.inline < m.original => m.file = m.original
  /\ m.mode = "omit" => \/ plan.texts[k] = <<>>
                        \/ Effective(Config.context).mode[k] = "omit"

MaterialInv ==
  /\ step \in Asking => \A k \in DOMAIN materials : Readable(k)
  /\ step \in {"materialize"} \cup Asking =>
       plan.judgeSkills \subseteq skills /\ skills \cap RemovedSkills \subseteq plan.judgeSkills

-----------------------------------------------------------------------------
(* What the calls did.                                                     *)
Untouched(n) == /\ sessions[n] = NoSession /\ history[n].made = FALSE
                /\ history[n].files = {} /\ history[n].lost = {}

(* What a call costs and tells.                                            *)
Counts(n, s) ==
  IF n = 2 /\ Resumes /\ plan.engine.cumulative THEN s.tokens = 2 /\ s.transcript = <<1, 2>>
  ELSE s.tokens = 1 /\ s.transcript = <<n>>

Told(n, s) == IF history[n].made THEN s.present /\ Counts(n, s) ELSE s = NoSession

CallInv ==
  /\ step \in Before => attempt = 1
  /\ attempt = 2 => history[1].made /\ ~Valid(plan.criteria, sessions[1].reply)
  /\ attempt = 1 \/ step = "call" => Untouched(2)
  /\ step \in Before \/ (step = "call" /\ attempt = 1) => Untouched(1)
  /\ step \in {"persist", "weigh"} =>
       /\ Told(attempt, call.session)
       /\ history[attempt].made => call.err = history[attempt].err
       /\ ~history[attempt].made => call.err # "nil"
       /\ call.resumed = Resumes
  /\ step = "persist" => /\ call.session.files = history[attempt].files
                         /\ history[attempt].lost = {}
  /\ step = "weigh" => sessions[attempt].reply = call.session.reply
  /\ \A n \in Calls : ~(n = attempt /\ step = "persist") => Told(n, sessions[n])

(* The verdict on an answer.                                               *)
GoodOf(n, reply) == {c \in 1..n : Ordered(reply)[c]}

Judged ==
  LET reply == sessions[attempt].reply
      good  == GoodOf(plan.criteria, reply)
  IN  /\ verdict.status \in {"PASS", "FAIL"} =>
           /\ history[attempt].err # "canceled"
           /\ DOMAIN Ordered(reply) = 1..plan.criteria
           /\ (verdict.status = "PASS") <=>
                (100 * Cardinality(good) >= Threshold * plan.criteria)
      /\ verdict.status = "ERROR" =>
           \A n \in 1..attempt : /\ history[n].made /\ Valid(plan.criteria, sessions[n].reply)
                                 => history[n].err = "canceled"

AnswerInv == Asked => Judged

-----------------------------------------------------------------------------
(* Where a file of call n ends up.                                         *)
KeptAs(n, p) == <<Directory(n), p[2]>>
Alone(n, p)  == \A q \in history[n].files : q[2] = p[2] => q = p
Kept(n) == \A p \in history[n].files \ history[n].lost :
             Alone(n, p) => /\ KeptAs(n, p) \in sessions[n].files
                            /\ KeptAs(n, p) \in DOMAIN disk
                            /\ disk[KeptAs(n, p)] = <<n, p>>

FilesInv ==
  /\ \A n \in Calls : /\ ~history[n].made => history[n].files = {}
                      /\ \A p \in history[n].files : p[2] \notin {"response-1", "response-2"}
  /\ step = "persist" =>
       \A p \in history[attempt].files : p \in DOMAIN disk /\ disk[p] = <<attempt, p>>
  /\ plan.artifacts => \A n \in Calls : ~(n = attempt /\ step = "persist") => Kept(n)

(* What the verdict's session adds up to.                                  *)
Total ==
  /\ verdict.session.tokens = Cardinality({n \in Calls : history[n].made})
  /\ plan.artifacts =>
       \A n \in Calls : \A p \in history[n].files \ history[n].lost :
         Alone(n, p) => /\ KeptAs(n, p) \in verdict.session.files
                        /\ KeptAs(n, p) \in DOMAIN disk
                        /\ disk[KeptAs(n, p)] = <<n, p>>

TotalInv == step \in Over2 /\ verdict.session.present => Total

-----------------------------------------------------------------------------
(* The configuration is a legal one.                                       *)
LEMMA ConfigType ==
  ASSUME plan \in Plans
  PROVE  Config.context \in Contexts
<1>1. plan.global.context \in Contexts /\ plan.case.context \in Contexts
  BY JudgingAssumption DEF JudgeConfigs
<1>2. MergeContext(plan.global.context, plan.case.context) \in Contexts
  <2> DEFINE g == plan.global.context
             c == plan.case.context
  <2>1. Over(g.profile, c.profile) \in STRING
    BY <1>1 DEF Over, Contexts
  <2>2. [k \in TextKeys |-> Over(g.mode[k], c.mode[k])] \in [TextKeys -> STRING]
    BY <1>1 DEF Over, Contexts
  <2>3. /\ OverNumber(g.maxBytes, c.maxBytes) \in Nat
        /\ OverNumber(g.maxTurns, c.maxTurns) \in Nat
        /\ OverNumber(g.maxLines, c.maxLines) \in Nat
    BY <1>1 DEF OverNumber, Contexts
  <2>4. /\ (g.attachmentsSet \/ c.attachmentsSet) \in BOOLEAN
        /\ (IF c.attachmentsSet THEN c.attachments ELSE g.attachments)
              \in Seq([root : STRING, readable : BOOLEAN])
    BY <1>1, Zenon DEF Contexts
  <2> QED
    BY <2>1, <2>2, <2>3, <2>4 DEF MergeContext, Contexts
<1>3. plan.case \in JudgeConfigs
  BY JudgingAssumption
<1> QED
  BY <1>1, <1>2, <1>3 DEF Config, MergeJudgeConfig, JudgeConfigs

LEMMA NothingTypes ==
  /\ NoSession \in Sessions /\ NoReply \in Replies
  /\ NoSession.present = FALSE /\ NoSession.id = "" /\ NoSession.reply = NoReply
  /\ NoSession.files = {}
  /\ NoReply.shape = "blank"
<1>1. NoReply \in Replies /\ NoReply.shape = "blank"
  <2>1. <<>> \in Seq(Results)
    OBVIOUS
  <2> QED
    BY <2>1 DEF NoReply, Replies, Shapes, Keys
<1>2. <<>> \in Seq(Nat)
  OBVIOUS
<1> QED
  BY <1>1, <1>2 DEF NoSession, Sessions

(* What a call returns is a session.                                       *)
LEMMA SessionOfType ==
  ASSUME TypeInv, NEW reply \in plan.replies, NEW files \in SUBSET AllPaths
  PROVE  /\ SessionOf(reply, files) \in Sessions
         /\ SessionOf(reply, files).present = TRUE
         /\ SessionOf(reply, files).reply = reply /\ SessionOf(reply, files).files = files
<1>1. reply \in Replies /\ plan.engine.id \in STRING
  BY JudgingAssumption DEF TypeInv
<1>2. /\ sessions[1].tokens \in Nat /\ sessions[1].transcript \in Seq(Nat) /\ attempt \in Nat
  <2>1. sessions[1] \in Sessions /\ attempt \in Nat
    BY DEF TypeInv, Calls
  <2> QED
    BY <2>1 DEF Sessions
<1>3. /\ sessions[1].tokens + 1 \in Nat
      /\ Append(sessions[1].transcript, attempt) \in Seq(Nat) /\ <<attempt>> \in Seq(Nat)
  BY <1>2
<1> QED
  BY <1>1, <1>3 DEF SessionOf, Sessions

(* The files of a call, as they are named.                                 *)
Named(reported) == {IF p[1] = "own" THEN <<Directory(attempt), p[2]>> ELSE p : p \in reported}

LEMMA NamedFiles ==
  ASSUME TypeInv, NEW reported \in plan.fileSets
  PROVE  /\ Named(reported) \in SUBSET AllPaths
         /\ \A p \in Named(reported) : /\ p[2] \notin {"response-1", "response-2"}
                                       /\ p[1] \in {"run", "retry"} => p[1] = Directory(attempt)
<1>1. /\ reported \subseteq FilePaths
      /\ \A f \in reported : /\ f[1] \notin {"run", "retry"}
                             /\ f[2] \notin {"response-1", "response-2"}
  BY JudgingAssumption DEF TypeInv
<1>2. Directory(attempt) \in STRING \cup {"run", "retry"}
  BY DEF Directory
<1>3. ASSUME NEW p \in Named(reported)
      PROVE  /\ p \in AllPaths /\ p[2] \notin {"response-1", "response-2"}
             /\ p[1] \in {"run", "retry"} => p[1] = Directory(attempt)
  <2>1. PICK f \in reported : p = IF f[1] = "own" THEN <<Directory(attempt), f[2]>> ELSE f
    BY DEF Named
  <2> QED
    BY <1>1, <1>2, <2>1 DEF FilePaths, AllPaths
<1> QED
  BY <1>3

(* What CallReturns and PersistArtifacts do, their cases spelled out.      *)
Lost(err) == [session |-> NoSession, err |-> IF err = "nil" THEN "failure" ELSE err,
              parent |-> parentErr, resumed |-> Resumes]
Got(reply, reported, err) == [session |-> SessionOf(reply, Named(reported)), err |-> err,
                              parent |-> parentErr, resumed |-> Resumes]
Fate(reported, err) == [made |-> TRUE, err |-> err, files |-> Named(reported), lost |-> {}]

LEMMA CallIs ==
  ASSUME CallReturns
  PROVE  /\ step = "call" /\ step' = "persist"
         /\ plan' = plan /\ attempt' = attempt /\ parentErr' = parentErr /\ ctxErr' = ctxErr
         /\ sessions' = sessions /\ skills' = skills /\ materials' = materials
         /\ verdict' = verdict
         /\ \E err \in PossibleErrors :
              \/ call' = Lost(err) /\ disk' = disk /\ history' = history
              \/ \E reply \in plan.replies : \E reported \in plan.fileSets :
                   /\ call' = Got(reply, reported, err)
                   /\ disk' = Stored([p \in Named(reported) |-> <<attempt, p>>])
                   /\ history' = [history EXCEPT ![attempt] = Fate(reported, err)]
BY DEF CallReturns, contextVars, Lost, Got, Fate, Named

Outside1 == {p \in call.session.files : p[1] # Directory(attempt)}
Targets(fetched) == {Target(p) : p \in fetched}
Contents(source) == [t \in DOMAIN source \cup {Response(attempt)} |->
                       IF t = Response(attempt) THEN <<attempt, t>> ELSE disk[source[t]]]
FilesKept(source, fetched) ==
  (call.session.files \ fetched) \cup DOMAIN source \cup {Response(attempt)}
Fetches(source, fetched) ==
  /\ source \in [Targets(fetched) -> fetched]
  /\ \A t \in Targets(fetched) : Target(source[t]) = t

LEMMA PersistIs ==
  ASSUME PersistArtifacts
  PROVE  /\ step = "persist" /\ step' = "weigh"
         /\ plan' = plan /\ attempt' = attempt /\ parentErr' = parentErr /\ ctxErr' = ctxErr
         /\ call' = call /\ skills' = skills /\ materials' = materials /\ verdict' = verdict
         /\ \/ /\ ~call.session.present \/ ~plan.artifacts
               /\ sessions' = [sessions EXCEPT ![attempt] = call.session]
               /\ disk' = disk /\ history' = history
            \/ /\ call.session.present /\ plan.artifacts
               /\ \E lost \in SUBSET Outside1 : \E source :
                    /\ Fetches(source, Outside1 \ lost)
                    /\ sessions' = [sessions EXCEPT ![attempt] =
                         [call.session EXCEPT !.files = FilesKept(source, Outside1 \ lost)]]
                    /\ disk' = Stored(Contents(source))
                    /\ history' = [history EXCEPT ![attempt].lost = lost]
<1> DEFINE Right(lost, source) ==
             /\ sessions' = [sessions EXCEPT ![attempt] =
                  [call.session EXCEPT !.files = FilesKept(source, Outside1 \ lost)]]
             /\ disk' = Stored(Contents(source))
             /\ history' = [history EXCEPT ![attempt].lost = lost]
<1>1. /\ step = "persist" /\ step' = "weigh"
      /\ plan' = plan /\ attempt' = attempt /\ parentErr' = parentErr /\ ctxErr' = ctxErr
      /\ call' = call /\ skills' = skills /\ materials' = materials /\ verdict' = verdict
  BY DEF PersistArtifacts, contextVars
<1>2. IF ~call.session.present \/ ~plan.artifacts
      THEN sessions' = [sessions EXCEPT ![attempt] = call.session] /\ UNCHANGED <<disk, history>>
      ELSE \E lost \in SUBSET Outside1 :
             \E source \in {f \in [Targets(Outside1 \ lost) -> Outside1 \ lost] :
                            \A t \in DOMAIN f : Target(f[t]) = t} : Right(lost, source)
  BY DEF PersistArtifacts, Outside1, Targets, FilesKept, Contents
<1>3. ASSUME NEW lost \in SUBSET Outside1,
             NEW source \in {f \in [Targets(Outside1 \ lost) -> Outside1 \ lost] :
                            \A t \in DOMAIN f : Target(f[t]) = t}
      PROVE  Fetches(source, Outside1 \ lost)
  BY DEF Fetches
<1> HIDE DEF Right
<1>4. \/ /\ ~call.session.present \/ ~plan.artifacts
         /\ sessions' = [sessions EXCEPT ![attempt] = call.session]
         /\ disk' = disk /\ history' = history
      \/ /\ call.session.present /\ plan.artifacts
         /\ \E lost \in SUBSET Outside1 : \E source :
              Fetches(source, Outside1 \ lost) /\ Right(lost, source)
  BY <1>2, <1>3, Zenon
<1> QED
  BY <1>1, <1>4 DEF Right

(* The targets and the response are files.                                 *)
LEMMA PathsKept ==
  ASSUME TypeInv, NEW fetched \in SUBSET call.session.files, NEW source, Fetches(source, fetched)
  PROVE  FilesKept(source, fetched) \in SUBSET AllPaths
<1>1. call.session.files \in SUBSET AllPaths
  BY DEF TypeInv, Returns, Sessions
<1>2. Response(attempt) \in AllPaths /\ \A p \in AllPaths : Target(p) \in AllPaths
  BY DEF Response, Target, Directory, AllPaths
<1>3. DOMAIN source = Targets(fetched)
  BY DEF Fetches
<1> QED
  BY <1>1, <1>2, <1>3 DEF FilesKept, Targets

LEMMA TypeInvInit == JudgeInit => TypeInv
<1> SUFFICES ASSUME JudgeInit PROVE TypeInv
  OBVIOUS
<1>1. [n \in Calls |-> [made |-> FALSE, err |-> "nil", files |-> {}, lost |-> {}]]
        \in [Calls -> Fates]
  BY DEF Fates, Errors
<1>2. NoCall \in Returns
  BY NothingTypes DEF NoCall, Returns, Errors
<1> QED
  BY <1>1, <1>2, NothingTypes DEF JudgeInit, TypeInv, Steps, Before, Calls, Errors

LEMMA TypeInvStep == TypeInv /\ [JudgeNext]_judgeVars => TypeInv'
<1> SUFFICES ASSUME TypeInv, [JudgeNext]_judgeVars PROVE TypeInv'
  OBVIOUS
<1> USE DEF TypeInv
<1>1. CASE ParentEnds
  BY <1>1 DEF ParentEnds, agentVars, Errors
<1>2. CASE JudgeTimer
  BY <1>2 DEF JudgeTimer, agentVars, Errors
<1>3. CASE CheckExpect
  BY <1>3 DEF CheckExpect, End, agentVars, contextVars, Steps, Before, Over2
<1>4. CASE CreateJudge
  BY <1>4 DEF CreateJudge, End, Fail, agentVars, contextVars, Steps, Before, Over2
<1>5. CASE EvaluateRules
  BY <1>5 DEF EvaluateRules, End, agentVars, contextVars, Steps, Over2
<1>6. CASE UploadScript
  BY <1>6 DEF UploadScript, End, Fail, contextVars, Steps, Before, Over2
<1>7. CASE RunScript
  BY <1>7 DEF RunScript, End, Fail, contextVars, Steps, Over2
<1>8. CASE Materialize
  BY <1>8 DEF Materialize, End, Fail, contextVars, Steps, Asking, Over2
<1>9. CASE CallReturns
  <2>1. PICK err \in PossibleErrors :
          \/ call' = Lost(err) /\ disk' = disk /\ history' = history
          \/ \E reply \in plan.replies : \E reported \in plan.fileSets :
               /\ call' = Got(reply, reported, err)
               /\ history' = [history EXCEPT ![attempt] = Fate(reported, err)]
    BY <1>9, CallIs
  <2>2. err \in Errors /\ Resumes \in BOOLEAN
    BY JudgingAssumption DEF PossibleErrors, Errors, Resumes
  <2>3. Lost(err) \in Returns
    BY <2>2, NothingTypes DEF Lost, Returns, Errors
  <2>4. ASSUME NEW reply \in plan.replies, NEW reported \in plan.fileSets
        PROVE  Got(reply, reported, err) \in Returns /\ Fate(reported, err) \in Fates
    BY <2>2, NamedFiles, SessionOfType DEF Got, Fate, Returns, Fates
  <2>5. call' \in Returns /\ history' \in [Calls -> Fates]
    BY <2>1, <2>3, <2>4
  <2> QED
    BY <1>9, <2>5, CallIs DEF Steps, Asking
<1>10. CASE PersistArtifacts
  <2>0. call.session.files \in SUBSET AllPaths
    BY DEF Returns, Sessions
  <2>1. \A lost \in SUBSET Outside1 :
          [history EXCEPT ![attempt].lost = lost] \in [Calls -> Fates]
    BY <2>0 DEF Fates, Outside1
  <2>2. \A files \in SUBSET AllPaths :
          [sessions EXCEPT ![attempt] = [call.session EXCEPT !.files = files]]
             \in [Calls -> Sessions]
    BY DEF Sessions, Returns
  <2>3. [sessions EXCEPT ![attempt] = call.session] \in [Calls -> Sessions]
    BY DEF Returns
  <2>4. ASSUME NEW lost \in SUBSET Outside1, NEW source, Fetches(source, Outside1 \ lost)
        PROVE  FilesKept(source, Outside1 \ lost) \in SUBSET AllPaths
    BY <2>4, PathsKept DEF Outside1
  <2>5. sessions' \in [Calls -> Sessions] /\ history' \in [Calls -> Fates]
    <3>1. CASE /\ sessions' = [sessions EXCEPT ![attempt] = call.session]
               /\ history' = history
      BY <2>3, <3>1
    <3>2. ASSUME NEW lost \in SUBSET Outside1, NEW source, Fetches(source, Outside1 \ lost),
                 sessions' = [sessions EXCEPT ![attempt] =
                    [call.session EXCEPT !.files = FilesKept(source, Outside1 \ lost)]],
                 history' = [history EXCEPT ![attempt].lost = lost]
          PROVE  sessions' \in [Calls -> Sessions] /\ history' \in [Calls -> Fates]
      BY <2>1, <2>2, <2>4, <3>2
    <3> QED
      BY <1>10, <3>1, <3>2, PersistIs
  <2> QED
    BY <1>10, <2>5, PersistIs DEF Steps, Asking
<1>11. CASE Weigh
  BY <1>11 DEF Weigh, Conclude, contextVars, Steps, Asking, Over2, Calls
<1>12. CASE Collect
  BY <1>12 DEF Collect, contextVars, Steps, Over2
<1>13. CASE UNCHANGED judgeVars
  BY <1>13 DEF judgeVars
<1> QED
  BY <1>1, <1>2, <1>3, <1>4, <1>5, <1>6, <1>7, <1>8, <1>9, <1>10, <1>11, <1>12, <1>13 DEF JudgeNext

-----------------------------------------------------------------------------
LEMMA PlanStays == [JudgeNext]_judgeVars => plan' = plan
BY DEF JudgeNext, judgeVars, ParentEnds, JudgeTimer, CheckExpect, CreateJudge, EvaluateRules,
       UploadScript, RunScript, Materialize, CallReturns, PersistArtifacts, Weigh, Collect

LEMMA ConfigStays ==
  ASSUME plan' = plan
  PROVE  /\ Config' = Config /\ Expect' = Expect /\ RemovedSkills' = RemovedSkills
         /\ Threshold' = Threshold
BY DEF Config, Expect, RemovedSkills, Threshold

(* Each step belongs to one type of judge.                                 *)
LEMMA PlaceStep == PlaceInv /\ [JudgeNext]_judgeVars => PlaceInv'
<1> SUFFICES ASSUME PlaceInv, [JudgeNext]_judgeVars PROVE PlaceInv'
  OBVIOUS
<1>0. plan' = plan /\ Config' = Config
  BY PlanStays, ConfigStays
<1> USE <1>0 DEF PlaceInv, Before, Asking
<1>1. CASE ParentEnds
  BY <1>1 DEF ParentEnds
<1>2. CASE JudgeTimer
  BY <1>2 DEF JudgeTimer
<1>3. CASE CheckExpect
  BY <1>3 DEF CheckExpect, End
<1>4. CASE CreateJudge
  BY <1>4 DEF CreateJudge, End, Fail
<1>5. CASE EvaluateRules
  BY <1>5 DEF EvaluateRules, End
<1>6. CASE UploadScript
  BY <1>6 DEF UploadScript, End, Fail
<1>7. CASE RunScript
  BY <1>7 DEF RunScript, End, Fail
<1>8. CASE Materialize
  BY <1>8 DEF Materialize, End, Fail
<1>9. CASE CallReturns
  BY <1>9, CallIs
<1>10. CASE PersistArtifacts
  BY <1>10, PersistIs
<1>11. CASE Weigh
  BY <1>11 DEF Weigh, Conclude
<1>12. CASE Collect
  BY <1>12 DEF Collect
<1>13. CASE UNCHANGED judgeVars
  BY <1>13 DEF judgeVars
<1> QED
  BY <1>1, <1>2, <1>3, <1>4, <1>5, <1>6, <1>7, <1>8, <1>9, <1>10, <1>11, <1>12, <1>13 DEF JudgeNext

(* Once the expectations were checked nothing more happens to them.        *)
LEMMA ExpectStep == ExpectInv /\ [JudgeNext]_judgeVars => ExpectInv'
<1> SUFFICES ASSUME ExpectInv, [JudgeNext]_judgeVars PROVE ExpectInv'
  OBVIOUS
<1> DEFINE Holds == \A f \in ConfiguredRules(Expect) : Fulfilled(f, Expect, plan.input)
<1>0. plan' = plan /\ Expect' = Expect /\ Holds' = Holds
  BY PlanStays, ConfigStays
<1>1. CASE CheckExpect
  <2> DEFINE assertions == ExpectAssertions(Expect, plan.input)
  <2>1. CASE NewResult(assertions).status = "FAIL"
    <3>1. step' = "done" /\ verdict' = Verdict(NewResult(assertions), NoSession, FALSE)
      BY <1>1, <2>1 DEF CheckExpect, End
    <3>2. verdict'.status = "FAIL"
      BY <2>1, <3>1 DEF Verdict
    <3> QED
      BY <3>1, <3>2 DEF ExpectInv
  <2>2. CASE NewResult(assertions).status # "FAIL"
    <3>1. \A f \in DOMAIN assertions : assertions[f]
      BY <2>2 DEF NewResult
    <3>2. Holds
      BY <3>1 DEF ExpectAssertions
    <3> QED
      BY <1>0, <3>2 DEF ExpectInv
  <2> QED
    BY <2>1, <2>2
<1>2. CASE step = "expect" /\ ~CheckExpect
  <2>1. step' = "expect"
    BY <1>2 DEF JudgeNext, judgeVars, ParentEnds, JudgeTimer, CreateJudge, EvaluateRules, UploadScript,
           RunScript, Materialize, CallReturns, PersistArtifacts, Weigh, Collect
  <2> QED
    BY <2>1 DEF ExpectInv
<1>3. CASE Holds
  BY <1>0, <1>3 DEF ExpectInv
<1>4. CASE step = "done" /\ verdict.status = "FAIL"
  <2>1. step' = step /\ verdict' = verdict
    BY <1>4 DEF JudgeNext, judgeVars, ParentEnds, JudgeTimer, CheckExpect, CreateJudge, EvaluateRules,
           UploadScript, RunScript, Materialize, CallReturns, PersistArtifacts, Weigh, Collect
  <2> QED
    BY <1>4, <2>1 DEF ExpectInv
<1> QED
  BY <1>1, <1>2, <1>3, <1>4 DEF ExpectInv

(* Under rules a case passes only in EvaluateRules.                        *)
LEMMA RulesStep == PlaceInv /\ RulesInv /\ [JudgeNext]_judgeVars => RulesInv'
<1> SUFFICES ASSUME PlaceInv, RulesInv, [JudgeNext]_judgeVars PROVE RulesInv'
  OBVIOUS
<1>0. plan' = plan /\ Config' = Config
  BY PlanStays, ConfigStays
<1> SUFFICES ASSUME verdict'.status = "PASS", Config.type = "rule_based"
             PROVE  NewResult(RuleAssertions(plan.failure, plan.success, plan.input)).status
                      = "PASS"
  BY <1>0 DEF RulesInv
<1>1. CASE verdict' = verdict
  BY <1>1 DEF RulesInv
<1>2. CASE CheckExpect
  <2> DEFINE assertions == ExpectAssertions(Expect, plan.input)
  <2>1. CASE NewResult(assertions).status = "FAIL"
    <3>1. verdict' = Verdict(NewResult(assertions), NoSession, FALSE)
      BY <1>2, <2>1 DEF CheckExpect, End
    <3> QED
      BY <2>1, <3>1 DEF Verdict
  <2>2. CASE NewResult(assertions).status # "FAIL"
    BY <1>1, <1>2, <2>2 DEF CheckExpect
  <2> QED
    BY <2>1, <2>2
<1>3. CASE CreateJudge
  BY <1>1, <1>3 DEF CreateJudge
<1>4. CASE EvaluateRules
  <2>1. verdict' = Verdict(WithExpect(NewResult(RuleAssertions(plan.failure, plan.success,
                                                               plan.input))), NoSession, FALSE)
    BY <1>4 DEF EvaluateRules, End
  <2> DEFINE result == NewResult(RuleAssertions(plan.failure, plan.success, plan.input))
  <2>2. Verdict(WithExpect(result), NoSession, FALSE).status = result.status
    BY DEF Verdict, WithExpect, NewResult
  <2> QED
    BY <2>1, <2>2
<1>5. CASE step \in {"upload", "exec", "materialize"} \cup Asking
  BY <1>5 DEF PlaceInv
<1> QED
  BY <1>1, <1>2, <1>3, <1>4, <1>5 DEF JudgeNext, judgeVars, ParentEnds, JudgeTimer, UploadScript,
     RunScript, Materialize, CallReturns, PersistArtifacts, Weigh, Collect, Asking

-----------------------------------------------------------------------------
(* A set of natural numbers that is not empty has a least member: the form *)
(* of induction used here.                                                 *)
LEMMA Least ==
  ASSUME NEW T \in SUBSET Nat, T # {}
  PROVE  \E n \in T : \A m \in T : n <= m
<1>1. IsWellFoundedOn(OpToRel(<, Nat), Nat)
  BY NatLessThanWellFounded
<1>2. \E n \in T : \A m \in T : ~(<<m, n>> \in OpToRel(<, Nat))
  BY <1>1, WFMin
<1>3. \A m, n \in Nat : <<m, n>> \in OpToRel(<, Nat) <=> m < n
  BY DEF OpToRel
<1>4. \E n \in T : \A m \in T : ~(m < n)
  BY <1>2, <1>3, Zenon
<1> QED
  BY <1>4

(* The sums that Bytes builds up.                                          *)
Sums(s, f, n) == f = [k \in 0..n |-> IF k = 0 THEN 0 ELSE f[k - 1] + s[k]]

LEMMA BytesIs ==
  ASSUME NEW s
  PROVE  Bytes(s) = (CHOOSE f : Sums(s, f, Len(s)))[Len(s)]
BY DEF Bytes, Sums

LEMMA SumsExist ==
  ASSUME NEW s, NEW n \in Nat
  PROVE  \E f : Sums(s, f, n)
<1> DEFINE T == {k \in Nat : ~\E f : Sums(s, f, k)}
<1>1. ASSUME T # {} PROVE FALSE
  <2>1. PICK k \in T : \A m \in T : k <= m
    BY <1>1, Least
  <2>2. k # 0
    <3>1. Sums(s, [j \in 0..0 |-> 0], 0)
      BY DEF Sums
    <3> QED
      BY <2>1, <3>1
  <2>3. k - 1 \in Nat /\ k - 1 \notin T
    BY <2>1, <2>2
  <2>4. PICK f : Sums(s, f, k - 1)
    BY <2>3
  <2> DEFINE g == [j \in 0..k |-> IF j = k THEN f[k - 1] + s[k] ELSE f[j]]
  <2>5. Sums(s, g, k)
    <3>1. \A j \in 0..(k - 1) : f[j] = IF j = 0 THEN 0 ELSE f[j - 1] + s[j]
      BY <2>4 DEF Sums
    <3>2. \A j \in 0..k : g[j] = IF j = 0 THEN 0 ELSE g[j - 1] + s[j]
      BY <2>2, <2>3, <3>1
    <3> HIDE DEF g
    <3>3. g = [j \in 0..k |-> g[j]]
      BY DEF g
    <3> QED
      BY <3>2, <3>3 DEF Sums
  <2> QED
    BY <2>1, <2>5
<1> QED
  BY <1>1

LEMMA BytesType ==
  ASSUME NEW s \in Seq(Nat)
  PROVE  Bytes(s) \in Nat
<1> DEFINE f == CHOOSE g : Sums(s, g, Len(s))
<1>1. Len(s) \in Nat /\ \A k \in 1..Len(s) : s[k] \in Nat
  OBVIOUS
<1>2. Sums(s, f, Len(s))
  BY <1>1, SumsExist
<1>3. Bytes(s) = f[Len(s)]
  BY BytesIs
<1> HIDE DEF f
<1>4. \A k \in 0..Len(s) : f[k] = IF k = 0 THEN 0 ELSE f[k - 1] + s[k]
  BY <1>2 DEF Sums
<1> DEFINE T == {k \in 0..Len(s) : f[k] \notin Nat}
<1>5. ASSUME T # {} PROVE FALSE
  <2>1. PICK k \in T : \A m \in T : k <= m
    <3>1. T \in SUBSET Nat
      OBVIOUS
    <3> QED
      BY <1>5, <3>1, Least
  <2>2. k # 0
    BY <1>4, <2>1
  <2>3. k - 1 \in 0..Len(s) /\ k - 1 \notin T /\ k \in 1..Len(s)
    BY <1>1, <2>1, <2>2
  <2>4. f[k - 1] \in Nat /\ s[k] \in Nat /\ f[k] = f[k - 1] + s[k]
    BY <1>1, <1>4, <2>1, <2>2, <2>3
  <2> QED
    BY <2>1, <2>4
<1> QED
  BY <1>1, <1>3, <1>5

-----------------------------------------------------------------------------
(* What is materialized can be read.                                       *)
Good(m, sizes, mode, max) ==
  /\ m.inline <= max
  /\ m.inline < m.original => m.file = m.original
  /\ m.mode = "omit" => sizes = <<>> \/ mode = "omit"

LEMMA TextReadable ==
  ASSUME NEW text, text.bytes \in Nat, NEW mode, NEW max \in Nat, NEW sizes,
         text.blank => sizes = <<>>
  PROVE  Good(MaterializeText(text, mode, max), sizes, mode, max)
<1> DEFINE m == MaterializeText(text, mode, max)
<1>1. CASE mode = "omit" \/ text.blank
  <2>1. m = Omitted
    BY <1>1 DEF MaterializeText
  <2>2. Omitted.inline = 0 /\ Omitted.original = 0 /\ Omitted.mode = "omit"
    BY DEF Omitted
  <2> QED
    BY <1>1, <2>1, <2>2 DEF Good
<1>2. CASE ~(mode = "omit" \/ text.blank)
  <2> DEFINE used   == IF mode = "include" /\ text.bytes > max THEN "file_ref" ELSE mode
             inline == CASE used = "include"  -> text.bytes
                         [] used = "truncate" -> IF text.bytes > max THEN max ELSE text.bytes
                         [] OTHER             -> 0
  <2>1. m = [mode |-> used, bytes |-> IF used = "truncate" THEN inline ELSE text.bytes,
             original |-> text.bytes, inline |-> inline, file |-> text.bytes]
    BY <1>2 DEF MaterializeText
  <2>2. inline <= max
    OBVIOUS
  <2>3. used # "omit"
    BY <1>2
  <2> HIDE DEF used, inline, m
  <2>4. m.mode = used /\ m.inline = inline /\ m.original = text.bytes /\ m.file = text.bytes
    BY <2>1
  <2> QED
    BY <2>2, <2>3, <2>4 DEF Good, m
<1> QED
  BY <1>1, <1>2

LEMMA PartsOfText ==
  ASSUME NEW s \in Seq(Nat), NEW n \in Nat
  PROVE  /\ LastOf(s, n) \in Seq(Nat) /\ (LastOf(s, n) = <<>> => s = <<>>)
         /\ FirstOf(s, n) \in Seq(Nat) /\ (FirstOf(s, n) = <<>> => s = <<>>)
<1>1. ASSUME n > 0, Len(s) > n
      PROVE  /\ SubSeq(s, Len(s) - n + 1, Len(s)) \in Seq(Nat)
             /\ Len(SubSeq(s, Len(s) - n + 1, Len(s))) = n
             /\ SubSeq(s, 1, n) \in Seq(Nat) /\ Len(SubSeq(s, 1, n)) = n
  BY <1>1
<1>2. Len(<<>>) = 0
  OBVIOUS
<1>3. CASE n > 0 /\ Len(s) > n
  <2>1. LastOf(s, n) = SubSeq(s, Len(s) - n + 1, Len(s)) /\ FirstOf(s, n) = SubSeq(s, 1, n)
    BY <1>3 DEF LastOf, FirstOf
  <2>2. Len(LastOf(s, n)) # 0 /\ Len(FirstOf(s, n)) # 0
    BY <1>1, <1>3, <2>1
  <2>3. LastOf(s, n) # <<>> /\ FirstOf(s, n) # <<>>
    BY <1>2, <2>2, Zenon
  <2> QED
    BY <1>1, <1>3, <2>1, <2>3
<1>4. CASE ~(n > 0 /\ Len(s) > n)
  BY <1>4 DEF LastOf, FirstOf
<1> QED
  BY <1>3, <1>4

LEMMA MaterialsReadable ==
  ASSUME plan \in Plans, NEW m, m = Materials(Config.context, plan.texts)
  PROVE  \A k \in DOMAIN m : Good(m[k], plan.texts[k], Effective(Config.context).mode[k],
                                 Effective(Config.context).maxBytes)
<1> DEFINE e  == Effective(Config.context)
           in == plan.texts
           Text(k, sizes) == MaterializeText(TextOf(sizes), e.mode[k], e.maxBytes)
<1>1. e.maxBytes \in Nat /\ e.maxTurns \in Nat /\ e.maxLines \in Nat
  <2>1. Config.context \in Contexts
    BY ConfigType
  <2> QED
    BY <2>1, JudgingAssumption DEF Effective, Contexts, OverNumber
<1>2. \A k \in TextKeys : in[k] \in Seq(Nat)
  BY JudgingAssumption
<1>3. /\ in.final_message \in Seq(Nat) /\ in.transcript \in Seq(Nat)
      /\ in.workspace_diff \in Seq(Nat) /\ in.generated_files \in Seq(Nat)
  BY <1>2 DEF TextKeys
<1> HIDE DEF e
<1>4. ASSUME NEW k, NEW sizes \in Seq(Nat), NEW whole, sizes = <<>> => whole = <<>>
      PROVE  Good(Text(k, sizes), whole, e.mode[k], e.maxBytes)
  <2>1. TextOf(sizes).bytes \in Nat /\ (TextOf(sizes).blank => whole = <<>>)
    BY <1>4, BytesType DEF TextOf
  <2> QED
    BY <1>1, <2>1, TextReadable
<1>5. ASSUME NEW mode
      PROVE  Good(MaterializeGenerated(in.generated_files, mode, e.maxBytes), in.generated_files,
                  mode, e.maxBytes)
  <2> DEFINE names == in.generated_files
             index == [bytes |-> Bytes(names), blank |-> FALSE]
             used  == IF mode = "include" /\ index.bytes <= e.maxBytes THEN "include"
                                                                       ELSE "file_ref"
  <2>1. CASE mode = "omit" \/ names = <<>>
    <3>1. MaterializeGenerated(names, mode, e.maxBytes) = Omitted
      BY <2>1 DEF MaterializeGenerated
    <3>2. Omitted.inline = 0 /\ Omitted.original = 0
      BY DEF Omitted
    <3> QED
      BY <1>1, <2>1, <3>1, <3>2 DEF Good
  <2>2. CASE ~(mode = "omit" \/ names = <<>>)
    <3>1. MaterializeGenerated(names, mode, e.maxBytes)
            = MaterializeText(index, used, e.maxBytes)
      BY <2>2 DEF MaterializeGenerated
    <3>2. index.bytes \in Nat /\ ~index.blank
      BY <1>3, BytesType
    <3>3. used # "omit"
      OBVIOUS
    <3> HIDE DEF index, used, names
    <3>4. Good(MaterializeText(index, used, e.maxBytes), names, used, e.maxBytes)
      BY <1>1, <3>2, TextReadable
    <3> QED
      BY <3>1, <3>3, <3>4 DEF Good, names
  <2> QED
    BY <2>1, <2>2
<1>6. m = [final_message   |-> Text("final_message", in.final_message),
           transcript      |-> Text("transcript", LastOf(in.transcript, e.maxTurns)),
           workspace_diff  |-> Text("workspace_diff", FirstOf(in.workspace_diff, e.maxLines)),
           generated_files |-> MaterializeGenerated(in.generated_files,
                                                    e.mode["generated_files"], e.maxBytes)]
  BY DEF Materials, e
<1> HIDE DEF in, Text
<1>7. /\ Good(Text("final_message", in.final_message), in.final_message,
              e.mode["final_message"], e.maxBytes)
      /\ Good(Text("transcript", LastOf(in.transcript, e.maxTurns)), in.transcript,
              e.mode["transcript"], e.maxBytes)
      /\ Good(Text("workspace_diff", FirstOf(in.workspace_diff, e.maxLines)), in.workspace_diff,
              e.mode["workspace_diff"], e.maxBytes)
  BY <1>1, <1>3, <1>4, PartsOfText
<1>8. ASSUME NEW k \in DOMAIN m
      PROVE  Good(m[k], in[k], e.mode[k], e.maxBytes)
  <2>1. k \in {"final_message", "transcript", "workspace_diff", "generated_files"}
    BY <1>6
  <2>2. CASE k = "final_message"
    BY <1>6, <1>7, <2>2
  <2>3. CASE k = "transcript"
    BY <1>6, <1>7, <2>3
  <2>4. CASE k = "workspace_diff"
    BY <1>6, <1>7, <2>4
  <2>5. CASE k = "generated_files"
    BY <1>5, <1>6, <2>5
  <2> QED
    BY <2>1, <2>2, <2>3, <2>4, <2>5
<1> QED
  BY <1>8 DEF e, in

(* The judge's skills are installed after those of the run were removed,   *)
(* and its material is there before it is asked.                           *)
LEMMA MaterialStep == plan \in Plans /\ MaterialInv /\ [JudgeNext]_judgeVars => MaterialInv'
<1> SUFFICES ASSUME plan \in Plans, MaterialInv, [JudgeNext]_judgeVars PROVE MaterialInv'
  OBVIOUS
<1>0. plan' = plan /\ Config' = Config /\ RemovedSkills' = RemovedSkills
  BY PlanStays, ConfigStays
<1>1. CASE materials' = materials /\ skills' = skills /\ (step' = step \/ step' \in Over2)
  BY <1>0, <1>1 DEF MaterialInv, Readable, Asking, Over2
<1>2. CASE materials' = materials /\ skills' = skills /\ step \in Asking
  BY <1>0, <1>2 DEF MaterialInv, Readable, Asking
<1>3. CASE step' \in {"create", "rules", "upload", "exec", "done"}
  BY <1>3 DEF MaterialInv, Asking
<1>4. CASE CreateJudge
  <2>1. CASE step' = "materialize"
    <3>1. skills' = PreparedSkills(skills)
      BY <1>4, <2>1 DEF CreateJudge, End, Fail
    <3> QED
      BY <1>0, <2>1, <3>1 DEF MaterialInv, PreparedSkills, Asking
  <2>2. CASE step' # "materialize"
    BY <1>3, <1>4, <2>2 DEF CreateJudge, End, Fail
  <2> QED
    BY <2>1, <2>2
<1>5. CASE Materialize
  <2>1. CASE step' = "call"
    <3>1. step = "materialize" /\ materials' = Materials(Config.context, plan.texts)
      BY <1>5, <2>1 DEF Materialize, End, Fail
    <3>2. skills' = skills
      BY <1>5 DEF Materialize
    <3>3. \A k \in DOMAIN materials' :
            Good(materials'[k], plan.texts[k], Effective(Config.context).mode[k],
                 Effective(Config.context).maxBytes)
      BY <3>1, MaterialsReadable
    <3>4. \A k \in DOMAIN materials' : Readable(k)'
      BY <1>0, <3>3 DEF Readable, Good
    <3> QED
      BY <1>0, <3>1, <3>2, <3>4 DEF MaterialInv
  <2>2. CASE step' # "call"
    BY <1>3, <1>5, <2>2 DEF Materialize, End, Fail
  <2> QED
    BY <2>1, <2>2
<1>6. CASE CallReturns
  BY <1>2, <1>6, CallIs DEF Asking
<1>7. CASE PersistArtifacts
  BY <1>2, <1>7, PersistIs DEF Asking
<1>8. CASE Weigh
  BY <1>2, <1>8 DEF Weigh, Conclude, Asking
<1>9. CASE ParentEnds \/ JudgeTimer
  BY <1>1, <1>9 DEF ParentEnds, JudgeTimer, agentVars
<1>10. CASE CheckExpect \/ EvaluateRules \/ UploadScript \/ RunScript
  BY <1>3, <1>10 DEF CheckExpect, EvaluateRules, UploadScript, RunScript, End, Fail
<1>11. CASE Collect \/ UNCHANGED judgeVars
  BY <1>1, <1>11 DEF Collect, judgeVars, Over2
<1> QED
  BY <1>4, <1>5, <1>6, <1>7, <1>8, <1>9, <1>10, <1>11 DEF JudgeNext

(* The judge reads what it was configured to read, whatever the case, the  *)
(* sizes and the limits: no budget is exceeded in the prompt, nothing is   *)
(* cut that is not in a file in full, no wanted text is missing, and the   *)
(* skills of the run that are in the way are gone.                         *)
THEOREM JudgeReadsItsMaterialCorrect == JudgeSpec => []JudgeReadsItsMaterial
<1> DEFINE Inv == plan \in Plans /\ MaterialInv
<1>1. JudgeInit => Inv
  BY DEF JudgeInit, MaterialInv, Asking
<1>2. Inv /\ [JudgeNext]_judgeVars => Inv'
  BY MaterialStep, PlanStays
<1>3. Inv => JudgeReadsItsMaterial
  BY DEF MaterialInv, JudgeReadsItsMaterial, Readable, Asking
<1> QED
  BY <1>1, <1>2, <1>3, PTL DEF JudgeSpec

-----------------------------------------------------------------------------
(* Rules: a turn is found under its number once.                           *)
LEMMA InTurnUnique ==
  ASSUME NEW n, NEW turns, NEW len \in Nat, DOMAIN turns = 1..len,
         NEW a \in InTurn(n, turns), NEW b \in InTurn(n, turns)
  PROVE  a = b
<1> DEFINE Found(j) == /\ j \in 1..len /\ turns[j].number = n
                       /\ \A k \in 1..(j - 1) : turns[k].number # n
<1>1. PICK i \in 1..len : Found(i) /\ a = turns[i]
  BY DEF InTurn
<1>2. PICK j \in 1..len : Found(j) /\ b = turns[j]
  BY DEF InTurn
<1>3. ~(i < j) /\ ~(j < i)
  BY <1>1, <1>2
<1> QED
  BY <1>1, <1>2, <1>3

LEMMA MetTurnRule ==
  ASSUME NEW rule, NEW in, Met(rule, in), FieldOf(rule) \in TurnFields
  PROVE  /\ \E turn \in InTurn(rule.turn, in.turns) : TRUE
         /\ FieldOf(rule) = "turn_response_contains" =>
              \E turn \in InTurn(rule.turn, in.turns) : ContainsAll(turn.words, rule.all)
         /\ FieldOf(rule) = "turn_response_not_contains" =>
              \E turn \in InTurn(rule.turn, in.turns) : ContainsNone(turn.words, rule.not)
         /\ FieldOf(rule) = "tool_called_in_turn" =>
              \E turn \in InTurn(rule.turn, in.turns) : Called(rule.name, {}, turn.calls)
         /\ FieldOf(rule) = "tool_not_called_in_turn" =>
              \E turn \in InTurn(rule.turn, in.turns) : ~Called(rule.name, {}, turn.calls)
<1>1. CASE FieldOf(rule) = "turn_response_contains"
  <2>1. turnResponseContains(rule, in.turns)
    BY <1>1 DEF Met
  <2> QED
    BY <1>1, <2>1 DEF turnResponseContains
<1>2. CASE FieldOf(rule) = "turn_response_not_contains"
  <2>1. turnResponseNotContains(rule, in.turns)
    BY <1>2 DEF Met
  <2> QED
    BY <1>2, <2>1 DEF turnResponseNotContains
<1>3. CASE FieldOf(rule) = "tool_called_in_turn"
  <2>1. toolCalledInTurn(rule, in.turns)
    BY <1>3 DEF Met
  <2> QED
    BY <1>3, <2>1 DEF toolCalledInTurn, Called
<1>4. CASE FieldOf(rule) = "tool_not_called_in_turn"
  <2>1. toolNotCalledInTurn(rule, in.turns)
    BY <1>4 DEF Met
  <2> QED
    BY <1>4, <2>1 DEF toolNotCalledInTurn
<1> QED
  BY <1>1, <1>2, <1>3, <1>4 DEF TurnFields

LEMMA InTurnFound ==
  ASSUME NEW n, NEW turns, NEW len \in Nat, DOMAIN turns = 1..len, NEW a \in InTurn(n, turns)
  PROVE  \E i \in DOMAIN turns : turns[i].number = n /\ turns[i].status = "completed"
<1> DEFINE Found(j) == /\ j \in 1..len /\ turns[j].number = n
                       /\ \A k \in 1..(j - 1) : turns[k].number # n
<1>1. PICK i \in 1..len : (Found(i) /\ turns[i].status = "completed") /\ a = turns[i]
  BY DEF InTurn
<1> QED
  BY <1>1

LEMMA MetTurnCompleted ==
  ASSUME plan \in Plans, NEW rule, Met(rule, plan.input), FieldOf(rule) \in TurnFields
  PROVE  Completed(rule.turn)
<1> DEFINE turns == plan.input.turns
<1>1. DOMAIN turns = 1..Len(turns) /\ Len(turns) \in Nat
  BY JudgingAssumption
<1>2. PICK turn \in InTurn(rule.turn, turns) : TRUE
  BY MetTurnRule
<1> HIDE DEF turns
<1>3. \E i \in DOMAIN turns : turns[i].number = rule.turn /\ turns[i].status = "completed"
  BY <1>1, <1>2, InTurnFound
<1> QED
  BY <1>3 DEF Completed, turns

LEMMA OpposedExclude ==
  ASSUME plan \in Plans, NEW r, NEW s, Met(r, plan.input), Met(s, plan.input), Opposed(r, s)
  PROVE  FALSE
<1> DEFINE turns == plan.input.turns
<1>1. DOMAIN turns = 1..Len(turns) /\ Len(turns) \in Nat
  BY JudgingAssumption
<1>2. ASSUME NEW a \in InTurn(r.turn, turns), NEW b \in InTurn(r.turn, turns) PROVE a = b
  BY <1>1, InTurnUnique
<1> HIDE DEF turns
<1>3. r.turn = s.turn
  BY DEF Opposed
<1>4. ASSUME FieldOf(r) = "turn_response_contains", FieldOf(s) = "turn_response_not_contains",
             Items(r.all) \cap Items(s.not) # {}
      PROVE  FALSE
  <2>1. PICK a \in InTurn(r.turn, turns) : ContainsAll(a.words, r.all)
    BY <1>4, MetTurnRule DEF TurnFields, turns
  <2>2. PICK b \in InTurn(r.turn, turns) : ContainsNone(b.words, s.not)
    BY <1>3, <1>4, MetTurnRule DEF TurnFields, turns
  <2>3. a = b
    BY <1>2
  <2> QED
    BY <1>4, <2>1, <2>2, <2>3 DEF ContainsAll, ContainsNone
<1>5. ASSUME FieldOf(r) = "tool_called_in_turn", FieldOf(s) = "tool_not_called_in_turn",
             r.name = s.name
      PROVE  FALSE
  <2>1. PICK a \in InTurn(r.turn, turns) : Called(r.name, {}, a.calls)
    BY <1>5, MetTurnRule DEF TurnFields, turns
  <2>2. PICK b \in InTurn(r.turn, turns) : ~Called(s.name, {}, b.calls)
    BY <1>3, <1>5, MetTurnRule DEF TurnFields, turns
  <2>3. a = b
    BY <1>2
  <2> QED
    BY <1>5, <2>1, <2>2, <2>3
<1>6. ASSUME FieldOf(r) = "files_exist", FieldOf(s) = "files_not_exist",
             Items(r.paths) \cap Items(s.paths) # {}
      PROVE  FALSE
  <2>1. FilesExist(r.paths, plan.input.files)
    BY <1>6 DEF Met
  <2>2. FilesNotExist(s.paths, plan.input.files)
    BY <1>6 DEF Met
  <2> QED
    BY <1>6, <2>1, <2>2 DEF FilesExist, FilesNotExist
<1> QED
  BY <1>4, <1>5, <1>6 DEF Opposed

(* Who passes by rules has met them all.                                   *)
LEMMA RulesPass ==
  ASSUME NEW failure, NEW success, NEW in,
         NewResult(RuleAssertions(failure, success, in)).status = "PASS"
  PROVE  /\ \A i \in DOMAIN failure : ~Met(failure[i], in)
         /\ \A i \in DOMAIN success : Met(success[i], in)
<1> DEFINE matched == {i \in DOMAIN failure : Met(failure[i], in)}
           a       == RuleAssertions(failure, success, in)
<1>1. \A i \in DOMAIN a : a[i]
  BY DEF NewResult
<1>2. matched = {}
  <2>1. ASSUME matched # {} PROVE FALSE
    <3>1. a = [i \in matched |-> FALSE]
      BY <2>1 DEF RuleAssertions
    <3> QED
      BY <1>1, <2>1, <3>1
  <2> QED
    BY <2>1
<1>3. a = [i \in DOMAIN success |-> Met(success[i], in)]
  BY <1>2 DEF RuleAssertions
<1> QED
  BY <1>1, <1>2, <1>3

-----------------------------------------------------------------------------
(* A valid answer has one result for each criterion.                       *)
LEMMA ValidCovers ==
  ASSUME NEW n \in Nat, NEW reply \in Replies, Valid(n, reply)
  PROVE  DOMAIN Ordered(reply) = 1..n
<1> DEFINE results == reply.results
           f == [i \in 1..n |-> results[i].id]
<1>1. results \in Seq(Results) /\ Len(results) = n
  BY DEF Replies, Valid
<1>2. DOMAIN results = 1..n /\ \A i \in 1..n : results[i] \in Results
  BY <1>1
<1>3. \A i \in 1..n : /\ results[i].id \in 1..n
                      /\ \A j \in 1..(i - 1) : results[j].id # results[i].id
  BY <1>2 DEF Valid, Criteria
<1> HIDE DEF results
<1>4. f \in Injection(1..n, 1..n)
  <2>1. f \in [1..n -> 1..n]
    BY <1>3
  <2>2. \A i, j \in 1..n : f[i] = f[j] => i = j
    <3> TAKE i, j \in 1..n
    <3>1. i < j => f[i] # f[j]
      BY <1>3
    <3>2. j < i => f[i] # f[j]
      BY <1>3
    <3> QED
      BY <3>1, <3>2
  <2> QED
    BY <2>1, <2>2 DEF Injection, IsInjective
<1>5. f \in Surjection(1..n, 1..n)
  <2>1. IsFiniteSet(1..n)
    BY FS_Interval
  <2> QED
    BY <1>4, <2>1, FS_Injection
<1>6. \A c \in 1..n : \E i \in 1..n : results[i].id = c
  BY <1>5 DEF Surjection
<1>7. DOMAIN Ordered(reply) = {results[i].id : i \in 1..n}
  BY <1>2 DEF Ordered, results
<1> QED
  BY <1>3, <1>6, <1>7

(* And the threshold decides.                                              *)
LEMMA ThresholdDecides ==
  ASSUME NEW n \in Nat \ {0}, NEW reply \in Replies, Valid(n, reply), NEW threshold,
         NEW good, good = GoodOf(n, reply), NEW r, r = BuildResult(Ordered(reply), threshold)
  PROVE  /\ r.status \in {"PASS", "FAIL"}
         /\ r.status = "PASS" <=> (100 * Cardinality(good) >= threshold * n)
<1> DEFINE result == NewResult(Ordered(reply))
<1>1. DOMAIN Ordered(reply) = 1..n
  BY ValidCovers
<1>2. result.total = n /\ result.passed = Cardinality(good)
  <2>1. Cardinality(1..n) = n
    <3>1. Cardinality(1..n) = IF 1 > n THEN 0 ELSE n - 1 + 1
      BY FS_Interval
    <3> QED
      BY <3>1
  <2> QED
    BY <1>1, <2>1 DEF NewResult, TotalOf, PassedOf, GoodOf
<1>3. Reaches(result, threshold) <=> (100 * Cardinality(good) >= threshold * n)
  BY <1>2 DEF Reaches
<1> DEFINE status == IF Reaches(result, threshold) THEN "PASS" ELSE "FAIL"
<1>4. BuildResult(Ordered(reply), threshold) = [result EXCEPT !.status = status]
  BY <1>2 DEF BuildResult
<1>5. r.status = status
  BY <1>4 DEF NewResult
<1> QED
  BY <1>3, <1>5

-----------------------------------------------------------------------------
(* The calls: what was made, what it cost, what is persisted of it.        *)
LEMMA CallInvInit == JudgeInit => CallInv
<1> SUFFICES ASSUME JudgeInit PROVE CallInv
  OBVIOUS
<1>1. \A n \in Calls : Untouched(n)
  BY DEF JudgeInit, Untouched, Calls
<1>2. \A n \in Calls : Told(n, sessions[n])
  BY <1>1, Zenon DEF Untouched, Told
<1> QED
  BY <1>1, <1>2 DEF JudgeInit, CallInv, Before, Calls

LEMMA ToldStays ==
  ASSUME NEW n \in Calls, NEW s, plan' = plan, attempt' = attempt,
         attempt = 2 => sessions'[1].id = sessions[1].id,
         history'[n].made = history[n].made, Told(n, s)
  PROVE  Resumes' = Resumes /\ Told(n, s)'
<1>1. Resumes' = Resumes
  BY DEF Resumes
<1>2. Counts(n, s)' <=> Counts(n, s)
  BY <1>1 DEF Counts
<1> QED
  BY <1>1, <1>2, Zenon DEF Told

(* The steps that make no call.                                            *)
Quiet == /\ attempt' = attempt /\ call' = call /\ sessions' = sessions /\ history' = history
         /\ \/ step' = step
            \/ step \in Before /\ step' \in Before
            \/ step = "materialize" /\ step' = "call"
            \/ step # "persist" /\ step' \in Over2

LEMMA CallQuiet == CallInv /\ plan' = plan /\ Quiet => CallInv'
<1> SUFFICES ASSUME CallInv, plan' = plan, Quiet PROVE CallInv'
  OBVIOUS
<1>1. /\ attempt' = attempt /\ call' = call /\ sessions' = sessions /\ history' = history
      /\ Resumes' = Resumes
  BY DEF Quiet, Resumes
<1>2. \A n, s : Told(n, s)' <=> Told(n, s)
  BY <1>1 DEF Told, Counts
<1>3. \A n : Untouched(n)' <=> Untouched(n)
  BY <1>1 DEF Untouched
<1>4. \A n \in Calls : ~(n = attempt /\ step' = "persist") => Told(n, sessions[n])
  BY DEF CallInv, Quiet, Before, Over2
<1>5. /\ step' \in Before => attempt = 1
      /\ attempt = 1 \/ step' = "call" => Untouched(2)
      /\ step' \in Before \/ (step' = "call" /\ attempt = 1) => Untouched(1)
      /\ step' \in {"persist", "weigh"} => step' = step
  BY DEF CallInv, Quiet, Before, Over2
<1> QED
  BY <1>1, <1>2, <1>3, <1>4, <1>5 DEF CallInv

(* A call returns: it costs one token and one message, or with an engine   *)
(* that counts from the beginning those of the first call as well.         *)
LEMMA CallReturnsTold == TypeInv /\ CallInv /\ CallReturns => CallInv'
<1> SUFFICES ASSUME TypeInv, CallInv, CallReturns PROVE CallInv'
  OBVIOUS
<1>1. /\ step = "call" /\ step' = "persist" /\ plan' = plan /\ attempt' = attempt
      /\ sessions' = sessions /\ attempt \in Calls /\ Calls = {1, 2}
  BY CallIs DEF TypeInv, Calls
<1>2. /\ Untouched(attempt) /\ Untouched(2)
      /\ attempt = 2 => history[1].made /\ ~Valid(plan.criteria, sessions[1].reply)
      /\ \A n \in Calls : Told(n, sessions[n])
  BY <1>1 DEF CallInv, Calls
<1>3. Resumes' = Resumes
  BY <1>1 DEF Resumes
<1>4. PICK err \in PossibleErrors :
        \/ call' = Lost(err) /\ history' = history
        \/ \E reply \in plan.replies : \E reported \in plan.fileSets :
             /\ call' = Got(reply, reported, err)
             /\ history' = [history EXCEPT ![attempt] = Fate(reported, err)]
  BY CallIs
<1>5. /\ \A n \in Calls \ {attempt} : history'[n] = history[n]
      /\ Told(attempt, call.session)'
      /\ history'[attempt].made => call'.err = history'[attempt].err
      /\ ~history'[attempt].made => call'.err # "nil"
      /\ call'.resumed = Resumes
      /\ call'.session.files = history'[attempt].files /\ history'[attempt].lost = {}
  <2>1. CASE call' = Lost(err) /\ history' = history
    <3>1. /\ call'.session = NoSession /\ call'.err # "nil" /\ call'.resumed = Resumes
      BY <2>1 DEF Lost
    <3>2. Told(attempt, call.session)'
      BY <1>1, <1>2, <2>1, <3>1 DEF Told, Untouched
    <3> QED
      BY <1>2, <2>1, <3>1, <3>2, NothingTypes DEF Untouched
  <2>2. ASSUME NEW reply \in plan.replies, NEW reported \in plan.fileSets,
               call' = Got(reply, reported, err),
               history' = [history EXCEPT ![attempt] = Fate(reported, err)]
        PROVE  <1>5!:
    <3>0. PICK s : s = SessionOf(reply, Named(reported))
      OBVIOUS
    <3>1. s.present = TRUE /\ s.files = Named(reported)
      BY <3>0, NamedFiles, SessionOfType
    <3>2. Counts(attempt, s)
      <4>1. /\ s.tokens = IF Resumes /\ plan.engine.cumulative THEN sessions[1].tokens + 1 ELSE 1
            /\ s.transcript = IF Resumes /\ plan.engine.cumulative
                              THEN Append(sessions[1].transcript, attempt) ELSE <<attempt>>
        BY <3>0 DEF SessionOf
      <4>2. CASE Resumes /\ plan.engine.cumulative
        <5>1. attempt = 2
          BY <4>2 DEF Resumes
        <5>2. sessions[1].tokens = 1 /\ sessions[1].transcript = <<1>>
          BY <1>1, <1>2, <5>1 DEF Told, Counts
        <5>3. Append(<<1>>, 2) = <<1, 2>>
          <6>1. /\ Append(<<1>>, 2) \in Seq(Nat) /\ Len(Append(<<1>>, 2)) = 2
                /\ Append(<<1>>, 2)[1] = 1 /\ Append(<<1>>, 2)[2] = 2
            OBVIOUS
          <6>2. <<1, 2>> \in Seq(Nat) /\ Len(<<1, 2>>) = 2
            OBVIOUS
          <6>3. \A i \in 1..Len(Append(<<1>>, 2)) : Append(<<1>>, 2)[i] = <<1, 2>>[i]
            BY <6>1
          <6> QED
            BY <6>1, <6>2, <6>3, SeqEqual
        <5> QED
          BY <4>1, <4>2, <5>1, <5>2, <5>3 DEF Counts
      <4>3. CASE ~(Resumes /\ plan.engine.cumulative)
        BY <4>1, <4>3 DEF Counts
      <4> QED
        BY <4>2, <4>3
    <3>3. /\ call'.session = s /\ call'.err = err /\ call'.resumed = Resumes
      BY <2>2, <3>0 DEF Got
    <3>4. /\ history'[attempt] = Fate(reported, err)
          /\ \A n \in Calls \ {attempt} : history'[n] = history[n]
      BY <1>1, <2>2 DEF TypeInv
    <3>5. /\ history'[attempt].made = TRUE /\ history'[attempt].err = err
          /\ history'[attempt].files = Named(reported) /\ history'[attempt].lost = {}
      BY <3>4 DEF Fate
    <3>6. Counts(attempt, s)'
      BY <1>1, <1>3, <3>2, <3>3 DEF Counts
    <3>7. Told(attempt, call.session)'
      BY <1>1, <3>1, <3>3, <3>5, <3>6 DEF Told
    <3> QED
      BY <3>1, <3>3, <3>4, <3>5, <3>7
  <2> QED
    BY <1>4, <2>1, <2>2
<1>6. \A n \in Calls \ {attempt} : Told(n, sessions[n])'
  BY <1>1, <1>2, <1>3, <1>5 DEF Told, Counts
<1>7. /\ attempt = 2 => history'[1].made
      /\ attempt = 1 => Untouched(2)'
  BY <1>1, <1>2, <1>5 DEF Untouched, Calls
<1> QED
  BY <1>1, <1>2, <1>3, <1>5, <1>6, <1>7 DEF CallInv, Before

(* Persisting an answer changes where its files are, and nothing else.     *)
LEMMA PersistTold ==
  ASSUME TypeInv, CallInv, PersistArtifacts
  PROVE  /\ CallInv'
         /\ sessions'[attempt].tokens = call.session.tokens
<1>1. /\ step = "persist" /\ step' = "weigh" /\ plan' = plan /\ attempt' = attempt
      /\ call' = call /\ attempt \in Calls /\ Calls = {1, 2}
  BY PersistIs DEF TypeInv, Calls
<1>2. /\ attempt = 2 => history[1].made /\ ~Valid(plan.criteria, sessions[1].reply)
      /\ attempt = 1 => Untouched(2)
      /\ Told(attempt, call.session)
      /\ history[attempt].made => call.err = history[attempt].err
      /\ ~history[attempt].made => call.err # "nil"
      /\ call.resumed = Resumes
      /\ \A n \in Calls \ {attempt} : Told(n, sessions[n])
  BY <1>1 DEF CallInv
<1> DEFINE Right(s) ==
        /\ sessions' = [sessions EXCEPT ![attempt] = s]
        /\ s.present = call.session.present /\ s.reply = call.session.reply
        /\ s.tokens = call.session.tokens /\ s.transcript = call.session.transcript
        /\ ~call.session.present => s = call.session
        /\ \/ history' = history
           \/ \E lost \in SUBSET Outside1 : history' = [history EXCEPT ![attempt].lost = lost]
<1>3a. \E s : Right(s)
  <2>1. CASE /\ sessions' = [sessions EXCEPT ![attempt] = call.session]
             /\ history' = history
    <3>1. Right(call.session)
      BY <2>1
    <3> QED
      BY <3>1
  <2>2. ASSUME call.session.present, NEW lost \in SUBSET Outside1, NEW source,
               sessions' = [sessions EXCEPT ![attempt] =
                  [call.session EXCEPT !.files = FilesKept(source, Outside1 \ lost)]],
               history' = [history EXCEPT ![attempt].lost = lost]
        PROVE  \E s : Right(s)
    <3>1. call.session \in Sessions
      BY DEF TypeInv, Returns
    <3>2. PICK s : s = [call.session EXCEPT !.files = FilesKept(source, Outside1 \ lost)]
      OBVIOUS
    <3>3. /\ s.present = call.session.present /\ s.reply = call.session.reply
          /\ s.tokens = call.session.tokens /\ s.transcript = call.session.transcript
      BY <3>1, <3>2 DEF Sessions
    <3>4. Right(s)
      BY <2>2, <3>2, <3>3
    <3> QED
      BY <3>4
  <2> HIDE DEF Right
  <2> QED
    BY <2>1, <2>2, PersistIs
<1>3. PICK s : Right(s)
  BY <1>3a
<1>4. /\ sessions'[attempt] = s
      /\ \A n \in Calls \ {attempt} : sessions'[n] = sessions[n]
  BY <1>1, <1>3 DEF TypeInv
<1>5. /\ \A n \in Calls : history'[n].made = history[n].made /\ history'[n].err = history[n].err
      /\ \A n \in Calls \ {attempt} : history'[n] = history[n]
  <2>1. ASSUME NEW lost, history' = [history EXCEPT ![attempt].lost = lost], NEW n \in Calls
        PROVE  /\ history'[n].made = history[n].made /\ history'[n].err = history[n].err
               /\ n # attempt => history'[n] = history[n]
    BY <1>1, <2>1 DEF TypeInv, Fates
  <2> QED
    BY <1>3, <2>1
<1>6. Resumes' = Resumes
  <2>1. CASE attempt = 1
    BY <1>1, <2>1 DEF Resumes
  <2>2. CASE attempt = 2
    <3>1. sessions'[1] = sessions[1]
      BY <1>1, <1>4, <2>2
    <3> QED
      BY <1>1, <3>1 DEF Resumes
  <2> QED
    BY <1>1, <2>1, <2>2
<1>7. Told(attempt, s) /\ Told(attempt, call.session)'
  <2>1. Told(attempt, s)
    BY <1>2, <1>3, NothingTypes DEF Told, Counts
  <2>2. Told(attempt, call.session)'
    BY <1>1, <1>2, <1>5, <1>6 DEF Told, Counts
  <2> QED
    BY <2>1, <2>2
<1>8. \A n \in Calls : Told(n, sessions[n])'
  <2>1. Told(attempt, sessions[attempt])'
    BY <1>1, <1>4, <1>5, <1>6, <1>7 DEF Told, Counts
  <2>2. \A n \in Calls \ {attempt} : Told(n, sessions[n])'
    BY <1>1, <1>2, <1>4, <1>5, <1>6 DEF Told, Counts
  <2> QED
    BY <1>1, <2>1, <2>2
<1>9. attempt = 1 => Untouched(2)'
  BY <1>1, <1>2, <1>4, <1>5 DEF Untouched
<1>10. attempt = 2 => history'[1].made /\ ~Valid(plan'.criteria, sessions'[1].reply)
  BY <1>1, <1>2, <1>4, <1>5
<1>11. sessions'[attempt].reply = call.session.reply
  BY <1>3, <1>4
<1>12. /\ history'[attempt].made => call.err = history'[attempt].err
       /\ ~history'[attempt].made => call.err # "nil"
  BY <1>1, <1>2, <1>5
<1> QED
  BY <1>1, <1>2, <1>3, <1>4, <1>6, <1>7, <1>8, <1>9, <1>10, <1>11, <1>12
     DEF CallInv, Before

(* A second call is made only for an answer that came and was not valid.   *)
Again == (call.err = "nil" \/ Recoverable(call)) /\ ~Valid(plan.criteria, sessions[attempt].reply)

LEMMA WeighIs ==
  ASSUME Weigh
  PROVE  /\ step = "weigh" /\ plan' = plan /\ call' = call /\ sessions' = sessions
         /\ history' = history /\ disk' = disk
         /\ \/ /\ call.err # "nil" /\ ~Recoverable(call)
               /\ Conclude(NewErrorResult, BlamedOnTimeout(call))
            \/ /\ call.err = "nil" \/ Recoverable(call)
               /\ Valid(plan.criteria, sessions[attempt].reply)
               /\ Conclude(WithExpect(BuildResult(Ordered(sessions[attempt].reply), Threshold)),
                           FALSE)
            \/ Again /\ Conclude(NewErrorResult, FALSE)
            \/ Again /\ attempt # 2 /\ attempt' = 2 /\ step' = "call" /\ verdict' = verdict
BY DEF Weigh, Again

LEMMA CallStep == TypeInv /\ CallInv /\ [JudgeNext]_judgeVars => CallInv'
<1> SUFFICES ASSUME TypeInv, CallInv, [JudgeNext]_judgeVars PROVE CallInv'
  OBVIOUS
<1>1. plan' = plan
  BY PlanStays
<1>2. CASE ParentEnds \/ JudgeTimer
  BY <1>1, <1>2, CallQuiet DEF ParentEnds, JudgeTimer, agentVars, Quiet
<1>3. CASE CheckExpect
  BY <1>1, <1>3, CallQuiet DEF CheckExpect, End, agentVars, Quiet, Before, Over2
<1>4. CASE CreateJudge
  BY <1>1, <1>4, CallQuiet DEF CreateJudge, End, Fail, agentVars, Quiet, Before, Over2
<1>5. CASE EvaluateRules
  BY <1>1, <1>5, CallQuiet DEF EvaluateRules, End, agentVars, Quiet, Over2
<1>6. CASE UploadScript
  BY <1>1, <1>6, CallQuiet DEF UploadScript, End, Fail, Quiet, Before, Over2
<1>7. CASE RunScript
  BY <1>1, <1>7, CallQuiet DEF RunScript, End, Fail, Quiet, Over2
<1>8. CASE Materialize
  BY <1>1, <1>8, CallQuiet DEF Materialize, End, Fail, Quiet, Over2
<1>9. CASE CallReturns
  BY <1>9, CallReturnsTold
<1>10. CASE PersistArtifacts
  BY <1>10, PersistTold
<1>11. CASE Weigh
  <2>1. CASE step' = "collect" /\ attempt' = attempt
    BY <1>1, <1>11, <2>1, WeighIs, CallQuiet DEF Quiet, Over2
  <2>2. CASE Again /\ attempt # 2 /\ attempt' = 2 /\ step' = "call"
    <3>1. /\ attempt = 1 /\ step = "weigh" /\ call' = call
          /\ sessions' = sessions /\ history' = history
      BY <1>11, <2>2, WeighIs DEF TypeInv, Calls
    <3>2. /\ Untouched(2) /\ Told(1, sessions[1]) /\ Told(1, call.session)
          /\ ~history[1].made => call.err # "nil"
      BY <3>1 DEF CallInv, Calls
    <3>3. history[1].made
      <4>1. ASSUME ~history[1].made PROVE FALSE
        <5>1. call.session = NoSession /\ call.err # "nil"
          BY <3>2, <4>1 DEF Told
        <5>2. ~Recoverable(call)
          BY <5>1, NothingTypes DEF Recoverable
        <5> QED
          BY <2>2, <5>1, <5>2 DEF Again
      <4> QED
        BY <4>1
    <3>4. ~Valid(plan.criteria, sessions[1].reply)
      BY <2>2, <3>1 DEF Again
    <3>5. Told(1, sessions[1])' /\ Untouched(2)'
      BY <1>1, <3>1, <3>2 DEF Told, Counts, Untouched
    <3>6. Told(2, sessions[2])'
      BY <3>5 DEF Untouched, Told
    <3> QED
      BY <1>1, <2>2, <3>1, <3>3, <3>4, <3>5, <3>6 DEF CallInv, Before, Calls
  <2> QED
    BY <1>11, <2>1, <2>2, WeighIs DEF Conclude
<1>12. CASE Collect
  BY <1>1, <1>12, CallQuiet DEF Collect, Quiet, Over2
<1>13. CASE UNCHANGED judgeVars
  BY <1>1, <1>13, CallQuiet DEF judgeVars, Quiet
<1> QED
  BY <1>2, <1>3, <1>4, <1>5, <1>6, <1>7, <1>8, <1>9, <1>10, <1>11, <1>12, <1>13 DEF JudgeNext

-----------------------------------------------------------------------------
(* The verdict on an answer is given in Weigh and stays.                   *)
LEMMA AnswerStep ==
  TypeInv /\ PlaceInv /\ CallInv /\ AnswerInv /\ [JudgeNext]_judgeVars => AnswerInv'
<1> SUFFICES ASSUME TypeInv, PlaceInv, CallInv, AnswerInv, [JudgeNext]_judgeVars PROVE AnswerInv'
  OBVIOUS
<1>1. plan' = plan /\ Threshold' = Threshold /\ Config' = Config
  BY PlanStays, ConfigStays
<1>2. CASE step' \notin Over2
  BY <1>2 DEF AnswerInv, Asked, Over2
<1>3. CASE step \in Before /\ history' = history
  <2>1. \A n \in Calls : ~history[n].made
    BY <1>3 DEF CallInv, Untouched, Calls
  <2> QED
    BY <1>3, <2>1 DEF AnswerInv, Asked
<1>4. CASE /\ step \in Over2 /\ step' \in Over2 /\ attempt' = attempt /\ sessions' = sessions
           /\ verdict' = verdict /\ history' = history
  BY <1>1, <1>4 DEF AnswerInv, Asked, Judged, Over2
<1>5. CASE Weigh /\ step' \in Over2
  <2> SUFFICES Judged'
    BY DEF AnswerInv
  <2> DEFINE reply == sessions[attempt].reply
  <2>0. /\ step = "weigh" /\ step' = "collect" /\ attempt' = attempt /\ sessions' = sessions
        /\ history' = history /\ attempt \in {1, 2}
        /\ plan.criteria \in Nat \ {0} /\ reply \in Replies /\ sessions[1] \in Sessions
    BY <1>5, WeighIs, JudgingAssumption
       DEF Conclude, Over2, TypeInv, Sessions, PlaceInv, Asking, Calls
  <2>1. /\ Told(attempt, call.session)
        /\ history[attempt].made => call.err = history[attempt].err
        /\ ~history[attempt].made => call.err # "nil"
        /\ reply = call.session.reply
        /\ attempt = 2 => ~Valid(plan.criteria, sessions[1].reply)
    BY <2>0 DEF CallInv
  <2>2. ASSUME verdict'.status = "ERROR",
               history[attempt].made /\ Valid(plan.criteria, reply) =>
                 history[attempt].err = "canceled"
        PROVE  Judged'
    <3>1. \A n \in 1..attempt : /\ history[n].made /\ Valid(plan.criteria, sessions[n].reply)
                                => history[n].err = "canceled"
      BY <2>0, <2>1, <2>2
    <3>2. verdict'.status \notin {"PASS", "FAIL"}
      BY <2>2
    <3> QED
      BY <1>1, <2>0, <3>1, <3>2 DEF Judged
  <2>3. CASE /\ call.err # "nil" /\ ~Recoverable(call)
             /\ Conclude(NewErrorResult, BlamedOnTimeout(call))
    <3>1. verdict'.status = "ERROR"
      BY <2>3 DEF Conclude, Verdict, NewErrorResult
    <3>2. ASSUME history[attempt].made, Valid(plan.criteria, reply)
          PROVE  history[attempt].err = "canceled"
      <4>1. call.session.present
        BY <2>1, <3>2 DEF Told
      <4>2. reply.shape # "blank"
        BY <3>2 DEF Valid, Decodes
      <4> QED
        BY <2>1, <2>3, <3>2, <4>1, <4>2 DEF Recoverable
    <3> QED
      BY <2>2, <3>1, <3>2
  <2>4. CASE Again /\ Conclude(NewErrorResult, FALSE)
    <3>1. verdict'.status = "ERROR"
      BY <2>4 DEF Conclude, Verdict, NewErrorResult
    <3> QED
      BY <2>2, <2>4, <3>1 DEF Again
  <2>5. CASE /\ call.err = "nil" \/ Recoverable(call)
             /\ Valid(plan.criteria, reply)
             /\ Conclude(WithExpect(BuildResult(Ordered(reply), Threshold)), FALSE)
    <3> DEFINE good == GoodOf(plan.criteria, reply)
    <3>1. verdict' = Verdict(WithExpect(BuildResult(Ordered(reply), Threshold)), Session, FALSE)
      BY <2>5 DEF Conclude
    <3>2. /\ verdict'.status \in {"PASS", "FAIL"}
          /\ verdict'.status = "PASS" <=>
               (100 * Cardinality(good) >= Threshold * plan.criteria)
      <4>1. PICK n, a, t, r, g :
              /\ n = plan.criteria /\ a = reply /\ t = Threshold
              /\ r = BuildResult(Ordered(a), t) /\ g = GoodOf(n, a)
        OBVIOUS
      <4>2. n \in Nat \ {0} /\ a \in Replies /\ Valid(n, a)
        BY <2>0, <2>5, <4>1
      <4>3. /\ r.status \in {"PASS", "FAIL"}
            /\ r.status = "PASS" <=> (100 * Cardinality(g) >= t * n)
        BY <4>1, <4>2, ThresholdDecides
      <4>4. verdict'.status = r.status
        BY <3>1, <4>1 DEF Verdict, WithExpect, BuildResult, NewResult
      <4> QED
        BY <4>1, <4>3, <4>4
    <3>3. DOMAIN Ordered(reply) = 1..plan.criteria
      BY <2>0, <2>5, ValidCovers
    <3>4. history[attempt].err # "canceled"
      <4>1. history[attempt].made
        <5>1. ASSUME ~history[attempt].made PROVE FALSE
          <6>1. reply.shape = "blank"
            BY <2>1, <5>1, NothingTypes DEF Told
          <6> QED
            BY <2>5, <6>1 DEF Valid, Decodes
        <5> QED
          BY <5>1
      <4> QED
        BY <2>1, <2>5, <4>1 DEF Recoverable
    <3> QED
      BY <1>1, <2>0, <3>2, <3>3, <3>4 DEF Judged
  <2>6. CASE Again /\ attempt # 2 /\ attempt' = 2 /\ step' = "call"
    BY <2>0, <2>6
  <2> QED
    BY <1>5, <2>3, <2>4, <2>5, <2>6, WeighIs
<1>6. CASE ParentEnds \/ JudgeTimer \/ Collect \/ UNCHANGED judgeVars
  <2>1. /\ attempt' = attempt /\ sessions' = sessions /\ verdict' = verdict /\ history' = history
        /\ step' = step \/ (step = "collect" /\ step' = "done")
    BY <1>6 DEF ParentEnds, JudgeTimer, Collect, judgeVars, agentVars
  <2> QED
    BY <1>2, <1>4, <2>1 DEF Over2
<1>7. CASE CheckExpect \/ CreateJudge \/ EvaluateRules \/ UploadScript \/ RunScript \/ Materialize
  BY <1>3, <1>7 DEF CheckExpect, CreateJudge, EvaluateRules, UploadScript, RunScript, Materialize,
     agentVars, Before
<1>8. CASE CallReturns \/ PersistArtifacts
  BY <1>2, <1>8, CallIs, PersistIs DEF Over2
<1> QED
  BY <1>2, <1>5, <1>6, <1>7, <1>8 DEF JudgeNext

(* For any rules, expectations, criteria and replies a case passes only by *)
(* what its judge was asked, a valid answer decides by the threshold, and  *)
(* none is thrown away but for a cancellation.                             *)
THEOREM VerdictIsEarnedCorrect == JudgeSpec => []VerdictIsEarned
<1> DEFINE Inv == TypeInv /\ PlaceInv /\ ExpectInv /\ RulesInv /\ CallInv /\ AnswerInv
<1>1. JudgeInit => Inv
  <2> SUFFICES ASSUME JudgeInit PROVE Inv
    OBVIOUS
  <2>1. NoVerdict.status # "PASS"
    BY DEF NoVerdict
  <2>2. TypeInv /\ CallInv
    BY TypeInvInit, CallInvInit
  <2> QED
    BY <2>1, <2>2 DEF JudgeInit, PlaceInv, ExpectInv, RulesInv, AnswerInv, Asked, Asking
<1>2. Inv /\ [JudgeNext]_judgeVars => Inv'
  BY TypeInvStep, PlaceStep, ExpectStep, RulesStep, CallStep, AnswerStep
<1>3. Inv => VerdictIsEarned
  <2> SUFFICES ASSUME Inv PROVE VerdictIsEarned
    OBVIOUS
  <2>1. ASSUME verdict.status = "PASS"
        PROVE  \A f \in ConfiguredRules(Expect) : Fulfilled(f, Expect, plan.input)
    <3>1. step # "expect"
      BY <2>1 DEF PlaceInv, Before, NoVerdict
    <3> QED
      BY <2>1, <3>1 DEF ExpectInv
  <2>2. ASSUME verdict.status = "PASS", Config.type = "rule_based"
        PROVE  /\ \A i, j \in DOMAIN plan.success : ~Opposed(plan.success[i], plan.success[j])
               /\ \A i \in DOMAIN plan.success :
                    FieldOf(plan.success[i]) \in TurnFields => Completed(plan.success[i].turn)
               /\ \A i \in DOMAIN plan.failure : ~Met(plan.failure[i], plan.input)
    <3>1. /\ \A i \in DOMAIN plan.failure : ~Met(plan.failure[i], plan.input)
          /\ \A i \in DOMAIN plan.success : Met(plan.success[i], plan.input)
      <4>1. NewResult(RuleAssertions(plan.failure, plan.success, plan.input)).status = "PASS"
        BY <2>2 DEF RulesInv
      <4> QED
        BY <4>1, RulesPass
    <3>2. plan \in Plans
      BY DEF TypeInv
    <3>3. \A i, j \in DOMAIN plan.success : ~Opposed(plan.success[i], plan.success[j])
      BY <3>1, <3>2, OpposedExclude
    <3>4. \A i \in DOMAIN plan.success :
            FieldOf(plan.success[i]) \in TurnFields => Completed(plan.success[i].turn)
      BY <3>1, <3>2, MetTurnCompleted
    <3> QED
      BY <3>1, <3>3, <3>4
  <2>3. ASSUME Asked PROVE Judged
    BY <2>3 DEF AnswerInv
  <2> QED
    BY <2>1, <2>2, <2>3 DEF VerdictIsEarned, Judged, GoodOf
<1> QED
  BY <1>1, <1>2, <1>3, PTL DEF JudgeSpec

-----------------------------------------------------------------------------
(* The files.                                                              *)
LEMMA StoredHas ==
  ASSUME NEW new, disk' = Stored(new), NEW x
  PROVE  /\ x \in DOMAIN new => x \in DOMAIN disk' /\ disk'[x] = new[x]
         /\ x \in DOMAIN disk /\ x \notin DOMAIN new => x \in DOMAIN disk' /\ disk'[x] = disk[x]
BY DEF Stored

(* What was kept of a call stays where it is.                              *)
LEMMA KeptStays ==
  ASSUME NEW n \in Calls, history'[n] = history[n], sessions'[n] = sessions[n], Kept(n),
         \A p \in history[n].files :
           KeptAs(n, p) \in DOMAIN disk =>
             KeptAs(n, p) \in DOMAIN disk' /\ disk'[KeptAs(n, p)] = disk[KeptAs(n, p)]
  PROVE  Kept(n)'
<1> SUFFICES ASSUME NEW p \in history[n].files \ history[n].lost,
                    \A q \in history[n].files : q[2] = p[2] => q = p
             PROVE  /\ KeptAs(n, p) \in sessions[n].files
                    /\ KeptAs(n, p) \in DOMAIN disk'
                    /\ disk'[KeptAs(n, p)] = <<n, p>>
  BY DEF Kept, Alone, KeptAs, Directory
<1>1. /\ KeptAs(n, p) \in sessions[n].files /\ KeptAs(n, p) \in DOMAIN disk
      /\ disk[KeptAs(n, p)] = <<n, p>>
  BY DEF Kept, Alone
<1> QED
  BY <1>1

LEMMA NothingKept ==
  ASSUME NEW n \in Calls, history'[n].files = {}
  PROVE  Kept(n)'
BY DEF Kept

(* The steps that neither call nor persist.                                *)
LEMMA FilesQuiet ==
  ASSUME FilesInv, plan' = plan, attempt' = attempt \/ (step = "weigh" /\ step' = "call"),
         sessions' = sessions, history' = history,
         disk' = disk \/ \A n \in Calls : \A p \in history[n].files :
           KeptAs(n, p) \in DOMAIN disk =>
             KeptAs(n, p) \in DOMAIN disk' /\ disk'[KeptAs(n, p)] = disk[KeptAs(n, p)],
         step' # "persist" \/ (step' = step /\ disk' = disk), step # "persist" \/ step' = step
  PROVE  FilesInv'
<1>1. ASSUME plan.artifacts, NEW n \in Calls, ~(n = attempt' /\ step' = "persist")
      PROVE  Kept(n)'
  <2>1. Kept(n)
    BY <1>1 DEF FilesInv
  <2> QED
    BY <2>1, KeptStays
<1> QED
  BY <1>1 DEF FilesInv

LEMMA FilesCall == TypeInv /\ CallInv /\ FilesInv /\ CallReturns => FilesInv'
<1> SUFFICES ASSUME TypeInv, CallInv, FilesInv, CallReturns PROVE FilesInv'
  OBVIOUS
<1>1. /\ step = "call" /\ step' = "persist" /\ plan' = plan /\ attempt' = attempt
      /\ sessions' = sessions /\ attempt \in Calls /\ Calls = {1, 2}
  BY CallIs DEF TypeInv, Calls
<1>2. Untouched(attempt) /\ Untouched(2)
  BY <1>1 DEF CallInv, Calls
<1>3. PICK err \in PossibleErrors :
        \/ call' = Lost(err) /\ disk' = disk /\ history' = history
        \/ \E reply \in plan.replies : \E reported \in plan.fileSets :
             /\ call' = Got(reply, reported, err)
             /\ disk' = Stored([p \in Named(reported) |-> <<attempt, p>>])
             /\ history' = [history EXCEPT ![attempt] = Fate(reported, err)]
  BY CallIs
<1>4. CASE disk' = disk /\ history' = history
  <2>1. ASSUME plan.artifacts, NEW n \in Calls, n # attempt PROVE Kept(n)'
    <3>1. Kept(n)
      BY <1>1, <2>1 DEF FilesInv
    <3> QED
      BY <1>1, <1>4, <3>1, KeptStays
  <2> QED
    BY <1>1, <1>2, <1>4, <2>1 DEF FilesInv, Untouched
<1>5. ASSUME NEW reported \in plan.fileSets,
             disk' = Stored([p \in Named(reported) |-> <<attempt, p>>]),
             history' = [history EXCEPT ![attempt] = Fate(reported, err)]
      PROVE  FilesInv'
  <2>1. /\ history'[attempt].made = TRUE /\ history'[attempt].files = Named(reported)
        /\ \A n \in Calls \ {attempt} : history'[n] = history[n]
    BY <1>1, <1>5 DEF TypeInv, Fate
  <2>2. \A p \in Named(reported) : /\ p[2] \notin {"response-1", "response-2"}
                                   /\ p[1] \in {"run", "retry"} => p[1] = Directory(attempt)
    BY NamedFiles
  <2>3. \A p \in Named(reported) : p \in DOMAIN disk' /\ disk'[p] = <<attempt, p>>
    BY <1>5, StoredHas
  <2>4. ASSUME plan.artifacts, NEW n \in Calls, n # attempt PROVE Kept(n)'
    <3>1. CASE n = 2
      BY <1>2, <2>1, <2>4, <3>1, NothingKept DEF Untouched
    <3>2. CASE n = 1
      <4>1. Kept(1)
        BY <1>1, <2>4, <3>2 DEF FilesInv
      <4>2. attempt = 2
        BY <1>1, <2>4, <3>2
      <4>3. ASSUME NEW p, KeptAs(1, p) \in DOMAIN disk
            PROVE  KeptAs(1, p) \in DOMAIN disk' /\ disk'[KeptAs(1, p)] = disk[KeptAs(1, p)]
        <5>1. KeptAs(1, p)[1] = "run" /\ Directory(2) = "retry"
          BY DEF KeptAs, Directory
        <5>2. KeptAs(1, p) \notin Named(reported)
          BY <2>2, <4>2, <5>1
        <5> QED
          BY <1>5, <4>3, <5>2, StoredHas
      <4> QED
        BY <1>1, <2>1, <2>4, <3>2, <4>1, <4>3, KeptStays
    <3> QED
      BY <1>1, <3>1, <3>2
  <2>5. \A n \in Calls : /\ ~history'[n].made => history'[n].files = {}
                         /\ \A p \in history'[n].files : p[2] \notin {"response-1", "response-2"}
    BY <1>1, <2>1, <2>2 DEF FilesInv
  <2> QED
    BY <1>1, <2>1, <2>3, <2>4, <2>5 DEF FilesInv
<1> QED
  BY <1>3, <1>4, <1>5

LEMMA FilesPersist == TypeInv /\ CallInv /\ FilesInv /\ PersistArtifacts => FilesInv'
<1> SUFFICES ASSUME TypeInv, CallInv, FilesInv, PersistArtifacts PROVE FilesInv'
  OBVIOUS
<1> DEFINE F == call.session.files
<1>1. /\ step = "persist" /\ step' = "weigh" /\ plan' = plan /\ attempt' = attempt
      /\ attempt \in Calls /\ Calls = {1, 2} /\ call.session \in Sessions
  BY PersistIs DEF TypeInv, Calls, Returns
<1>2. /\ attempt = 1 => Untouched(2)
      /\ Told(attempt, call.session) /\ F = history[attempt].files
  BY <1>1 DEF CallInv
<1>3. /\ \A q \in F : q \in DOMAIN disk /\ disk[q] = <<attempt, q>>
      /\ \A n \in Calls : /\ ~history[n].made => history[n].files = {}
                          /\ \A p \in history[n].files :
                                p[2] \notin {"response-1", "response-2"}
      /\ plan.artifacts => \A n \in Calls \ {attempt} : Kept(n)
  BY <1>1, <1>2 DEF FilesInv
<1>4. CASE /\ ~call.session.present \/ ~plan.artifacts
           /\ sessions' = [sessions EXCEPT ![attempt] = call.session]
           /\ disk' = disk /\ history' = history
  <2>1. ASSUME plan.artifacts, NEW n \in Calls, n # attempt PROVE Kept(n)'
    <3>1. Kept(n)
      BY <1>3, <2>1
    <3>2. sessions'[n] = sessions[n]
      BY <1>4, <2>1 DEF TypeInv
    <3> QED
      BY <1>4, <3>1, <3>2, KeptStays
  <2>2. ASSUME plan.artifacts PROVE Kept(attempt)'
    <3>1. ~history[attempt].made
      BY <1>2, <1>4, <2>2 DEF Told
    <3>2. history'[attempt].files = {}
      BY <1>1, <1>3, <1>4, <3>1
    <3>3. PICK n \in Calls : n = attempt
      BY <1>1
    <3>4. Kept(n)'
      BY <3>2, <3>3, NothingKept
    <3> QED
      BY <1>1, <3>3, <3>4 DEF Kept, Alone, KeptAs, Directory
  <2>3. ASSUME plan.artifacts PROVE \A n \in Calls : Kept(n)'
    BY <1>1, <2>1, <2>2, <2>3 DEF Kept, Alone, KeptAs, Directory
  <2> QED
    BY <1>1, <1>3, <1>4, <2>3 DEF FilesInv
<1>5. ASSUME plan.artifacts, NEW lost \in SUBSET Outside1, NEW source,
             Fetches(source, Outside1 \ lost),
             sessions' = [sessions EXCEPT ![attempt] =
                [call.session EXCEPT !.files = FilesKept(source, Outside1 \ lost)]],
             disk' = Stored(Contents(source)),
             history' = [history EXCEPT ![attempt].lost = lost]
      PROVE  FilesInv'
  <2> DEFINE fetched == Outside1 \ lost
  <2>1. /\ \A n \in Calls : /\ history'[n].made = history[n].made
                            /\ history'[n].files = history[n].files
                            /\ n # attempt => history'[n] = history[n] /\ sessions'[n] = sessions[n]
        /\ history'[attempt].lost = lost
        /\ sessions'[attempt].files = FilesKept(source, fetched)
    BY <1>1, <1>5 DEF TypeInv, Fates, Sessions
  <2>2. ASSUME NEW n \in Calls, n = attempt PROVE Kept(n)'
    <3> SUFFICES ASSUME NEW p \in F \ lost, \A q \in F : q[2] = p[2] => q = p
                 PROVE  /\ KeptAs(attempt, p) \in FilesKept(source, fetched)
                        /\ KeptAs(attempt, p) \in DOMAIN disk'
                        /\ disk'[KeptAs(attempt, p)] = <<attempt, p>>
      <4>1. /\ history'[n].files = F /\ history'[n].lost = lost
            /\ sessions'[n].files = FilesKept(source, fetched)
        BY <1>1, <1>2, <2>1, <2>2
      <4> QED
        BY <2>2, <4>1 DEF Kept, Alone, KeptAs, Directory
    <3>1. /\ F \in SUBSET AllPaths /\ p \in F /\ p \notin lost
          /\ \A q \in F : q[2] \notin {"response-1", "response-2"}
      BY <1>1, <1>2, <1>3 DEF Sessions
    <3>2. p[2] \notin {"response-1", "response-2"} /\ p = <<p[1], p[2]>>
      BY <3>1 DEF AllPaths
    <3>3. /\ \A q : Target(q) = KeptAs(attempt, q) /\ KeptAs(attempt, q)[2] = q[2]
          /\ KeptAs(attempt, p) # Response(attempt)
      BY <3>2 DEF Target, KeptAs, Response
    <3>4. DOMAIN source = Targets(fetched) /\ \A t \in Targets(fetched) : source[t] \in fetched
      BY <1>5 DEF Fetches
    <3>5. DOMAIN Contents(source) = DOMAIN source \cup {Response(attempt)}
      BY DEF Contents
    <3>6. CASE p[1] = Directory(attempt)
      <4>1. KeptAs(attempt, p) = p
        BY <3>2, <3>6 DEF KeptAs
      <4>2. p \notin fetched
        BY <3>6 DEF Outside1
      <4>3. p \notin DOMAIN source
        <5>1. ASSUME p \in DOMAIN source PROVE FALSE
          <6>1. PICK q \in fetched : p = KeptAs(attempt, q)
            BY <3>3, <3>4, <5>1 DEF Targets
          <6>2. q[2] = p[2] /\ q \in call.session.files
            BY <3>3, <6>1 DEF Outside1
          <6> QED
            BY <4>2, <6>1, <6>2
        <5> QED
          BY <5>1
      <4>4. p \in DOMAIN disk' /\ disk'[p] = disk[p]
        BY <1>5, <3>1, <3>3, <3>5, <4>1, <4>3, <1>3, StoredHas
      <4> QED
        BY <1>3, <3>1, <4>1, <4>2, <4>4 DEF FilesKept
    <3>7. CASE p[1] # Directory(attempt)
      <4> DEFINE t == KeptAs(attempt, p)
      <4>1. p \in fetched
        BY <3>1, <3>7 DEF Outside1
      <4>2. t \in DOMAIN source
        BY <3>3, <3>4, <4>1 DEF Targets
      <4>3. source[t] = p
        <5>1. source[t] \in fetched /\ KeptAs(attempt, source[t]) = t
          BY <1>5, <3>3, <3>4, <4>2 DEF Fetches
        <5>2. source[t][2] = p[2] /\ source[t] \in call.session.files
          BY <3>3, <5>1 DEF Outside1
        <5> QED
          BY <5>2
      <4>4. Contents(source)[t] = disk[p]
        BY <3>3, <4>2, <4>3 DEF Contents
      <4>5. t \in DOMAIN disk' /\ disk'[t] = disk[p]
        <5>1. t \in DOMAIN Contents(source)
          BY <3>5, <4>2
        <5> QED
          BY <1>5, <4>4, <5>1, StoredHas
      <4> QED
        BY <1>3, <3>1, <3>4, <4>2, <4>5 DEF FilesKept
    <3> QED
      BY <3>6, <3>7
  <2>3. ASSUME NEW n \in Calls, n # attempt PROVE Kept(n)'
    <3>1. CASE n = 2
      BY <1>1, <1>2, <2>1, <2>3, <3>1, NothingKept DEF Untouched
    <3>2. CASE n = 1
      <4>1. attempt = 2 /\ Kept(1)
        BY <1>1, <1>3, <1>5, <2>3, <3>2
      <4>2. ASSUME NEW p \in history[1].files, KeptAs(1, p) \in DOMAIN disk
            PROVE  KeptAs(1, p) \in DOMAIN disk' /\ disk'[KeptAs(1, p)] = disk[KeptAs(1, p)]
        <5>1. p[2] \notin {"response-1", "response-2"}
          BY <1>1, <1>3, <4>2
        <5>2. KeptAs(1, p) # Response(attempt)
          BY <4>1, <5>1 DEF KeptAs, Response
        <5>3. KeptAs(1, p) \notin Targets(fetched)
          BY <4>1 DEF KeptAs, Targets, Target, Directory
        <5>4. DOMAIN Contents(source) = Targets(fetched) \cup {Response(attempt)}
          BY <1>5 DEF Contents, Fetches
        <5> QED
          BY <1>5, <4>2, <5>2, <5>3, <5>4, StoredHas
      <4> QED
        BY <1>1, <2>1, <2>3, <3>2, <4>1, <4>2, KeptStays
    <3> QED
      BY <1>1, <3>1, <3>2
  <2>4. \A n \in Calls : Kept(n)'
    BY <1>1, <2>2, <2>3
  <2>5. \A n \in Calls : /\ ~history'[n].made => history'[n].files = {}
                         /\ \A p \in history'[n].files :
                               p[2] \notin {"response-1", "response-2"}
    BY <1>3, <2>1
  <2> QED
    BY <1>1, <2>4, <2>5 DEF FilesInv
<1> QED
  BY <1>4, <1>5, PersistIs

(* Collecting into the output directory overwrites nothing.                *)
LEMMA CollectKeeps ==
  ASSUME Collect, NEW x \in DOMAIN disk
  PROVE  x \in DOMAIN disk' /\ disk'[x] = disk[x]
<1>1. PICK got \in SUBSET {p \in verdict.session.files : /\ p[1] \notin {"run", "retry"}
                                                       /\ <<"run", p[2]>> \notin DOMAIN disk} :
        disk' = Stored([t \in {<<"run", p[2]>> : p \in got} |->
                          disk[CHOOSE p \in got : p[2] = t[2]]])
  BY DEF Collect
<1>2. x \notin {<<"run", p[2]>> : p \in got}
  OBVIOUS
<1> QED
  BY <1>1, <1>2 DEF Stored

LEMMA FilesStep == TypeInv /\ CallInv /\ FilesInv /\ [JudgeNext]_judgeVars => FilesInv'
<1> SUFFICES ASSUME TypeInv, CallInv, FilesInv, [JudgeNext]_judgeVars PROVE FilesInv'
  OBVIOUS
<1>1. plan' = plan
  BY PlanStays
<1>2. CASE ParentEnds \/ JudgeTimer \/ UNCHANGED judgeVars
  BY <1>1, <1>2, FilesQuiet DEF ParentEnds, JudgeTimer, agentVars, judgeVars
<1>3. CASE CheckExpect \/ CreateJudge \/ EvaluateRules \/ Materialize
  <2>1. /\ step \in Before /\ step' # "persist" /\ attempt' = attempt /\ disk' = disk
        /\ sessions' = sessions /\ history' = history
    BY <1>3 DEF CheckExpect, CreateJudge, EvaluateRules, Materialize, End, Fail, agentVars, Before
  <2> QED
    BY <1>1, <2>1, FilesQuiet DEF Before
<1>4. CASE UploadScript \/ RunScript
  <2>1. /\ step \in Before /\ step' # "persist" /\ attempt' = attempt
        /\ sessions' = sessions /\ history' = history
    BY <1>4 DEF UploadScript, RunScript, End, Fail, Before
  <2>2. \A n \in Calls : history[n].files = {}
    BY <2>1 DEF CallInv, Untouched, Calls
  <2> QED
    BY <1>1, <2>1, <2>2, FilesQuiet DEF Before
<1>5. CASE CallReturns
  BY <1>5, FilesCall
<1>6. CASE PersistArtifacts
  BY <1>6, FilesPersist
<1>7. CASE Weigh
  <2>1. /\ step = "weigh" /\ disk' = disk /\ sessions' = sessions /\ history' = history
        /\ \/ step' = "collect" /\ attempt' = attempt
           \/ step' = "call"
    BY <1>7, WeighIs DEF Conclude
  <2> QED
    BY <1>1, <2>1, FilesQuiet
<1>8. CASE Collect
  <2>1. /\ step = "collect" /\ step' = "done" /\ attempt' = attempt
        /\ sessions' = sessions /\ history' = history
    BY <1>8 DEF Collect
  <2>2. \A n \in Calls : \A p \in history[n].files :
          KeptAs(n, p) \in DOMAIN disk =>
            KeptAs(n, p) \in DOMAIN disk' /\ disk'[KeptAs(n, p)] = disk[KeptAs(n, p)]
    BY <1>8, CollectKeeps
  <2> QED
    BY <1>1, <2>1, <2>2, FilesQuiet
<1> QED
  BY <1>2, <1>3, <1>4, <1>5, <1>6, <1>7, <1>8 DEF JudgeNext

(* The session of the verdict has the tokens and the files of every call   *)
(* that returned one: a resumed session whose usage is cumulative counts   *)
(* the first call already, every other one does not.                       *)
LEMMA SessionAdds ==
  ASSUME TypeInv, CallInv, step = "weigh", Session.present
  PROVE  /\ Session.tokens = Cardinality({n \in Calls : history[n].made})
         /\ \A n \in Calls : history[n].made => sessions[n].files \subseteq Session.files
<1>1. /\ attempt \in {1, 2} /\ Calls = {1, 2}
      /\ sessions[1] \in Sessions /\ sessions[2] \in Sessions
      /\ history[1].made \in BOOLEAN /\ history[2].made \in BOOLEAN
      /\ Told(1, sessions[1]) /\ Told(2, sessions[2]) /\ call.resumed = Resumes
      /\ attempt = 2 => history[1].made
      /\ attempt = 1 => ~history[2].made
  <2>1. history[1] \in Fates /\ history[2] \in Fates
    BY DEF TypeInv, Calls
  <2> QED
    BY <2>1 DEF TypeInv, CallInv, Calls, Fates, Untouched
<1>2. Cardinality({1}) = 1 /\ Cardinality({1, 2}) = 2
  <2>1. IsFiniteSet({1}) /\ Cardinality({1}) = 1
    BY FS_Singleton
  <2>2. Cardinality({1} \cup {2}) = 2
    BY <2>1, FS_AddElement
  <2>3. {1} \cup {2} = {1, 2}
    OBVIOUS
  <2> QED
    BY <2>1, <2>2, <2>3
<1>3. history[1].made
  <2>1. ASSUME attempt = 1, ~history[1].made PROVE FALSE
    BY <1>1, <2>1, NothingTypes DEF Session, Told
  <2> QED
    BY <1>1, <2>1
<1>4. sessions[1].tokens = 1 /\ sessions[1].transcript = <<1>>
  BY <1>1, <1>3 DEF Told, Counts
<1>5. CASE ~history[2].made
  <2>1. Session = sessions[1]
    <3>1. ~sessions[2].present
      BY <1>1, <1>5, NothingTypes DEF Told
    <3> QED
      BY <3>1 DEF Session, Aggregate
  <2>2. {n \in Calls : history[n].made} = {1}
    BY <1>1, <1>3, <1>5
  <2> QED
    BY <1>1, <1>2, <1>4, <1>5, <2>1, <2>2
<1>6. CASE history[2].made
  <2>1. attempt = 2 /\ sessions[2].present /\ Counts(2, sessions[2])
    BY <1>1, <1>6 DEF Told
  <2>2. {n \in Calls : history[n].made} = {1, 2}
    BY <1>1, <1>3, <1>6
  <2>3. Session = Aggregate(sessions[1], sessions[2], Resumes)
    BY <1>1, <2>1 DEF Session
  <2>4. Session.files = sessions[1].files \cup sessions[2].files
    BY <1>1, <2>1, <2>3 DEF Aggregate, Sessions
  <2>5. Session.tokens = IF Resumes /\ Extends(sessions[1], sessions[2])
                         THEN IF sessions[1].tokens > sessions[2].tokens
                              THEN sessions[1].tokens ELSE sessions[2].tokens
                         ELSE sessions[1].tokens + sessions[2].tokens
    BY <1>1, <2>1, <2>3 DEF Aggregate, Sessions
  <2>6. Session.tokens = 2
    <3>1. CASE Resumes /\ plan.engine.cumulative
      <4>1. sessions[2].tokens = 2 /\ sessions[2].transcript = <<1, 2>>
        BY <2>1, <3>1 DEF Counts
      <4>2. Extends(sessions[1], sessions[2])
        BY <1>4, <4>1 DEF Extends
      <4> QED
        BY <1>4, <2>5, <3>1, <4>1, <4>2
    <3>2. CASE ~(Resumes /\ plan.engine.cumulative)
      <4>1. sessions[2].tokens = 1 /\ sessions[2].transcript = <<2>>
        BY <2>1, <3>2 DEF Counts
      <4>2. ~Extends(sessions[1], sessions[2])
        BY <1>4, <4>1 DEF Extends
      <4> QED
        BY <1>4, <2>5, <4>1, <4>2
    <3> QED
      BY <3>1, <3>2
  <2> QED
    BY <1>1, <1>2, <2>2, <2>4, <2>6
<1> QED
  BY <1>1, <1>5, <1>6

LEMMA TotalStep ==
  TypeInv /\ CallInv /\ FilesInv /\ TotalInv /\ [JudgeNext]_judgeVars => TotalInv'
<1> SUFFICES ASSUME TypeInv, CallInv, FilesInv, TotalInv, [JudgeNext]_judgeVars,
                    step' \in Over2, verdict'.session.present
             PROVE  Total'
  BY DEF TotalInv
<1>1. plan' = plan
  BY PlanStays
<1>2. CASE step \in Over2 /\ verdict' = verdict /\ history' = history
           /\ \A x \in DOMAIN disk : x \in DOMAIN disk' /\ disk'[x] = disk[x]
  <2>1. Total
    BY <1>2 DEF TotalInv
  <2> QED
    BY <1>1, <1>2, <2>1 DEF Total, Alone, KeptAs, Directory
<1>3. CASE verdict'.session = NoSession
  BY <1>3, NothingTypes
<1>4. CASE Weigh
  <2>1. /\ step = "weigh" /\ verdict'.session = Session /\ sessions' = sessions
        /\ history' = history /\ disk' = disk
    BY <1>4, WeighIs DEF Conclude, Verdict, Over2
  <2>2. /\ verdict'.session.tokens = Cardinality({n \in Calls : history[n].made})
        /\ \A n \in Calls : history[n].made => sessions[n].files \subseteq verdict'.session.files
    BY <2>1, SessionAdds
  <2>3. ASSUME plan.artifacts, NEW n \in Calls, NEW p \in history[n].files \ history[n].lost,
               Alone(n, p)
        PROVE  /\ KeptAs(n, p) \in verdict'.session.files
               /\ KeptAs(n, p) \in DOMAIN disk /\ disk[KeptAs(n, p)] = <<n, p>>
    <3>1. Kept(n) /\ history[n].made
      BY <2>1, <2>3 DEF FilesInv
    <3>2. /\ KeptAs(n, p) \in sessions[n].files
          /\ KeptAs(n, p) \in DOMAIN disk /\ disk[KeptAs(n, p)] = <<n, p>>
      BY <2>3, <3>1 DEF Kept
    <3> QED
      BY <2>2, <3>1, <3>2
  <2> QED
    BY <1>1, <2>1, <2>2, <2>3 DEF Total, Alone, KeptAs, Directory
<1>5. CASE ParentEnds \/ JudgeTimer \/ UNCHANGED judgeVars
  BY <1>2, <1>5 DEF ParentEnds, JudgeTimer, judgeVars, agentVars
<1>6. CASE Collect
  <2>1. step \in Over2 /\ verdict' = verdict /\ history' = history
    BY <1>6 DEF Collect, Over2
  <2> QED
    BY <1>2, <1>6, <2>1, CollectKeeps
<1>7. CASE CheckExpect \/ CreateJudge \/ EvaluateRules \/ UploadScript \/ RunScript \/ Materialize
  <2>1. verdict'.session = NoSession
    <3>1. CASE CheckExpect
      BY <3>1 DEF CheckExpect, End, Verdict, Over2
    <3>2. CASE CreateJudge
      <4>1. \/ \E result : verdict' = Verdict(result, NoSession, FALSE)
            \/ step' = "rules" \/ step' = "upload" \/ step' = "materialize"
        BY <3>2, Zenon DEF CreateJudge, End, Fail
      <4>2. \E result : verdict' = Verdict(result, NoSession, FALSE)
        BY <4>1 DEF Over2
      <4> QED
        BY <4>2 DEF Verdict
    <3>3. CASE EvaluateRules
      BY <3>3 DEF EvaluateRules, End, Verdict, Over2
    <3>4. CASE UploadScript
      BY <3>4 DEF UploadScript, End, Fail, Verdict, Over2
    <3>5. CASE RunScript
      BY <3>5 DEF RunScript, End, Fail, Verdict, Over2
    <3>6. CASE Materialize
      BY <3>6 DEF Materialize, End, Fail, Verdict, Over2
    <3> QED
      BY <1>7, <3>1, <3>2, <3>3, <3>4, <3>5, <3>6
  <2> QED
    BY <1>3, <2>1
<1>8. CASE CallReturns \/ PersistArtifacts
  BY <1>8, CallIs, PersistIs DEF Over2
<1> QED
  BY <1>4, <1>5, <1>6, <1>7, <1>8 DEF JudgeNext

(* For any engine, replies and files the session of a verdict has the      *)
(* tokens of every call that returned one, resumed or not, and each file   *)
(* of either call is there to read with the content of that call.          *)
THEOREM SessionsCountedCorrect == JudgeSpec => []SessionsCounted
<1> DEFINE Inv == TypeInv /\ CallInv /\ FilesInv /\ TotalInv
<1>1. JudgeInit => Inv
  <2> SUFFICES ASSUME JudgeInit PROVE Inv
    OBVIOUS
  <2>1. FilesInv
    BY DEF JudgeInit, FilesInv, Kept
  <2> QED
    BY <2>1, TypeInvInit, CallInvInit DEF JudgeInit, TotalInv, Over2
<1>2. Inv /\ [JudgeNext]_judgeVars => Inv'
  BY TypeInvStep, CallStep, FilesStep, TotalStep
<1>3. Inv => SessionsCounted
  <2> SUFFICES ASSUME Inv, step = "done", verdict.session.present
               PROVE  /\ verdict.session.tokens = Cardinality({n \in Calls : history[n].made})
                      /\ plan.artifacts =>
                           \A n \in Calls : \A p \in history[n].files \ history[n].lost :
                             Alone(n, p) =>
                               \E kept \in verdict.session.files :
                                 kept \in DOMAIN disk /\ disk[kept] = <<n, p>>
    BY DEF SessionsCounted, Alone
  <2>1. Total
    BY DEF TotalInv, Over2
  <2> QED
    BY <2>1 DEF Total
<1> QED
  BY <1>1, <1>2, <1>3, PTL DEF JudgeSpec
=============================================================================
