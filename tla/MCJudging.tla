----------------------------- MODULE MCJudging -----------------------------
(* Configurations, replies and files for the model checking of Judging.    *)
EXTENDS Judging

Result(id, passed) == [id |-> id, passed |-> passed, evidence |-> "given",
                       failures |-> IF passed = "yes" THEN "empty" ELSE "given"]
Reply(results) == [shape |-> "bare", keys |-> "exact", present |-> TRUE, results |-> results]

AllPassed  == Reply(<<Result(2, "yes"), Result(1, "yes")>>)
HalfPassed == Reply(<<Result(1, "yes"), Result(2, "no")>>)

SomeReplies == {AllPassed, HalfPassed, Reply(<<Result(1, "yes")>>), NoReply}

InvalidReplies ==
  { Reply(<<Result(1, "yes"), Result(1, "yes")>>),                \* a criterion twice
    Reply(<<Result(1, "yes"), Result(3, "yes")>>),                \* an unknown one
    Reply(<<Result(1, "yes"), [Result(2, "yes") EXCEPT !.failures = "given"]>>),
    Reply(<<Result(1, "yes"), [Result(2, "no") EXCEPT !.evidence = "blankEntry"]>>),
    [AllPassed EXCEPT !.keys = "duplicate"], [AllPassed EXCEPT !.shape = "trailing"],
    [AllPassed EXCEPT !.present = FALSE, !.results = <<>>] }

SomeFiles == {{}, {<<"ws", "log">>}, {<<"ws", "log">>, <<"tmp", "log">>, <<"own", "trace">>}}

NoRule == [set |-> {}, all |-> <<>>, any |-> <<>>, not |-> <<>>, code |-> 0, name |-> "",
           args |-> {}, paths |-> <<>>, turn |-> 0]
Rule(field) == [NoRule EXCEPT !.set = {field}]

NoJudge == [type |-> "", model |-> "", threshold |-> <<>>, timeout |-> <<>>, context |-> NoContext]

Run1 == [words |-> {"ok"}, exitCode |-> 0, calls |-> {[name |-> "read", args |-> {"p"}]},
         files |-> {"a"}, holds |-> {<<"a", "ok">>}, golden |-> "equal",
         turns |-> <<[number |-> 1, status |-> "completed", words |-> {"ok"},
                      calls |-> {[name |-> "read", args |-> {"p"}]}],
                     [number |-> 2, status |-> "skipped", words |-> {}, calls |-> {}]>>]

Run2 == [Run1 EXCEPT !.turns[1].status = "failed"]

BasePlan ==
  [global |-> NoJudge, case |-> NoJudge, defaults |-> NoExpect, expect |-> NoExpect,
   input |-> Run1, success |-> <<>>, failure |-> <<>>, script |-> "judge.sh", criteria |-> 2,
   engine |-> [resumes |-> TRUE, cumulative |-> TRUE, id |-> "s"],
   artifacts |-> TRUE, withSkill |-> TRUE, posix |-> TRUE,
   runSkills |-> {"skills/a", "mine/b"}, defaultTargets |-> {"skills/a"},
   judgeSkills |-> {"skills/a"},
   texts |-> [final_message |-> <<2>>, transcript |-> <<1, 2, 1>>, workspace_diff |-> <<1, 1>>,
              generated_files |-> <<1>>],
   replies |-> {AllPassed}, fileSets |-> {{}}]

(* Every pair of rules in both orders, and each with failure rules; each   *)
(* where the first turn failed.                                            *)
SomeRules ==
  { [Rule("turn_response_contains") EXCEPT !.turn = t, !.all = <<"ok">>] : t \in {1, 2} }
  \cup { [Rule("turn_response_not_contains") EXCEPT !.turn = t, !.not = <<"ok">>] : t \in {1, 2} }
  \cup { [Rule("tool_called_in_turn") EXCEPT !.turn = 1, !.name = "read", !.args = a] :
           a \in {{}, {"p"}, {"q"}} }
  \cup { [Rule("tool_not_called_in_turn") EXCEPT !.turn = t, !.name = "read"] : t \in {1, 2} }
  \cup { [Rule("files_exist") EXCEPT !.paths = <<p>>] : p \in {"a", "b", Outside} }
  \cup { [Rule("files_not_exist") EXCEPT !.paths = <<p>>] : p \in {"a", "b", Outside} }
  \cup { [Rule("output_matches") EXCEPT !.any = <<p, q>>] : p, q \in {"ok", "no", Invalid} }
  \cup { [Rule("output_matches") EXCEPT !.not = <<p>>] : p \in {"ok", "no", Invalid} }
  \cup { [Rule("output_contains") EXCEPT !.any = <<"no">>], [Rule("exit_code") EXCEPT !.code = 0],
         [Rule("tool_called") EXCEPT !.name = "read"], NoRule,
         [Rule("exit_code") EXCEPT !.set = {"exit_code", "files_exist"}, !.paths = <<"b">>] }

RulePlans ==
  LET Global == [NoJudge EXCEPT !.type = "rule_based"]
  IN  { [BasePlan EXCEPT !.global = Global, !.success = <<r, s>>] : r, s \in SomeRules }
      \cup { [BasePlan EXCEPT !.global = Global, !.success = <<r>>, !.failure = <<s>>] :
               r, s \in SomeRules }
      \cup { [BasePlan EXCEPT !.global = Global, !.success = <<r>>, !.input = Run2] :
               r \in SomeRules }

(* Expectations of the defaults and the case, with a judge and without.    *)
ExpectPlans ==
  { [BasePlan EXCEPT !.defaults = [NoExpect EXCEPT !.mustContain = <<w>>, !.exitCode = {c}],
                     !.expect = [NoExpect EXCEPT !.mustNotContain = <<"no">>, !.exitCode = d,
                                                 !.fileContains = <<<<"a", w>>>>, !.golden = g],
                     !.global = [NoJudge EXCEPT !.type = t]] :
      w \in {"ok", "no"}, c \in {0, 1}, d \in {{}, {0}}, g \in BOOLEAN,
      t \in {"", "script", "other"} }

AgentJudgeOf(threshold, timeout, context) ==
  [NoJudge EXCEPT !.type = "agent_judge", !.threshold = threshold, !.timeout = timeout,
                  !.context = context]

(* The agent judge on each kind of engine; two files of one name, which    *)
(* may be lost apart, where the sessions are cumulative.                   *)
AgentPlans ==
  { [BasePlan EXCEPT !.global = AgentJudgeOf(<<50>>, <<>>, NoContext),
                     !.case = AgentJudgeOf(<<>>, <<7>>, NoContext), !.engine = e,
                     !.replies = SomeReplies \ {HalfPassed},
                     !.fileSets = IF e.cumulative /\ e.id = "s" THEN SomeFiles
                                                                ELSE {{}, {<<"ws", "log">>}}] :
      e \in { [resumes |-> TRUE, cumulative |-> TRUE, id |-> "s"],
              [resumes |-> TRUE, cumulative |-> FALSE, id |-> "s"],
              [resumes |-> TRUE, cumulative |-> TRUE, id |-> ""] } }
  \cup { [BasePlan EXCEPT !.global = AgentJudgeOf(<<>>, <<>>, NoContext), !.artifacts = FALSE,
                          !.withSkill = FALSE, !.replies = SomeReplies \cup InvalidReplies],
         [BasePlan EXCEPT !.global = AgentJudgeOf(<<>>, <<>>, NoContext), !.criteria = 0] }

(* What the judge is given to read, for every budget and mode; a reply     *)
(* that is valid at once.                                                  *)
ContextPlans ==
  { [BasePlan EXCEPT
       !.global = AgentJudgeOf(<<>>, <<>>, [NoContext EXCEPT !.profile = p, !.maxBytes = b,
                                                            !.mode["transcript"] = "include"]),
       !.case = [AgentJudgeOf(<<>>, <<>>,
                   [NoContext EXCEPT !.maxTurns = n, !.mode["transcript"] = m,
                                     !.mode["generated_files"] = g])
                   EXCEPT !.type = t],
       !.texts.final_message = f] :
      p \in {"", "minimal"}, b \in {0, 1, 3}, n \in {0, 1}, m \in {"", "truncate", "omit", "odd"},
      g \in {"", "include"}, t \in {"", "agent_judge"}, f \in {<<>>, <<4>>} }

AllPlans == RulePlans \cup ExpectPlans \cup AgentPlans \cup ContextPlans
LabelPlans == AgentPlans
=============================================================================
