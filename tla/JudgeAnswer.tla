---------------------------- MODULE JudgeAnswer ----------------------------
(***************************************************************************)
(* What the agent judge accepts as an answer (internal/judge/              *)
(* agent_judge.go) and how assertions become a verdict (judge.go).  A      *)
(* reply is the final message of the judge's session, abstracted to        *)
(*   [shape, keys, present, results]:                                      *)
(* its outer shape, the spelling of its JSON keys, whether `results` is an *)
(* array, and its entries [id, passed, evidence, failures].  A criterion   *)
(* is its position; 0 stands for a blank id, anything past the criteria    *)
(* for an unknown one.                                                     *)
(***************************************************************************)
EXTENDS Naturals, Sequences, FiniteSets

Shapes == {"bare", "fenced",    \* one object, alone or in one json fence
           "otherFence",        \* a fence of another language, or not closed
           "trailing",          \* something follows the object
           "prose", "blank"}

Keys == {"exact", "duplicate", "unknown"}   \* a key twice; misspelt or foreign

(* A list of texts: not there, without entry, with a blank entry, or good. *)
Lists == {"absent", "empty", "blankEntry", "given"}

Criteria(n) == 1..n
Results == [id : Nat, passed : {"yes", "no", "absent"}, evidence : Lists, failures : Lists]
Replies == [shape : Shapes, keys : Keys, present : BOOLEAN, results : Seq(Results)]

(* decodeAgentJudgeResponse: one object whose keys are spelled exactly,    *)
(* once each, and nothing behind it.                                       *)
Decodes(reply) == reply.shape \in {"bare", "fenced"} /\ reply.keys = "exact"

(* validateCriterionResultFields: whoever passes has no failures to report *)
(* and whoever fails has some.                                             *)
FieldsValid(result) ==
  /\ result.passed # "absent"
  /\ result.evidence = "given"
  /\ result.failures \in {"empty", "given"}
  /\ result.passed = "yes" <=> result.failures = "empty"

(* A slip that does not compare the lengths.                               *)
SlipAnyLength(n, reply) ==
  /\ Decodes(reply) /\ reply.present
  /\ \A i \in DOMAIN reply.results :
       reply.results[i].id \in Criteria(n) /\ FieldsValid(reply.results[i])

(* parseAgentJudgeResults returned no error: one valid result for each     *)
(* criterion.                                                              *)
Valid(n, reply) ==
  /\ Decodes(reply)
  /\ reply.present
  /\ Len(reply.results) = n
  /\ \A i \in DOMAIN reply.results :
       /\ reply.results[i].id \in Criteria(n)
       /\ \A j \in 1..(i - 1) : reply.results[j].id # reply.results[i].id
       /\ FieldsValid(reply.results[i])

(* The results in the order of the criteria: a Boolean for each.           *)
Ordered(reply) ==
  [c \in {reply.results[i].id : i \in DOMAIN reply.results} |->
     \E i \in DOMAIN reply.results : reply.results[i].id = c /\ reply.results[i].passed = "yes"]

-----------------------------------------------------------------------------
PassedOf(assertions) == Cardinality({i \in DOMAIN assertions : assertions[i]})
TotalOf(assertions)  == Cardinality(DOMAIN assertions)

(* NewResult: PASS unless an assertion failed; without any, PASS.          *)
NewResult(assertions) ==
  [status |-> IF \E i \in DOMAIN assertions : ~assertions[i] THEN "FAIL" ELSE "PASS",
   passed |-> PassedOf(assertions), total |-> TotalOf(assertions)]

NewSkipResult  == [status |-> "SKIP",  passed |-> 0, total |-> 0]
NewErrorResult == [status |-> "ERROR", passed |-> 0, total |-> 0]

(* The summary's pass rate reaches a threshold in percent; a rate without  *)
(* assertions is 1.                                                        *)
Reaches(result, threshold) ==
  IF result.total = 0 THEN threshold <= 100
  ELSE 100 * result.passed >= threshold * result.total

(* buildResult: with assertions the threshold decides, and nothing else.   *)
BuildResult(assertions, threshold) ==
  LET result == NewResult(assertions)
  IN  IF result.total = 0 THEN result
      ELSE [result EXCEPT !.status = IF Reaches(result, threshold) THEN "PASS" ELSE "FAIL"]
=============================================================================
