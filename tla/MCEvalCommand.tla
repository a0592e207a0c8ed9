--------------------------- MODULE MCEvalCommand ---------------------------
(* Two iterations: the first runs two tasks on two slots, the second one.  *)
EXTENDS EvalCommand

CONSTANTS t1, t2, t3

TwoIterations == 1..2
IterationOfTask == [t \in {t1, t2, t3} |-> IF t = t3 THEN 2 ELSE 1]
TaskPlan == << <<t1, t2>>, <<t3>> >>

OneIteration == {1}
SameIteration == [t \in {t1, t2} |-> 1]
OneIterationPlan == << <<t1, t2>> >>
=============================================================================
