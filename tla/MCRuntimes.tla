----------------------------- MODULE MCRuntimes -----------------------------
(* A case's runtime and its judge for model checking, side by side as two  *)
(* families of behaviours that share no state: while one runs, the other   *)
(* has ended.                                                              *)
EXTENDS Runtimes, MCJudging

(* Up to three files per download: two plain ones with a readable and an   *)
(* unreadable mode, the searched directory itself, one that climbs out of  *)
(* it.                                                                     *)
In(name, mode) == [path |-> Abs(<<"workspace", name>>), mode |-> mode]
Root    == [path |-> Abs(<<"workspace", ".">>), mode |-> 755]
ClimbsOut == [path |-> Abs(<<"workspace", "..", "etc">>), mode |-> 644]

Searches == { <<>>, <<In("a", 755), In("b", 799), In("c", 644)>>,
              <<Root, In("a", 644), ClimbsOut>> }

SomePaths == {Abs(<<"tmp">>), Rel(<<"out">>), Rel(<<"out", "..", "..", "etc">>),
              Rel(<<"..", "workspace", "out">>)}

-----------------------------------------------------------------------------
(* A runtime that was never made, and a judge that has nothing to judge.   *)
RuntimeDropped ==
  /\ config = CHOOSE c \in Configs : TRUE
  /\ pc = "discarded" /\ handle = FALSE /\ started = FALSE /\ remote = "absent"
  /\ workdir = FALSE /\ network = "unset" /\ orphan = FALSE
  /\ ret = "error" /\ report = NoReport /\ calls = 0 /\ expired = FALSE
  /\ Local!Init /\ Pool!Init

JudgeEnded ==
  /\ plan = BasePlan /\ step = "done"
  /\ parentErr = "nil" /\ ctxErr = "nil" /\ timerFired = FALSE /\ attempt = 1
  /\ call = NoCall /\ sessions = [n \in Calls |-> NoSession] /\ disk = <<>>
  /\ skills = {} /\ materials = <<>> /\ verdict = NoVerdict
  /\ history = [n \in Calls |-> [made |-> FALSE, err |-> "nil", files |-> {}, lost |-> {}]]

MCInit == \/ Init /\ JudgeEnded
          \/ RuntimeDropped /\ JudgeInit
MCNext == \/ Next /\ UNCHANGED judgeVars
          \/ JudgeNext /\ UNCHANGED vars
MCSpec == MCInit /\ [][MCNext]_<<vars, judgeVars>> /\ Fairness
=============================================================================
