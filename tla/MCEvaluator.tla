---------------------------- MODULE MCEvaluator ----------------------------
(* The evaluation for model checking, side by side as three families of    *)
(* behaviours that share no state: the command with its task pool and      *)
(* event log (two iterations, two tasks on two slots and then one), the    *)
(* attempts of one case, and the turns of one attempt.  While one runs,    *)
(* the others have ended.                                                  *)
EXTENDS MCEvalCommand, CaseAttempts, MultiTurn

(* A command that could not start, a case that could not be provisioned,   *)
(* a conversation whose first turn failed.                                 *)
CommandExited ==
  /\ Init /\ Pool!Init
  /\ main = "exited" /\ number = 1 /\ reported = {}
  /\ invocationErr = "none" /\ adapterErr = FALSE /\ finishErr = FALSE /\ exit = "failure"

CaseReturned ==
  /\ cfg = CHOOSE c \in Cases : c.exitCode => c.expect
  /\ step = "returned" /\ attempt = 1 /\ ctxCancelled = FALSE /\ attemptErr = "nil"
  /\ mcp = "failed" /\ rt = [state |-> "none", creations |-> 0, closes |-> 0]
  /\ agentRun = "none" /\ collected = FALSE /\ killed = "nothing"
  /\ result = Failure("error") /\ history = <<Failure("error")>>

TurnsReturned ==
  /\ turns = <<CHOOSE t \in Turns : TRUE>> /\ engine = CHOOSE e \in Engines : TRUE
  /\ pc = "returned" /\ turnNum = 1
  /\ state = [NewState EXCEPT !.turnResults = <<Result(1, "ERROR")>>]
  /\ sessions = <<>> /\ lastReply = NoReply /\ ids = <<>> /\ failedAt = 0
  /\ outcome = [status |-> "ERROR", turns |-> {}]

MCInit == \/ CommandInit /\ CaseReturned /\ TurnsReturned
          \/ CommandExited /\ CaseInit /\ TurnsReturned
          \/ CommandExited /\ CaseReturned /\ TurnsInit
MCNext == \/ CommandNext /\ UNCHANGED <<caseVars, turnVars>>
          \/ CaseNext /\ UNCHANGED <<vars, turnVars>>
          \/ TurnsNext /\ UNCHANGED <<vars, caseVars>>
MCSpec == /\ MCInit /\ [][MCNext]_<<vars, caseVars, turnVars>>
          /\ CommandFairness /\ CaseFairness
=============================================================================
