----------------------------- MODULE MultiTurn -----------------------------
(***************************************************************************)
(* executeMultiTurn and executeMultiTurnCase (internal/evaluator/          *)
(* multiturn.go): a case with turns, sent to a resuming agent one by one,  *)
(* with a condition and captures after each answer.  Engines hand back the *)
(* whole session file after every turn or only the turn itself, so the     *)
(* evaluator cuts transcripts and usage into turns again.  The agent, the  *)
(* only thing here that is not sequential code, answers anything.          *)
(* CaseAttempts!RunAgent is this module in one step.                       *)
(***************************************************************************)
EXTENDS Naturals, FiniteSets, SequencesExt

CONSTANTS MaxTurns,              \* bound on the turns of a case
          Engines,               \* what engines report: "whole" sessions, "scoped" turns
          SessionFileMayBeLost,  \* a session file may be unreadable after a turn
          Texts                  \* contents a turn's messages may have

ASSUME TurnsAssumption == /\ MaxTurns \in Nat \ {0}
                          /\ Engines \subseteq {"whole", "scoped"}
                          /\ SessionFileMayBeLost \in BOOLEAN

VARIABLES
  turns,     \* input.turns of the case, fixed
  engine,    \* fixed
  pc,        \* where executeMultiTurn is
  turnNum,   \* the turn it is at
  state,     \* multiTurnState
  sessions,  \* the conversations the engine holds; a session id is an index, 0 is ""
  lastReply, \* lastSessionResult: what the engine returned for the last answer
  ids,       \* history: the session id each answer reported
  failedAt,  \* history: the turn whose condition failed, 0 if none
  outcome    \* [status, turns]: the case's status and the turns in its session

turnVars == <<turns, engine, pc, turnNum, state, sessions, lastReply, ids, failedAt, outcome>>
fixed == <<turns, engine>>

(* A turn's messages are one message here: its content is the text, and    *)
(* turn, which the code cannot see, says where it came from.               *)
Turns == [condition : {"none", "fail", "skip_remaining"}, captures : BOOLEAN, uses : BOOLEAN]

NoReply == [id |-> 0, transcript |-> <<>>, usage |-> 0]

NewState == [captured |-> FALSE, sessionID |-> 0, turnResults |-> <<>>, transcript |-> <<>>,
             sessionTranscript |-> <<>>, tokens |-> 0, tokenBase |-> 0]

TurnsInit ==
  /\ turns \in UNION {[1..n -> Turns] : n \in 1..MaxTurns}
  /\ engine \in Engines
  /\ pc = "sending" /\ turnNum = 1
  /\ state = NewState
  /\ sessions = <<>> /\ lastReply = NoReply /\ ids = <<>>
  /\ failedAt = 0
  /\ outcome = [status |-> "none", turns |-> {}]

-----------------------------------------------------------------------------
(* The engine, which is given a conversation c or opens one.  The k-th     *)
(* turn costs k tokens; a whole session reports the sum of its turns.      *)
(* Without its session file an engine is left with what it printed: the    *)
(* turn in full or in brief, with its usage or none.  The built-in engines *)
(* always name the session they resumed, others may name none.             *)
Usage(transcript) ==
  LET sum[k \in 0..Len(transcript)] == IF k = 0 THEN 0 ELSE sum[k - 1] + transcript[k].turn
  IN  sum[Len(transcript)]

Reports(c, conversation, resumed) ==
  LET own     == <<Last(conversation)>>
      printed == {own, <<[turn |-> turnNum, text |-> "brief"]>>}
      named   == IF resumed /\ engine = "whole" THEN {c} ELSE {0, c}
  IN  IF engine = "scoped"
      THEN [id : named, transcript : {own}, usage : {Usage(own)}]
      ELSE [id : named, transcript : {conversation}, usage : {Usage(conversation)}]
             \cup IF SessionFileMayBeLost
                  THEN [id : named, transcript : printed, usage : {0, Usage(own)}]
                  ELSE {}

-----------------------------------------------------------------------------
Texting(transcript) == [k \in DOMAIN transcript |-> transcript[k].text]

(* transcriptHasPrefix compares what the messages say.                     *)
Cumulative(current, previous) ==
  /\ current # <<>> /\ previous # <<>>
  /\ IsPrefix(Texting(previous), Texting(current))

(* transcriptForLogicalTurn: the tail after the previous transcript if the *)
(* engine returned that again, stamped with the number of the turn.        *)
SlipKeepPrefix(current, previous) ==
  [k \in DOMAIN current |-> [stamp |-> turnNum, said |-> current[k].turn]]
TurnTail(current, previous) ==
  LET tail == IF Cumulative(current, previous)
              THEN SubSeq(current, Len(previous) + 1, Len(current))
              ELSE current
  IN  [k \in DOMAIN tail |-> [stamp |-> turnNum, said |-> tail[k].turn]]

(* A slip that forgets the session when an answer does not name it.        *)
SlipSessionForgotten(known, reported) == reported
SessionAfter(known, reported) == IF reported # 0 THEN reported ELSE known

(* absorbTurnSession: usage is added as it is, or as the increase over the *)
(* base when it was reported with the whole session.                       *)
Absorb(s, reply) ==
  LET cumulative == Cumulative(reply.transcript, s.sessionTranscript)
      added      == CASE ~cumulative -> reply.usage
                      [] cumulative /\ reply.usage > s.tokenBase -> reply.usage - s.tokenBase
                      [] OTHER -> 0
  IN  [s EXCEPT !.sessionID = SessionAfter(@, reply.id),
                !.sessionTranscript = reply.transcript,
                !.transcript = @ \o TurnTail(reply.transcript, s.sessionTranscript),
                !.tokens = @ + added,
                !.tokenBase = @ + added]

-----------------------------------------------------------------------------
Result(k, status) == [turn |-> k, status |-> status]
WithResult(status) == [state EXCEPT !.turnResults = Append(@, Result(turnNum, status))]

TurnsIn(transcript) == {transcript[k].said : k \in DOMAIN transcript}

(* multiTurnStatus; "" goes on to the judge.                               *)
SlipSkippedIsFail(results) ==
  IF \E k \in DOMAIN results : results[k].status = "FAILED" THEN "FAIL" ELSE ""
multiTurnStatus(results) ==
  LET ended   == {k \in DOMAIN results : results[k].status \in {"ERROR", "FAILED"}}
      first   == CHOOSE k \in ended : \A j \in ended : k <= j
      skipped == {k \in DOMAIN results : results[k].status = "SKIPPED"}
  IN  CASE ended # {} /\ results[first].status = "ERROR" -> "ERROR"
        [] ended # {} /\ results[first].status = "FAILED" ->
             IF \E k \in skipped : k > first THEN "" ELSE "FAIL"
        [] ended = {} /\ skipped = DOMAIN results -> "SKIP"
        [] OTHER -> ""

(* executeMultiTurnCase after an error of executeMultiTurn, with the       *)
(* session it returned, and after its regular end, with the aggregate.     *)
ReturnError(inSession) ==
  pc' = "returned" /\ outcome' = [status |-> "ERROR", turns |-> inSession]

ReturnResults(s) ==
  LET status == multiTurnStatus(s.turnResults)
  IN  /\ pc' = "returned"
      /\ outcome' = [status |-> IF status = "" THEN "judge" ELSE status,
                     turns  |-> TurnsIn(s.transcript)]

-----------------------------------------------------------------------------
(* A placeholder that no capture has filled ends the case, with the last   *)
(* answer for its session; the check for one more turn comes first.        *)
SubstituteTemplate ==
  /\ pc = "sending"
  /\ \/ turnNum > Len(turns) /\ ReturnResults(state) /\ UNCHANGED state
     \/ /\ turnNum <= Len(turns) /\ turns[turnNum].uses /\ ~state.captured
        /\ state' = WithResult("ERROR")
        /\ ReturnError({lastReply.transcript[k].turn : k \in DOMAIN lastReply.transcript})
     \/ /\ turnNum <= Len(turns) /\ (turns[turnNum].uses => state.captured)
        /\ pc' = "running" /\ UNCHANGED <<state, outcome>>
  /\ UNCHANGED <<fixed, turnNum, sessions, lastReply, ids, failedAt>>

(* RunTurn failed, timed out or was cancelled.                             *)
TurnFails ==
  /\ pc = "running"
  /\ state' = WithResult("ERROR")
  /\ ReturnError(TurnsIn(state.transcript))
  /\ UNCHANGED <<fixed, turnNum, sessions, lastReply, ids, failedAt>>

(* RunTurn resumes the session it is given, or opens a new one.            *)
RunTurn ==
  /\ pc = "running"
  /\ \E text \in Texts :
       LET said    == [turn |-> turnNum, text |-> text]
           resumed == state.sessionID # 0
           c       == IF resumed THEN state.sessionID ELSE Len(sessions) + 1
           conversation == IF resumed THEN Append(sessions[c], said) ELSE <<said>>
       IN  /\ sessions' = IF resumed THEN [sessions EXCEPT ![c] = conversation]
                          ELSE Append(sessions, conversation)
           /\ \E reply \in Reports(c, conversation, resumed) :
                /\ lastReply' = reply
                /\ ids' = Append(ids, reply.id)
                /\ state' = Absorb(state, reply)
  /\ pc' = "checking"
  /\ UNCHANGED <<fixed, turnNum, failedAt, outcome>>

(* handlePostCondition: skip_remaining fills in the turns that follow.     *)
SlipSkipTooMany == [k \in 1..(Len(turns) - turnNum + 1) |-> Result(turnNum + k - 1, "SKIPPED")]
Skipped == [k \in 1..(Len(turns) - turnNum) |-> Result(turnNum + k, "SKIPPED")]

PostConditionFails ==
  LET failed == WithResult("FAILED")
  IN  /\ pc = "checking" /\ turns[turnNum].condition # "none"
      /\ state' = IF turns[turnNum].condition = "skip_remaining"
                  THEN [failed EXCEPT !.turnResults = @ \o Skipped]
                  ELSE failed
      /\ failedAt' = turnNum
      /\ ReturnResults(state')
      /\ UNCHANGED <<fixed, turnNum, sessions, lastReply, ids>>

(* captureVariables found nothing or an empty value.                       *)
CaptureFails ==
  /\ pc = "checking" /\ turns[turnNum].captures
  /\ state' = WithResult("ERROR")
  /\ ReturnError(TurnsIn(state.transcript))
  /\ UNCHANGED <<fixed, turnNum, sessions, lastReply, ids, failedAt>>

CompleteTurn ==
  /\ pc = "checking"
  /\ state' = [WithResult("COMPLETED") EXCEPT !.captured = @ \/ turns[turnNum].captures]
  /\ turnNum' = turnNum + 1 /\ pc' = "sending"
  /\ UNCHANGED <<fixed, sessions, lastReply, ids, failedAt, outcome>>

TurnsNext ==
  \/ SubstituteTemplate \/ TurnFails \/ RunTurn
  \/ PostConditionFails \/ CaptureFails \/ CompleteTurn

TurnsSpec == TurnsInit /\ [][TurnsNext]_turnVars

-----------------------------------------------------------------------------
(* The turns the agent answered, and what they said.                       *)
Messages == UNION {Range(sessions[c]) : c \in DOMAIN sessions}
Answered == {m.turn : m \in Messages}
TextsDiffer == Cardinality({m.text : m \in Messages}) = Cardinality(Messages)

(* Every turn is accounted for once and in order: answered turns, then at  *)
(* most one that ended the conversation, then only turns that were never   *)
(* sent; and unless an error or a hard failure cut it short no turn of the *)
(* case is missing from the results.                                       *)
TurnsAccounted ==
  LET results == state.turnResults
  IN  /\ \A k \in DOMAIN results :
           /\ results[k].turn = k
           /\ results[k].status \in {"COMPLETED", "FAILED"} => k \in Answered
           /\ results[k].status = "SKIPPED" => k \notin Answered
           /\ \A j \in 1..(k - 1) : results[j].status # "COMPLETED" => results[k].status = "SKIPPED"
      /\ outcome.status \in {"judge", "SKIP"} => Len(results) = Len(turns)

(* The judge sees a conversation that went through, or one that a          *)
(* skip_remaining condition ended; a FAIL without a judge is a condition   *)
(* that failed, and no skip_remaining with turns left to skip; an ERROR is *)
(* no condition's.  Nothing is claimed for a skip_remaining that fails on  *)
(* the last turn: SkipRemainingIsJudged is about that.                     *)
SkipRemainingFailed == failedAt # 0 /\ turns[failedAt].condition = "skip_remaining"

VerdictDeserved ==
  /\ outcome.status = "judge" =>
       SkipRemainingFailed \/ (failedAt = 0 /\ Answered = DOMAIN turns)
  /\ outcome.status = "FAIL" =>
       failedAt # 0 /\ (SkipRemainingFailed => failedAt = Len(turns))
  /\ outcome.status = "ERROR" => failedAt = 0

(* A case whose skip_remaining condition failed is left to the judge, on   *)
(* whichever turn it failed.                                               *)
SkipRemainingIsJudged == SkipRemainingFailed => outcome.status # "FAIL"

(* A turn opens a new conversation only when no answer before it named its *)
(* session: an id that was known once survives an answer without one.  (The*)
(* warning of absorbTurnSession announces a new session after every such   *)
(* answer, which is not what the code does when it knows an id; the agents *)
(* of this repository name the session whenever they resume one.)          *)
OneConversation ==
  \A c \in 2..Len(sessions) : \A k \in 1..(sessions[c][1].turn - 1) : ids[k] = 0

(* A turn after the first goes only into a session that an answer named:   *)
(* without an id to resume the case is an execution error.                 *)
NoTurnWithoutSession == \A k \in 2..Len(ids) : \E j \in 1..(k - 1) : ids[j] # 0

(* The transcript and the usage of a case have every answered turn once,   *)
(* under its own number, whether the engine reports turns or whole         *)
(* sessions, and whole sessions are returned whole, however the case ends. *)
(* A conversation that was started anew, and turn reports that say the     *)
(* same twice, are beyond what the code can tell apart.                    *)
CountedOnce ==
  (IF engine = "whole" THEN Len(sessions) <= 1 ELSE TextsDiffer) =>
    /\ Len(state.transcript) = Cardinality(Answered)
    /\ \A k \in DOMAIN state.transcript : /\ state.transcript[k].stamp = k
                                          /\ state.transcript[k].said = k
    /\ 2 * state.tokens = Cardinality(Answered) * (Cardinality(Answered) + 1)
    /\ pc = "returned" /\ engine = "whole" => outcome.turns = Answered

(* No message of the agent is in the transcript of its case twice, whether *)
(* or not every session file could be read.                                *)
NothingTwice ==
  \A j, k \in DOMAIN state.transcript :
    state.transcript[j].said = state.transcript[k].said => j = k
=============================================================================
