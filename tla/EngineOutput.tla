---------------------------- MODULE EngineOutput ----------------------------
(* What the built-in agents make of what their CLIs print and record: the  *)
(* event stream and session files of codex, the session files of Claude    *)
(* Code and Qoder, the JSON envelope of Qoder, the chats of Qwen Code.     *)
(*                                                                         *)
(* A text is a sequence of tokens, <<>> the empty one, so that joining     *)
(* texts is \o.  A line is a record; one of type "junk" is a line that is  *)
(* no JSON object of the format, one of type "oversized" is longer than    *)
(* the reader's limit.  A transcript is a sequence of messages             *)
(*   [role, id, text, turn, ok]   with id the call a tool message is of.   *)
(* One record stands for the lines of all formats: a field a format does   *)
(* not have is blank.                                                      *)
EXTENDS Naturals, Sequences, SequencesExt

Blank == ""                        (* the string a field has when it is not set *)

Message(role, id, text, turn) ==
  [role |-> role, id |-> id, text |-> text, turn |-> turn, ok |-> TRUE]
ToolResult(id, text, turn, ok) ==
  [role |-> "tool_result", id |-> id, text |-> text, turn |-> turn, ok |-> ok]

(* What a line of an output can hold.  STRING has every word and every     *)
(* kind of line; the words and roles the parsers write are named with it.  *)
Words    == STRING \cup {"[tool]", "prompt"}
Texts    == Seq(Words)
Strings  == STRING \cup {Blank}
Messages == [role : STRING \cup {"user", "assistant", "error", "tool_call", "tool_result"},
             id : Strings, text : Texts, turn : Nat, ok : BOOLEAN]
Blocks   == [kind : STRING, id : Strings, text : Texts, ok : BOOLEAN]
Lines    == [type : STRING, item : STRING, kind : STRING, role : STRING, id : Strings,
             text : Texts, fails : BOOLEAN, in : Nat, out : Nat, message : BOOLEAN,
             blocks : Seq(Blocks), apiError : BOOLEAN, ok : BOOLEAN]

Greater(a, b) == IF a >= b THEN a ELSE b

(* A fold from the left, as a function of how much has been read.          *)
After(step(_, _), start, lines) ==
  LET read[n \in 0 .. Len(lines)] ==
        IF n = 0 THEN start ELSE step(read[n - 1], lines[n])
  IN  read[Len(lines)]
Joined(texts) == After(\o, <<>>, texts)

(* transcript.FinalAssistantMessage: the last assistant message, even when *)
(* it is empty; countTurns and codexTurns.                                 *)
FinalAssistantMessage(trans) ==
  LET last == SelectLastInSeq(trans, LAMBDA m : m.role = "assistant")
  IN  IF last = 0 THEN <<>> ELSE trans[last].text
countTurns(trans) == Cardinality({i \in DOMAIN trans : trans[i].role = "assistant"})
codexTurns(trans) == Max({0} \cup {trans[i].turn : i \in DOMAIN trans})

NothingParsed == [turn |-> 0, thread |-> Blank, trans |-> <<>>, final |-> <<>>, in |-> 0,
                  out |-> 0, open |-> [key \in {} |-> 0], whole |-> TRUE]

Add(p, messages) == [p EXCEPT !.trans = @ \o messages]
Meter(p, e) == [p EXCEPT !.in = Greater(@, e.in), !.out = Greater(@, e.out)]

(* Every reader stops at the first line over its limit: codex reports it,  *)
(* the bufio.Scanner of the others ends as if the file had ended there.    *)
Readable(lines) ==
  LET cut == SelectInSeq(lines, LAMBDA e : e.type = "oversized")
  IN  IF cut = 0 THEN lines ELSE SubSeq(lines, 1, cut - 1)
Started(lines) == [NothingParsed EXCEPT !.whole = Readable(lines) = lines]

-----------------------------------------------------------------------------
(* codex exec --json: [type, item, id, text, fails, in, out], item "" when *)
(* the event carries none.                                                 *)
Tools == {"command_execution", "mcp_tool_call"}

Turn(p) == Greater(p.turn, 1)
ToolCall(p, e) == Message("tool_call", e.id, <<>>, Turn(p))

(* A call under way is remembered with its turn; an MCP call only when it  *)
(* has an id.                                                              *)
Opened(p, e) ==
  [Add(p, <<ToolCall(p, e)>>) EXCEPT
     !.open = IF e.item = "mcp_tool_call" /\ e.id = Blank THEN @
              ELSE [key \in DOMAIN p.open \cup {<<e.item, e.id>>} |->
                      IF key = <<e.item, e.id>> THEN Turn(p) ELSE p.open[key]]]

applyCodexItemStarted(p, e) == IF e.item \in Tools THEN Opened(p, e) ELSE p

SlipTurnOfResult(p, e) ==
  LET known  == <<e.item, e.id>> \in DOMAIN p.open
      called == IF known THEN p ELSE Add(p, <<ToolCall(p, e)>>)
  IN  CASE e.item = "agent_message" ->
             [Add(p, <<Message("assistant", Blank, e.text, Turn(p))>>) EXCEPT !.final = e.text]
        [] e.item \in Tools -> Add(called, <<ToolResult(e.id, e.text, Turn(p), ~e.fails)>>)
        [] OTHER -> p

(* A completed call nobody announced gets its tool_call first; the result  *)
(* carries the turn of the call.                                           *)
applyCodexItemCompleted(p, e) ==
  LET key    == <<e.item, e.id>>
      known  == key \in DOMAIN p.open
      called == IF known THEN p
                ELSE IF e.item = "mcp_tool_call" THEN Opened(p, e)
                ELSE Add(p, <<ToolCall(p, e)>>)
      turn   == IF known THEN p.open[key] ELSE Turn(p)
  IN  CASE e.item = "agent_message" ->
             [Add(p, <<Message("assistant", Blank, e.text, Turn(p))>>) EXCEPT !.final = e.text]
        [] e.item \in Tools -> Add(called, <<ToolResult(e.id, e.text, turn, ~e.fails)>>)
        [] OTHER -> p

applyCodexEvent(p, e) ==
  CASE e.type = "thread.started" -> [p EXCEPT !.thread = e.id]
    [] e.type = "turn.started"   -> [p EXCEPT !.turn = @ + 1]
    [] e.type = "turn.completed" -> Meter(p, e)
    [] e.type = "item.started"   -> applyCodexItemStarted(p, e)
    [] e.type = "item.completed" -> applyCodexItemCompleted(p, e)
    [] OTHER -> p

parseCodexOutput(lines) == After(applyCodexEvent, Started(lines), Readable(lines))

(* The session file of codex: response items (messages, function calls and *)
(* their outputs) and event messages: [type, kind, role, id, text, fails,  *)
(* in, out].  Whoever is not the user speaks as the assistant.             *)
parseCodexSessionResponseItem(p, e) ==
  LET turn == IF e.role = "user" THEN p.turn + 1 ELSE Turn(p)
      says == e.kind = "message" /\ e.text # <<>>
  IN  CASE says /\ e.role = "user" ->
             [Add(p, <<Message("user", Blank, e.text, turn)>>) EXCEPT !.turn = turn]
        [] says /\ e.role # "user" ->
             [Add(p, <<Message("assistant", Blank, e.text, turn)>>) EXCEPT
                !.turn = turn, !.final = e.text]
        [] e.kind = "function_call" -> Add(p, <<Message("tool_call", e.id, <<>>, p.turn)>>)
        [] e.kind = "function_call_output" ->
             Add(p, <<ToolResult(e.id, e.text, p.turn, ~e.fails)>>)
        [] OTHER -> p

applyCodexSessionEventMsg(p, e) ==
  CASE e.kind = "agent_message" ->
         [Add(p, <<Message("assistant", Blank, e.text, p.turn)>>) EXCEPT
            !.final = IF e.text = <<>> THEN @ ELSE e.text]
    [] e.kind = "token_count" -> Meter(p, e)
    [] OTHER -> p

applyCodexSessionFileEvent(p, e) ==
  CASE e.type = "response_item" -> parseCodexSessionResponseItem(p, e)
    [] e.type = "event_msg"     -> applyCodexSessionEventMsg(p, e)
    [] OTHER -> p

parseCodexSessionFile(lines) ==
  LET p == After(applyCodexSessionFileEvent, Started(lines), Readable(lines))
  IN  [p EXCEPT !.final = IF @ = <<>> THEN FinalAssistantMessage(p.trans) ELSE @]

-----------------------------------------------------------------------------
(* Claude Code and Qoder session files: [type, message, blocks, apiError,  *)
(* id, text, ok, in, out]; a block is [kind, id, text, ok].  "message" is  *)
(* whether the line has one; legacy lines carry one tool call or result.   *)
extractAssistantTextFromContent(blocks) ==
  Joined([i \in DOMAIN blocks |-> IF blocks[i].kind = "text" THEN blocks[i].text ELSE <<>>])
extractTextFromContent(blocks) ==
  Joined([i \in DOMAIN blocks |->
            CASE blocks[i].kind = "text"     -> blocks[i].text
              [] blocks[i].kind = "tool_use" -> <<"[tool]">>
              [] OTHER                       -> <<>>])
extractToolMessagesFromContent(blocks, turn) ==
  Joined([i \in DOMAIN blocks |->
            CASE blocks[i].kind = "tool_use"    ->
                   <<Message("tool_call", blocks[i].id, <<>>, turn)>>
              [] blocks[i].kind = "tool_result" ->
                   <<ToolResult(blocks[i].id, blocks[i].text, turn, blocks[i].ok)>>
              [] OTHER -> <<>>])

Spoken(role, text, turn) == IF text = <<>> THEN <<>> ELSE <<Message(role, Blank, text, turn)>>

(* An assistant line without prose never stands in for an answer; a line   *)
(* that reports an API error speaks as "error".                            *)
processClaudeAssistantEvent(p, e) ==
  Meter(Add(p, extractToolMessagesFromContent(e.blocks, p.turn) \o
               Spoken(IF e.apiError THEN "error" ELSE "assistant",
                      extractAssistantTextFromContent(e.blocks), p.turn)), e)

processClaudeEvent(p, e) ==
  CASE e.type = "user" /\ ~e.message -> [p EXCEPT !.turn = @ + 1]
    [] e.type = "user" ->
         [Add(p, Spoken("user", extractTextFromContent(e.blocks), p.turn + 1) \o
                 extractToolMessagesFromContent(e.blocks, p.turn + 1)) EXCEPT !.turn = @ + 1]
    [] e.type = "assistant" /\ e.message -> processClaudeAssistantEvent(p, e)
    [] e.type = "tool_call"   -> Add(p, <<Message("tool_call", e.id, <<>>, p.turn)>>)
    [] e.type = "tool_result" -> Add(p, <<ToolResult(e.id, e.text, p.turn, e.ok)>>)
    [] e.type = "result" /\ e.text # <<>> -> [p EXCEPT !.final = e.text]
    [] e.type = "error" /\ e.apiError /\ e.message ->
         Add(p, <<Message("error", Blank, extractTextFromContent(e.blocks), p.turn)>>)
    [] OTHER -> p

parseSessionFile(lines) ==
  LET p    == After(processClaudeEvent, Started(lines), Readable(lines))
      last == SelectLastInSeq(p.trans, LAMBDA m : m.role = "assistant" /\ m.text # <<>>)
  IN  IF p.final = <<>> /\ last # 0 THEN [p EXCEPT !.final = p.trans[last].text] ELSE p

(* The JSON that qodercli prints, same lines: every user and assistant     *)
(* line speaks, even without text, and the last usage wins.                *)
LatestMeter(p, e) == [p EXCEPT !.in  = IF e.in  > 0 THEN e.in  ELSE @,
                               !.out = IF e.out > 0 THEN e.out ELSE @]
applyStreamEvent(p, e) ==
  LET text == extractTextFromContent(e.blocks)
  IN  CASE e.type = "user" ->
             [Add(p, IF e.message THEN <<Message("user", Blank, text, p.turn + 1)>> ELSE <<>>)
                EXCEPT !.turn = @ + 1]
        [] e.type = "assistant" /\ e.message ->
             LatestMeter(Add(p, <<Message("assistant", Blank, text, p.turn)>>), e)
        [] e.type = "tool_call"   -> Add(p, <<Message("tool_call", e.id, <<>>, p.turn)>>)
        [] e.type = "tool_result" -> Add(p, <<ToolResult(e.id, e.text, p.turn, e.ok)>>)
        [] e.type = "result" ->
             LatestMeter([p EXCEPT !.final = IF e.text = <<>> THEN @ ELSE e.text], e)
        [] OTHER -> p
parseStreamOutput(lines) == After(applyStreamEvent, Started(lines), Readable(lines))

(* The session id is read only from output that is one JSON object.        *)
parseQoderSessionID(lines) == IF Len(lines) = 1 THEN lines[1].id ELSE Blank

-----------------------------------------------------------------------------
(* Qwen Code chats: [type, message, blocks, in, out] with parts as blocks; *)
(* hidden reasoning ("thought") is dropped, prose comes after the calls.   *)
appendQwenMessageParts(p, e, turn) ==
  LET role == IF e.type = "user" THEN "user" ELSE "assistant"
      text == extractAssistantTextFromContent(e.blocks)
      said == Add(p, extractToolMessagesFromContent(e.blocks, turn) \o Spoken(role, text, turn))
  IN  IF role = "assistant" /\ text # <<>> THEN [said EXCEPT !.final = text] ELSE said

applyQwenLine(p, e) ==
  LET q == IF e.type = "user" THEN [p EXCEPT !.turn = @ + 1] ELSE p
      r == IF e.message THEN appendQwenMessageParts(q, e, Turn(q)) ELSE q
  IN  IF e.type = "assistant" /\ e.message THEN Meter(r, e) ELSE r

parseQwenSessionFile(lines) ==
  LET p == After(applyQwenLine, Started(lines), Readable(lines))
  IN  [p EXCEPT !.final = IF @ = <<>> THEN FinalAssistantMessage(p.trans) ELSE @]
=============================================================================
