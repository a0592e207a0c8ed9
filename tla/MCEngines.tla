------------------------------ MODULE MCEngines ------------------------------
(* The agents' side of a case for model checking: one call of a built-in   *)
(* agent, one of a custom engine, or the setup of an agent, side by side   *)
(* as three families of behaviours, and what CLIs and services may say.    *)
EXTENDS Engines, CustomEngines, EngineInstall

Line == [type |-> "", item |-> "", kind |-> "", role |-> "", id |-> "", text |-> <<>>,
         fails |-> FALSE, in |-> 0, out |-> 0, message |-> TRUE, blocks |-> <<>>,
         apiError |-> FALSE, ok |-> TRUE]
Cut  == [Line EXCEPT !.type = "oversized"]
Junk == [Line EXCEPT !.type = "junk"]
Block(kind, text) == [kind |-> kind, id |-> "t", text |-> text, ok |-> TRUE]

UpTo(n, S) == UNION {[1 .. k -> S] : k \in 0 .. n}

-----------------------------------------------------------------------------
(* codex: its stdout and its session files.                                *)
Thread == [Line EXCEPT !.type = "thread.started", !.id = "th"]
NewTurn == [Line EXCEPT !.type = "turn.started"]
Item(type, item, text) ==
  [Line EXCEPT !.type = type, !.item = item, !.text = text,
               !.id = IF item = "mcp_tool_call" THEN "" ELSE "c1"]
CodexItems ==
  { NewTurn, Item("item.started", "command_execution", <<>>),
    Item("item.completed", "command_execution", <<"done">>),
    Item("item.started", "mcp_tool_call", <<>>), Item("item.completed", "mcp_tool_call", <<"done">>),
    Item("item.completed", "agent_message", <<"a">>), Item("item.completed", "agent_message", <<>>) }
CodexStreams ==
  {<<Thread, NewTurn>> \o s : s \in UpTo(3, CodexItems)} \cup
  { <<>>, <<Thread, Cut>>, <<Thread, Junk, Item("item.completed", "agent_message", <<"a">>)>>,
    <<Thread, NewTurn, Item("item.started", "command_execution", <<>>), NewTurn,
      Item("item.completed", "command_execution", <<"done">>),
      [Line EXCEPT !.type = "turn.completed", !.in = 2, !.out = 1]>> }

Response(kind, role, text) ==
  [Line EXCEPT !.type = "response_item", !.kind = kind, !.role = role, !.text = text, !.id = "c1"]
CodexSessions ==
  { <<>>, <<Cut>>,
    <<Response("message", "user", <<"prompt">>), Response("function_call", "", <<>>),
      Response("function_call_output", "", <<"done">>),
      Response("message", "assistant", <<"b">>)>>,
    <<Response("message", "user", <<"prompt">>), Response("message", "assistant", <<>>),
      [Line EXCEPT !.type = "event_msg", !.kind = "agent_message", !.text = <<"c">>],
      [Line EXCEPT !.type = "event_msg", !.kind = "token_count", !.in = 3]>> }

(* Claude Code and Qoder: session lines; Qwen Code: chat lines.            *)
Speech(type, blocks) == [Line EXCEPT !.type = type, !.blocks = blocks, !.in = 1]
ClaudeSessions ==
  LET lines == { Speech("user", <<Block("text", <<"prompt">>)>>),
                 Speech("user", <<Block("tool_result", <<"done">>)>>),
                 Speech("assistant", <<Block("text", <<"a">>), Block("tool_use", <<>>)>>),
                 Speech("assistant", <<Block("tool_use", <<>>)>>),
                 [Speech("assistant", <<Block("text", <<"429">>)>>) EXCEPT !.apiError = TRUE] }
  IN  UpTo(2, lines) \cup
      { <<Speech("assistant", <<Block("text", <<"a">>)>>), Cut,
          Speech("assistant", <<Block("text", <<"b">>)>>)>>,
        <<[Speech("error", <<Block("text", <<"429">>)>>) EXCEPT !.apiError = TRUE],
          [Line EXCEPT !.type = "user", !.message = FALSE],
          [Line EXCEPT !.type = "tool_call", !.id = "t"],
          [Line EXCEPT !.type = "tool_result", !.id = "t", !.text = <<"done">>],
          [Line EXCEPT !.type = "result", !.text = <<"r">>, !.id = "th"], Junk>> }
FewClaudeSessions ==
  { <<>>, <<Speech("user", <<Block("text", <<"prompt">>)>>),
            Speech("assistant", <<Block("text", <<"a">>)>>)>> }
QwenSessions ==
  LET lines == { Speech("user", <<Block("text", <<"prompt">>)>>),
                 Speech("assistant", <<Block("thought", <<"t">>), Block("tool_use", <<>>)>>),
                 Speech("assistant", <<Block("text", <<"a">>)>>),
                 [Speech("system", <<>>) EXCEPT !.message = FALSE] }
  IN  UpTo(2, lines)

-----------------------------------------------------------------------------
(* The session files of a home, per agent: none; one of this workspace     *)
(* from before; a newer one of another workspace with the same directory   *)
(* name; the same when files do not say where they were written.           *)
File(agent, name, owner, cwd, mtime, lines) ==
  [name |-> name, tree |-> agent, key |-> "dir", depth |-> IF agent = "qwen_code" THEN 2 ELSE 1, listed |-> TRUE,
   cwd |-> cwd, mtime |-> mtime, owner |-> owner, thread |-> "th0", size |-> 1, lines |-> lines]
OldLines(agent) ==
  CASE agent = "codex"     -> <<Response("message", "assistant", <<"old">>)>>
    [] agent = "qwen_code" -> <<Speech("assistant", <<Block("text", <<"old">>)>>)>>
    [] OTHER               -> <<Speech("assistant", <<Block("text", <<"old">>)>>)>>
HomesOf(agent) ==
  LET own     == File(agent, "own", "w1", "w1", 1, OldLines(agent))
      foreign == File(agent, "foreign", "w2", "w2", 2, OldLines(agent))
      silent  == File(agent, "silent", "w2", "", 2, OldLines(agent))
  IN  [none |-> {}, own |-> {own}, both |-> {own, foreign}, foreign |-> {foreign},
       silent |-> {silent}, elsewhere |-> {[own EXCEPT !.key = "other"], foreign}]
Keys == [w \in Workspaces |-> "dir"]
OneIdInAnother == {<<"th", "th0">>}
SomeHomes ==
  {UNION {HomesOf(a)[v] : a \in Agents} :
     v \in {"none", "own", "both", "foreign", "silent", "elsewhere"}}

(* What a CLI leaves: its stream, a session file of this run or none, and  *)
(* an end: by itself, with a code, cut short, or with a refusal.           *)
Written(agent, lines) == {[File(agent, "fresh", "w1", "w1", 3, lines) EXCEPT !.thread = "th"]}
Result(lines, text, files) ==
  [exit |-> 0, fails |-> FALSE, text |-> text, lines |-> lines, stderr |-> <<>>,
   last |-> <<>>, files |-> files]
Endings(o) == {o, [o EXCEPT !.exit = 1, !.stderr = <<"bad">>], [o EXCEPT !.fails = TRUE],
               [o EXCEPT !.stderr = <<"401">>], [o EXCEPT !.stderr = <<"429">>, !.exit = 1]}

CodexWith(stream, session) == Result(stream, <<>>, Written("codex", session))
CodexAnswer == <<Thread, NewTurn, Item("item.completed", "agent_message", <<"a">>)>>
CodexOutcomes ==
  {CodexWith(s, <<>>) : s \in CodexStreams} \cup {CodexWith(CodexAnswer, s) : s \in CodexSessions}
  \cup {[CodexWith(s, <<>>) EXCEPT !.last = t] :
           s \in {CodexAnswer, <<Thread>>}, t \in {<<"a">>, <<"z">>}}
  \cup Endings(CodexWith(CodexAnswer, CHOOSE s \in CodexSessions : Len(s) > 3))
ClaudeOutcomes ==
  {Result(<<>>, <<"out">>, Written("claude_code", s)) : s \in ClaudeSessions}
  \cup UNION {Endings(Result(<<>>, t, f)) :
                t \in {<<>>, <<"out">>, <<"429">>, <<"429", "out">>, <<"401", "out">>,
                       <<"401", "out", "out">>},
                f \in {{}} \cup {Written("claude_code", s) : s \in FewClaudeSessions}}
QoderOutcomes ==
  UNION {Endings(Result(l, <<"out">>, f)) :
           l \in {<<>>, <<[Line EXCEPT !.type = "result", !.text = <<"r">>, !.id = "q"]>>,
                  <<Speech("user", <<>>), Speech("assistant", <<Block("text", <<"a">>)>>)>>,
                  <<[Line EXCEPT !.type = "tool_call"], [Line EXCEPT !.type = "tool_result"], Junk>>},
           f \in {{}} \cup {Written("qodercli", s) : s \in FewClaudeSessions}}
QwenOutcomes ==
  {Result(<<>>, <<"out">>, Written("qwen_code", s)) : s \in QwenSessions}
  \cup Endings(Result(<<>>, <<>>, {})) \cup Endings(Result(<<>>, <<"out">>, {}))
AllOutcomes ==
  [codex |-> CodexOutcomes, claude_code |-> ClaudeOutcomes, qodercli |-> QoderOutcomes,
   qwen_code |-> QwenOutcomes, cli |-> Endings(Result(<<>>, <<"out">>, {}))]

-----------------------------------------------------------------------------
(* Custom engines: payloads of every kind, artifacts at the limits.        *)
Artifact(name, sources, inline) ==
  [name |-> name, sources |-> sources, from |-> "inline", path |-> <<"ws", "f">>, inline |-> inline]
PathArtifact(name, path) == [Artifact(name, 1, 0) EXCEPT !.from = "path", !.path = path]
Answer == [Absent EXCEPT !.kind = "result", !.final = <<"a">>]
SomePayloads ==
  { Answer, [Answer EXCEPT !.exit = 3], [Answer EXCEPT !.kind = "junk"],
    [Answer EXCEPT !.kind = "no exit code"], [Absent EXCEPT !.kind = "empty"],
    [Answer EXCEPT !.final = <<>>, !.trans = <<Message("assistant", "", <<"t">>, 2)>>],
    [Answer EXCEPT !.files = <<Artifact("f", 1, 1), Artifact("g", 1, 1)>>],
    [Answer EXCEPT !.files = <<Artifact("f", 1, 2), Artifact("g", 1, 2)>>],
    [Answer EXCEPT !.files = <<Artifact("f", 2, 0)>>],
    [Answer EXCEPT !.generated = {<<"ws", "x">>, <<"host", "y">>}, !.exit = 3,
       !.files = <<PathArtifact("f", <<"ws", "f">>), PathArtifact("g", <<"ws", "f">>),
                   PathArtifact("h", <<"host", "h">>)>>] }
SomeCustomPlans ==
  LET local(path, format, left) ==
        [transport |-> "local", block |-> TRUE, format |-> format, output |-> path,
         left |-> left, limit |-> 2, caseLimit |-> 1, attach |-> <<>>,
         dir |-> format = "session_result"]
      entry(files, required) == [matches |-> files, required |-> required]
  IN  {local(o, f, l) : o \in {"", "own", "input"}, f \in {"text", "session_result"},
                        l \in {Absent, [Answer EXCEPT !.by = "earlier"]}}
      \cup {[local("", f, Absent) EXCEPT !.transport = "http", !.attach = a] :
               f \in {"text", "session_result"},
               a \in {<<>>, <<entry({"a"}, TRUE), entry({"a", "b"}, FALSE)>>,
                      <<entry({}, TRUE)>>, <<entry({"a", "b", "c"}, TRUE)>>}}
      \cup {[local("", "text", Absent) EXCEPT !.transport = "ftp"],
            [local("", "text", Absent) EXCEPT !.block = FALSE],
            [local("own", "session_result", Absent) EXCEPT !.dir = FALSE]}
Sizes == [f \in {"a", "b", "c"} |-> 1]

(* Setups: pinned or not, servers that repeat a name or are incomplete,    *)
(* skills with evals as a directory and as a file.                         *)
Server(name, transport, whole) == [name |-> name, transport |-> transport, whole |-> whole]
Entry(path, dir) == [path |-> path, dir |-> dir]
SkillTree == { Entry(<<1>>, TRUE), Entry(<<1, 1>>, FALSE), Entry(<<1, 2>>, FALSE),
               Entry(<<2>>, FALSE), Entry(<<5>>, TRUE), Entry(<<5, 1>>, FALSE), Entry(<<6>>, FALSE) }
SomeSetups ==
  { [agent |-> a, pinned |-> v, host |-> h, servers |-> s, template |-> FALSE,
     tree |-> SkillTree, excluded |-> {}, included |-> {}] :
      a \in {"codex", "qodercli"}, v \in {"", "v1", "v2"}, h \in BOOLEAN,
      s \in {<<>>, <<Server("m", "stdio", TRUE), Server("n", "http", TRUE),
                     Server("m", "http", TRUE)>>,
             <<Server("m", "sse", TRUE)>>, <<Server("m", "stdio", FALSE)>>} }
  \cup
  { [agent |-> "codex", pinned |-> "v1", host |-> TRUE, servers |-> <<>>, template |-> t,
     tree |-> f, excluded |-> x, included |-> i] :
      t \in BOOLEAN, f \in {SkillTree, (SkillTree \ {Entry(<<5>>, TRUE), Entry(<<5, 1>>, FALSE)})
                                         \cup {Entry(<<5>>, FALSE)}},
      x \in {{}, {<<1>>}, {<<1, 2>>, <<6>>}}, i \in {{}, {<<1, 1>>, <<2>>, <<5, 1>>}} }

-----------------------------------------------------------------------------
IdleEngine ==
  /\ call = [agent |-> "idle"] /\ home = {} /\ temp = {} /\ ran = NotRun
  /\ got = NothingRead /\ out = [Pending EXCEPT !.errs = {"idle"}, !.done = TRUE]
IdleCustom == custom = [step |-> "idle"] /\ output = Absent /\ outcome = Silent /\ ended = Nothing
IdleSetup ==
  /\ setup = [step |-> "idle", plan |-> CHOOSE p \in SetupPlans : TRUE, servers |-> <<>>,
              errs |-> {}]
  /\ installed = [local |-> Missing, system |-> Missing]
  /\ searchLocal = FALSE /\ registered = {} /\ uploaded = {}

Init == \/ EnginesInit /\ IdleCustom /\ IdleSetup
        \/ IdleEngine /\ CustomInit /\ IdleSetup
        \/ IdleEngine /\ IdleCustom /\ SetupInit
Next == \/ EnginesNext /\ UNCHANGED <<customVars, setupVars>>
        \/ CustomNext /\ UNCHANGED <<engineVars, setupVars>>
        \/ SetupNext /\ UNCHANGED <<engineVars, customVars>>
Spec == Init /\ [][Next]_<<engineVars, customVars, setupVars>>
=============================================================================
