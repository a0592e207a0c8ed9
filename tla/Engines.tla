------------------------------- MODULE Engines -------------------------------
(* One call of Run or RunTurn of a built-in agent: codex, Claude Code,     *)
(* Qoder, Qwen Code, and the plain CLI agent they are built on.            *)
(*                                                                         *)
(* An agent prepares the call (Node, a scratch directory, the prompt),     *)
(* runs its CLI in the runtime, collects what the CLI printed and recorded *)
(* under a context of its own, and returns a result, errors, or both.      *)
(* Every command in the runtime and every transfer may fail.               *)
EXTENDS SessionLookup

CONSTANTS Agents, Workspaces,
          Homes,           (* the session files a call may find             *)
          Outcomes,        (* agent -> what its CLI may do                  *)
          AuthFailure,     (* tokens that betray a rejected credential      *)
          RateLimit,       (* tokens that betray a provider's rate limit    *)
          AuthWindow,      (* how many tokens at the end of a text are      *)
          RateWindow       (* scanned for either                            *)

(* Outcomes: [exit, fails, text, lines, stderr, last, files]: fails when   *)
(* Exec itself reports an error (a deadline, a lost connection), text and  *)
(* lines are stdout read as text and as records, last is codex's file with *)
(* the last message, files the session files the CLI wrote or rewrote.     *)
CLIRun(o) ==
  /\ o.exit \in Nat /\ o.fails \in BOOLEAN /\ o.lines \in Seq(Lines)
  /\ o.text \in Texts /\ o.stderr \in Texts /\ o.last \in Texts
  /\ \A f \in o.files : SessionFile(f)
ASSUME OutcomesKnown == \A a \in Agents : \A o \in Outcomes[a] : CLIRun(o)
ASSUME HomesKnown == \A files \in Homes : \A f \in files : SessionFile(f)
ASSUME AgentsKnown ==
  Agents \subseteq {"codex", "claude_code", "qodercli", "qwen_code", "cli"}
ASSUME WorkspacesNamed == Blank \notin Workspaces
ASSUME WindowsNested == RateWindow \in Nat /\ AuthWindow \in Nat /\ RateWindow <= AuthWindow

VARIABLES
  call,     (* the call: [agent, workspace, resume, large, host, at]        *)
  home,     (* the session files in the runtime's home                      *)
  temp,     (* scratch directories and downloaded copies of this call       *)
  ran,      (* what the CLI did                                             *)
  got,      (* what was read so far: [p, source, sid, errs]                 *)
  out       (* what the call returned                                       *)
engineVars == <<call, home, temp, ran, got, out>>

Fresh == "new"                       (* the id a first call starts under    *)
Instruction == <<"prompt">>
NoResult == [session |-> Blank, exit |-> 0, trans |-> <<>>, final |-> <<>>, none |-> TRUE]
NotRun   == [exit |-> 0, fails |-> FALSE, text |-> <<>>, lines |-> <<>>, stderr |-> <<>>,
             last |-> <<>>, files |-> {}]
NoSource == {}
NothingRead == [p |-> NothingParsed, source |-> NoSource, sid |-> Blank, errs |-> {}]
Pending  == [result |-> NoResult, errs |-> {}, done |-> FALSE]

(* The statements of Run and RunTurn, in order.  A resumed turn sends its  *)
(* prompt inline whatever its size.                                        *)
Statements ==
  [codex       |-> <<"shell", "node", "dir", "prompt", "exec", "stdout", "session", "last">>,
   claude_code |-> <<"shell", "node", "prompt", "exec", "session">>,
   qodercli    |-> <<"shell", "prompt", "exec", "session">>,
   qwen_code   |-> <<"shell", "node", "prompt", "exec", "session">>,
   cli         |-> <<"shell", "exec">>]
Resuming ==
  [codex       |-> <<"shell", "node", "dir", "exec", "stdout", "session", "last">>,
   claude_code |-> <<"shell", "node", "exec", "session">>,
   qodercli    |-> <<"shell", "exec", "session">>]
Resumers == DOMAIN Resuming

Calls == [agent : Agents, workspace : Workspaces, resume : {Blank, "old"},
          large : BOOLEAN, host : BOOLEAN, at : {1}]

EnginesInit ==
  /\ call \in {c \in Calls : c.resume # Blank => c.agent \in Resumers /\ ~c.large}
  /\ home \in Homes
  /\ temp = {} /\ ran = NotRun /\ out = Pending
  /\ got = NothingRead

Todo == IF call.resume # Blank THEN Resuming[call.agent] ELSE Statements[call.agent]
At(statement) == ~out.done /\ call.at \in DOMAIN Todo /\ Todo[call.at] = statement
Advance == call' = [call EXCEPT !.at = @ + 1]
Return(result, errs) == out' = [result |-> result, errs |-> errs, done |-> TRUE]

(* The result of a call that failed before its CLI ran.                    *)
FailedEarly == [NoResult EXCEPT !.session = call.resume, !.exit = 1, !.none = FALSE]

-----------------------------------------------------------------------------
(* Preparing the call.                                                     *)
RequireBash ==
  /\ At("shell")
  /\ \/ Advance /\ UNCHANGED <<home, temp, ran, got, out>>
     \/ Return(NoResult, {"shell"}) /\ UNCHANGED <<call, home, temp, ran, got>>

ensureNodeRuntime ==
  /\ At("node")
  /\ \/ Advance /\ UNCHANGED <<home, temp, ran, got, out>>
     \/ Return(FailedEarly, {"node"}) /\ UNCHANGED <<call, home, temp, ran, got>>

(* mkdir may take effect and its Exec fail; nobody removes it then.        *)
prepareCodexRunArtifacts ==
  /\ At("dir")
  /\ \/ Advance /\ temp' = {"run dir"} /\ UNCHANGED <<home, ran, got, out>>
     \/ /\ Return(NoResult, {"dir"})
        /\ temp' \in {{}, {"unknown dir"}}
        /\ UNCHANGED <<call, home, ran, got>>

(* cleanupCodexRunArtifacts, best effort: "unremoved" when rm failed.      *)
RunDirAfterCleanup == IF "run dir" \in temp THEN {{}, {"unremoved"}} ELSE {{}}

deliverPrompt ==
  /\ At("prompt")
  /\ \/ Advance /\ UNCHANGED <<home, temp, ran, got, out>>
     \/ /\ call.large
        /\ Return(FailedEarly, {"prompt"})
        /\ temp' \in RunDirAfterCleanup
        /\ UNCHANGED <<call, home, ran, got>>

Exec ==
  /\ At("exec")
  /\ \E o \in Outcomes[call.agent] :
       /\ ran' = o
       /\ home' = {f \in home : \A g \in o.files : g.name # f.name} \cup o.files
  /\ Advance
  /\ UNCHANGED <<temp, got, out>>

-----------------------------------------------------------------------------
(* Reading what the CLI left.  A copy lands in a temporary directory of    *)
(* the host when there is no artifact directory to keep it in.             *)
Copied(what) == temp' = IF call.host THEN temp ELSE temp \cup {what}

(* codex's stdout is a file in the runtime: measured, downloaded, parsed   *)
(* and, without an artifact directory, persisted in the workspace.         *)
ReadCodexStdout ==
  /\ At("stdout")
  /\ Advance
  /\ \/ /\ got' = [got EXCEPT !.errs = @ \cup {"stdout unread"}]
        /\ UNCHANGED temp
     \/ /\ Copied("stdout copy")
        /\ LET p == parseCodexOutput(ran.lines)
               bad == IF p.whole THEN {} ELSE {"stdout record"}
           IN  \E persist \in {{}} \cup (IF call.host THEN {} ELSE {{"persist"}}) :
                 got' = [got EXCEPT !.p = p, !.errs = @ \cup bad \cup persist]
  /\ UNCHANGED <<home, ran, out>>

(* The lookup: where each CLI keeps its sessions.                          *)
Depth == [claude_code |-> 1, qodercli |-> 1, qwen_code |-> 2]
SessionFiles ==
  IF call.agent = "codex" THEN findCodexSessionPath(home, got.p.thread)
  ELSE findAgentSessionJSONL(home, call.agent, call.workspace, Depth[call.agent])

Parse(agent, lines) ==
  CASE agent = "codex"     -> parseCodexSessionFile(lines)
    [] agent = "qwen_code" -> parseQwenSessionFile(lines)
    [] OTHER               -> parseSessionFile(lines)

(* codex prefers its session file when that tells more and does not lose   *)
(* the answer of a successful run.                                         *)
PrefersSession(s) ==
  /\ Len(s.trans) > Len(got.p.trans)
  /\ s.final # <<>> \/ ran.exit # 0 \/ got.p.final = <<>>

(* What a downloaded session makes of what was read so far.                *)
Applied(base, s, f) ==
  CASE call.agent = "codex" ->
         [base EXCEPT !.errs = IF s.whole THEN @ ELSE @ \cup {"session record"},
                      !.source = IF PrefersSession(s) THEN {f} ELSE @,
                      !.p = IF PrefersSession(s) THEN [s EXCEPT !.thread = base.p.thread]
                            ELSE @]
    [] call.agent = "qodercli" ->
         [base EXCEPT !.source = IF s.trans # <<>> THEN {f} ELSE @,
                      !.p.trans = IF s.trans # <<>> THEN s.trans ELSE @,
                      !.p.final = IF s.trans # <<>> /\ s.final # <<>> THEN s.final ELSE @,
                      !.p.in = Greater(@, s.in), !.p.out = Greater(@, s.out)]
    [] OTHER ->
         [base EXCEPT !.source = IF s.trans # <<>> THEN {f} ELSE @,
                      !.p = IF s.trans # <<>> THEN s ELSE [@ EXCEPT !.in = s.in, !.out = s.out]]

(* What was read before the session file: Qoder has parsed its stdout.     *)
Base == IF call.agent # "qodercli" THEN got
        ELSE [got EXCEPT !.p = parseStreamOutput(ran.lines),
                         !.sid = parseQoderSessionID(ran.lines)]

(* A lookup that finds nothing, or fails, and a download that fails leave  *)
(* the result to stdout.  codex measures the file first: one it cannot     *)
(* measure or that is too large is an error, one that does not arrive is   *)
(* not.  Qoder takes the id of the file it found when stdout names none.   *)
ReadSession ==
  /\ At("session")
  /\ Advance
  /\ \/ got' = Base /\ UNCHANGED temp
     \/ \E f \in SessionFiles :
          LET named == [Base EXCEPT !.sid = IF call.agent = "qodercli" /\ @ = Blank THEN f.thread
                                            ELSE @]
          IN  \/ /\ call.agent = "codex" => f.size <= 1
                 /\ got' = named
                 /\ UNCHANGED temp
              \/ /\ call.agent = "codex"
                 /\ got' = [named EXCEPT !.errs = @ \cup {"session size"}]
                 /\ UNCHANGED temp
              \/ /\ call.agent = "codex" => f.size <= 1
                 /\ got' = Applied(named, Parse(call.agent, f.lines), f)
                 /\ Copied("session copy")
  /\ UNCHANGED <<home, ran, out>>

(* finalizeCodexTranscript and resolveCodexLastMessage: the file with the  *)
(* last message has the last word.                                         *)
ReadCodexLastMessage ==
  /\ At("last")
  /\ Advance
  /\ LET trans == IF got.p.trans = <<>> THEN <<Message("user", Blank, Instruction, 1)>>
                  ELSE got.p.trans
         final == IF got.p.final = <<>> THEN FinalAssistantMessage(trans) ELSE got.p.final
         more  == <<Message("assistant", Blank, ran.last, Greater(codexTurns(trans), 1))>>
     IN  \/ /\ got' = [got EXCEPT !.p.trans = trans, !.p.final = final]
            /\ UNCHANGED temp
         \/ /\ got' = IF ran.last \notin {<<>>, final}
                      THEN [got EXCEPT !.p.trans = trans \o more, !.p.final = ran.last]
                      ELSE [got EXCEPT !.p.trans = trans, !.p.final = final]
            /\ Copied("last copy")
  /\ UNCHANGED <<home, ran, out>>

-----------------------------------------------------------------------------
(* Returning.  Without a transcript the stdout is the answer; codex has    *)
(* its own fallback above, and the CLI agent keeps no transcript.          *)
StdoutAnswer ==
  IF call.agent = "qodercli" /\ got.p.final # <<>> THEN got.p.final ELSE ran.text
Answered ==
  IF call.agent = "codex" \/ got.p.trans # <<>> \/ StdoutAnswer = <<>> THEN got.p
  ELSE IF call.agent = "cli" THEN [got.p EXCEPT !.final = ran.text]
  ELSE [got.p EXCEPT !.trans = <<Message("user", Blank, Instruction, 1),
                                 Message("assistant", Blank, StdoutAnswer, 1)>>,
                     !.final = StdoutAnswer]
FinalOf(p) ==
  IF call.agent = "qwen_code" /\ p.final = <<>> THEN FinalAssistantMessage(p.trans) ELSE p.final

SessionID ==
  CASE call.resume # Blank            -> call.resume
    [] call.agent = "codex"        -> got.p.thread
    [] call.agent = "claude_code"  -> Fresh
    [] call.agent = "qodercli"     -> got.sid
    [] OTHER                       -> Blank

(* claudeProviderRunError: a provider's refusal at the end of what the CLI *)
(* said, on stdout, on stderr or in the final message, makes the run a     *)
(* failure.  Each text is cut to a window, 4096 bytes for a rejected       *)
(* credential and 2048 for a rate limit; what stands before it is not seen.*)
Scanned(text, window) == {text[i] : i \in {j \in DOMAIN text : Len(text) - j < window}}
Diagnostics(final, window) ==
  Scanned(ran.stderr, window) \cup Scanned(ran.text, window)
    \cup Scanned(IF final # <<>> THEN final ELSE ran.stderr, window)
ProviderErrors(final) ==
  IF call.agent # "claude_code" THEN {}
  ELSE IF Diagnostics(final, AuthWindow) \cap AuthFailure # {} THEN {"auth"}
  ELSE IF Diagnostics(final, RateWindow) \cap RateLimit # {} THEN {"rate limit"} ELSE {}

RunErrors ==
  IF ran.fails THEN {"exec"} ELSE IF ran.exit # 0 THEN {"exit"} ELSE {}

SlipErrors(final) == RunErrors \cup got.errs

(* A provider's refusal wins over the exit code it may come with; the CLI  *)
(* agent and a refusal turn an exit code 0 into 1.                         *)
Errors(final) ==
  IF ProviderErrors(final) # {} THEN ProviderErrors(final) ELSE RunErrors \cup got.errs
MarkedExit(final) ==
  IF ran.exit = 0 /\ (ProviderErrors(final) # {} \/ (call.agent = "cli" /\ ran.fails))
  THEN 1 ELSE ran.exit

(* The deferred cleanups run whatever the outcome.                         *)
Finish ==
  /\ ~out.done /\ call.at \notin DOMAIN Todo
  /\ LET p == Answered
         final == FinalOf(p)
     IN  Return([session |-> SessionID, exit |-> MarkedExit(final), trans |-> p.trans,
                 final |-> final, none |-> FALSE], Errors(final))
  /\ temp' \in RunDirAfterCleanup
  /\ UNCHANGED <<call, home, ran, got>>

-----------------------------------------------------------------------------
(* The session file that claude's, Qoder's or qwen's answer was read from  *)
(* was written in the call's own workspace, even when two workspaces share *)
(* a directory name, unless no file there says where it was written (no    *)
(* file of qwen's does); and when the CLI just wrote a file that says so,  *)
(* and no other file is as new, no older one is read.  A run that wrote    *)
(* none may be answered from an older file of the same workspace.  codex's *)
(* files are found by an id that the CLI printed: nothing is claimed.      *)
WrittenHere ==
  {f \in Recording(Candidates(InTree(ran.files, call.agent), call.workspace,
                              Depth[call.agent]), call.workspace) :
     \A g \in home \ ran.files : g.mtime < f.mtime}
ConversationIsOurs ==
  \A f \in got.source :
    call.agent # "codex" =>
      /\ \/ f.owner = call.workspace
         \/ \A g \in Candidates(InTree(home, call.agent), call.workspace,
                                Depth[call.agent]) : g.cwd = Blank
      /\ WrittenHere # {} => f \in ran.files

(* A call without errors had a run that ended by itself with code 0, no    *)
(* rejected credential and no rate limit in the windows at the end of what *)
(* claude said, and no record of codex's that was too long to read; a      *)
(* result that reports a failure comes with an error; nothing temporary    *)
(* stays but what rm or mkdir failed on.  A refusal that more output       *)
(* follows than a window holds, and that claude exits 0 after, is lost.    *)
FailuresReported ==
  out.done =>
    /\ out.errs = {} =>
         /\ ~out.result.none /\ out.result.exit = 0
         /\ ran.exit = 0 /\ ~ran.fails
         /\ call.agent = "codex" => \A i \in DOMAIN ran.lines : ran.lines[i].type # "oversized"
         /\ call.agent = "claude_code" =>
              \A text \in {ran.text, ran.stderr, out.result.final} :
                /\ Scanned(text, AuthWindow) \cap AuthFailure = {}
                /\ Scanned(text, RateWindow) \cap RateLimit = {}
    /\ out.result.exit # 0 => out.errs # {}
    /\ temp \subseteq {"unremoved", "unknown dir"}

(* The final message and the transcript of a result agree: codex and qwen  *)
(* give as their answer something the assistant says in the transcript,    *)
(* claude and qwen give none only when it says nothing; on codex's stdout  *)
(* every tool result follows a call of its id and turn, even when the call *)
(* was never announced or another turn began in between.                   *)
Said(r) == {r.trans[i].text : i \in {j \in DOMAIN r.trans : r.trans[j].role = "assistant"}}
AnswersAreSound ==
  out.done /\ ~out.result.none =>
    LET r == out.result
    IN  /\ call.agent \in {"codex", "qwen_code"} /\ r.final # <<>> => r.final \in Said(r)
        /\ call.agent \in {"claude_code", "qwen_code"} /\ r.final = <<>> =>
             Said(r) \subseteq {<<>>}
        /\ call.agent = "codex" /\ got.source = NoSource =>
             \A i \in DOMAIN r.trans :
               r.trans[i].role = "tool_result" =>
                 \E j \in 1 .. i - 1 :
                   r.trans[j].role = "tool_call" /\ r.trans[j].id = r.trans[i].id
                   /\ r.trans[j].turn = r.trans[i].turn

EnginesNext ==
  \/ RequireBash \/ ensureNodeRuntime \/ prepareCodexRunArtifacts \/ deliverPrompt
  \/ Exec \/ ReadCodexStdout \/ ReadSession \/ ReadCodexLastMessage \/ Finish
EnginesSpec == EnginesInit /\ [][EnginesNext]_engineVars
=============================================================================
