----------------------------- MODULE AgentProofs -----------------------------
(* The agents' side of a case for every call, every CLI that may answer it *)
(* and every home it may leave its sessions in; for custom engines and for *)
(* setups of any plan.  An output has any number of lines, so what reading *)
(* one gives is a recursive function of how much was read; a property of   *)
(* it is proved by the first line that would break it (Least).             *)
EXTENDS Engines, CustomEngines, EngineInstall, SequenceTheorems, FiniteSetTheorems,
        WellFoundedInduction, TLAPS

(* Every set of numbers that is not empty has a least one.                 *)
LEMMA Least ==
  ASSUME NEW T \in SUBSET Nat, T # {}
  PROVE  \E n \in T : \A m \in T : n <= m
<1>1. IsWellFoundedOn(OpToRel(<, Nat), Nat)
  BY NatLessThanWellFounded
<1>2. \E n \in T : \A m \in T : ~(<<m, n>> \in OpToRel(<, Nat))
  BY <1>1, WFMin
<1>3. \A m, n \in Nat : <<m, n>> \in OpToRel(<, Nat) <=> m < n
  BY DEF OpToRel
<1>4. \E n \in T : \A m \in T : ~(m < n)
  BY <1>2, <1>3, Zenon
<1> QED
  BY <1>4

(* Reading one line after the other: a step that is a function on the      *)
(* good states, G, and the lines, L, can be iterated along any sequence,   *)
(* and never leaves the good states.                                       *)
Reads(f, start, lines, m, step, G) ==
  /\ f = [n \in 0..m |-> f[n]] /\ f[0] = start
  /\ \A n \in 0..m : f[n] \in G
  /\ \A n \in 1..m : f[n] = step[<<f[n - 1], lines[n]>>]

LEMMA ReadingExists ==
  ASSUME NEW G, NEW L, NEW step \in [G \X L -> G], NEW start \in G, NEW lines \in Seq(L)
  PROVE  \E f : Reads(f, start, lines, Len(lines), step, G)
<1> DEFINE T == {m \in 0..Len(lines) : ~\E f : Reads(f, start, lines, m, step, G)}
<1>1. Len(lines) \in Nat /\ \A n \in 1..Len(lines) : lines[n] \in L
  OBVIOUS
<1>2. ASSUME T # {} PROVE FALSE
  <2>1. PICK m \in T : \A k \in T : m <= k
    <3>1. T \in SUBSET Nat
      BY <1>1
    <3> QED
      BY <1>2, <3>1, Least
  <2>2. m # 0
    <3>1. Reads([n \in 0..0 |-> start], start, lines, 0, step, G)
      BY DEF Reads
    <3> QED
      BY <2>1, <3>1
  <2>3. m - 1 \in 0..Len(lines) /\ m \in 1..Len(lines) /\ m - 1 \in Nat
    BY <1>1, <2>1, <2>2
  <2>4. m - 1 \notin T
    <3> HIDE DEF T
    <3>1. m \in Nat /\ ~(m <= m - 1)
      BY <2>3
    <3> QED
      BY <2>1, <3>1
  <2>5. PICK f : Reads(f, start, lines, m - 1, step, G)
    BY <2>3, <2>4
  <2> DEFINE g == [n \in 0..m |-> IF n = m THEN step[<<f[m - 1], lines[m]>>] ELSE f[n]]
  <2>6. f[m - 1] \in G /\ lines[m] \in L /\ f[0] = start
    BY <1>1, <2>3, <2>5 DEF Reads
  <2>7. step[<<f[m - 1], lines[m]>>] \in G
    BY <2>6
  <2>8. g[0] = start /\ g = [n \in 0..m |-> g[n]] /\ g[m] = step[<<f[m - 1], lines[m]>>]
    BY <2>3, <2>6
  <2>9. \A n \in 0..(m - 1) : g[n] = f[n]
    BY <2>3
  <2> HIDE DEF g
  <2>10. \A n \in 0..m : g[n] \in G
    <3>1. \A n \in 0..(m - 1) : f[n] \in G
      BY <2>5 DEF Reads
    <3>2. \A n \in 0..m : n \in 0..(m - 1) \/ n = m
      BY <2>3
    <3> QED
      BY <2>7, <2>8, <2>9, <3>1, <3>2
  <2>11. \A n \in 1..m : g[n] = step[<<g[n - 1], lines[n]>>]
    <3>1. ASSUME NEW n \in 1..(m - 1) PROVE g[n] = step[<<g[n - 1], lines[n]>>]
      <4>1. g[n] = f[n] /\ g[n - 1] = f[n - 1] /\ f[n] = step[<<f[n - 1], lines[n]>>]
        <5>1. n \in 0..(m - 1) /\ n - 1 \in 0..(m - 1)
          BY <2>3
        <5>2. f[n] = step[<<f[n - 1], lines[n]>>]
          BY <2>5 DEF Reads
        <5> QED
          BY <2>9, <5>1, <5>2
      <4> QED
        BY <4>1
    <3>2. g[m - 1] = f[m - 1]
      BY <2>3, <2>9
    <3>3. g[m] = step[<<g[m - 1], lines[m]>>]
      BY <2>8, <3>2
    <3>4. \A n \in 1..m : n \in 1..(m - 1) \/ n = m
      BY <2>3
    <3> QED
      BY <3>1, <3>3, <3>4
  <2>12. Reads(g, start, lines, m, step, G)
    BY <2>8, <2>10, <2>11 DEF Reads
  <2> QED
    BY <2>1, <2>12
<1>3. Len(lines) \notin T /\ Len(lines) \in 0..Len(lines)
  BY <1>1, <1>2
<1> QED
  BY <1>3

(* What holds at the start and of a line when it held of those before,     *)
(* holds at the end.                                                       *)
LEMMA ReadingStays ==
  ASSUME NEW G, NEW m \in Nat, NEW f, f[0] \in G,
         \A n \in 1..m : f[n - 1] \in G => f[n] \in G
  PROVE  f[m] \in G
<1> DEFINE T == {n \in 0..m : f[n] \notin G}
<1>1. ASSUME T # {} PROVE FALSE
  <2>1. PICK n \in T : \A k \in T : n <= k
    <3>1. T \in SUBSET Nat
      OBVIOUS
    <3> QED
      BY <1>1, <3>1, Least
  <2>2. n \in 1..m /\ n - 1 \in 0..m /\ n - 1 \notin T
    BY <2>1
  <2> QED
    BY <2>1, <2>2
<1> QED
  BY <1>1

-----------------------------------------------------------------------------
(* What is being read: a transcript so far, a final message, the calls     *)
(* under way with their turns.                                             *)
Opens  == UNION {[K -> Nat] : K \in SUBSET (Strings \X Strings)}
Readings == [turn : Nat, thread : Strings, trans : Seq(Messages), final : Texts,
           in : Nat, out : Nat, open : Opens, whole : BOOLEAN]

Spoke(trans, text) == \E i \in DOMAIN trans : trans[i].role = "assistant" /\ trans[i].text = text
Called(trans, id, turn) ==
  \E i \in DOMAIN trans :
    trans[i].role = "tool_call" /\ trans[i].id = id /\ trans[i].turn = turn
CallsFirst(trans) ==
  \A i \in DOMAIN trans :
    trans[i].role = "tool_result" =>
      \E j \in 1 .. i - 1 :
        trans[j].role = "tool_call" /\ trans[j].id = trans[i].id /\ trans[j].turn = trans[i].turn

(* One message more at the end of a transcript.                            *)
LEMMA OneMore ==
  ASSUME NEW S, NEW trans \in Seq(S), NEW m \in S
  PROVE  LET t == trans \o <<m>>
         IN  /\ t \in Seq(S) /\ Len(t) = Len(trans) + 1 /\ t[Len(t)] = m
             /\ \A i \in DOMAIN trans : i \in DOMAIN t /\ t[i] = trans[i]
             /\ \A i \in DOMAIN t : i \in DOMAIN trans \/ i = Len(t)
             /\ DOMAIN trans = 1..Len(trans) /\ DOMAIN t = 1..Len(t) /\ Len(trans) \in Nat
  OBVIOUS

LEMMA OneMoreKeeps ==
  ASSUME NEW S, NEW trans \in Seq(S), NEW m \in S
  PROVE  LET t == trans \o <<m>>
         IN  /\ \A x : Spoke(trans, x) => Spoke(t, x)
             /\ \A x, y : Called(trans, x, y) => Called(t, x, y)
             /\ m.role = "assistant" => Spoke(t, m.text)
             /\ m.role = "tool_call" => Called(t, m.id, m.turn)
             /\ CallsFirst(trans) /\ (m.role = "tool_result" => Called(trans, m.id, m.turn)) =>
                  CallsFirst(t)
<1> DEFINE t == trans \o <<m>>
<1>1. /\ t \in Seq(S) /\ Len(t) = Len(trans) + 1 /\ t[Len(t)] = m
      /\ \A i \in DOMAIN trans : i \in DOMAIN t /\ t[i] = trans[i]
      /\ \A i \in DOMAIN t : i \in DOMAIN trans \/ i = Len(t)
      /\ DOMAIN trans = 1..Len(trans) /\ DOMAIN t = 1..Len(t) /\ Len(trans) \in Nat
  BY OneMore
<1> HIDE DEF t
<1>2. \A x : Spoke(trans, x) => Spoke(t, x)
  BY <1>1 DEF Spoke
<1>3. \A x, y : Called(trans, x, y) => Called(t, x, y)
  BY <1>1 DEF Called
<1>4. Len(t) \in DOMAIN t
  BY <1>1
<1>5. m.role = "assistant" => Spoke(t, m.text)
  BY <1>1, <1>4 DEF Spoke
<1>6. m.role = "tool_call" => Called(t, m.id, m.turn)
  BY <1>1, <1>4 DEF Called
<1>7. ASSUME CallsFirst(trans), m.role = "tool_result" => Called(trans, m.id, m.turn)
      PROVE  CallsFirst(t)
  <2>1. ASSUME NEW i \in DOMAIN t, t[i].role = "tool_result"
        PROVE  \E j \in 1 .. i - 1 :
                 t[j].role = "tool_call" /\ t[j].id = t[i].id /\ t[j].turn = t[i].turn
    <3>1. CASE i \in DOMAIN trans
      <4>1. PICK j \in 1 .. i - 1 : /\ trans[j].role = "tool_call" /\ trans[j].id = trans[i].id
                                    /\ trans[j].turn = trans[i].turn
        BY <1>1, <1>7, <2>1, <3>1 DEF CallsFirst
      <4>2. j \in DOMAIN trans
        BY <1>1, <3>1
      <4> QED
        BY <1>1, <3>1, <4>1, <4>2
    <3>2. CASE i = Len(t)
      <4>1. PICK j \in DOMAIN trans : /\ trans[j].role = "tool_call" /\ trans[j].id = m.id
                                      /\ trans[j].turn = m.turn
        BY <1>1, <1>7, <2>1, <3>2 DEF Called
      <4>2. j \in 1 .. i - 1
        BY <1>1, <3>2
      <4> QED
        BY <1>1, <3>2, <4>1, <4>2
    <3> QED
      BY <1>1, <3>1, <3>2
  <2> QED
    BY <2>1 DEF CallsFirst
<1> QED
  BY <1>2, <1>3, <1>5, <1>6, <1>7 DEF t

LEMMA MessageTypes ==
  ASSUME NEW text \in Texts, NEW turn \in Nat, NEW id \in Strings
  PROVE  /\ <<>> \in Texts /\ Blank \in Strings
         /\ \A role \in {"user", "assistant", "error", "tool_call", "tool_result"} :
              Message(role, id, text, turn) \in Messages
         /\ \A ok \in BOOLEAN : ToolResult(id, text, turn, ok) \in Messages
<1>1. <<>> \in Texts
  BY DEF Texts
<1>2. Blank \in Strings
  BY DEF Strings
<1> QED
  BY <1>1, <1>2 DEF Message, ToolResult, Messages

-----------------------------------------------------------------------------
(* codex's stdout.                                                         *)
CodexGood(w) ==
  {p \in Readings :
     /\ p.whole = w
     /\ p.final # <<>> => Spoke(p.trans, p.final)
     /\ CallsFirst(p.trans)
     /\ \A key \in DOMAIN p.open : Called(p.trans, key[2], p.open[key])}

LEMMA TurnType == ASSUME NEW p \in Readings PROVE Turn(p) \in Nat
BY DEF Readings, Turn, Greater

(* A message more, with the final message and the calls under way that go  *)
(* with it.                                                                *)
LEMMA CodexAdds ==
  ASSUME NEW w, NEW p \in CodexGood(w), NEW m \in Messages, NEW q \in Readings,
         m.role = "tool_result" => Called(p.trans, m.id, m.turn),
         q.whole = p.whole, q.trans = p.trans \o <<m>>,
         q.final = p.final \/ (m.role = "assistant" /\ q.final = m.text),
         \A key \in DOMAIN q.open :
            \/ key \in DOMAIN p.open /\ q.open[key] = p.open[key]
            \/ m.role = "tool_call" /\ key[2] = m.id /\ q.open[key] = m.turn
  PROVE  q \in CodexGood(w)
<1>1. p.trans \in Seq(Messages)
  BY DEF CodexGood, Readings
<1> DEFINE t == p.trans \o <<m>>
<1>2. /\ \A x : Spoke(p.trans, x) => Spoke(t, x)
      /\ \A x, y : Called(p.trans, x, y) => Called(t, x, y)
      /\ m.role = "assistant" => Spoke(t, m.text)
      /\ m.role = "tool_call" => Called(t, m.id, m.turn)
      /\ CallsFirst(p.trans) /\ (m.role = "tool_result" => Called(p.trans, m.id, m.turn)) =>
           CallsFirst(t)
  BY <1>1, OneMoreKeeps
<1>3. q.trans = t
  OBVIOUS
<1> HIDE DEF t
<1>4. q.final # <<>> => Spoke(t, q.final)
  BY <1>2 DEF CodexGood
<1>5. \A key \in DOMAIN q.open : Called(t, key[2], q.open[key])
  BY <1>2 DEF CodexGood
<1>6. CallsFirst(t)
  BY <1>2 DEF CodexGood
<1> QED
  BY <1>3, <1>4, <1>5, <1>6 DEF CodexGood

(* A call that starts, announced or not.                                   *)
LEMMA CodexOpens ==
  ASSUME NEW w, NEW p \in CodexGood(w), NEW e \in Lines
  PROVE  /\ Opened(p, e) \in CodexGood(w)
         /\ Opened(p, e).trans = p.trans \o <<ToolCall(p, e)>>
         /\ ToolCall(p, e) \in Messages
         /\ ToolCall(p, e).role = "tool_call" /\ ToolCall(p, e).id = e.id
         /\ ToolCall(p, e).turn = Turn(p)
<1> DEFINE q == Opened(p, e)
           m == ToolCall(p, e)
           key == <<e.item, e.id>>
           open == [k \in DOMAIN p.open \cup {key} |-> IF k = key THEN Turn(p) ELSE p.open[k]]
<1>1. p \in Readings /\ p.trans \in Seq(Messages)
  BY DEF CodexGood, Readings
<1>2. Turn(p) \in Nat
  BY <1>1, TurnType
<1>3. e.id \in Strings /\ e.item \in Strings /\ <<>> \in Texts
  BY DEF Lines, Strings, Texts
<1>4. m \in Messages
  BY <1>2, <1>3, MessageTypes DEF ToolCall
<1>5. m.role = "tool_call" /\ m.id = e.id /\ m.turn = Turn(p)
  BY DEF ToolCall, Message
<1>6. q = [p EXCEPT !.trans = p.trans \o <<m>>,
                    !.open = IF e.item = "mcp_tool_call" /\ e.id = Blank THEN p.open ELSE open]
  BY <1>1 DEF Opened, Add, Readings
<1>7. p.trans \o <<m>> \in Seq(Messages)
  BY <1>1, <1>4
<1> HIDE DEF m
<1>8. p.open \in Opens /\ open \in Opens
  <2>1. p.open \in Opens
    BY <1>1 DEF Readings
  <2>2. PICK K \in SUBSET (Strings \X Strings) : p.open \in [K -> Nat]
    BY <2>1 DEF Opens
  <2>3. key \in Strings \X Strings
    BY <1>3
  <2>4. K \cup {key} \in SUBSET (Strings \X Strings)
    BY <2>3
  <2>5. open \in [K \cup {key} -> Nat]
    BY <1>2, <2>2
  <2> QED
    BY <2>1, <2>4, <2>5 DEF Opens
<1>9. \A k \in DOMAIN open : \/ k \in DOMAIN p.open /\ open[k] = p.open[k]
                             \/ k[2] = m.id /\ open[k] = m.turn
  BY <1>5
<1> HIDE DEF open
<1>10. /\ q \in Readings /\ q.whole = p.whole /\ q.trans = p.trans \o <<m>> /\ q.final = p.final
       /\ q.open \in {p.open, open}
  BY <1>1, <1>6, <1>7, <1>8 DEF Readings
<1> HIDE DEF q
<1>11. q \in CodexGood(w)
  BY <1>4, <1>5, <1>9, <1>10, CodexAdds
<1> QED
  BY <1>4, <1>5, <1>10, <1>11 DEF q, m

LEMMA AddParsed ==
  ASSUME NEW p \in Readings, NEW m \in Messages
  PROVE  /\ Add(p, <<m>>) = [p EXCEPT !.trans = p.trans \o <<m>>]
         /\ Add(p, <<m>>) \in Readings
         /\ Add(p, <<m>>).trans = p.trans \o <<m>>
         /\ Add(p, <<m>>).final = p.final /\ Add(p, <<m>>).open = p.open
         /\ Add(p, <<m>>).whole = p.whole /\ Add(p, <<m>>).turn = p.turn
<1>1. p.trans \o <<m>> \in Seq(Messages)
  BY DEF Readings
<1>2. Add(p, <<m>>) = [p EXCEPT !.trans = p.trans \o <<m>>]
  BY DEF Add, Readings
<1> QED
  BY <1>1, <1>2 DEF Readings

LEMMA CodexCompletes ==
  ASSUME NEW w, NEW p \in CodexGood(w), NEW e \in Lines
  PROVE  applyCodexItemCompleted(p, e) \in CodexGood(w)
<1>1. p \in Readings /\ Turn(p) \in Nat
  BY TurnType DEF CodexGood
<1>2. e.id \in Strings /\ e.text \in Texts /\ (~e.fails) \in BOOLEAN
  BY DEF Lines
<1>3. CASE e.item = "agent_message"
  <2> DEFINE m == Message("assistant", Blank, e.text, Turn(p))
             q == [Add(p, <<m>>) EXCEPT !.final = e.text]
  <2>1. m \in Messages
    BY <1>1, <1>2, MessageTypes
  <2>2. m.role = "assistant" /\ m.text = e.text
    BY DEF Message
  <2> HIDE DEF m
  <2>3. /\ q \in Readings /\ q.whole = p.whole /\ q.trans = p.trans \o <<m>>
        /\ q.final = e.text /\ q.open = p.open
    BY <1>1, <1>2, <2>1, AddParsed DEF Readings
  <2>4. applyCodexItemCompleted(p, e) = q
    <3>1. e.item \notin Tools
      BY <1>3 DEF Tools
    <3> QED
      BY <1>3, <3>1, Zenon DEF applyCodexItemCompleted, m
  <2> HIDE DEF q
  <2> QED
    BY <2>1, <2>2, <2>3, <2>4, CodexAdds
<1>4. CASE e.item \in Tools
  <2> DEFINE key    == <<e.item, e.id>>
             known  == key \in DOMAIN p.open
             called == IF known THEN p
                       ELSE IF e.item = "mcp_tool_call" THEN Opened(p, e)
                       ELSE Add(p, <<ToolCall(p, e)>>)
             turn   == IF known THEN p.open[key] ELSE Turn(p)
             m      == ToolResult(e.id, e.text, turn, ~e.fails)
  <2>1. applyCodexItemCompleted(p, e) = Add(called, <<m>>)
    <3>1. e.item # "agent_message"
      BY <1>4 DEF Tools
    <3> QED
      BY <1>4, <3>1 DEF applyCodexItemCompleted
  <2>2. turn \in Nat
    BY <1>1 DEF Readings, Opens
  <2>3. m \in Messages /\ m.role = "tool_result" /\ m.id = e.id /\ m.turn = turn
    <3>1. m \in Messages
      BY <1>2, <2>2, MessageTypes
    <3> QED
      BY <3>1 DEF ToolResult
  <2>4. called \in CodexGood(w) /\ Called(called.trans, e.id, turn)
    <3>1. CASE known
      <4>1. Called(p.trans, key[2], p.open[key])
        BY <3>1 DEF CodexGood
      <4> QED
        BY <3>1, <4>1
    <3>2. CASE ~known
      <4> DEFINE c == ToolCall(p, e)
      <4>1. /\ c \in Messages /\ c.role = "tool_call" /\ c.id = e.id /\ c.turn = Turn(p)
            /\ Opened(p, e) \in CodexGood(w) /\ Opened(p, e).trans = p.trans \o <<c>>
        BY CodexOpens
      <4> HIDE DEF c
      <4>2. Called(p.trans \o <<c>>, e.id, Turn(p))
        <5>1. p.trans \in Seq(Messages)
          BY <1>1 DEF Readings
        <5> QED
          BY <4>1, <5>1, OneMoreKeeps
      <4>3. Add(p, <<c>>) \in CodexGood(w) /\ Add(p, <<c>>).trans = p.trans \o <<c>>
        <5> DEFINE q == Add(p, <<c>>)
        <5>1. q \in Readings /\ q.whole = p.whole /\ q.trans = p.trans \o <<c>>
              /\ q.final = p.final /\ q.open = p.open
          BY <1>1, <4>1, AddParsed
        <5> HIDE DEF q
        <5>2. q \in CodexGood(w)
          BY <4>1, <5>1, CodexAdds
        <5> QED
          BY <5>1, <5>2 DEF q
      <4> QED
        BY <3>2, <4>1, <4>2, <4>3 DEF c
    <3> QED
      BY <3>1, <3>2
  <2> HIDE DEF called, m, turn
  <2> DEFINE q == Add(called, <<m>>)
  <2>5. called \in Readings
    BY <2>4 DEF CodexGood
  <2>6. q \in Readings /\ q.whole = called.whole /\ q.trans = called.trans \o <<m>>
        /\ q.final = called.final /\ q.open = called.open
    BY <2>3, <2>5, AddParsed
  <2> HIDE DEF q
  <2>7. q \in CodexGood(w)
    BY <2>3, <2>4, <2>6, CodexAdds
  <2> QED
    BY <2>1, <2>7 DEF q
<1>5. CASE e.item # "agent_message" /\ e.item \notin Tools
  BY <1>5 DEF applyCodexItemCompleted
<1> QED
  BY <1>3, <1>4, <1>5

LEMMA MeterParsed ==
  ASSUME NEW p \in Readings, NEW e \in Lines
  PROVE  /\ Meter(p, e) \in Readings /\ Meter(p, e).trans = p.trans
         /\ Meter(p, e).final = p.final /\ Meter(p, e).open = p.open
         /\ Meter(p, e).whole = p.whole /\ Meter(p, e).turn = p.turn
BY DEF Meter, Greater, Readings, Lines

LEMMA CodexStep ==
  ASSUME NEW w, NEW p \in CodexGood(w), NEW e \in Lines
  PROVE  applyCodexEvent(p, e) \in CodexGood(w)
<1>1. p \in Readings
  BY DEF CodexGood
<1>2. ASSUME NEW q \in Readings, q.whole = p.whole, q.trans = p.trans, q.final = p.final,
             q.open = p.open
      PROVE  q \in CodexGood(w)
  BY <1>2 DEF CodexGood
<1>3. [p EXCEPT !.thread = e.id] \in CodexGood(w)
  <2> DEFINE q == [p EXCEPT !.thread = e.id]
  <2>1. /\ q \in Readings /\ q.whole = p.whole /\ q.trans = p.trans
        /\ q.final = p.final /\ q.open = p.open
    BY <1>1 DEF Readings, Lines
  <2> HIDE DEF q
  <2>2. q \in CodexGood(w)
    BY <1>2, <2>1
  <2> QED
    BY <2>2 DEF q
<1>4. [p EXCEPT !.turn = @ + 1] \in CodexGood(w)
  <2> DEFINE q == [p EXCEPT !.turn = @ + 1]
  <2>1. /\ q \in Readings /\ q.whole = p.whole /\ q.trans = p.trans
        /\ q.final = p.final /\ q.open = p.open
    BY <1>1 DEF Readings
  <2> HIDE DEF q
  <2>2. q \in CodexGood(w)
    BY <1>2, <2>1
  <2> QED
    BY <2>2 DEF q
<1>5. Meter(p, e) \in CodexGood(w)
  BY <1>1, <1>2, MeterParsed
<1>6. applyCodexItemStarted(p, e) \in CodexGood(w)
  BY CodexOpens DEF applyCodexItemStarted
<1> QED
  BY <1>3, <1>4, <1>5, <1>6, CodexCompletes DEF applyCodexEvent

-----------------------------------------------------------------------------
(* What is left of a file after its first line over the limit.             *)
LEMMA ReadableLines ==
  ASSUME NEW lines \in Seq(Lines)
  PROVE  /\ Readable(lines) \in Seq(Lines)
         /\ Readable(lines) = lines => \A i \in DOMAIN lines : lines[i].type # "oversized"
<1> DEFINE I == {i \in 1..Len(lines) : lines[i].type = "oversized"}
<1>1. CASE I = {}
  <2>1. Readable(lines) = lines
    BY <1>1 DEF Readable, SelectInSeq
  <2> QED
    BY <1>1, <2>1
<1>2. CASE I # {}
  <2>1. PICK k \in I : \A i \in I : k <= i
    <3>1. I \in SUBSET Nat
      OBVIOUS
    <3> QED
      BY <1>2, <3>1, Least
  <2>2. Min(I) \in I
    BY <2>1 DEF Min
  <2>3. Readable(lines) = SubSeq(lines, 1, Min(I) - 1)
    <3>1. SelectInSeq(lines, LAMBDA e : e.type = "oversized") = Min(I)
      BY <1>2 DEF SelectInSeq
    <3>2. Min(I) # 0
      BY <2>2
    <3> QED
      BY <3>1, <3>2 DEF Readable
  <2> HIDE DEF I
  <2> DEFINE k2 == Min(I)
  <2>4. k2 \in 1..Len(lines)
    BY <2>2 DEF I
  <2> HIDE DEF k2
  <2>5. SubSeq(lines, 1, k2 - 1) \in Seq(Lines) /\ Len(SubSeq(lines, 1, k2 - 1)) = k2 - 1
    BY <2>4
  <2>6. SubSeq(lines, 1, k2 - 1) # lines
    BY <2>4, <2>5
  <2> QED
    BY <2>3, <2>5, <2>6 DEF k2
<1> QED
  BY <1>1, <1>2

LEMMA StartParsed ==
  ASSUME NEW lines
  PROVE  /\ Started(lines) \in Readings /\ Started(lines).final = <<>>
         /\ Started(lines).trans = <<>>
         /\ DOMAIN Started(lines).open = {}
         /\ Started(lines).whole <=> Readable(lines) = lines
<1>1. [key \in {} |-> 0] \in Opens
  <2>1. [key \in {} |-> 0] \in [{} -> Nat] /\ {} \in SUBSET (Strings \X Strings)
    OBVIOUS
  <2> QED
    BY <2>1 DEF Opens
<1>2. <<>> \in Texts /\ <<>> \in Seq(Messages) /\ Blank \in Strings
  BY DEF Texts, Strings
<1>3. (Readable(lines) = lines) \in BOOLEAN
  OBVIOUS
<1>4. DOMAIN [key \in {} |-> 0] = {}
  OBVIOUS
<1> DEFINE open == [key \in {} |-> 0]
           whole == Readable(lines) = lines
<1>5. Started(lines) = [turn |-> 0, thread |-> Blank, trans |-> <<>>, final |-> <<>>, in |-> 0,
                        out |-> 0, open |-> open, whole |-> whole]
  BY DEF Started, NothingParsed
<1> HIDE DEF open, whole
<1>6. Started(lines) \in Readings
  BY <1>1, <1>2, <1>3, <1>5 DEF Readings, open, whole
<1>7. /\ Started(lines).final = <<>> /\ Started(lines).trans = <<>>
      /\ Started(lines).open = open /\ Started(lines).whole = whole
  BY <1>5
<1>8. DOMAIN Started(lines).open = {}
  BY <1>4, <1>7 DEF open
<1>9. Started(lines).whole <=> Readable(lines) = lines
  BY <1>7 DEF whole
<1> QED
  BY <1>6, <1>7, <1>8, <1>9

(* Reading any number of lines; the same is said of the other formats      *)
(* below.                                                                  *)
LEMMA CodexReads ==
  ASSUME NEW G, NEW start \in G, NEW lines \in Seq(Lines),
         \A p \in G, e \in Lines : applyCodexEvent(p, e) \in G
  PROVE  After(applyCodexEvent, start, lines) \in G
<1> DEFINE Is(f) == f = [n \in 0..Len(lines) |->
                           IF n = 0 THEN start ELSE applyCodexEvent(f[n - 1], lines[n])]
           read == CHOOSE f : Is(f)
           step == [x \in G \X Lines |-> applyCodexEvent(x[1], x[2])]
<1>1. Len(lines) \in Nat /\ \A n \in 1..Len(lines) : lines[n] \in Lines
  OBVIOUS
<1>2. step \in [G \X Lines -> G]
  OBVIOUS
<1>3. \A p \in G, e \in Lines : step[<<p, e>>] = applyCodexEvent(p, e)
  OBVIOUS
<1> HIDE DEF step
<1>4. \E f : Is(f)
  <2>1. PICK f : Reads(f, start, lines, Len(lines), step, G)
    BY <1>2, ReadingExists
  <2>2. \A n \in 1..Len(lines) : f[n] = applyCodexEvent(f[n - 1], lines[n])
    <3>1. ASSUME NEW n \in 1..Len(lines) PROVE f[n] = applyCodexEvent(f[n - 1], lines[n])
      <4>1. f[n - 1] \in G /\ lines[n] \in Lines /\ f[n] = step[<<f[n - 1], lines[n]>>]
        <5>1. n - 1 \in 0..Len(lines)
          BY <1>1
        <5> QED
          BY <1>1, <2>1, <5>1 DEF Reads
      <4> QED
        BY <1>3, <4>1
    <3> QED
      BY <3>1
  <2>3. Is(f)
    <3>1. f = [n \in 0..Len(lines) |-> f[n]] /\ f[0] = start
      BY <2>1 DEF Reads
    <3>2. \A n \in 0..Len(lines) :
            f[n] = IF n = 0 THEN start ELSE applyCodexEvent(f[n - 1], lines[n])
      <4>1. \A n \in 0..Len(lines) : n = 0 \/ n \in 1..Len(lines)
        BY <1>1
      <4> QED
        BY <2>2, <3>1, <4>1
    <3> QED
      BY <3>1, <3>2
  <2> QED
    BY <2>3
<1>5. Is(read)
  BY <1>4
<1>6. After(applyCodexEvent, start, lines) = read[Len(lines)]
  BY DEF After
<1> HIDE DEF read
<1>7. /\ read[0] = start
      /\ \A n \in 1..Len(lines) : read[n] = applyCodexEvent(read[n - 1], lines[n])
  BY <1>1, <1>5
<1>8. \A n \in 1..Len(lines) : read[n - 1] \in G => read[n] \in G
  BY <1>1, <1>7
<1> QED
  BY <1>1, <1>6, <1>7, <1>8, ReadingStays

(* parseCodexOutput, whatever codex prints: the final message is one the   *)
(* assistant says in the transcript, every tool result follows a call of   *)
(* its id and turn, and what was read in full has no line over the limit.  *)
THEOREM CodexParsed ==
  ASSUME NEW lines \in Seq(Lines)
  PROVE  /\ parseCodexOutput(lines) \in CodexGood(Started(lines).whole)
         /\ parseCodexOutput(lines).whole =>
              \A i \in DOMAIN lines : lines[i].type # "oversized"
<1> DEFINE w == Started(lines).whole
<1>1. Started(lines) \in CodexGood(w)
  <2>1. CallsFirst(<<>>)
    BY DEF CallsFirst
  <2> QED
    BY <2>1, StartParsed DEF CodexGood
<1>2. Readable(lines) \in Seq(Lines)
  BY ReadableLines
<1>3. \A p \in CodexGood(w), e \in Lines : applyCodexEvent(p, e) \in CodexGood(w)
  BY CodexStep
<1>4. parseCodexOutput(lines) \in CodexGood(w)
  <2> HIDE DEF w
  <2> DEFINE G == CodexGood(w)
             start == Started(lines)
             read == Readable(lines)
  <2>1. start \in G /\ read \in Seq(Lines) /\ \A p \in G, e \in Lines : applyCodexEvent(p, e) \in G
    BY <1>1, <1>2, <1>3
  <2> HIDE DEF G, start, read
  <2>2. After(applyCodexEvent, start, read) \in G
    BY <2>1, CodexReads
  <2> QED
    BY <2>2 DEF G, start, read, parseCodexOutput
<1>5. parseCodexOutput(lines).whole = w
  BY <1>4 DEF CodexGood
<1> QED
  BY <1>4, <1>5, StartParsed, ReadableLines

-----------------------------------------------------------------------------
(* The last message of the assistant.                                      *)
(* Every set of positions that is not empty has a last one.                *)
LEMMA Greatest ==
  ASSUME NEW n \in Nat, NEW T \in SUBSET (1..n), T # {}
  PROVE  Max(T) \in T /\ \A k \in T : k <= Max(T)
<1> DEFINE U == {m \in 0..n : n - m \in T}
<1>1. U \in SUBSET Nat
  OBVIOUS
<1>2. U # {}
  <2>1. PICK k \in T : TRUE
    OBVIOUS
  <2>2. n - k \in 0..n /\ n - (n - k) = k
    OBVIOUS
  <2> QED
    BY <2>1, <2>2
<1>3. PICK m \in U : \A k \in U : m <= k
  BY <1>1, <1>2, Least
<1>4. n - m \in T /\ \A k \in T : k <= n - m
  <2>1. ASSUME NEW k \in T PROVE k <= n - m
    <3>1. n - k \in 0..n /\ n - (n - k) = k /\ k \in Nat
      OBVIOUS
    <3>2. n - k \in U
      BY <3>1
    <3>3. m <= n - k /\ m \in Nat
      BY <1>3, <3>2
    <3> QED
      BY <3>1, <3>3
  <2> QED
    BY <1>3, <2>1
<1>5. \E x \in T : \A y \in T : x >= y
  <2>1. n - m \in Int /\ \A k \in T : n - m >= k
    BY <1>3, <1>4
  <2> QED
    BY <1>4, <2>1
<1>6. Max(T) \in T /\ \A y \in T : Max(T) >= y
  BY <1>5 DEF Max
<1> QED
  BY <1>6

LEMMA FinalSaid ==
  ASSUME NEW trans \in Seq(Messages)
  PROVE  /\ FinalAssistantMessage(trans) \in Texts
         /\ FinalAssistantMessage(trans) # <<>> => Spoke(trans, FinalAssistantMessage(trans))
<1> DEFINE I == {i \in 1..Len(trans) : trans[i].role = "assistant"}
           last == SelectLastInSeq(trans, LAMBDA m : m.role = "assistant")
<1>1. CASE I = {}
  <2>1. last = 0
    BY <1>1 DEF SelectLastInSeq
  <2>2. FinalAssistantMessage(trans) = <<>>
    BY <2>1 DEF FinalAssistantMessage
  <2>3. <<>> \in Texts
    BY DEF Texts
  <2> QED
    BY <2>2, <2>3
<1>2. CASE I # {}
  <2>1. last = Max(I)
    BY <1>2 DEF SelectLastInSeq
  <2>2. last \in I
    <3>1. Len(trans) \in Nat /\ I \in SUBSET (1..Len(trans))
      OBVIOUS
    <3> HIDE DEF I, last
    <3> QED
      BY <1>2, <2>1, <3>1, Greatest
  <2>3. FinalAssistantMessage(trans) = trans[last].text
    BY <2>2 DEF FinalAssistantMessage
  <2> HIDE DEF last
  <2>4. last \in DOMAIN trans /\ trans[last].role = "assistant" /\ trans[last] \in Messages
    BY <2>2
  <2>5. trans[last].text \in Texts
    BY <2>4 DEF Messages
  <2> QED
    BY <2>3, <2>4, <2>5 DEF Spoke
<1> QED
  BY <1>1, <1>2

-----------------------------------------------------------------------------
(* codex's session file.                                                   *)
AnswerGood == {p \in Readings : p.final # <<>> => Spoke(p.trans, p.final)}

LEMMA AnswerAdds ==
  ASSUME NEW p \in AnswerGood, NEW m \in Messages, NEW q \in Readings,
         q.trans = p.trans \o <<m>>,
         q.final = p.final \/ (m.role = "assistant" /\ q.final = m.text)
  PROVE  q \in AnswerGood
<1>1. p.trans \in Seq(Messages)
  BY DEF AnswerGood, Readings
<1> DEFINE t == p.trans \o <<m>>
<1>2. /\ \A x : Spoke(p.trans, x) => Spoke(t, x)
      /\ m.role = "assistant" => Spoke(t, m.text)
  BY <1>1, OneMoreKeeps
<1>3. q.trans = t
  OBVIOUS
<1> HIDE DEF t
<1> QED
  BY <1>2, <1>3 DEF AnswerGood

LEMMA CodexSessionStep ==
  ASSUME NEW p \in AnswerGood, NEW e \in Lines
  PROVE  applyCodexSessionFileEvent(p, e) \in AnswerGood
<1>1. p \in Readings /\ Turn(p) \in Nat /\ p.turn \in Nat /\ p.turn + 1 \in Nat
  BY TurnType DEF AnswerGood, Readings
<1>2. e.id \in Strings /\ e.text \in Texts /\ (~e.fails) \in BOOLEAN /\ Blank \in Strings
  BY DEF Lines, Strings
<1>3. ASSUME NEW m \in Messages PROVE Add(p, <<m>>) \in AnswerGood
  <2> DEFINE q == Add(p, <<m>>)
  <2>1. q \in Readings /\ q.trans = p.trans \o <<m>> /\ q.final = p.final
    BY <1>1, AddParsed
  <2> HIDE DEF q
  <2>2. q \in AnswerGood
    BY <2>1, AnswerAdds
  <2> QED
    BY <2>2 DEF q
<1>4. ASSUME NEW m \in Messages, NEW n \in Nat, NEW final \in Texts,
             final = p.final \/ (m.role = "assistant" /\ final = m.text)
      PROVE  [Add(p, <<m>>) EXCEPT !.turn = n, !.final = final] \in AnswerGood
  <2> DEFINE q == [Add(p, <<m>>) EXCEPT !.turn = n, !.final = final]
  <2>1. Add(p, <<m>>) \in Readings /\ Add(p, <<m>>).trans = p.trans \o <<m>>
    BY <1>1, AddParsed
  <2>2. q \in Readings /\ q.trans = p.trans \o <<m>> /\ q.final = final
    BY <2>1, <1>4 DEF Readings
  <2> HIDE DEF q
  <2>3. q \in AnswerGood
    BY <1>4, <2>2, AnswerAdds
  <2> QED
    BY <2>3 DEF q
<1>5. parseCodexSessionResponseItem(p, e) \in AnswerGood
  <2> DEFINE turn == IF e.role = "user" THEN p.turn + 1 ELSE Turn(p)
             u == Message("user", Blank, e.text, turn)
             a == Message("assistant", Blank, e.text, turn)
             c == Message("tool_call", e.id, <<>>, p.turn)
             r == ToolResult(e.id, e.text, p.turn, ~e.fails)
  <2>1. turn \in Nat
    BY <1>1
  <2>2. u \in Messages /\ a \in Messages
    BY <1>2, <2>1, MessageTypes
  <2>3. c \in Messages /\ r \in Messages
    <3>1. <<>> \in Texts
      BY DEF Texts
    <3> QED
      BY <1>1, <1>2, <3>1, MessageTypes
  <2>4. a.role = "assistant" /\ a.text = e.text
    BY DEF Message
  <2>5. Add(p, <<c>>) \in AnswerGood /\ Add(p, <<r>>) \in AnswerGood
    BY <1>3, <2>3
  <2>6. [Add(p, <<u>>) EXCEPT !.turn = turn] \in AnswerGood
    <3> HIDE DEF u, turn
    <3>1. p.final \in Texts /\ Add(p, <<u>>) \in Readings /\ Add(p, <<u>>).final = p.final
      BY <1>1, <2>2, AddParsed DEF Readings
    <3>2. [Add(p, <<u>>) EXCEPT !.turn = turn] =
            [Add(p, <<u>>) EXCEPT !.turn = turn, !.final = p.final]
      BY <3>1 DEF Readings
    <3>3. [Add(p, <<u>>) EXCEPT !.turn = turn, !.final = p.final] \in AnswerGood
      BY <1>4, <2>1, <2>2, <3>1
    <3> QED
      BY <3>2, <3>3
  <2>7. [Add(p, <<a>>) EXCEPT !.turn = turn, !.final = e.text] \in AnswerGood
    <3> HIDE DEF a, turn
    <3> QED
      BY <1>2, <1>4, <2>1, <2>2, <2>4
  <2>8. parseCodexSessionResponseItem(p, e) \in
          {[Add(p, <<u>>) EXCEPT !.turn = turn],
           [Add(p, <<a>>) EXCEPT !.turn = turn, !.final = e.text],
           Add(p, <<c>>), Add(p, <<r>>), p}
    BY Zenon DEF parseCodexSessionResponseItem
  <2> HIDE DEF u, a, c, r, turn
  <2> QED
    BY <2>5, <2>6, <2>7, <2>8
<1>6. applyCodexSessionEventMsg(p, e) \in AnswerGood
  <2> DEFINE a == Message("assistant", Blank, e.text, p.turn)
             q == [Add(p, <<a>>) EXCEPT !.final = IF e.text = <<>> THEN p.final ELSE e.text]
  <2>1. a \in Messages /\ a.role = "assistant" /\ a.text = e.text
    <3>1. a \in Messages
      BY <1>1, <1>2, MessageTypes
    <3> QED
      BY <3>1 DEF Message
  <2> HIDE DEF a
  <2>2. /\ Add(p, <<a>>) \in Readings /\ Add(p, <<a>>).trans = p.trans \o <<a>>
        /\ Add(p, <<a>>).final = p.final
    BY <1>1, <2>1, AddParsed
  <2>3. /\ q \in Readings /\ q.trans = p.trans \o <<a>>
        /\ q.final = p.final \/ q.final = e.text
    BY <1>1, <1>2, <2>2 DEF Readings
  <2>4. q \in AnswerGood
    <3> HIDE DEF q
    <3> QED
      BY <2>1, <2>3, AnswerAdds
  <2>5. Meter(p, e) \in AnswerGood
    BY <1>1, MeterParsed DEF AnswerGood
  <2>6. CASE e.kind = "agent_message"
    <3>1. applyCodexSessionEventMsg(p, e) = q
      BY <2>2, <2>6 DEF applyCodexSessionEventMsg, a
    <3> QED
      BY <2>4, <3>1
  <2>7. CASE e.kind # "agent_message"
    BY <2>5, <2>7 DEF applyCodexSessionEventMsg
  <2> QED
    BY <2>6, <2>7
<1> QED
  BY <1>5, <1>6 DEF applyCodexSessionFileEvent

LEMMA CodexSessionReads ==
  ASSUME NEW G, NEW start \in G, NEW lines \in Seq(Lines),
         \A p \in G, e \in Lines : applyCodexSessionFileEvent(p, e) \in G
  PROVE  After(applyCodexSessionFileEvent, start, lines) \in G
<1> DEFINE Is(f) == f = [n \in 0..Len(lines) |->
                           IF n = 0 THEN start ELSE applyCodexSessionFileEvent(f[n - 1], lines[n])]
           read == CHOOSE f : Is(f)
           step == [x \in G \X Lines |-> applyCodexSessionFileEvent(x[1], x[2])]
<1>1. Len(lines) \in Nat /\ \A n \in 1..Len(lines) : lines[n] \in Lines
  OBVIOUS
<1>2. step \in [G \X Lines -> G]
  OBVIOUS
<1>3. \A p \in G, e \in Lines : step[<<p, e>>] = applyCodexSessionFileEvent(p, e)
  OBVIOUS
<1> HIDE DEF step
<1>4. \E f : Is(f)
  <2>1. PICK f : Reads(f, start, lines, Len(lines), step, G)
    BY <1>2, ReadingExists
  <2>2. \A n \in 1..Len(lines) : f[n] = applyCodexSessionFileEvent(f[n - 1], lines[n])
    <3>1. ASSUME NEW n \in 1..Len(lines) PROVE f[n] = applyCodexSessionFileEvent(f[n - 1], lines[n])
      <4>1. f[n - 1] \in G /\ lines[n] \in Lines /\ f[n] = step[<<f[n - 1], lines[n]>>]
        <5>1. n - 1 \in 0..Len(lines)
          BY <1>1
        <5> QED
          BY <1>1, <2>1, <5>1 DEF Reads
      <4> QED
        BY <1>3, <4>1
    <3> QED
      BY <3>1
  <2>3. Is(f)
    <3>1. f = [n \in 0..Len(lines) |-> f[n]] /\ f[0] = start
      BY <2>1 DEF Reads
    <3>2. \A n \in 0..Len(lines) :
            f[n] = IF n = 0 THEN start ELSE applyCodexSessionFileEvent(f[n - 1], lines[n])
      <4>1. \A n \in 0..Len(lines) : n = 0 \/ n \in 1..Len(lines)
        BY <1>1
      <4> QED
        BY <2>2, <3>1, <4>1
    <3> QED
      BY <3>1, <3>2
  <2> QED
    BY <2>3
<1>5. Is(read)
  BY <1>4
<1>6. After(applyCodexSessionFileEvent, start, lines) = read[Len(lines)]
  BY DEF After
<1> HIDE DEF read
<1>7. /\ read[0] = start
      /\ \A n \in 1..Len(lines) : read[n] = applyCodexSessionFileEvent(read[n - 1], lines[n])
  BY <1>1, <1>5
<1>8. \A n \in 1..Len(lines) : read[n - 1] \in G => read[n] \in G
  BY <1>1, <1>7
<1> QED
  BY <1>1, <1>6, <1>7, <1>8, ReadingStays

(* parseCodexSessionFile: its final message is one the assistant says.     *)
LEMMA CodexSessionParsed ==
  ASSUME NEW lines \in Seq(Lines)
  PROVE  parseCodexSessionFile(lines) \in AnswerGood
<1> DEFINE G == AnswerGood
           start == Started(lines)
           read == Readable(lines)
           p == After(applyCodexSessionFileEvent, start, read)
           final == IF p.final = <<>> THEN FinalAssistantMessage(p.trans) ELSE p.final
<1>1. start \in G /\ read \in Seq(Lines)
      /\ \A q \in G, e \in Lines : applyCodexSessionFileEvent(q, e) \in G
  BY StartParsed, ReadableLines, CodexSessionStep DEF AnswerGood
<1>2. p \in G
  <2> HIDE DEF G, start, read
  <2> QED
    BY <1>1, CodexSessionReads
<1>3. parseCodexSessionFile(lines) = [p EXCEPT !.final = final]
  <2>1. parseCodexSessionFile(lines)
          = [p EXCEPT !.final = IF @ = <<>> THEN FinalAssistantMessage(p.trans) ELSE @]
    BY DEF parseCodexSessionFile
  <2> HIDE DEF p
  <2> QED
    BY <1>2, <2>1 DEF AnswerGood, Readings
<1> HIDE DEF p
<1>4. final \in Texts /\ (final # <<>> => Spoke(p.trans, final))
  <2>1. /\ p.trans \in Seq(Messages) /\ p.final \in Texts
        /\ p.final # <<>> => Spoke(p.trans, p.final)
    BY <1>2 DEF AnswerGood, Readings
  <2> QED
    BY <2>1, FinalSaid
<1> HIDE DEF final
<1> QED
  BY <1>2, <1>3, <1>4 DEF AnswerGood, Readings

-----------------------------------------------------------------------------
(* What blocks say.                                                        *)
LEMMA JoinsReads ==
  ASSUME NEW S, NEW start \in Seq(S), NEW texts \in Seq(Seq(S))
  PROVE  After(\o, start, texts) \in Seq(S)
<1> DEFINE cat(p, e) == p \o e
           Is(f) == f = [n \in 0..Len(texts) |-> IF n = 0 THEN start ELSE cat(f[n - 1], texts[n])]
           read == CHOOSE f : Is(f)
           G == Seq(S)
           step == [x \in G \X G |-> cat(x[1], x[2])]
<1>1. Len(texts) \in Nat /\ \A n \in 1..Len(texts) : texts[n] \in G
  OBVIOUS
<1>2. \A p \in G, e \in G : cat(p, e) \in G
  OBVIOUS
<1>3. texts \in Seq(G) /\ start \in G
  OBVIOUS
<1>4. After(\o, start, texts) = read[Len(texts)]
  BY DEF After
<1> HIDE DEF G, cat
<1>5. step \in [G \X G -> G]
  BY <1>2
<1>6. \A p \in G, e \in G : step[<<p, e>>] = cat(p, e)
  OBVIOUS
<1> HIDE DEF step
<1>7. \E f : Is(f)
  <2>1. PICK f : Reads(f, start, texts, Len(texts), step, G)
    BY <1>3, <1>5, ReadingExists
  <2>2. \A n \in 1..Len(texts) : f[n] = cat(f[n - 1], texts[n])
    <3>1. ASSUME NEW n \in 1..Len(texts) PROVE f[n] = cat(f[n - 1], texts[n])
      <4>1. f[n - 1] \in G /\ texts[n] \in G /\ f[n] = step[<<f[n - 1], texts[n]>>]
        <5>1. n - 1 \in 0..Len(texts)
          BY <1>1
        <5> QED
          BY <1>1, <2>1, <5>1 DEF Reads
      <4> QED
        BY <1>6, <4>1
    <3> QED
      BY <3>1
  <2>3. Is(f)
    <3>1. f = [n \in 0..Len(texts) |-> f[n]] /\ f[0] = start
      BY <2>1 DEF Reads
    <3>2. \A n \in 0..Len(texts) : f[n] = IF n = 0 THEN start ELSE cat(f[n - 1], texts[n])
      <4>1. \A n \in 0..Len(texts) : n = 0 \/ n \in 1..Len(texts)
        BY <1>1
      <4> QED
        BY <2>2, <3>1, <4>1
    <3> QED
      BY <3>1, <3>2
  <2> QED
    BY <2>3
<1>8. Is(read)
  BY <1>7
<1> HIDE DEF read
<1>9. read[0] = start /\ \A n \in 1..Len(texts) : read[n] = cat(read[n - 1], texts[n])
  BY <1>1, <1>8
<1>10. \A n \in 1..Len(texts) : read[n - 1] \in G => read[n] \in G
  BY <1>1, <1>2, <1>9
<1>11. read[Len(texts)] \in G
  BY <1>1, <1>3, <1>9, <1>10, ReadingStays
<1> QED
  BY <1>4, <1>11 DEF G

LEMMA JoinedReads ==
  ASSUME NEW S, NEW texts \in Seq(Seq(S))
  PROVE  Joined(texts) \in Seq(S)
<1>1. <<>> \in Seq(S)
  OBVIOUS
<1>2. After(\o, <<>>, texts) \in Seq(S)
  BY <1>1, JoinsReads
<1> QED
  BY <1>2 DEF Joined

(* The texts of blocks are texts.                                          *)
LEMMA BlocksSay ==
  ASSUME NEW blocks \in Seq(Blocks)
  PROVE  /\ extractAssistantTextFromContent(blocks) \in Texts
         /\ extractTextFromContent(blocks) \in Texts
<1> DEFINE a == [i \in DOMAIN blocks |-> IF blocks[i].kind = "text" THEN blocks[i].text ELSE <<>>]
           t == [i \in DOMAIN blocks |->
                   CASE blocks[i].kind = "text"     -> blocks[i].text
                     [] blocks[i].kind = "tool_use" -> <<"[tool]">>
                     [] OTHER                       -> <<>>]
<1>1. \A i \in DOMAIN blocks : blocks[i].text \in Seq(Words)
  <2>1. \A i \in DOMAIN blocks : blocks[i] \in Blocks
    OBVIOUS
  <2> QED
    BY <2>1 DEF Blocks, Texts
<1>2. <<>> \in Seq(Words) /\ <<"[tool]">> \in Seq(Words)
  <2>1. "[tool]" \in Words
    BY DEF Words
  <2> QED
    BY <2>1
<1>3. DOMAIN blocks = 1..Len(blocks) /\ Len(blocks) \in Nat
  OBVIOUS
<1>4. a \in Seq(Seq(Words))
  <2>1. \A i \in 1..Len(blocks) :
          (IF blocks[i].kind = "text" THEN blocks[i].text ELSE <<>>) \in Seq(Words)
    BY <1>1, <1>2, <1>3
  <2>2. a \in [1..Len(blocks) -> Seq(Words)]
    BY <1>3, <2>1
  <2> QED
    BY <1>3, <2>2
<1>5. t \in Seq(Seq(Words))
  <2>1. \A i \in 1..Len(blocks) :
          (CASE blocks[i].kind = "text"     -> blocks[i].text
             [] blocks[i].kind = "tool_use" -> <<"[tool]">>
             [] OTHER                       -> <<>>) \in Seq(Words)
    BY <1>1, <1>2, <1>3
  <2>2. t \in [1..Len(blocks) -> Seq(Words)]
    BY <1>3, <2>1
  <2> QED
    BY <1>3, <2>2
<1> HIDE DEF a, t
<1>6. Joined(a) \in Seq(Words) /\ Joined(t) \in Seq(Words)
  BY <1>4, <1>5, JoinedReads
<1> QED
  BY <1>6 DEF a, t, Texts, extractAssistantTextFromContent, extractTextFromContent

(* Messages of tools only.                                                 *)
ToolMessages == {m \in Messages : m.role \in {"tool_call", "tool_result"}}

(* The tool messages of blocks are messages of tools.                      *)
LEMMA BlocksCall ==
  ASSUME NEW blocks \in Seq(Blocks), NEW turn \in Nat
  PROVE  extractToolMessagesFromContent(blocks, turn) \in Seq(ToolMessages)
<1> DEFINE asks(b) == <<Message("tool_call", b.id, <<>>, turn)>>
           gives(b) == <<ToolResult(b.id, b.text, turn, b.ok)>>
           t == [i \in DOMAIN blocks |->
                   CASE blocks[i].kind = "tool_use"    -> asks(blocks[i])
                     [] blocks[i].kind = "tool_result" -> gives(blocks[i])
                     [] OTHER                          -> <<>>]
<1>1. ASSUME NEW b \in Blocks PROVE asks(b) \in Seq(ToolMessages) /\ gives(b) \in Seq(ToolMessages)
  <2> DEFINE c == Message("tool_call", b.id, <<>>, turn)
             r == ToolResult(b.id, b.text, turn, b.ok)
  <2>1. b.id \in Strings /\ b.text \in Texts /\ b.ok \in BOOLEAN /\ <<>> \in Texts
    BY DEF Blocks, Texts
  <2>2. c \in Messages /\ r \in Messages
    BY <2>1, MessageTypes
  <2>3. c.role = "tool_call" /\ r.role = "tool_result"
    BY DEF Message, ToolResult
  <2> HIDE DEF c, r
  <2>4. c \in ToolMessages /\ r \in ToolMessages
    BY <2>2, <2>3 DEF ToolMessages
  <2>5. <<c>> \in Seq(ToolMessages) /\ <<r>> \in Seq(ToolMessages)
    BY <2>4
  <2> QED
    BY <2>5 DEF c, r
<1>2. /\ DOMAIN blocks = 1..Len(blocks) /\ Len(blocks) \in Nat
      /\ \A i \in DOMAIN blocks : blocks[i] \in Blocks
  OBVIOUS
<1>3. <<>> \in Seq(ToolMessages)
  OBVIOUS
<1> HIDE DEF asks, gives
<1>4. \A i \in 1..Len(blocks) :
        (CASE blocks[i].kind = "tool_use"    -> asks(blocks[i])
           [] blocks[i].kind = "tool_result" -> gives(blocks[i])
           [] OTHER                          -> <<>>) \in Seq(ToolMessages)
  BY <1>1, <1>2, <1>3
<1>5. t \in [1..Len(blocks) -> Seq(ToolMessages)]
  BY <1>2, <1>4
<1>6. t \in Seq(Seq(ToolMessages))
  <2> HIDE DEF t
  <2> QED
    BY <1>2, <1>5
<1> HIDE DEF t
<1>7. Joined(t) \in Seq(ToolMessages)
  BY <1>6, JoinedReads
<1> QED
  BY <1>7 DEF t, asks, gives, extractToolMessagesFromContent

LEMMA AddsParsed ==
  ASSUME NEW p \in Readings, NEW more \in Seq(Messages)
  PROVE  /\ Add(p, more) \in Readings /\ Add(p, more).trans = p.trans \o more
         /\ Add(p, more).final = p.final /\ Add(p, more).turn = p.turn
<1>1. p.trans \o more \in Seq(Messages)
  BY DEF Readings
<1>2. Add(p, more) = [p EXCEPT !.trans = p.trans \o more]
  BY DEF Add, Readings
<1> QED
  BY <1>1, <1>2 DEF Readings

LEMMA SpokenTypes ==
  ASSUME NEW role \in {"user", "assistant", "error"}, NEW text \in Texts, NEW turn \in Nat
  PROVE  /\ Spoken(role, text, turn) \in Seq(Messages)
         /\ text = <<>> => Spoken(role, text, turn) = <<>>
         /\ text # <<>> => Spoken(role, text, turn) = <<Message(role, Blank, text, turn)>>
         /\ Message(role, Blank, text, turn) \in Messages
<1>1. Message(role, Blank, text, turn) \in Messages
  <2>1. Blank \in Strings
    BY DEF Strings
  <2> QED
    BY <2>1, MessageTypes
<1> DEFINE m == Message(role, Blank, text, turn)
<1> HIDE DEF m
<1>2. Spoken(role, text, turn) = IF text = <<>> THEN <<>> ELSE <<m>>
  BY DEF Spoken, m
<1>3. <<m>> \in Seq(Messages) /\ <<>> \in Seq(Messages)
  BY <1>1 DEF m
<1> QED
  BY <1>1, <1>2, <1>3 DEF m

-----------------------------------------------------------------------------
(* The session files of Claude Code and Qoder.                             *)
LEMMA ClaudeStep ==
  ASSUME NEW p \in Readings, NEW e \in Lines
  PROVE  processClaudeEvent(p, e) \in Readings
<1>1. p.turn \in Nat /\ p.turn + 1 \in Nat
  BY DEF Readings
<1>2. /\ e.id \in Strings /\ e.text \in Texts /\ e.ok \in BOOLEAN /\ e.blocks \in Seq(Blocks)
      /\ <<>> \in Texts /\ Blank \in Strings
  BY DEF Lines, Texts, Strings
<1>3. /\ extractAssistantTextFromContent(e.blocks) \in Texts
      /\ extractTextFromContent(e.blocks) \in Texts
  BY <1>2, BlocksSay
<1>4. \A n \in Nat : extractToolMessagesFromContent(e.blocks, n) \in Seq(Messages)
  <2>1. Seq(ToolMessages) \subseteq Seq(Messages)
    BY DEF ToolMessages
  <2> QED
    BY <1>2, <2>1, BlocksCall
<1>5. \A q \in Readings : [q EXCEPT !.turn = @ + 1] \in Readings
  BY DEF Readings
<1>6. \A more \in Seq(Messages) : Add(p, more) \in Readings /\ Add(p, more).turn = p.turn
  BY AddsParsed
<1>7. \A m \in Messages : <<m>> \in Seq(Messages)
  OBVIOUS
<1>8. \A a, b \in Seq(Messages) : a \o b \in Seq(Messages)
  OBVIOUS
<1>9. processClaudeAssistantEvent(p, e) \in Readings
  <2> DEFINE text == extractAssistantTextFromContent(e.blocks)
             role == IF e.apiError THEN "error" ELSE "assistant"
             more == extractToolMessagesFromContent(e.blocks, p.turn) \o Spoken(role, text, p.turn)
  <2>1. Spoken(role, text, p.turn) \in Seq(Messages)
    <3>1. role \in {"user", "assistant", "error"}
      OBVIOUS
    <3> HIDE DEF role, text
    <3> QED
      BY <1>1, <1>3, <3>1, SpokenTypes DEF text
  <2>2. more \in Seq(Messages)
    <3> HIDE DEF role, text
    <3> QED
      BY <1>1, <1>4, <1>8, <2>1
  <2> HIDE DEF more
  <2>3. Meter(Add(p, more), e) \in Readings
    BY <1>6, <2>2, MeterParsed
  <2> QED
    BY <2>3 DEF processClaudeAssistantEvent, more
<1>10. [Add(p, Spoken("user", extractTextFromContent(e.blocks), p.turn + 1) \o
               extractToolMessagesFromContent(e.blocks, p.turn + 1))
          EXCEPT !.turn = @ + 1] \in Readings
  <2> DEFINE said == Spoken("user", extractTextFromContent(e.blocks), p.turn + 1)
             more == said \o extractToolMessagesFromContent(e.blocks, p.turn + 1)
  <2>1. said \in Seq(Messages)
    BY <1>1, <1>3, SpokenTypes
  <2>2. more \in Seq(Messages)
    <3> HIDE DEF said
    <3> QED
      BY <1>1, <1>4, <1>8, <2>1
  <2> HIDE DEF more
  <2>3. [Add(p, more) EXCEPT !.turn = @ + 1] \in Readings
    BY <1>5, <1>6, <2>2
  <2> QED
    BY <2>3 DEF more
<1>11. Add(p, <<Message("tool_call", e.id, <<>>, p.turn)>>) \in Readings
  <2>1. Message("tool_call", e.id, <<>>, p.turn) \in Messages
    BY <1>1, <1>2, MessageTypes
  <2> QED
    BY <1>6, <1>7, <2>1
<1>12. Add(p, <<ToolResult(e.id, e.text, p.turn, e.ok)>>) \in Readings
  <2>1. ToolResult(e.id, e.text, p.turn, e.ok) \in Messages
    BY <1>1, <1>2, MessageTypes
  <2> QED
    BY <1>6, <1>7, <2>1
<1>13. Add(p, <<Message("error", Blank, extractTextFromContent(e.blocks), p.turn)>>) \in Readings
  <2>1. Message("error", Blank, extractTextFromContent(e.blocks), p.turn) \in Messages
    BY <1>1, <1>2, <1>3, MessageTypes
  <2> QED
    BY <1>6, <1>7, <2>1
<1>14. [p EXCEPT !.final = e.text] \in Readings
  BY <1>2 DEF Readings
<1>15. [p EXCEPT !.turn = @ + 1] \in Readings
  BY <1>5
<1> DEFINE user == [Add(p, Spoken("user", extractTextFromContent(e.blocks), p.turn + 1) \o
                           extractToolMessagesFromContent(e.blocks, p.turn + 1))
                      EXCEPT !.turn = @ + 1]
           error == Add(p, <<Message("error", Blank, extractTextFromContent(e.blocks), p.turn)>>)
           called == Add(p, <<Message("tool_call", e.id, <<>>, p.turn)>>)
           done == Add(p, <<ToolResult(e.id, e.text, p.turn, e.ok)>>)
<1>16. processClaudeEvent(p, e) \in
         {[p EXCEPT !.turn = @ + 1], user, processClaudeAssistantEvent(p, e), called, done,
          [p EXCEPT !.final = e.text], error, p}
  BY Zenon DEF processClaudeEvent
<1> HIDE DEF user, error, called, done
<1>17. user \in Readings /\ error \in Readings /\ called \in Readings /\ done \in Readings
  BY <1>10, <1>11, <1>12, <1>13 DEF user, error, called, done
<1> QED
  BY <1>9, <1>14, <1>15, <1>16, <1>17

LEMMA ClaudeReads ==
  ASSUME NEW G, NEW start \in G, NEW lines \in Seq(Lines),
         \A p \in G, e \in Lines : processClaudeEvent(p, e) \in G
  PROVE  After(processClaudeEvent, start, lines) \in G
<1> DEFINE Is(f) == f = [n \in 0..Len(lines) |->
                           IF n = 0 THEN start ELSE processClaudeEvent(f[n - 1], lines[n])]
           read == CHOOSE f : Is(f)
           step == [x \in G \X Lines |-> processClaudeEvent(x[1], x[2])]
<1>1. Len(lines) \in Nat /\ \A n \in 1..Len(lines) : lines[n] \in Lines
  OBVIOUS
<1>2. step \in [G \X Lines -> G]
  OBVIOUS
<1>3. \A p \in G, e \in Lines : step[<<p, e>>] = processClaudeEvent(p, e)
  OBVIOUS
<1> HIDE DEF step
<1>4. \E f : Is(f)
  <2>1. PICK f : Reads(f, start, lines, Len(lines), step, G)
    BY <1>2, ReadingExists
  <2>2. \A n \in 1..Len(lines) : f[n] = processClaudeEvent(f[n - 1], lines[n])
    <3>1. ASSUME NEW n \in 1..Len(lines) PROVE f[n] = processClaudeEvent(f[n - 1], lines[n])
      <4>1. f[n - 1] \in G /\ lines[n] \in Lines /\ f[n] = step[<<f[n - 1], lines[n]>>]
        <5>1. n - 1 \in 0..Len(lines)
          BY <1>1
        <5> QED
          BY <1>1, <2>1, <5>1 DEF Reads
      <4> QED
        BY <1>3, <4>1
    <3> QED
      BY <3>1
  <2>3. Is(f)
    <3>1. f = [n \in 0..Len(lines) |-> f[n]] /\ f[0] = start
      BY <2>1 DEF Reads
    <3>2. \A n \in 0..Len(lines) :
            f[n] = IF n = 0 THEN start ELSE processClaudeEvent(f[n - 1], lines[n])
      <4>1. \A n \in 0..Len(lines) : n = 0 \/ n \in 1..Len(lines)
        BY <1>1
      <4> QED
        BY <2>2, <3>1, <4>1
    <3> QED
      BY <3>1, <3>2
  <2> QED
    BY <2>3
<1>5. Is(read)
  BY <1>4
<1>6. After(processClaudeEvent, start, lines) = read[Len(lines)]
  BY DEF After
<1> HIDE DEF read
<1>7. /\ read[0] = start
      /\ \A n \in 1..Len(lines) : read[n] = processClaudeEvent(read[n - 1], lines[n])
  BY <1>1, <1>5
<1>8. \A n \in 1..Len(lines) : read[n - 1] \in G => read[n] \in G
  BY <1>1, <1>7
<1> QED
  BY <1>1, <1>6, <1>7, <1>8, ReadingStays

(* Nobody speaks without saying something.                                 *)
Mute(trans) == \A i \in DOMAIN trans : trans[i].role = "assistant" => trans[i].text = <<>>

(* parseSessionFile, whatever the file holds: without a final message no   *)
(* assistant message says anything.                                        *)
THEOREM ClaudeParsed ==
  ASSUME NEW lines \in Seq(Lines)
  PROVE  /\ parseSessionFile(lines) \in Readings
         /\ parseSessionFile(lines).final = <<>> => Mute(parseSessionFile(lines).trans)
<1> DEFINE G == Readings
           start == Started(lines)
           read == Readable(lines)
           p == After(processClaudeEvent, start, read)
           I == {i \in 1..Len(p.trans) : p.trans[i].role = "assistant" /\ p.trans[i].text # <<>>}
           last == SelectLastInSeq(p.trans, LAMBDA m : m.role = "assistant" /\ m.text # <<>>)
           q == parseSessionFile(lines)
<1>1. start \in G /\ read \in Seq(Lines) /\ \A r \in G, e \in Lines : processClaudeEvent(r, e) \in G
  BY StartParsed, ReadableLines, ClaudeStep
<1>2. p \in G
  <2> HIDE DEF G, start, read
  <2> QED
    BY <1>1, ClaudeReads
<1>3. q = IF p.final = <<>> /\ last # 0 THEN [p EXCEPT !.final = p.trans[last].text] ELSE p
  BY DEF parseSessionFile
<1>4. last = IF I = {} THEN 0 ELSE Max(I)
  BY DEF SelectLastInSeq
<1> HIDE DEF p, last, q
<1>5. p.trans \in Seq(Messages) /\ Len(p.trans) \in Nat /\ DOMAIN p.trans = 1..Len(p.trans)
  BY <1>2 DEF Readings
<1>6. ASSUME I # {} PROVE last \in I
  <2>1. I \in SUBSET (1..Len(p.trans))
    OBVIOUS
  <2> HIDE DEF I
  <2> QED
    BY <1>4, <1>5, <1>6, <2>1, Greatest
<1>7. CASE I = {}
  <2>1. q = p
    BY <1>3, <1>4, <1>7
  <2>2. Mute(p.trans)
    BY <1>5, <1>7 DEF Mute
  <2> QED
    BY <1>2, <2>1, <2>2 DEF q
<1>8. CASE I # {}
  <2>1. last # 0 /\ p.trans[last].text # <<>> /\ p.trans[last] \in Messages
    BY <1>5, <1>6, <1>8
  <2>2. p.trans[last].text \in Texts
    BY <2>1 DEF Messages
  <2>3. q \in Readings /\ q.final # <<>>
    BY <1>2, <1>3, <2>1, <2>2 DEF Readings
  <2> QED
    BY <2>3 DEF q
<1> QED
  BY <1>7, <1>8

-----------------------------------------------------------------------------
(* The chats of Qwen Code: whoever speaks as the assistant has the last    *)
(* word so far.                                                            *)
Voiceless(trans) == \A i \in DOMAIN trans : trans[i].role # "assistant"
QwenGood ==
  {p \in Readings :
     /\ p.final # <<>> => Spoke(p.trans, p.final)
     /\ p.final = <<>> => Voiceless(p.trans)}

LEMMA QwenAdds ==
  ASSUME NEW a \in Seq(Messages), NEW b \in Seq(Messages),
         \A i \in DOMAIN b : b[i].role # "assistant"
  PROVE  /\ a \o b \in Seq(Messages)
         /\ \A x : Spoke(a, x) => Spoke(a \o b, x)
         /\ Voiceless(a) => Voiceless(a \o b)
<1> DEFINE t == a \o b
<1>1. /\ t \in Seq(Messages) /\ Len(t) = Len(a) + Len(b) /\ Len(a) \in Nat /\ Len(b) \in Nat
      /\ DOMAIN a = 1..Len(a) /\ DOMAIN b = 1..Len(b) /\ DOMAIN t = 1..Len(t)
  OBVIOUS
<1>2. \A i \in DOMAIN a : i \in DOMAIN t /\ t[i] = a[i]
  OBVIOUS
<1>3. \A i \in DOMAIN t : i \in DOMAIN a \/ (i - Len(a) \in DOMAIN b /\ t[i] = b[i - Len(a)])
  OBVIOUS
<1> HIDE DEF t
<1>4. \A x : Spoke(a, x) => Spoke(t, x)
  BY <1>2 DEF Spoke
<1>5. Voiceless(a) => Voiceless(t)
  BY <1>2, <1>3 DEF Voiceless
<1> QED
  BY <1>1, <1>4, <1>5 DEF t

LEMMA QwenParts ==
  ASSUME NEW p \in QwenGood, NEW e \in Lines, NEW turn \in Nat
  PROVE  appendQwenMessageParts(p, e, turn) \in QwenGood
<1> DEFINE role == IF e.type = "user" THEN "user" ELSE "assistant"
           text == extractAssistantTextFromContent(e.blocks)
           tools == extractToolMessagesFromContent(e.blocks, turn)
           spoken == Spoken(role, text, turn)
           said == Add(p, tools \o spoken)
           t == p.trans \o (tools \o spoken)
           m == Message(role, Blank, text, turn)
<1>1. p \in Readings /\ p.trans \in Seq(Messages)
  BY DEF QwenGood, Readings
<1>2. text \in Texts
  BY BlocksSay DEF Lines
<1>3. tools \in Seq(ToolMessages)
  BY BlocksCall DEF Lines
<1>4. /\ spoken \in Seq(Messages)
      /\ text = <<>> => spoken = <<>>
      /\ text # <<>> => spoken = <<m>>
      /\ m \in Messages
  <2>1. role \in {"user", "assistant", "error"}
    OBVIOUS
  <2> HIDE DEF role, text
  <2> QED
    BY <1>2, <2>1, SpokenTypes
<1>5. m.role = role /\ m.text = text
  BY DEF Message
<1>6. appendQwenMessageParts(p, e, turn) =
        IF role = "assistant" /\ text # <<>> THEN [said EXCEPT !.final = text] ELSE said
  BY DEF appendQwenMessageParts
<1>7. role = "user" \/ role = "assistant"
  OBVIOUS
<1> HIDE DEF role, text, tools, spoken, m
<1>8. tools \in Seq(Messages) /\ \A i \in DOMAIN tools : tools[i].role # "assistant"
  BY <1>3 DEF ToolMessages
<1>9. tools \o spoken \in Seq(Messages)
  BY <1>4, <1>8
<1>10. /\ said \in Readings /\ said.trans = t /\ said.final = p.final
  BY <1>1, <1>9, AddsParsed
<1> HIDE DEF said
<1> DEFINE u == p.trans \o tools
<1>11. /\ u \in Seq(Messages) /\ \A x : Spoke(p.trans, x) => Spoke(u, x)
       /\ Voiceless(p.trans) => Voiceless(u)
  BY <1>1, <1>8, QwenAdds
<1>12. t = u \o spoken
  <2>1. \A a, b, c \in Seq(Messages) : (a \o b) \o c = a \o (b \o c)
    BY ConcatAssociative
  <2> QED
    BY <1>1, <1>4, <1>8, <2>1
<1> HIDE DEF t, u
<1>13. CASE text = <<>> \/ role = "user"
  <2>1. \A i \in DOMAIN spoken : spoken[i].role # "assistant"
    BY <1>4, <1>5, <1>7, <1>13
  <2>2. /\ \A x : Spoke(u, x) => Spoke(t, x)
        /\ Voiceless(u) => Voiceless(t)
    BY <1>4, <1>11, <1>12, <2>1, QwenAdds
  <2>3. (p.final # <<>> => Spoke(t, p.final)) /\ (p.final = <<>> => Voiceless(t))
    BY <1>11, <2>2 DEF QwenGood
  <2>4. said \in QwenGood
    BY <1>10, <2>3 DEF QwenGood
  <2> QED
    BY <1>6, <1>13, <2>4
<1>14. CASE text # <<>> /\ role = "assistant"
  <2>1. Spoke(t, text)
    <3>1. t = u \o <<m>>
      BY <1>4, <1>12, <1>14
    <3>2. Spoke(u \o <<m>>, m.text)
      BY <1>4, <1>5, <1>11, <1>14, OneMoreKeeps
    <3> QED
      BY <1>5, <3>1, <3>2
  <2>2. [said EXCEPT !.final = text] \in QwenGood
    BY <1>2, <1>10, <1>14, <2>1 DEF QwenGood, Readings
  <2> QED
    BY <1>6, <1>14, <2>2
<1> QED
  BY <1>7, <1>13, <1>14

LEMMA QwenStep ==
  ASSUME NEW p \in QwenGood, NEW e \in Lines
  PROVE  applyQwenLine(p, e) \in QwenGood
<1> DEFINE q == IF e.type = "user" THEN [p EXCEPT !.turn = @ + 1] ELSE p
           r == IF e.message THEN appendQwenMessageParts(q, e, Turn(q)) ELSE q
<1>1. q \in QwenGood
  BY DEF QwenGood, Readings
<1> HIDE DEF q
<1>2. Turn(q) \in Nat
  BY <1>1, TurnType DEF QwenGood
<1>3. r \in QwenGood
  BY <1>1, <1>2, QwenParts
<1>4. applyQwenLine(p, e) = IF e.type = "assistant" /\ e.message THEN Meter(r, e) ELSE r
  BY DEF applyQwenLine, q
<1> HIDE DEF r
<1>5. Meter(r, e) \in QwenGood
  BY <1>3, MeterParsed DEF QwenGood
<1> QED
  BY <1>3, <1>4, <1>5

LEMMA QwenReads ==
  ASSUME NEW G, NEW start \in G, NEW lines \in Seq(Lines),
         \A p \in G, e \in Lines : applyQwenLine(p, e) \in G
  PROVE  After(applyQwenLine, start, lines) \in G
<1> DEFINE Is(f) == f = [n \in 0..Len(lines) |->
                           IF n = 0 THEN start ELSE applyQwenLine(f[n - 1], lines[n])]
           read == CHOOSE f : Is(f)
           step == [x \in G \X Lines |-> applyQwenLine(x[1], x[2])]
<1>1. Len(lines) \in Nat /\ \A n \in 1..Len(lines) : lines[n] \in Lines
  OBVIOUS
<1>2. step \in [G \X Lines -> G]
  OBVIOUS
<1>3. \A p \in G, e \in Lines : step[<<p, e>>] = applyQwenLine(p, e)
  OBVIOUS
<1> HIDE DEF step
<1>4. \E f : Is(f)
  <2>1. PICK f : Reads(f, start, lines, Len(lines), step, G)
    BY <1>2, ReadingExists
  <2>2. \A n \in 1..Len(lines) : f[n] = applyQwenLine(f[n - 1], lines[n])
    <3>1. ASSUME NEW n \in 1..Len(lines) PROVE f[n] = applyQwenLine(f[n - 1], lines[n])
      <4>1. f[n - 1] \in G /\ lines[n] \in Lines /\ f[n] = step[<<f[n - 1], lines[n]>>]
        <5>1. n - 1 \in 0..Len(lines)
          BY <1>1
        <5> QED
          BY <1>1, <2>1, <5>1 DEF Reads
      <4> QED
        BY <1>3, <4>1
    <3> QED
      BY <3>1
  <2>3. Is(f)
    <3>1. f = [n \in 0..Len(lines) |-> f[n]] /\ f[0] = start
      BY <2>1 DEF Reads
    <3>2. \A n \in 0..Len(lines) :
            f[n] = IF n = 0 THEN start ELSE applyQwenLine(f[n - 1], lines[n])
      <4>1. \A n \in 0..Len(lines) : n = 0 \/ n \in 1..Len(lines)
        BY <1>1
      <4> QED
        BY <2>2, <3>1, <4>1
    <3> QED
      BY <3>1, <3>2
  <2> QED
    BY <2>3
<1>5. Is(read)
  BY <1>4
<1>6. After(applyQwenLine, start, lines) = read[Len(lines)]
  BY DEF After
<1> HIDE DEF read
<1>7. /\ read[0] = start
      /\ \A n \in 1..Len(lines) : read[n] = applyQwenLine(read[n - 1], lines[n])
  BY <1>1, <1>5
<1>8. \A n \in 1..Len(lines) : read[n - 1] \in G => read[n] \in G
  BY <1>1, <1>7
<1> QED
  BY <1>1, <1>6, <1>7, <1>8, ReadingStays

(* parseQwenSessionFile, whatever the file holds: the final message is one *)
(* the assistant says, and there is one as soon as the assistant says      *)
(* anything.                                                               *)
THEOREM QwenParsed ==
  ASSUME NEW lines \in Seq(Lines)
  PROVE  LET p == parseQwenSessionFile(lines)
         IN  /\ p \in Readings
             /\ p.final # <<>> => Spoke(p.trans, p.final)
             /\ p.final = <<>> => Mute(p.trans)
<1> DEFINE G == QwenGood
           start == Started(lines)
           read == Readable(lines)
           p == After(applyQwenLine, start, read)
           final == IF p.final = <<>> THEN FinalAssistantMessage(p.trans) ELSE p.final
           q == parseQwenSessionFile(lines)
<1>1. start \in G /\ read \in Seq(Lines) /\ \A r \in G, e \in Lines : applyQwenLine(r, e) \in G
  BY StartParsed, ReadableLines, QwenStep DEF QwenGood, Voiceless
<1>2. p \in G
  <2> HIDE DEF G, start, read
  <2> QED
    BY <1>1, QwenReads
<1>3. q = [p EXCEPT !.final = final]
  <2>1. q = [p EXCEPT !.final = IF @ = <<>> THEN FinalAssistantMessage(p.trans) ELSE @]
    BY DEF parseQwenSessionFile
  <2> HIDE DEF p, q
  <2> QED
    BY <1>2, <2>1 DEF QwenGood, Readings
<1> HIDE DEF p, q
<1>4. p.trans \in Seq(Messages) /\ p.final \in Texts
  BY <1>2 DEF QwenGood, Readings
<1>5. final \in Texts /\ (final # <<>> => Spoke(p.trans, final))
  BY <1>2, <1>4, FinalSaid DEF QwenGood
<1>6. final = <<>> => Mute(p.trans)
  BY <1>2 DEF QwenGood, Voiceless, Mute
<1> HIDE DEF final
<1>7. q \in Readings /\ q.trans = p.trans /\ q.final = final
  BY <1>2, <1>3, <1>5 DEF QwenGood, Readings
<1> QED
  BY <1>5, <1>6, <1>7 DEF q

-----------------------------------------------------------------------------
(* Where a call runs its CLI, delivers its prompt or would, and ends.      *)
RunsAt ==
  IF call.resume # Blank THEN [codex |-> 4, claude_code |-> 3, qodercli |-> 2][call.agent]
  ELSE [codex |-> 5, claude_code |-> 4, qodercli |-> 3, qwen_code |-> 4, cli |-> 2][call.agent]
PromptAt ==
  [codex |-> 4, claude_code |-> 3, qodercli |-> 2, qwen_code |-> 3, cli |-> 2][call.agent]
EndsAt == RunsAt + (IF call.agent = "codex" THEN 3 ELSE IF call.agent = "cli" THEN 0 ELSE 1)

EnginesType ==
  /\ call \in [agent : Agents, workspace : Workspaces, resume : {Blank, "old"},
               large : BOOLEAN, host : BOOLEAN, at : Nat]
  /\ call.resume # Blank => call.agent \in Resumers
  /\ \A f \in home : SessionFile(f)
  /\ CLIRun(ran) /\ ran.files \subseteq home
  /\ got = [p |-> got.p, source |-> got.source, sid |-> got.sid, errs |-> got.errs]
  /\ out.done \in BOOLEAN

OrderInv ==
  /\ call.at \in 1..EndsAt + 1
  /\ call.at <= RunsAt + 1 => got = NothingRead
  /\ ~out.done /\ call.at < PromptAt => temp = {}

(* What was read so far, up to the last message.                           *)
CodexReadInv ==
  call.agent = "codex" =>
    /\ got.p.final # <<>> => Spoke(got.p.trans, got.p.final)
    /\ got.source = {} => CallsFirst(got.p.trans)
    /\ call.at <= RunsAt + 3 => got.p \in Readings
    /\ call.at > RunsAt + 1 =>
         got.errs # {} \/ \A i \in DOMAIN ran.lines : ran.lines[i].type # "oversized"
OthersReadInv ==
  call.agent \in {"claude_code", "qwen_code"} =>
    /\ got.p \in Readings
    /\ got.p.final = <<>> => Mute(got.p.trans)
    /\ call.agent = "qwen_code" /\ got.p.final # <<>> => Spoke(got.p.trans, got.p.final)

EnginesInv ==
  /\ EnginesType /\ OrderInv /\ CodexReadInv /\ OthersReadInv
  /\ ConversationIsOurs /\ FailuresReported /\ AnswersAreSound

Prepares == {"shell", "node", "dir", "prompt"}
(* Every statement at its place: what prepares the call before the CLI     *)
(* runs, what reads its answer after.                                      *)
LEMMA Places ==
  ASSUME EnginesType
  PROVE  /\ RunsAt \in Nat /\ EndsAt \in Nat /\ PromptAt \in Nat
         /\ PromptAt <= RunsAt /\ RunsAt <= EndsAt /\ DOMAIN Todo = 1..EndsAt
         /\ call.agent = "codex" => EndsAt = RunsAt + 3
         /\ call.agent # "codex" => EndsAt <= RunsAt + 1
         /\ \A i \in 1..EndsAt :
              /\ Todo[i] \in {"shell", "node"} => i < PromptAt
              /\ Todo[i] = "dir" => i + 1 = PromptAt
              /\ Todo[i] = "prompt" => i < RunsAt
              /\ Todo[i] = "exec" => i = RunsAt
              /\ Todo[i] = "stdout" => i = RunsAt + 1 /\ call.agent = "codex"
              /\ Todo[i] = "session" =>
                   i = RunsAt + (IF call.agent = "codex" THEN 2 ELSE 1) /\ call.agent # "cli"
              /\ Todo[i] = "last" => i = RunsAt + 3 /\ call.agent = "codex"
<1>1. call.agent \in {"codex", "claude_code", "qodercli", "qwen_code", "cli"}
  BY AgentsKnown DEF EnginesType
<1>2. CASE call.agent = "codex" /\ call.resume = Blank
  <2>1. RunsAt = 5 /\ EndsAt = 8 /\ PromptAt = 4
        /\ Todo = <<"shell", "node", "dir", "prompt", "exec", "stdout", "session", "last">>
    BY <1>2 DEF RunsAt, EndsAt, PromptAt, Todo, Statements
  <2>2. \A i \in 1..8 : i \in {1, 2, 3, 4, 5, 6, 7, 8}
    OBVIOUS
  <2> QED
    BY <1>2, <2>1, <2>2
<1>3. CASE call.agent = "codex" /\ call.resume # Blank
  <2>1. RunsAt = 4 /\ EndsAt = 7 /\ PromptAt = 4
        /\ Todo = <<"shell", "node", "dir", "exec", "stdout", "session", "last">>
    BY <1>3 DEF RunsAt, EndsAt, PromptAt, Todo, Resuming
  <2>2. \A i \in 1..7 : i \in {1, 2, 3, 4, 5, 6, 7}
    OBVIOUS
  <2> QED
    BY <1>3, <2>1, <2>2
<1>4. CASE call.agent \in {"claude_code", "qwen_code"} /\ call.resume = Blank
  <2>1. RunsAt = 4 /\ EndsAt = 5 /\ PromptAt = 3
        /\ Todo = <<"shell", "node", "prompt", "exec", "session">>
    BY <1>4 DEF RunsAt, EndsAt, PromptAt, Todo, Statements
  <2>2. \A i \in 1..5 : i \in {1, 2, 3, 4, 5}
    OBVIOUS
  <2> QED
    BY <1>4, <2>1, <2>2
<1>5. CASE call.agent = "claude_code" /\ call.resume # Blank
  <2>1. RunsAt = 3 /\ EndsAt = 4 /\ PromptAt = 3
        /\ Todo = <<"shell", "node", "exec", "session">>
    BY <1>5 DEF RunsAt, EndsAt, PromptAt, Todo, Resuming
  <2>2. \A i \in 1..4 : i \in {1, 2, 3, 4}
    OBVIOUS
  <2> QED
    BY <1>5, <2>1, <2>2
<1>6. CASE call.agent = "qodercli" /\ call.resume = Blank
  <2>1. RunsAt = 3 /\ EndsAt = 4 /\ PromptAt = 2
        /\ Todo = <<"shell", "prompt", "exec", "session">>
    BY <1>6 DEF RunsAt, EndsAt, PromptAt, Todo, Statements
  <2>2. \A i \in 1..4 : i \in {1, 2, 3, 4}
    OBVIOUS
  <2> QED
    BY <1>6, <2>1, <2>2
<1>7. CASE call.agent = "qodercli" /\ call.resume # Blank
  <2>1. RunsAt = 2 /\ EndsAt = 3 /\ PromptAt = 2
        /\ Todo = <<"shell", "exec", "session">>
    BY <1>7 DEF RunsAt, EndsAt, PromptAt, Todo, Resuming
  <2>2. \A i \in 1..3 : i \in {1, 2, 3}
    OBVIOUS
  <2> QED
    BY <1>7, <2>1, <2>2
<1>8. CASE call.agent = "cli" /\ call.resume = Blank
  <2>1. RunsAt = 2 /\ EndsAt = 2 /\ PromptAt = 2 /\ Todo = <<"shell", "exec">>
    BY <1>8 DEF RunsAt, EndsAt, PromptAt, Todo, Statements
  <2>2. \A i \in 1..2 : i \in {1, 2}
    OBVIOUS
  <2> QED
    BY <1>8, <2>1, <2>2
<1>9. call.resume # Blank => call.agent \in {"codex", "claude_code", "qodercli"}
  BY DEF EnginesType, Resumers, Resuming
<1> QED
  BY <1>1, <1>2, <1>3, <1>4, <1>5, <1>6, <1>7, <1>8, <1>9

(* What a call starts with.                                                *)
LEMMA AtFirst ==
  /\ NothingParsed \in Readings /\ NothingParsed.final = <<>> /\ NothingParsed.trans = <<>>
  /\ NothingRead.p = NothingParsed /\ NothingRead.source = {} /\ NothingRead.errs = {}
  /\ CLIRun(NotRun) /\ NotRun.files = {}
<1>1. [key \in {} |-> 0] \in Opens
  <2>1. [key \in {} |-> 0] \in [{} -> Nat] /\ {} \in SUBSET (Strings \X Strings)
    OBVIOUS
  <2> QED
    BY <2>1 DEF Opens
<1>2. NothingParsed \in Readings /\ NothingParsed.final = <<>> /\ NothingParsed.trans = <<>>
  <2> DEFINE open == [key \in {} |-> 0]
  <2>1. NothingParsed = [turn |-> 0, thread |-> Blank, trans |-> <<>>, final |-> <<>>, in |-> 0,
                         out |-> 0, open |-> open, whole |-> TRUE]
    BY DEF NothingParsed
  <2> HIDE DEF open
  <2>2. <<>> \in Texts /\ <<>> \in Seq(Messages) /\ Blank \in Strings
    BY DEF Texts, Strings
  <2> QED
    BY <1>1, <2>1, <2>2 DEF Readings, open
<1>3. CLIRun(NotRun) /\ NotRun.files = {}
  BY DEF CLIRun, NotRun, Texts
<1> QED
  BY <1>2, <1>3 DEF NothingRead, NoSource

LEMMA EnginesStart == EnginesInit => EnginesInv
<1> SUFFICES ASSUME EnginesInit PROVE EnginesInv
  OBVIOUS
<1>1. EnginesType
  BY HomesKnown, AtFirst DEF EnginesInit, EnginesType, Calls, NothingRead, Pending
<1>2. got = NothingRead /\ ~out.done /\ temp = {} /\ call.at = 1
  BY DEF EnginesInit, Pending, Calls
<1>3. OrderInv
  BY <1>1, <1>2, Places DEF OrderInv
<1>4. CodexReadInv
  BY <1>1, <1>2, AtFirst, Places DEF CodexReadInv, CallsFirst
<1>5. OthersReadInv
  BY <1>2, AtFirst DEF OthersReadInv, Mute
<1>6. ConversationIsOurs /\ FailuresReported /\ AnswersAreSound
  BY <1>2, AtFirst DEF ConversationIsOurs, FailuresReported, AnswersAreSound
<1> QED
  BY <1>1, <1>3, <1>4, <1>5, <1>6 DEF EnginesInv

-----------------------------------------------------------------------------
(* Steps that keep to the same call.                                       *)
SameCall ==
  /\ call'.agent = call.agent /\ call'.workspace = call.workspace
  /\ call'.resume = call.resume

LEMMA SamePlaces ==
  ASSUME SameCall
  PROVE  RunsAt' = RunsAt /\ PromptAt' = PromptAt /\ EndsAt' = EndsAt
BY DEF SameCall, RunsAt, PromptAt, EndsAt

(* The next statement of the same call.                                    *)
LEMMA Advances ==
  ASSUME EnginesInv, call.at \in DOMAIN Todo, Advance
  PROVE  /\ SameCall /\ call'.at = call.at + 1 /\ call.at \in Nat
         /\ call' \in [agent : Agents, workspace : Workspaces, resume : {Blank, "old"},
                       large : BOOLEAN, host : BOOLEAN, at : Nat]
         /\ call'.resume # Blank => call'.agent \in Resumers
         /\ call'.at \in 1..EndsAt + 1
<1>1. call.at \in 1..EndsAt /\ EndsAt \in Nat
  BY Places DEF EnginesInv
<1> QED
  BY <1>1 DEF EnginesInv, EnginesType, Advance, SameCall

(* Before the CLI runs nothing has been read.                              *)
LEMMA Prepared ==
  ASSUME EnginesInv, ~out.done, call.at \in DOMAIN Todo, call.at < RunsAt, Advance,
         UNCHANGED <<home, ran, got, out>>, temp' = temp \/ call.at + 1 >= PromptAt
  PROVE  EnginesInv'
<1>1. /\ SameCall /\ call'.at = call.at + 1 /\ call.at \in Nat /\ got = NothingRead
      /\ RunsAt \in Nat /\ PromptAt \in Nat
  BY Advances, Places DEF EnginesInv, OrderInv
<1>2. RunsAt' = RunsAt /\ PromptAt' = PromptAt /\ EndsAt' = EndsAt
  BY <1>1, SamePlaces
<1>3. EnginesType'
  BY Advances DEF EnginesInv, EnginesType
<1>4. OrderInv'
  BY <1>1, <1>2, Advances DEF EnginesInv, OrderInv
<1>5. CodexReadInv'
  BY <1>1, <1>2 DEF EnginesInv, CodexReadInv, SameCall
<1>6. OthersReadInv'
  BY <1>1 DEF EnginesInv, OthersReadInv, SameCall
<1>7. ConversationIsOurs'
  <2>1. got'.source = {}
    BY <1>1, AtFirst
  <2> QED
    BY <2>1 DEF ConversationIsOurs
<1>8. FailuresReported' /\ AnswersAreSound'
  BY DEF FailuresReported, AnswersAreSound
<1> QED
  BY <1>3, <1>4, <1>5, <1>6, <1>7, <1>8 DEF EnginesInv

(* A call that ends without a change of what was read.                     *)
LEMMA Ends ==
  ASSUME EnginesInv, UNCHANGED <<call, home, ran, got>>, out'.done = TRUE
  PROVE  EnginesType' /\ OrderInv' /\ CodexReadInv' /\ OthersReadInv' /\ ConversationIsOurs'
<1>1. RunsAt' = RunsAt /\ PromptAt' = PromptAt /\ EndsAt' = EndsAt
  BY SamePlaces DEF SameCall
<1>2. EnginesType'
  BY DEF EnginesInv, EnginesType
<1>3. OrderInv'
  BY <1>1 DEF EnginesInv, OrderInv
<1>4. CodexReadInv'
  BY <1>1 DEF EnginesInv, CodexReadInv
<1>5. OthersReadInv'
  BY DEF EnginesInv, OthersReadInv
<1>6. ConversationIsOurs'
  BY DEF EnginesInv, ConversationIsOurs, WrittenHere
<1> QED
  BY <1>2, <1>3, <1>4, <1>5, <1>6

LEMMA NothingSaid == \A trans : trans = <<>> => DOMAIN trans = {}
OBVIOUS

(* A call that ends before its CLI ran reports an error and says nothing.  *)
LEMMA FailsEarly ==
  ASSUME EnginesInv, NEW errs, errs # {}, NEW result \in {NoResult, FailedEarly},
         Return(result, errs), temp' \subseteq {"unremoved", "unknown dir"},
         UNCHANGED <<call, home, ran, got>>
  PROVE  EnginesInv'
<1>1. out'.result = result /\ out'.errs = errs /\ out'.done = TRUE
  BY DEF Return
<1>2. FailuresReported'
  BY <1>1 DEF FailuresReported
<1>3. result.trans = <<>> /\ result.final = <<>>
  <2>1. NoResult.trans = <<>> /\ NoResult.final = <<>>
    BY DEF NoResult
  <2>2. NoResult = [session |-> NoResult.session, exit |-> NoResult.exit, trans |-> NoResult.trans,
                    final |-> NoResult.final, none |-> NoResult.none]
    BY DEF NoResult
  <2>3. FailedEarly.trans = NoResult.trans /\ FailedEarly.final = NoResult.final
    BY <2>2 DEF FailedEarly
  <2> QED
    BY <2>1, <2>3
<1>4. AnswersAreSound'
  <2>1. DOMAIN result.trans = {}
    BY <1>3, NothingSaid
  <2>2. Said(result) = {}
    BY <2>1 DEF Said
  <2> QED
    BY <1>1, <1>3, <2>1, <2>2 DEF AnswersAreSound
<1> QED
  BY <1>1, <1>2, <1>4, Ends DEF EnginesInv

(* One lemma per group of actions.                                         *)
LEMMA PreparingSteps ==
  ASSUME EnginesInv, RequireBash \/ ensureNodeRuntime \/ prepareCodexRunArtifacts \/ deliverPrompt
  PROVE  EnginesInv'
<1>1. /\ ~out.done /\ call.at \in DOMAIN Todo /\ call.at \in Nat
      /\ RunsAt \in Nat /\ PromptAt \in Nat /\ PromptAt <= RunsAt
      /\ Todo[call.at] \in {"shell", "node"} => call.at < PromptAt
      /\ Todo[call.at] = "dir" => call.at + 1 = PromptAt
      /\ Todo[call.at] = "prompt" => call.at < RunsAt
  <2>1. ~out.done /\ call.at \in DOMAIN Todo
    BY DEF RequireBash, ensureNodeRuntime, prepareCodexRunArtifacts, deliverPrompt, At
  <2>2. EnginesType
    BY DEF EnginesInv
  <2> QED
    BY <2>1, <2>2, Places
<1>2. CASE RequireBash
  <2>1. Todo[call.at] = "shell" /\ temp = {}
    BY <1>1, <1>2 DEF RequireBash, At, EnginesInv, OrderInv
  <2>2. CASE Advance /\ UNCHANGED <<home, temp, ran, got, out>>
    BY <1>1, <2>1, <2>2, Prepared
  <2>3. CASE Return(NoResult, {"shell"}) /\ UNCHANGED <<call, home, temp, ran, got>>
    BY <2>1, <2>3, FailsEarly
  <2> QED
    BY <1>2, <2>2, <2>3 DEF RequireBash
<1>3. CASE ensureNodeRuntime
  <2>1. Todo[call.at] = "node" /\ temp = {}
    BY <1>1, <1>3 DEF ensureNodeRuntime, At, EnginesInv, OrderInv
  <2>2. CASE Advance /\ UNCHANGED <<home, temp, ran, got, out>>
    BY <1>1, <2>1, <2>2, Prepared
  <2>3. CASE Return(FailedEarly, {"node"}) /\ UNCHANGED <<call, home, temp, ran, got>>
    BY <2>1, <2>3, FailsEarly
  <2> QED
    BY <1>3, <2>2, <2>3 DEF ensureNodeRuntime
<1>4. CASE prepareCodexRunArtifacts
  <2>1. Todo[call.at] = "dir" /\ call.at < PromptAt /\ call.at + 1 >= PromptAt
        /\ call.at < RunsAt
    <3>1. Todo[call.at] = "dir"
      BY <1>4 DEF prepareCodexRunArtifacts, At
    <3>2. call.at + 1 = PromptAt
      BY <1>1, <3>1
    <3> QED
      BY <1>1, <3>1, <3>2
  <2>1a. temp = {}
    BY <1>1, <2>1 DEF EnginesInv, OrderInv
  <2>2. CASE Advance /\ temp' = {"run dir"} /\ UNCHANGED <<home, ran, got, out>>
    BY <1>1, <2>1, <2>2, Prepared
  <2>3. CASE Return(NoResult, {"dir"}) /\ temp' \in {{}, {"unknown dir"}}
             /\ UNCHANGED <<call, home, ran, got>>
    BY <2>1a, <2>3, FailsEarly
  <2> QED
    BY <1>4, <2>2, <2>3 DEF prepareCodexRunArtifacts
<1>5. CASE deliverPrompt
  <2>1. Todo[call.at] = "prompt"
    BY <1>1, <1>5 DEF deliverPrompt, At
  <2>2. CASE Advance /\ UNCHANGED <<home, temp, ran, got, out>>
    BY <1>1, <2>1, <2>2, Prepared
  <2>3. CASE Return(FailedEarly, {"prompt"}) /\ temp' \in RunDirAfterCleanup
             /\ UNCHANGED <<call, home, ran, got>>
    <3>1. temp' \subseteq {"unremoved", "unknown dir"}
      BY <2>3 DEF RunDirAfterCleanup
    <3> QED
      BY <2>3, <3>1, FailsEarly
  <2> QED
    BY <1>5, <2>2, <2>3 DEF deliverPrompt
<1> QED
  BY <1>2, <1>3, <1>4, <1>5

LEMMA ExecStep ==
  ASSUME EnginesInv, Exec
  PROVE  EnginesInv'
<1>1. /\ ~out.done /\ call.at \in DOMAIN Todo /\ call.at = RunsAt /\ Advance
      /\ UNCHANGED <<temp, got, out>>
  BY Places DEF EnginesInv, Exec, At
<1>2. /\ SameCall /\ call'.at = call.at + 1 /\ call.at \in Nat /\ got = NothingRead
      /\ RunsAt \in Nat /\ PromptAt \in Nat /\ PromptAt <= RunsAt
  BY <1>1, Advances, Places DEF EnginesInv, OrderInv
<1>3. RunsAt' = RunsAt /\ PromptAt' = PromptAt /\ EndsAt' = EndsAt
  BY <1>2, SamePlaces
<1>4. PICK o \in Outcomes[call.agent] :
        /\ ran' = o
        /\ home' = {f \in home : \A g \in o.files : g.name # f.name} \cup o.files
  BY DEF Exec
<1>5. CLIRun(o)
  BY OutcomesKnown DEF EnginesInv, EnginesType
<1>6. EnginesType'
  <2>1. \A f \in home' : SessionFile(f)
    BY <1>4, <1>5 DEF EnginesInv, EnginesType, CLIRun
  <2>2. CLIRun(ran)' /\ ran'.files \subseteq home'
    BY <1>4, <1>5 DEF CLIRun
  <2> QED
    BY <1>1, <2>1, <2>2, Advances DEF EnginesInv, EnginesType
<1>7. OrderInv'
  BY <1>1, <1>2, <1>3, Advances DEF EnginesInv, OrderInv
<1>8. CodexReadInv'
  <2>1. ~(call'.at > RunsAt' + 1)
    BY <1>1, <1>2, <1>3
  <2> QED
    BY <1>1, <1>2, <1>3, <2>1 DEF EnginesInv, CodexReadInv, SameCall
<1>9. OthersReadInv'
  BY <1>1, <1>2 DEF EnginesInv, OthersReadInv, SameCall
<1>10. ConversationIsOurs'
  <2>1. got'.source = {}
    BY <1>1, <1>2, AtFirst
  <2> QED
    BY <2>1 DEF ConversationIsOurs
<1>11. FailuresReported' /\ AnswersAreSound'
  BY <1>1 DEF FailuresReported, AnswersAreSound
<1> QED
  BY <1>6, <1>7, <1>8, <1>9, <1>10, <1>11 DEF EnginesInv

-----------------------------------------------------------------------------
(* What the search finds.                                                  *)
OfThisCall(f) ==
  call.agent # "codex" =>
    /\ \/ f.owner = call.workspace
       \/ \A g \in Candidates(InTree(home, call.agent), call.workspace,
                              Depth[call.agent]) : g.cwd = Blank
    /\ WrittenHere # {} => f \in ran.files

(* The search finds files of this call's workspace, as far as files say    *)
(* where they were written, and the one the CLI just wrote when that       *)
(* records its workspace and is newer than those of others.                *)
LEMMA SessionFound ==
  ASSUME EnginesInv, NEW f \in SessionFiles
  PROVE  f \in home /\ OfThisCall(f)
<1> DEFINE tree == InTree(home, call.agent)
           depth == Depth[call.agent]
           here == Candidates(tree, call.workspace, depth)
           anywhere == {g \in tree : g.depth \in 0..depth}
           own == Recording(here, call.workspace)
           kept == Kept(tree, call.workspace, depth)
<1>1. CASE call.agent = "codex"
  BY <1>1 DEF SessionFiles, findCodexSessionPath, InTree, OfThisCall
<1>2. CASE call.agent # "codex"
  <2>1. f \in Newest(kept)
    BY <1>2 DEF SessionFiles, findAgentSessionJSONL
  <2>2. kept = IF here = {} THEN Recording(anywhere, call.workspace)
               ELSE IF own # {} THEN own
               ELSE IF AnyRecordsCwd(here) THEN {} ELSE here
    BY DEF Kept
  <2>3. here \subseteq tree /\ anywhere \subseteq tree /\ tree \subseteq home /\ own \subseteq here
    BY DEF Candidates, InTree, Recording
  <2>4. \A g \in home : g.cwd \in {Blank, g.owner} /\ g.mtime \in Nat
    BY DEF EnginesInv, EnginesType, SessionFile
  <2>5. call.workspace # Blank
    BY WorkspacesNamed DEF EnginesInv, EnginesType
  <2>6. \A g \in home : g.cwd = call.workspace => g.owner = call.workspace
    BY <2>4, <2>5
  <2>7. f \in kept /\ \A g \in kept : g.mtime <= f.mtime
    BY <2>1 DEF Newest
  <2>8. \A S : Recording(S, call.workspace) = {g \in S : g.cwd = call.workspace}
    BY DEF Recording
  <2>9. kept \subseteq home
    BY <2>2, <2>3, <2>8
  <2>10. \/ f.owner = call.workspace
         \/ \A g \in here : g.cwd = Blank
    <3> HIDE DEF here, anywhere, own, kept, tree
    <3>1. CASE here = {}
      BY <3>1
    <3>2. CASE here # {} /\ own # {}
      BY <2>2, <2>3, <2>6, <2>7, <2>8, <3>2 DEF own
    <3>3. CASE here # {} /\ own = {}
      <4>1. ~AnyRecordsCwd(here)
        BY <2>2, <2>7, <3>3
      <4> QED
        BY <4>1 DEF AnyRecordsCwd
    <3> QED
      BY <3>1, <3>2, <3>3
  <2>11. ASSUME WrittenHere # {} PROVE f \in ran.files
    <3>1. PICK h \in Recording(Candidates(InTree(ran.files, call.agent), call.workspace, depth),
                               call.workspace) :
            \A g \in home \ ran.files : g.mtime < h.mtime
      BY <2>11 DEF WrittenHere
    <3>2. ran.files \subseteq home
      BY DEF EnginesInv, EnginesType
    <3>3. h \in here /\ h.cwd = call.workspace /\ h \in home
      BY <3>1, <3>2 DEF Recording, Candidates, InTree
    <3>4. h \in own /\ here # {}
      BY <3>3 DEF Recording
    <3>5. h \in kept
      <4> HIDE DEF here, anywhere, own, kept
      <4> QED
        BY <2>2, <3>4
    <3>6. h.mtime <= f.mtime /\ h.mtime \in Nat /\ f.mtime \in Nat /\ f \in home
      BY <2>4, <2>7, <2>9, <3>3, <3>5
    <3> QED
      BY <3>1, <3>6
  <2>12. f \in home
    BY <2>7, <2>9
  <2> QED
    BY <1>2, <2>10, <2>11, <2>12 DEF OfThisCall
<1> QED
  BY <1>1, <1>2

(* Reading on: the file an answer comes from is kept, or the one just      *)
(* found; the conversation does not change.                                *)
LEMMA ReadingOn ==
  ASSUME EnginesInv, ~out.done, call.at \in DOMAIN Todo, call.at > RunsAt, Advance,
         UNCHANGED <<home, ran, out>>,
         got' = [p |-> got'.p, source |-> got'.source, sid |-> got'.sid, errs |-> got'.errs],
         got'.source = got.source \/ \E f \in SessionFiles : got'.source = {f},
         call.agent = "codex" => got.source = {} \/ got'.p.thread = got.p.thread,
         call.agent = "codex" => got'.source = got.source \/ got'.p.thread = got.p.thread
  PROVE  /\ EnginesType' /\ OrderInv' /\ ConversationIsOurs'
         /\ FailuresReported' /\ AnswersAreSound'
         /\ SameCall /\ call'.at = call.at + 1 /\ call.at \in Nat
         /\ RunsAt' = RunsAt /\ RunsAt \in Nat
<1>1. /\ SameCall /\ call'.at = call.at + 1 /\ call.at \in Nat
      /\ RunsAt \in Nat /\ PromptAt \in Nat /\ PromptAt <= RunsAt
  BY Advances, Places DEF EnginesInv, OrderInv
<1>2. RunsAt' = RunsAt /\ PromptAt' = PromptAt /\ EndsAt' = EndsAt
  BY <1>1, SamePlaces
<1>3. EnginesType'
  BY Advances DEF EnginesInv, EnginesType
<1>4. OrderInv'
  BY <1>1, <1>2, Advances DEF EnginesInv, OrderInv
<1>5. ConversationIsOurs'
  <2>1. \A f \in got'.source : f \in got.source \/ f \in SessionFiles
    OBVIOUS
  <2>2. \A f \in got.source : OfThisCall(f)
    BY DEF EnginesInv, ConversationIsOurs, OfThisCall
  <2>3. \A f \in got'.source : OfThisCall(f)
    BY <2>1, <2>2, SessionFound
  <2>4. call.agent = "codex" /\ got'.source # {} => got'.p.thread = got.p.thread
    OBVIOUS
  <2>5. WrittenHere' = WrittenHere
    BY <1>1 DEF WrittenHere, SameCall
  <2> QED
    BY <1>1, <2>3, <2>4, <2>5 DEF ConversationIsOurs, OfThisCall, SameCall
<1>6. FailuresReported' /\ AnswersAreSound'
  BY DEF FailuresReported, AnswersAreSound
<1> QED
  BY <1>1, <1>2, <1>3, <1>4, <1>5, <1>6

LEMMA StdoutStep ==
  ASSUME EnginesInv, ReadCodexStdout
  PROVE  EnginesInv'
<1>1. /\ ~out.done /\ call.at \in DOMAIN Todo /\ Todo[call.at] = "stdout" /\ Advance
      /\ UNCHANGED <<home, ran, out>>
  BY DEF ReadCodexStdout, At
<1>2. call.at = RunsAt + 1 /\ call.agent = "codex" /\ call.at > RunsAt /\ RunsAt \in Nat
  BY <1>1, Places DEF EnginesInv
<1>3. got = NothingRead
  BY <1>2 DEF EnginesInv, OrderInv
<1> DEFINE p == parseCodexOutput(ran.lines)
           bad == IF p.whole THEN {} ELSE {"stdout record"}
<1>4. /\ p \in CodexGood(Started(ran.lines).whole)
      /\ p.whole => \A i \in DOMAIN ran.lines : ran.lines[i].type # "oversized"
  <2>1. ran.lines \in Seq(Lines)
    BY DEF EnginesInv, EnginesType, CLIRun
  <2> QED
    BY <2>1, CodexParsed
<1>5. got = [p |-> NothingParsed, source |-> {}, sid |-> Blank, errs |-> {}]
  BY <1>3 DEF NothingRead, NoSource
<1>6. CASE got' = [got EXCEPT !.errs = @ \cup {"stdout unread"}]
  <2>1. got' = [p |-> NothingParsed, source |-> {}, sid |-> Blank, errs |-> {"stdout unread"}]
    BY <1>5, <1>6
  <2>2. /\ EnginesType' /\ OrderInv' /\ ConversationIsOurs' /\ FailuresReported' /\ AnswersAreSound'
        /\ SameCall /\ call'.at = call.at + 1 /\ call.at \in Nat /\ RunsAt' = RunsAt
    BY <1>1, <1>2, <1>5, <2>1, ReadingOn
  <2>3. CodexReadInv'
    <3>1. CallsFirst(NothingParsed.trans)
      BY AtFirst DEF CallsFirst
    <3>2. got'.p = NothingParsed /\ got'.errs # {}
      BY <2>1
    <3> QED
      BY <3>1, <3>2, AtFirst DEF CodexReadInv
  <2>4. OthersReadInv'
    BY <1>2, <2>2 DEF OthersReadInv, SameCall
  <2> QED
    BY <2>2, <2>3, <2>4 DEF EnginesInv
<1>7. ASSUME NEW persist, got' = [got EXCEPT !.p = p, !.errs = @ \cup bad \cup persist]
      PROVE  EnginesInv'
  <2> HIDE DEF p
  <2>1. got' = [p |-> p, source |-> {}, sid |-> Blank, errs |-> bad \cup persist]
    BY <1>5, <1>7
  <2>2. /\ EnginesType' /\ OrderInv' /\ ConversationIsOurs' /\ FailuresReported' /\ AnswersAreSound'
        /\ SameCall /\ call'.at = call.at + 1 /\ call.at \in Nat /\ RunsAt' = RunsAt
    BY <1>1, <1>2, <1>5, <2>1, ReadingOn
  <2>3. CodexReadInv'
    BY <1>1, <1>4, <2>1 DEF CodexReadInv, CodexGood
  <2>4. OthersReadInv'
    BY <1>2, <2>2 DEF OthersReadInv, SameCall
  <2> QED
    BY <2>2, <2>3, <2>4 DEF EnginesInv
<1> QED
  BY <1>6, <1>7 DEF ReadCodexStdout

LEMMA SessionOfCodex ==
  ASSUME EnginesInv, ReadSession, call.agent = "codex"
  PROVE  EnginesInv'
<1>1. /\ ~out.done /\ call.at \in DOMAIN Todo /\ Todo[call.at] = "session" /\ Advance
      /\ UNCHANGED <<home, ran, out>>
  BY DEF ReadSession, At
<1>2. call.at = RunsAt + 2 /\ call.at > RunsAt /\ RunsAt \in Nat
  BY <1>1, Places DEF EnginesInv
<1>3. /\ got.p \in Readings /\ (got.p.final # <<>> => Spoke(got.p.trans, got.p.final))
      /\ got.source = {} => CallsFirst(got.p.trans)
      /\ got.errs # {} \/ \A i \in DOMAIN ran.lines : ran.lines[i].type # "oversized"
  BY <1>2 DEF EnginesInv, CodexReadInv
<1>4. got = [p |-> got.p, source |-> got.source, sid |-> got.sid, errs |-> got.errs]
  BY DEF EnginesInv, EnginesType
<1> DEFINE Unmoved == got'.p = got.p /\ got'.source = got.source
           Taken(s, f) == /\ got'.p = [s EXCEPT !.thread = got.p.thread] /\ s \in AnswerGood
                          /\ f \in SessionFiles /\ got'.source = {f}
           Shape == got' = [p |-> got'.p, source |-> got'.source, sid |-> got'.sid,
                            errs |-> got'.errs]
<1>5. /\ got.errs \subseteq got'.errs /\ Shape
      /\ Unmoved \/ \E s, f : Taken(s, f)
  <2>1. Base = got
    BY DEF Base
  <2>2. CASE got' = Base
    BY <1>4, <2>1, <2>2
  <2>3. ASSUME NEW f \in SessionFiles,
               LET named == [Base EXCEPT !.sid = IF call.agent = "qodercli" /\ @ = Blank
                                                 THEN f.thread ELSE @]
               IN  \/ got' = named
                   \/ got' = [named EXCEPT !.errs = @ \cup {"session size"}]
                   \/ got' = Applied(named, Parse(call.agent, f.lines), f)
        PROVE  /\ got.errs \subseteq got'.errs /\ Shape
               /\ Unmoved \/ \E s, g : Taken(s, g)
    <3> DEFINE named == [Base EXCEPT !.sid = IF call.agent = "qodercli" /\ @ = Blank THEN f.thread
                                             ELSE @]
               s == parseCodexSessionFile(f.lines)
    <3>1. named = got
      BY <1>4, <2>1
    <3> HIDE DEF named
    <3>2. Parse(call.agent, f.lines) = s
      BY DEF Parse
    <3>3. s \in AnswerGood
      <4>1. f.lines \in Seq(Lines)
        BY SessionFound DEF EnginesInv, EnginesType, SessionFile
      <4> QED
        BY <4>1, CodexSessionParsed
    <3> HIDE DEF s
    <3>4. CASE got' = named
      BY <1>4, <3>1, <3>4
    <3>5. CASE got' = [named EXCEPT !.errs = @ \cup {"session size"}]
      <4>1. got' = [p |-> got.p, source |-> got.source, sid |-> got.sid,
                    errs |-> got.errs \cup {"session size"}]
        BY <1>4, <3>1, <3>5
      <4> QED
        BY <4>1
    <3>6. CASE got' = Applied(named, s, f)
      <4>1. Applied(got, s, f) =
              [got EXCEPT !.errs = IF s.whole THEN @ ELSE @ \cup {"session record"},
                          !.source = IF PrefersSession(s) THEN {f} ELSE @,
                          !.p = IF PrefersSession(s) THEN [s EXCEPT !.thread = got.p.thread]
                                ELSE @]
        BY DEF Applied
      <4> DEFINE errs == IF s.whole THEN got.errs ELSE got.errs \cup {"session record"}
                 t == [s EXCEPT !.thread = got.p.thread]
      <4>2. got' = [p |-> IF PrefersSession(s) THEN t ELSE got.p,
                    source |-> IF PrefersSession(s) THEN {f} ELSE got.source,
                    sid |-> got.sid, errs |-> errs]
        BY <1>4, <3>1, <3>6, <4>1
      <4>3. got.errs \subseteq errs
        OBVIOUS
      <4> HIDE DEF errs, t
      <4>4. got.errs \subseteq got'.errs /\ Shape
        BY <4>2, <4>3
      <4>5. CASE PrefersSession(s)
        <5>1. got'.p = t /\ got'.source = {f}
          BY <4>2, <4>5
        <5>2. Taken(s, f)
          BY <3>3, <5>1 DEF t
        <5> HIDE DEF Taken, Shape
        <5> QED
          BY <4>4, <5>2
      <4>6. CASE ~PrefersSession(s)
        BY <4>2, <4>4, <4>6
      <4> QED
        BY <4>5, <4>6
    <3> HIDE DEF Unmoved, Shape, Taken
    <3> QED
      BY <2>3, <3>2, <3>4, <3>5, <3>6 DEF named
  <2> HIDE DEF Unmoved, Shape, Taken
  <2> QED
    BY <2>2, <2>3 DEF ReadSession
<1> HIDE DEF Shape
<1>6. got'.p.thread = got.p.thread /\ got'.p \in Readings
      /\ (got'.p.final # <<>> => Spoke(got'.p.trans, got'.p.final))
      /\ (got'.source = {} => CallsFirst(got'.p.trans))
      /\ (got'.source = got.source \/ \E f \in SessionFiles : got'.source = {f})
  <2>1. CASE Unmoved
    BY <1>3, <2>1
  <2>2. ASSUME NEW s, NEW f, Taken(s, f)
        PROVE  got'.p.thread = got.p.thread /\ got'.p \in Readings
               /\ (got'.p.final # <<>> => Spoke(got'.p.trans, got'.p.final))
               /\ got'.source = {f} /\ f \in SessionFiles
    <3>1. got.p.thread \in Strings
      BY <1>3 DEF Readings
    <3>2. /\ s \in Readings /\ (s.final # <<>> => Spoke(s.trans, s.final))
          /\ got'.p = [s EXCEPT !.thread = got.p.thread]
      BY <2>2 DEF AnswerGood
    <3>3. /\ got'.p \in Readings /\ got'.p.thread = got.p.thread /\ got'.p.trans = s.trans
          /\ got'.p.final = s.final
      BY <3>1, <3>2 DEF Readings
    <3> QED
      BY <2>2, <3>2, <3>3
  <2> HIDE DEF Taken
  <2> QED
    BY <1>5, <2>1, <2>2
<1>7. /\ EnginesType' /\ OrderInv' /\ ConversationIsOurs' /\ FailuresReported' /\ AnswersAreSound'
      /\ SameCall /\ call'.at = call.at + 1 /\ call.at \in Nat /\ RunsAt' = RunsAt
  BY <1>1, <1>2, <1>5, <1>6, ReadingOn DEF Shape
<1>8. CodexReadInv'
  BY <1>1, <1>3, <1>5, <1>6 DEF CodexReadInv
<1>9. OthersReadInv'
  BY <1>7 DEF OthersReadInv, SameCall
<1> QED
  BY <1>7, <1>8, <1>9 DEF EnginesInv

LEMMA SessionOfOthers ==
  ASSUME EnginesInv, ReadSession, call.agent # "codex"
  PROVE  EnginesInv'
<1>1. /\ ~out.done /\ call.at \in DOMAIN Todo /\ Todo[call.at] = "session" /\ Advance
      /\ UNCHANGED <<home, ran, out>>
  BY DEF ReadSession, At
<1>2. call.at = RunsAt + 1 /\ call.at > RunsAt /\ RunsAt \in Nat
  BY <1>1, Places DEF EnginesInv
<1>3. got = [p |-> NothingParsed, source |-> {}, sid |-> Blank, errs |-> {}]
  BY <1>2 DEF EnginesInv, OrderInv, NothingRead, NoSource
<1> DEFINE Shape == got' = [p |-> got'.p, source |-> got'.source, sid |-> got'.sid,
                            errs |-> got'.errs]
           Source == got'.source = {} \/ \E f \in SessionFiles : got'.source = {f}
           Meters(n, m) == [NothingParsed EXCEPT !.in = n, !.out = m]
           Read == \/ got'.p = NothingParsed
                   \/ \E f \in SessionFiles : LET s == Parse(call.agent, f.lines)
                                              IN  got'.p = s \/ got'.p = Meters(s.in, s.out)
<1>4. PICK p0, sid0 : Base = [p |-> p0, source |-> {}, sid |-> sid0, errs |-> {}]
                      /\ (call.agent # "qodercli" => p0 = NothingParsed)
  <2>1. CASE call.agent # "qodercli"
    BY <1>3, <2>1 DEF Base
  <2>2. CASE call.agent = "qodercli"
    <3>1. Base = [got EXCEPT !.p = parseStreamOutput(ran.lines),
                             !.sid = parseQoderSessionID(ran.lines)]
      BY <2>2 DEF Base
    <3>2. Base = [p |-> parseStreamOutput(ran.lines), source |-> {},
                  sid |-> parseQoderSessionID(ran.lines), errs |-> {}]
      BY <1>3, <3>1
    <3> QED
      BY <2>2, <3>2
  <2> QED
    BY <2>1, <2>2
<1>5. Shape /\ Source /\ (call.agent # "qodercli" => Read)
  <2>1. CASE got' = Base
    BY <1>4, <2>1
  <2>2. ASSUME NEW f \in SessionFiles,
               LET named == [Base EXCEPT !.sid = IF call.agent = "qodercli" /\ @ = Blank
                                                 THEN f.thread ELSE @]
               IN  got' = named \/ got' = Applied(named, Parse(call.agent, f.lines), f)
        PROVE  Shape /\ Source /\ (call.agent # "qodercli" => Read)
    <3> DEFINE sid == IF call.agent = "qodercli" /\ Base.sid = Blank THEN f.thread ELSE Base.sid
               named == [p |-> p0, source |-> {}, sid |-> sid, errs |-> {}]
               s == Parse(call.agent, f.lines)
               source == IF s.trans # <<>> THEN {f} ELSE {}
    <3>1. named = [Base EXCEPT !.sid = IF call.agent = "qodercli" /\ @ = Blank THEN f.thread ELSE @]
      BY <1>4
    <3>2. CASE got' = named
      BY <1>4, <3>2
    <3>3. CASE got' = Applied(named, s, f) /\ call.agent = "qodercli"
      <4>1. Applied(named, s, f) =
              [named EXCEPT !.source = IF s.trans # <<>> THEN {f} ELSE @,
                            !.p.trans = IF s.trans # <<>> THEN s.trans ELSE @,
                            !.p.final = IF s.trans # <<>> /\ s.final # <<>> THEN s.final ELSE @,
                            !.p.in = Greater(@, s.in), !.p.out = Greater(@, s.out)]
        BY <3>3 DEF Applied
      <4> HIDE DEF s, sid
      <4>2. \E p : got' = [p |-> p, source |-> source, sid |-> sid, errs |-> {}]
        BY <3>3, <4>1
      <4>3. PICK p : got' = [p |-> p, source |-> source, sid |-> sid, errs |-> {}]
        BY <4>2
      <4>4. Shape /\ Source
        BY <4>3
      <4> QED
        BY <3>3, <4>4
    <3>4. CASE got' = Applied(named, s, f) /\ call.agent # "qodercli"
      <4>1. Applied(named, s, f) =
              [named EXCEPT !.source = IF s.trans # <<>> THEN {f} ELSE @,
                            !.p = IF s.trans # <<>> THEN s
                                  ELSE [@ EXCEPT !.in = s.in, !.out = s.out]]
        BY <3>4 DEF Applied
      <4> HIDE DEF s, sid
      <4>2. got' = [p |-> IF s.trans # <<>> THEN s ELSE Meters(s.in, s.out), source |-> source,
                    sid |-> sid, errs |-> {}]
        BY <1>4, <3>4, <4>1
      <4> HIDE DEF Meters
      <4>3. Shape /\ Source
        BY <4>2
      <4>4. got'.p = s \/ got'.p = Meters(s.in, s.out)
        BY <4>2
      <4>5. Read
        BY <4>4 DEF s
      <4> QED
        BY <4>3, <4>5
    <3> HIDE DEF Shape, Source, Read
    <3> QED
      BY <2>2, <3>1, <3>2, <3>3, <3>4
  <2> HIDE DEF Shape, Source, Read
  <2> QED
    BY <2>1, <2>2 DEF ReadSession
<1>6. /\ EnginesType' /\ OrderInv' /\ ConversationIsOurs' /\ FailuresReported' /\ AnswersAreSound'
      /\ SameCall /\ call'.at = call.at + 1 /\ call.at \in Nat /\ RunsAt' = RunsAt
  <2>1. got.source = {}
    BY <1>3
  <2> QED
    BY <1>1, <1>2, <1>5, <2>1, ReadingOn
<1>7. OthersReadInv'
  <2> SUFFICES ASSUME call.agent \in {"claude_code", "qwen_code"}
               PROVE  /\ got'.p \in Readings
                      /\ got'.p.final = <<>> => Mute(got'.p.trans)
                      /\ call.agent = "qwen_code" /\ got'.p.final # <<>> =>
                           Spoke(got'.p.trans, got'.p.final)
    BY <1>6 DEF OthersReadInv, SameCall
  <2>1. Mute(<<>>)
    BY DEF Mute
  <2>2. CASE got'.p = NothingParsed
    BY <2>1, <2>2, AtFirst
  <2>3. ASSUME NEW f \in SessionFiles PROVE f.lines \in Seq(Lines)
    BY SessionFound DEF EnginesInv, EnginesType, SessionFile
  <2>4. ASSUME NEW f \in SessionFiles, NEW s, s = Parse(call.agent, f.lines)
        PROVE  /\ s \in Readings
               /\ s.final = <<>> => Mute(s.trans)
               /\ call.agent = "qwen_code" /\ s.final # <<>> => Spoke(s.trans, s.final)
    <3>1. CASE call.agent = "qwen_code"
      <4>1. s = parseQwenSessionFile(f.lines)
        BY <2>4, <3>1 DEF Parse
      <4> QED
        BY <2>3, <4>1, QwenParsed
    <3>2. CASE call.agent = "claude_code"
      <4>1. s = parseSessionFile(f.lines)
        BY <2>4, <3>2 DEF Parse
      <4> QED
        BY <2>3, <3>2, <4>1, ClaudeParsed
    <3> QED
      BY <3>1, <3>2
  <2>5. ASSUME NEW f \in SessionFiles, NEW s, s = Parse(call.agent, f.lines),
               got'.p = s \/ got'.p = Meters(s.in, s.out)
        PROVE  /\ got'.p \in Readings
               /\ got'.p.final = <<>> => Mute(got'.p.trans)
               /\ call.agent = "qwen_code" /\ got'.p.final # <<>> =>
                    Spoke(got'.p.trans, got'.p.final)
    <3>1. s \in Readings
      BY <2>4, <2>5
    <3>2. Meters(s.in, s.out) \in Readings /\ Meters(s.in, s.out).final = NothingParsed.final
          /\ Meters(s.in, s.out).trans = NothingParsed.trans
      BY <3>1, AtFirst DEF Readings
    <3> HIDE DEF Meters
    <3> QED
      BY <2>1, <2>4, <2>5, <3>2, AtFirst
  <2> HIDE DEF Meters
  <2> QED
    BY <1>5, <2>2, <2>5
<1>8. CodexReadInv'
  BY <1>6 DEF CodexReadInv, SameCall
<1> QED
  BY <1>6, <1>7, <1>8 DEF EnginesInv

(* The file with the last message adds what the assistant said, or         *)
(* nothing.                                                                *)
LEMMA LastStep ==
  ASSUME EnginesInv, ReadCodexLastMessage
  PROVE  EnginesInv'
<1>1. /\ ~out.done /\ call.at \in DOMAIN Todo /\ Todo[call.at] = "last" /\ Advance
      /\ UNCHANGED <<home, ran, out>>
  BY DEF ReadCodexLastMessage, At
<1>2. call.at = RunsAt + 3 /\ call.at > RunsAt /\ RunsAt \in Nat /\ call.agent = "codex"
  BY <1>1, Places DEF EnginesInv
<1>3. /\ got.p \in Readings /\ (got.p.final # <<>> => Spoke(got.p.trans, got.p.final))
      /\ got.source = {} => CallsFirst(got.p.trans)
      /\ got.errs # {} \/ \A i \in DOMAIN ran.lines : ran.lines[i].type # "oversized"
  BY <1>2 DEF EnginesInv, CodexReadInv
<1> DEFINE asked == Message("user", Blank, Instruction, 1)
           trans == IF got.p.trans = <<>> THEN <<asked>> ELSE got.p.trans
           final == IF got.p.final = <<>> THEN FinalAssistantMessage(trans) ELSE got.p.final
           m == Message("assistant", Blank, ran.last, Greater(codexTurns(trans), 1))
           more == <<m>>
           S == Messages \cup {m}
<1>4. /\ trans \in Seq(Messages)
      /\ got.p.final # <<>> => Spoke(trans, got.p.final)
      /\ got.source = {} => CallsFirst(trans)
  <2>1. asked \in Messages
    <3>1. Instruction \in Texts /\ Blank \in Strings
      <4>1. "prompt" \in Words
        BY DEF Words
      <4> QED
        BY <4>1 DEF Instruction, Texts, Strings
    <3> QED
      BY <3>1, MessageTypes
  <2>2. CASE got.p.trans = <<>>
    <3>1. ~Spoke(got.p.trans, got.p.final)
      BY <2>2, NothingSaid DEF Spoke
    <3>2. asked.role = "user"
      BY DEF Message
    <3> HIDE DEF asked
    <3>3. trans = <<asked>> /\ trans \in Seq(Messages)
      BY <2>1, <2>2
    <3>4. CallsFirst(<<asked>>)
      BY <3>2 DEF CallsFirst
    <3> QED
      BY <1>3, <3>1, <3>3, <3>4
  <2>3. CASE got.p.trans # <<>>
    BY <1>3, <2>3 DEF Readings
  <2> QED
    BY <2>2, <2>3
<1> HIDE DEF trans
<1>5. final # <<>> => Spoke(trans, final)
  BY <1>4, FinalSaid
<1>6. /\ Spoke(trans \o more, ran.last)
      /\ got.source = {} => CallsFirst(trans \o more)
  <2>1. m.role = "assistant" /\ m.text = ran.last
    BY DEF Message
  <2> HIDE DEF m
  <2>2. trans \in Seq(S) /\ m \in S
    BY <1>4
  <2> HIDE DEF S
  <2> QED
    BY <1>4, <2>1, <2>2, OneMoreKeeps
<1> HIDE DEF final, more
<1>7. got = [p |-> got.p, source |-> got.source, sid |-> got.sid, errs |-> got.errs]
  BY DEF EnginesInv, EnginesType
<1>8. \/ got' = [got EXCEPT !.p.trans = trans, !.p.final = final]
      \/ ran.last # <<>> /\ got' = [got EXCEPT !.p.trans = trans \o more, !.p.final = ran.last]
  BY DEF ReadCodexLastMessage, trans, final, more
<1>9. ASSUME NEW t, NEW x, got' = [got EXCEPT !.p.trans = t, !.p.final = x]
      PROVE  /\ got' = [p |-> got'.p, source |-> got'.source, sid |-> got'.sid, errs |-> got'.errs]
             /\ got'.source = got.source /\ got'.errs = got.errs
             /\ got'.p.trans = t /\ got'.p.final = x /\ got'.p.thread = got.p.thread
  <2> DEFINE p == [got.p EXCEPT !.trans = t, !.final = x]
  <2>1. got' = [p |-> p, source |-> got.source, sid |-> got.sid, errs |-> got.errs]
    BY <1>7, <1>9
  <2>2. p.trans = t /\ p.final = x /\ p.thread = got.p.thread
    BY <1>3 DEF Readings
  <2> HIDE DEF p
  <2> QED
    BY <2>1, <2>2
<1>10. /\ got' = [p |-> got'.p, source |-> got'.source, sid |-> got'.sid, errs |-> got'.errs]
       /\ got'.source = got.source /\ got'.errs = got.errs /\ got'.p.thread = got.p.thread
       /\ got'.p.final # <<>> => Spoke(got'.p.trans, got'.p.final)
       /\ got.source = {} => CallsFirst(got'.p.trans)
  <2>1. CASE got' = [got EXCEPT !.p.trans = trans, !.p.final = final]
    <3>1. /\ got' = [p |-> got'.p, source |-> got'.source, sid |-> got'.sid, errs |-> got'.errs]
          /\ got'.source = got.source /\ got'.errs = got.errs
          /\ got'.p.trans = trans /\ got'.p.final = final /\ got'.p.thread = got.p.thread
      BY <1>9, <2>1, Zenon
    <3> QED
      BY <1>4, <1>5, <3>1
  <2>2. CASE got' = [got EXCEPT !.p.trans = trans \o more, !.p.final = ran.last]
    <3>1. /\ got' = [p |-> got'.p, source |-> got'.source, sid |-> got'.sid, errs |-> got'.errs]
          /\ got'.source = got.source /\ got'.errs = got.errs
          /\ got'.p.trans = trans \o more /\ got'.p.final = ran.last /\ got'.p.thread = got.p.thread
      BY <1>9, <2>2, Zenon
    <3> QED
      BY <1>6, <3>1
  <2> QED
    BY <1>8, <2>1, <2>2
<1>11. /\ EnginesType' /\ OrderInv' /\ ConversationIsOurs' /\ FailuresReported' /\ AnswersAreSound'
       /\ SameCall /\ call'.at = call.at + 1 /\ call.at \in Nat /\ RunsAt' = RunsAt
  BY <1>1, <1>2, <1>10, ReadingOn
<1>12. CodexReadInv'
  <2>1. ~(call'.at <= RunsAt' + 3)
    BY <1>2, <1>11
  <2> QED
    BY <1>1, <1>3, <1>10, <2>1 DEF CodexReadInv
<1>13. OthersReadInv'
  BY <1>2, <1>11 DEF OthersReadInv, SameCall
<1> QED
  BY <1>11, <1>12, <1>13 DEF EnginesInv

-----------------------------------------------------------------------------
(* What a call returns.                                                    *)
(* The answer that is returned, be it from the transcript or from stdout.  *)
LEMMA Answers ==
  ASSUME EnginesInv, NEW p, p = Answered, NEW final, final = FinalOf(p)
  PROVE  /\ call.agent \in {"codex", "qwen_code"} /\ final # <<>> => Spoke(p.trans, final)
         /\ call.agent \in {"claude_code", "qwen_code"} /\ final = <<>> => Mute(p.trans)
         /\ call.agent = "codex" /\ got.source = {} => CallsFirst(p.trans)
<1>1. CASE call.agent = "codex"
  <2>1. p = got.p /\ final = p.final
    BY <1>1 DEF Answered, FinalOf
  <2> QED
    BY <1>1, <2>1 DEF EnginesInv, CodexReadInv
<1>2. CASE call.agent \in {"claude_code", "qwen_code"}
  <2>1. /\ got.p \in Readings /\ (got.p.final = <<>> => Mute(got.p.trans))
        /\ call.agent = "qwen_code" /\ got.p.final # <<>> => Spoke(got.p.trans, got.p.final)
    BY <1>2 DEF EnginesInv, OthersReadInv
  <2>2. CASE got.p.trans # <<>> \/ StdoutAnswer = <<>>
    <3>1. p = got.p
      BY <2>2 DEF Answered
    <3>2. got.p.trans \in Seq(Messages)
      BY <2>1 DEF Readings
    <3>3. final = IF call.agent = "qwen_code" /\ got.p.final = <<>>
                  THEN FinalAssistantMessage(got.p.trans) ELSE got.p.final
      BY <3>1 DEF FinalOf
    <3> QED
      BY <1>2, <2>1, <3>1, <3>2, <3>3, FinalSaid
  <2>3. CASE got.p.trans = <<>> /\ StdoutAnswer # <<>>
    <3> DEFINE u == Message("user", Blank, Instruction, 1)
               a == Message("assistant", Blank, StdoutAnswer, 1)
    <3>1. p = [got.p EXCEPT !.trans = <<u, a>>, !.final = StdoutAnswer]
      BY <1>2, <2>3 DEF Answered
    <3>2. p.trans = <<u, a>> /\ p.final = StdoutAnswer
      BY <2>1, <3>1 DEF Readings
    <3>3. a.role = "assistant" /\ a.text = StdoutAnswer
      BY DEF Message
    <3> HIDE DEF u, a
    <3>4. final = StdoutAnswer
      BY <2>3, <3>2 DEF FinalOf
    <3>5. Spoke(<<u, a>>, StdoutAnswer)
      <4>1. 2 \in DOMAIN <<u, a>> /\ <<u, a>>[2] = a
        OBVIOUS
      <4> QED
        BY <3>3, <4>1 DEF Spoke
    <3> QED
      BY <1>2, <2>3, <3>2, <3>4, <3>5
  <2> QED
    BY <2>2, <2>3
<1> QED
  BY <1>1, <1>2

LEMMA FinishStep ==
  ASSUME EnginesInv, Finish
  PROVE  EnginesInv'
<1>1. /\ UNCHANGED <<call, home, ran, got>> /\ call.at \notin DOMAIN Todo
      /\ temp' \in RunDirAfterCleanup
  BY DEF Finish
<1>2. call.agent = "codex" => call.at > RunsAt + 1
  BY <1>1, Places DEF EnginesInv, OrderInv
<1>3. PICK p, final : /\ p = Answered /\ final = FinalOf(p)
                      /\ out' = [result |-> [session |-> SessionID, exit |-> MarkedExit(final),
                                             trans |-> p.trans, final |-> final, none |-> FALSE],
                                 errs |-> Errors(final), done |-> TRUE]
  BY DEF Finish, Return
<1>4. /\ out'.done = TRUE /\ out'.errs = Errors(final) /\ out'.result.none = FALSE
      /\ out'.result.exit = MarkedExit(final) /\ out'.result.trans = p.trans
      /\ out'.result.final = final
  BY <1>3
<1>5. AnswersAreSound'
  <2>1. /\ call.agent \in {"codex", "qwen_code"} /\ final # <<>> => Spoke(p.trans, final)
        /\ call.agent \in {"claude_code", "qwen_code"} /\ final = <<>> => Mute(p.trans)
        /\ call.agent = "codex" /\ got.source = {} => CallsFirst(p.trans)
    BY <1>3, Answers
  <2>2. Said(out'.result) =
          {p.trans[i].text : i \in {j \in DOMAIN p.trans : p.trans[j].role = "assistant"}}
    BY <1>4 DEF Said
  <2>3. Spoke(p.trans, final) => final \in Said(out'.result)
    BY <2>2 DEF Spoke
  <2>4. Mute(p.trans) => Said(out'.result) \subseteq {<<>>}
    BY <2>2 DEF Mute
  <2> HIDE DEF Said
  <2> QED
    BY <1>1, <1>4, <2>1, <2>3, <2>4 DEF AnswersAreSound, NoSource, CallsFirst
<1>6. FailuresReported'
  <2>1. RunErrors = {} => ~ran.fails /\ ran.exit = 0
    BY DEF RunErrors
  <2>2. Errors(final) = {} => ProviderErrors(final) = {} /\ RunErrors = {} /\ got.errs = {}
    BY DEF Errors
  <2>3. ran.fails \in BOOLEAN
    BY DEF EnginesInv, EnginesType, CLIRun
  <2>4. Errors(final) = {} => MarkedExit(final) = 0
    BY <2>1, <2>2 DEF MarkedExit
  <2>5. MarkedExit(final) # 0 => Errors(final) # {}
    BY <2>4
  <2>6. ASSUME Errors(final) = {}, call.agent = "codex"
        PROVE  \A i \in DOMAIN ran.lines : ran.lines[i].type # "oversized"
    BY <1>2, <2>2, <2>6 DEF EnginesInv, CodexReadInv
  <2>7. ASSUME Errors(final) = {}, call.agent = "claude_code",
               NEW text \in {ran.text, ran.stderr, final}
        PROVE  /\ Scanned(text, AuthWindow) \cap AuthFailure = {}
               /\ Scanned(text, RateWindow) \cap RateLimit = {}
    <3>1. /\ Diagnostics(final, AuthWindow) \cap AuthFailure = {}
          /\ Diagnostics(final, RateWindow) \cap RateLimit = {}
      BY <2>2, <2>7 DEF ProviderErrors
    <3>2. \A window : Scanned(text, window) \subseteq Diagnostics(final, window)
      <4>1. CASE text = final /\ final # <<>>
        BY <4>1 DEF Diagnostics
      <4>2. CASE text = final /\ final = <<>>
        BY <4>2, NothingSaid DEF Scanned
      <4>3. CASE text \in {ran.text, ran.stderr}
        BY <4>3 DEF Diagnostics
      <4> QED
        BY <4>1, <4>2, <4>3
    <3> QED
      BY <3>1, <3>2
  <2>8. temp' \subseteq {"unremoved", "unknown dir"}
    BY <1>1 DEF RunDirAfterCleanup
  <2> QED
    BY <1>1, <1>4, <2>1, <2>2, <2>4, <2>5, <2>6, <2>7, <2>8 DEF FailuresReported
<1> QED
  BY <1>1, <1>4, <1>5, <1>6, Ends DEF EnginesInv

LEMMA EnginesStep ==
  EnginesInv /\ [EnginesNext]_engineVars => EnginesInv'
<1> SUFFICES ASSUME EnginesInv, [EnginesNext]_engineVars PROVE EnginesInv'
  OBVIOUS
<1>1. CASE RequireBash \/ ensureNodeRuntime \/ prepareCodexRunArtifacts \/ deliverPrompt
  BY <1>1, PreparingSteps
<1>2. CASE Exec
  BY <1>2, ExecStep
<1>3. CASE ReadCodexStdout
  BY <1>3, StdoutStep
<1>4. CASE ReadSession
  BY <1>4, SessionOfCodex, SessionOfOthers
<1>5. CASE ReadCodexLastMessage
  BY <1>5, LastStep
<1>6. CASE Finish
  BY <1>6, FinishStep
<1>7. CASE UNCHANGED engineVars
  <2>1. UNCHANGED <<call, home, temp, ran, got, out>>
    BY <1>7 DEF engineVars
  <2>2. RunsAt' = RunsAt /\ PromptAt' = PromptAt /\ EndsAt' = EndsAt
    BY <2>1, SamePlaces DEF SameCall
  <2>3. EnginesType' /\ OrderInv'
    BY <2>1, <2>2 DEF EnginesInv, EnginesType, OrderInv
  <2>4. CodexReadInv' /\ OthersReadInv'
    BY <2>1, <2>2 DEF EnginesInv, CodexReadInv, OthersReadInv
  <2>5. ConversationIsOurs'
    BY <2>1 DEF EnginesInv, ConversationIsOurs, WrittenHere
  <2>6. FailuresReported'
    BY <2>1 DEF EnginesInv, FailuresReported
  <2>7. AnswersAreSound'
    BY <2>1 DEF EnginesInv, AnswersAreSound, Said
  <2> QED
    BY <2>3, <2>4, <2>5, <2>6, <2>7 DEF EnginesInv
<1> QED
  BY <1>1, <1>2, <1>3, <1>4, <1>5, <1>6, <1>7 DEF EnginesNext

LEMMA EnginesInvariant == EnginesSpec => []EnginesInv
BY EnginesStart, EnginesStep, PTL DEF EnginesSpec

(* For claude, Qoder and qwen, every home and every session file a CLI may *)
(* leave, each recording its writer's workspace or none: the file an       *)
(* answer was read from is of this call's workspace unless no file in the  *)
(* workspace's directory says where it was written, and it is the file the *)
(* CLI just wrote when that one says so and is the newest.                 *)
THEOREM ConversationIsOursCorrect == EnginesSpec => []ConversationIsOurs
<1>1. EnginesInv => ConversationIsOurs
  BY DEF EnginesInv
<1> QED
  BY <1>1, EnginesInvariant, PTL

(* For every way a CLI may end, whatever it prints and however wide the    *)
(* windows are: without errors it ended by itself with code 0 and, for     *)
(* claude, without a refusal in a window; and nothing temporary stays but  *)
(* what could not be removed.                                              *)
THEOREM FailuresReportedCorrect == EnginesSpec => []FailuresReported
<1>1. EnginesInv => FailuresReported
  BY DEF EnginesInv
<1> QED
  BY <1>1, EnginesInvariant, PTL

(* For every output and session file of any length: the final message of a *)
(* result and its transcript agree, and on codex's stdout every tool       *)
(* result follows its call.                                                *)
THEOREM AnswersAreSoundCorrect == EnginesSpec => []AnswersAreSound
<1>1. EnginesInv => AnswersAreSound
  BY DEF EnginesInv
<1> QED
  BY <1>1, EnginesInvariant, PTL

-----------------------------------------------------------------------------
(* A call of a custom engine.                                              *)

LocalSteps == {"local", "clear", "exec", "read"}
HttpSteps  == {"http", "request"}

(* Who may have written an answer: an earlier run only what could not be   *)
(* removed, the framework only the input file.                             *)
Vouched(payload) ==
  /\ payload.by = "earlier" => outcome.uncleared
  /\ payload.by = "framework" => Plan.output = "input"

CallType ==
  /\ custom = [plan |-> Plan, step |-> custom.step, timeout |-> custom.timeout]
  /\ Plan \in CustomPlans
  /\ custom.step \in {"prepare", "assemble"} \cup LocalSteps \cup HttpSteps
  /\ outcome = [raw |-> outcome.raw, stdout |-> outcome.stdout, exit |-> outcome.exit,
                fails |-> outcome.fails, recorded |-> outcome.recorded,
                cleared |-> outcome.cleared, uncleared |-> outcome.uncleared]
  /\ outcome.fails \in BOOLEAN /\ outcome.uncleared \in BOOLEAN

(* The input file replaces what its path held; from the removal of the old *)
(* output on, what an output path holds is of this run or could not be     *)
(* removed; so is what was read.                                           *)
OutputInv ==
  /\ output.by = "framework" => Plan.output = "input"
  /\ custom.step = "clear" /\ Plan.output = "input" => output.by = "framework"
  /\ custom.step \in {"exec", "read"} /\ Plan.output # Blank => Vouched(output)
  /\ outcome.stdout.by = "engine"
  /\ Vouched(outcome.raw)

(* A result is read by the last step of a transport only, and a local one  *)
(* records the input the framework wrote.                                  *)
RawInv ==
  /\ custom.step \in LocalSteps => Plan.transport = "local"
  /\ custom.step \in HttpSteps => Plan.transport = "http"
  /\ custom.step # "assemble" => outcome.raw = Absent
  /\ custom.step = "assemble" /\ Plan.transport = "local" => <<"ws", "input">> \in outcome.recorded
  /\ \A f \in outcome.recorded : f[1] = "ws"

CustomInv == CallType /\ OutputInv /\ RawInv /\ CustomAnswerIsThisRuns

LEMMA CustomInvInit ==
  ASSUME CustomInit
  PROVE  CustomInv
<1>1. PICK p \in CustomPlans : custom = [plan |-> p, step |-> "prepare", timeout |-> 0]
  BY DEF CustomInit
<1>2. outcome = Silent /\ ended = Nothing
  BY DEF CustomInit
<1>3. CallType
  BY <1>1, <1>2 DEF CallType, Plan, Silent
<1>4. Absent.by = "engine" /\ Plan = p /\ output = p.left
  BY <1>1 DEF Absent, CustomInit, Plan
<1>5. output.by # "framework"
  BY <1>4, OutputsKnown
<1>6. OutputInv
  BY <1>1, <1>2, <1>4, <1>5 DEF OutputInv, Silent, Vouched
<1>7. RawInv
  BY <1>1, <1>2 DEF RawInv, Silent, LocalSteps, HttpSteps
<1>8. CustomAnswerIsThisRuns
  BY <1>2 DEF CustomAnswerIsThisRuns, Nothing
<1> QED
  BY <1>3, <1>6, <1>7, <1>8 DEF CustomInv

(* A call abandoned before anything was read.                              *)
LEMMA AbandonedAnswer ==
  ASSUME NEW why, Abandon(why), outcome.raw = Absent, UNCHANGED outcome
  PROVE  CustomAnswerIsThisRuns'
<1>1. /\ ended'.exit = 1 /\ ended'.errs = {why} /\ ended'.from = Absent /\ ended'.files = {}
  BY DEF Abandon, Nothing, errorExit
<1>2. Absent.by = "engine"
  BY DEF Absent
<1>3. outcome'.raw = Absent
  OBVIOUS
<1> QED
  BY <1>1, <1>2, <1>3 DEF CustomAnswerIsThisRuns

LEMMA RegisteredFiles ==
  ASSUME NEW f, NEW r \in Registers(f), NEW x \in r
  PROVE  x[1] = "ws" \/ (x[1] = "dir" /\ Plan.dir)
<1>1. ASSUME NEW d \in Deposited(f), NEW y \in d PROVE y[1] = "dir" /\ Plan.dir
  BY <1>1 DEF Deposited
<1>2. CASE f.from = "path" /\ f.path[1] # "ws"
  BY <1>2 DEF Registers
<1>3. CASE f.from = "path" /\ f.path[1] = "ws"
  BY <1>1, <1>3 DEF Registers
<1>4. CASE f.from # "path"
  BY <1>1, <1>4 DEF Registers
<1> QED
  BY <1>2, <1>3, <1>4

LEMMA CollectedFiles ==
  ASSUME NEW p, NEW files \in collectArtifacts(p), NEW x \in files
  PROVE  x[1] = "ws" \/ (x[1] = "dir" /\ Plan.dir)
<1>1. PICK c : /\ \A i \in DOMAIN p.files : c[i] \in Registers(p.files[i])
               /\ files = InWorkspace(p.generated) \cup UNION {c[i] : i \in DOMAIN p.files}
  BY DEF collectArtifacts
<1>2. CASE x \in InWorkspace(p.generated)
  BY <1>2 DEF InWorkspace
<1>3. ASSUME NEW i \in DOMAIN p.files, x \in c[i] PROVE x[1] = "ws" \/ (x[1] = "dir" /\ Plan.dir)
  BY <1>1, <1>3, RegisteredFiles
<1> QED
  BY <1>1, <1>2, <1>3

LEMMA AssembledAnswer ==
  ASSUME CustomInv, AssembleResult
  PROVE  CustomAnswerIsThisRuns'
<1>1. UNCHANGED <<custom, output, outcome>> /\ custom.step = "assemble"
  BY DEF AssembleResult, AtStep
<1>2. PICK files \in IF Plan.format = "text" \/ ~Parsed THEN {{}}
                       ELSE collectArtifacts(outcome.raw) :
        ended' = [done |-> TRUE, exit |-> AssembledExit, errs |-> AssembledErrors,
                  final |-> buildResult.final, turns |-> buildResult.turns,
                  trans |-> IF outcome.fails /\ ~Parsed THEN minimalCustomTranscript(<<>>)
                            ELSE buildResult.trans,
                  from |-> IF ~Parsed THEN Absent
                           ELSE IF Plan.format = "text" THEN outcome.stdout ELSE outcome.raw,
                  files |-> files \cup outcome.recorded]
  BY Zenon DEF AssembleResult
<1>2a.
      /\ ended'.exit = AssembledExit /\ ended'.errs = AssembledErrors
      /\ ended'.from = IF ~Parsed THEN Absent
                       ELSE IF Plan.format = "text" THEN outcome.stdout ELSE outcome.raw
      /\ ended'.files = files \cup outcome.recorded
  BY <1>2
<1>3. Vouched(ended'.from)
  <2>1. Absent.by = "engine"
    BY DEF Absent
  <2> QED
    BY <1>2a, <2>1 DEF CustomInv, OutputInv, Vouched
<1>4. (AssembledErrors = {}) <=> (AssembledExit = 0)
  <2>1. \A code : errorExit(code) # 0
    BY DEF errorExit
  <2>2. CASE outcome.fails
    BY <2>1, <2>2 DEF AssembledErrors, AssembledExit
  <2>3. CASE ~outcome.fails /\ outcome.exit # 0
    BY <2>3 DEF AssembledErrors, AssembledExit
  <2>4. CASE ~outcome.fails /\ outcome.exit = 0
    <3>1. AssembledExit = buildResult.exit /\ ~RunFailed
      BY <2>4 DEF AssembledExit, RunFailed
    <3>2. ~Parsed => buildResult.exit # 0
      BY <2>1 DEF buildResult, Parsed
    <3> QED
      BY <2>4, <3>1, <3>2 DEF AssembledErrors
  <2> QED
    BY <2>2, <2>3, <2>4 DEF CustomInv, CallType
<1>5. AssembledErrors = {} => ~RunFailed /\ Parsed
  BY DEF AssembledErrors, RunFailed, CustomInv, CallType
<1>6. Parsed => Plan.format = "text" \/ outcome.raw.kind = "result"
  BY DEF Parsed, Parsable
<1>7. \A f \in ended'.files : f[1] = "ws" \/ (f[1] = "dir" /\ Plan.dir)
  <2>1. \A f \in files : f[1] = "ws" \/ (f[1] = "dir" /\ Plan.dir)
    BY <1>2, CollectedFiles
  <2> QED
    BY <1>2a, <2>1 DEF CustomInv, RawInv
<1>8. Plan.transport = "local" => <<"ws", "input">> \in ended'.files
  BY <1>1, <1>2a DEF CustomInv, RawInv
<1>9. Plan' = Plan /\ RunFailed' = RunFailed
  BY <1>1 DEF Plan, RunFailed
<1>10. ended'.errs = {} => ~RunFailed /\ (Plan.format = "text" \/ ended'.from.kind = "result")
  BY <1>2a, <1>5, <1>6
<1>11. /\ ended'.from.by = "earlier" => outcome'.uncleared
       /\ ended'.from.by = "framework" => Plan'.output = "input"
  BY <1>1, <1>3, <1>9 DEF Vouched
<1> QED
  BY <1>1, <1>2a, <1>4, <1>7, <1>8, <1>9, <1>10, <1>11 DEF CustomAnswerIsThisRuns

LEMMA CustomInvNext ==
  ASSUME CustomInv, CustomNext
  PROVE  CustomInv'
<1>1. Absent.by = "engine"
  BY DEF Absent
<1>2. \A p \in Payloads : p.by = "engine"
  BY OutputsKnown
<1>3. ASSUME NEW why, Abandon(why), UNCHANGED <<custom, output, outcome>>, custom.step # "assemble"
      PROVE  CustomInv'
  <2>1. CustomAnswerIsThisRuns'
    BY <1>3, AbandonedAnswer DEF CustomInv, RawInv
  <2> QED
    BY <1>3, <2>1 DEF CustomInv, CallType, OutputInv, RawInv, Vouched, Plan
<1>4. ASSUME ~ended.done, ended' = ended PROVE CustomAnswerIsThisRuns'
  BY <1>4 DEF CustomAnswerIsThisRuns
<1>5. CASE PrepareRun
  <2>1. custom.step = "prepare"
    BY <1>5 DEF PrepareRun, AtStep
  <2>2. CASE /\ Plan.transport \in {"local", "http"}
             /\ custom' = [custom EXCEPT !.step = Plan.transport,
                             !.timeout = EffectiveTimeout(Plan.limit, Plan.caseLimit)]
             /\ UNCHANGED ended
    <3>1. Plan' = Plan /\ custom'.step = Plan.transport /\ CallType'
      BY <1>5, <2>2 DEF PrepareRun, CustomInv, CallType, Plan, LocalSteps, HttpSteps
    <3>2. OutputInv' /\ RawInv'
      BY <1>5, <2>1, <2>2, <3>1 DEF PrepareRun, CustomInv, OutputInv, RawInv, Vouched,
              LocalSteps, HttpSteps
    <3> QED
      BY <1>4, <1>5, <2>2, <3>1, <3>2 DEF CustomInv, PrepareRun, AtStep
  <2> QED
    BY <1>3, <1>5, <2>1, <2>2 DEF PrepareRun
<1>6. ASSUME NEW s, Goto(s), s \in {"assemble"} \cup LocalSteps \cup HttpSteps
      PROVE  Plan' = Plan /\ custom'.step = s
             /\ custom' = [plan |-> Plan', step |-> custom'.step, timeout |-> custom'.timeout]
  BY <1>6 DEF Goto, CustomInv, CallType, Plan
<1>7. CASE WriteInput
  <2>1. custom.step = "local" /\ ~ended.done
    BY <1>7 DEF WriteInput, AtStep
  <2>2. CASE Goto("clear") /\ UNCHANGED ended
    <3>1. Plan' = Plan /\ custom'.step = "clear" /\ CallType'
      BY <1>6, <1>7, <2>2 DEF WriteInput, LocalSteps, CustomInv, CallType
    <3>2. outcome' = outcome /\ output' = IF Plan.output = "input" THEN SessionInput ELSE output
      BY <1>7, <2>1, <2>2, <3>1 DEF WriteInput
    <3>3. SessionInput.by = "framework"
      BY DEF SessionInput, Absent
    <3>4. OutputInv'
      BY <3>1, <3>2, <3>3 DEF CustomInv, OutputInv, Vouched
    <3>5. RawInv'
      BY <2>1, <3>1, <3>2 DEF CustomInv, RawInv, LocalSteps, HttpSteps
    <3> QED
      BY <1>4, <2>1, <2>2, <3>1, <3>4, <3>5 DEF CustomInv
  <2> QED
    BY <1>3, <1>7, <2>1, <2>2 DEF WriteInput
<1>8. CASE ClearStaleOutputFile
  <2>1. custom.step = "clear" /\ ~ended.done /\ Goto("exec") /\ UNCHANGED ended
    BY <1>8 DEF ClearStaleOutputFile, AtStep
  <2>2. Plan' = Plan /\ custom'.step = "exec"
        /\ custom' = [plan |-> Plan', step |-> custom'.step, timeout |-> custom'.timeout]
    BY <1>6, <2>1 DEF LocalSteps
  <2>3. /\ outcome' = [raw |-> outcome'.raw, stdout |-> outcome'.stdout, exit |-> outcome'.exit,
                       fails |-> outcome'.fails, recorded |-> outcome'.recorded,
                       cleared |-> outcome'.cleared, uncleared |-> outcome'.uncleared]
        /\ outcome'.raw = outcome.raw /\ outcome'.stdout = outcome.stdout
        /\ outcome'.fails = outcome.fails /\ outcome'.recorded = outcome.recorded
        /\ outcome'.uncleared \in BOOLEAN /\ (outcome.uncleared => outcome'.uncleared)
    BY <1>8 DEF ClearStaleOutputFile, CustomInv, CallType
  <2>4. /\ output'.by = "framework" => Plan'.output = "input"
        /\ Plan'.output # Blank => Vouched(output)'
    <3>1. CASE Plan.output # "own" /\ UNCHANGED output
      BY <2>1, <2>2, <3>1, OutputsKnown DEF Vouched, CustomInv, CallType, OutputInv
    <3>2. CASE output' = Absent
      BY <1>1, <3>2 DEF Vouched
    <3>3. CASE outcome' = [outcome EXCEPT !.uncleared = TRUE] /\ UNCHANGED output
      <4>1. outcome'.uncleared
        BY <3>3 DEF CustomInv, CallType
      <4> QED
        BY <2>2, <3>3, <4>1 DEF Vouched, CustomInv, OutputInv
    <3> QED
      BY <1>8, <3>1, <3>2, <3>3 DEF ClearStaleOutputFile
  <2>5. CallType'
    BY <2>2, <2>3 DEF CallType, CustomInv, LocalSteps
  <2>6. OutputInv'
    BY <2>2, <2>3, <2>4 DEF OutputInv, CustomInv, Vouched
  <2>7. RawInv'
    BY <2>1, <2>2, <2>3 DEF RawInv, CustomInv, LocalSteps, HttpSteps
  <2> QED
    BY <1>4, <2>1, <2>5, <2>6, <2>7 DEF CustomInv
<1>9. CASE ExecCustom
  <2>1. custom.step = "exec" /\ ~ended.done
    BY <1>9 DEF ExecCustom, AtStep
  <2>2. ASSUME Goto("read"), NEW printed \in Payloads \cup {Absent},
               NEW exit \in {0, 2}, NEW fails \in BOOLEAN,
               output' \in {output} \cup (IF Plan.output = Blank THEN {} ELSE Payloads),
               outcome' = [outcome EXCEPT !.stdout = printed, !.exit = exit, !.fails = fails],
               UNCHANGED ended
        PROVE  CustomInv'
    <3>1. Plan' = Plan /\ custom'.step = "read"
          /\ custom' = [plan |-> Plan', step |-> custom'.step, timeout |-> custom'.timeout]
      BY <1>6, <2>2 DEF LocalSteps
    <3>2. /\ outcome' = [raw |-> outcome'.raw, stdout |-> outcome'.stdout, exit |-> outcome'.exit,
                         fails |-> outcome'.fails, recorded |-> outcome'.recorded,
                         cleared |-> outcome'.cleared, uncleared |-> outcome'.uncleared]
          /\ outcome'.raw = outcome.raw /\ outcome'.stdout = printed
          /\ outcome'.fails \in BOOLEAN /\ outcome'.recorded = outcome.recorded
          /\ outcome'.uncleared = outcome.uncleared
      BY <2>2 DEF CustomInv, CallType
    <3>3. CallType'
      BY <3>1, <3>2 DEF CallType, CustomInv, LocalSteps
    <3>4. OutputInv'
      BY <1>1, <1>2, <2>1, <2>2, <3>1, <3>2 DEF OutputInv, CustomInv, Vouched
    <3>5. RawInv'
      BY <2>1, <3>1, <3>2 DEF RawInv, CustomInv, LocalSteps, HttpSteps
    <3> QED
      BY <1>4, <2>1, <2>2, <3>3, <3>4, <3>5 DEF CustomInv
  <2> QED
    BY <1>3, <1>9, <2>1, <2>2 DEF ExecCustom, BuildLocalExecRefuses
<1>10. CASE ReadRawResult
  <2>1. custom.step = "read" /\ ~ended.done /\ Goto("assemble") /\ UNCHANGED <<output, ended>>
    BY <1>10 DEF ReadRawResult, AtStep
  <2>2. Plan' = Plan /\ custom'.step = "assemble"
        /\ custom' = [plan |-> Plan', step |-> custom'.step, timeout |-> custom'.timeout]
    BY <1>6, <2>1
  <2>3. PICK produced \in BOOLEAN, raw \in {outcome.stdout, output} :
          /\ outcome' = [outcome EXCEPT !.raw = raw, !.recorded = Recorded(produced)]
          /\ raw = outcome.stdout \/ Plan.output # Blank
    <3>1. CASE outcome' = [outcome EXCEPT !.raw = outcome.stdout, !.recorded = Recorded(FALSE)]
      <4> WITNESS FALSE \in BOOLEAN, outcome.stdout \in {outcome.stdout, output}
      <4> QED
        BY <3>1
    <3>2. CASE /\ Plan.output # Blank
               /\ outcome' = [outcome EXCEPT !.recorded = Recorded(TRUE),
                                 !.raw = IF output.kind = "empty" THEN outcome.stdout ELSE output]
      <4> DEFINE raw == IF output.kind = "empty" THEN outcome.stdout ELSE output
      <4>1. outcome' = [outcome EXCEPT !.raw = raw, !.recorded = Recorded(TRUE)]
        BY <3>2 DEF CustomInv, CallType
      <4>2. raw \in {outcome.stdout, output}
        OBVIOUS
      <4> HIDE DEF raw
      <4> WITNESS TRUE \in BOOLEAN, raw \in {outcome.stdout, output}
      <4> QED
        BY <3>2, <4>1
    <3> QED
      BY <1>10, <3>1, <3>2 DEF ReadRawResult
  <2>4. /\ outcome' = [raw |-> outcome'.raw, stdout |-> outcome'.stdout, exit |-> outcome'.exit,
                       fails |-> outcome'.fails, recorded |-> outcome'.recorded,
                       cleared |-> outcome'.cleared, uncleared |-> outcome'.uncleared]
        /\ outcome'.raw = raw /\ outcome'.stdout = outcome.stdout /\ outcome'.fails = outcome.fails
        /\ outcome'.recorded = Recorded(produced) /\ outcome'.uncleared = outcome.uncleared
    BY <2>3 DEF CustomInv, CallType
  <2>5. CallType'
    BY <2>2, <2>4 DEF CallType, CustomInv
  <2>6. OutputInv'
    BY <2>1, <2>2, <2>3, <2>4 DEF OutputInv, CustomInv, Vouched
  <2>7. RawInv'
    BY <2>1, <2>2, <2>4 DEF RawInv, CustomInv, LocalSteps, HttpSteps, Recorded
  <2> QED
    BY <1>4, <2>1, <2>5, <2>6, <2>7 DEF CustomInv
<1>11. CASE BuildRequest
  <2>1. custom.step = "http" /\ ~ended.done
    BY <1>11 DEF BuildRequest, AtStep
  <2>2. CASE Goto("request") /\ UNCHANGED ended
    <3>1. Plan' = Plan /\ custom'.step = "request" /\ CallType'
      BY <1>6, <1>11, <2>2 DEF BuildRequest, HttpSteps, CustomInv, CallType
    <3> QED
      BY <1>4, <1>11, <2>1, <2>2, <3>1 DEF BuildRequest, CustomInv, OutputInv, RawInv, Vouched,
              LocalSteps, HttpSteps
  <2> QED
    BY <1>3, <1>11, <2>1, <2>2 DEF BuildRequest
<1>12. CASE DoRequest
  <2>1. custom.step = "request" /\ ~ended.done /\ Goto("assemble") /\ UNCHANGED <<output, ended>>
    BY <1>12 DEF DoRequest, AtStep
  <2>2. Plan' = Plan /\ custom'.step = "assemble"
        /\ custom' = [plan |-> Plan', step |-> custom'.step, timeout |-> custom'.timeout]
    BY <1>6, <2>1
  <2> DEFINE Good ==
                     /\ outcome' = [raw |-> outcome'.raw, stdout |-> outcome'.stdout,
                               exit |-> outcome'.exit, fails |-> outcome'.fails,
                               recorded |-> outcome'.recorded, cleared |-> outcome'.cleared,
                               uncleared |-> outcome'.uncleared]
                     /\ outcome'.raw \in Payloads \cup {outcome.raw}
                     /\ outcome'.stdout \in Payloads \cup {outcome.stdout}
                     /\ outcome'.fails \in BOOLEAN /\ outcome'.recorded = outcome.recorded
                     /\ outcome'.uncleared = outcome.uncleared
  <2>3. ASSUME NEW exit, NEW fails \in BOOLEAN,
               outcome' = [outcome EXCEPT !.exit = exit, !.fails = fails]
        PROVE  Good
    BY <2>3 DEF CustomInv, CallType
  <2>4. ASSUME NEW body \in Payloads, NEW exit, NEW fails \in BOOLEAN,
               outcome' = [outcome EXCEPT !.raw = body, !.stdout = body, !.exit = exit,
                                          !.fails = fails]
        PROVE  Good
    BY <2>4 DEF CustomInv, CallType
  <2> HIDE DEF Good
  <2>4a. Good
    <3>1. CASE outcome' = [outcome EXCEPT !.exit = 1, !.fails = TRUE]
      BY <2>3, <3>1, Zenon
    <3>2. CASE \E body \in Payloads, status \in {200, 500} :
                 outcome' = [outcome EXCEPT !.raw = body, !.stdout = body,
                               !.exit = IF status = 200 THEN 0 ELSE status,
                               !.fails = status # 200]
      <4>1. PICK body \in Payloads, status \in {200, 500} :
                 outcome' = [outcome EXCEPT !.raw = body, !.stdout = body,
                               !.exit = IF status = 200 THEN 0 ELSE status,
                               !.fails = status # 200]
        BY <3>2
      <4> DEFINE exit == IF status = 200 THEN 0 ELSE status
                 fails == status # 200
      <4>2. fails \in BOOLEAN
        OBVIOUS
      <4>3. outcome' = [outcome EXCEPT !.raw = body, !.stdout = body, !.exit = exit,
                                          !.fails = fails]
        BY <4>1, Zenon
      <4> HIDE DEF exit, fails
      <4> QED
        BY <2>4, <4>2, <4>3
    <3> QED
      BY <1>12, <3>1, <3>2 DEF DoRequest
  <2> USE DEF Good
  <2>5. CallType'
    BY <2>2, <2>4a DEF CallType, CustomInv
  <2>6. OutputInv'
    BY <1>2, <2>1, <2>2, <2>4a DEF OutputInv, CustomInv, Vouched
  <2>7. RawInv'
    BY <2>1, <2>2, <2>4a DEF RawInv, CustomInv, LocalSteps, HttpSteps
  <2> QED
    BY <1>4, <2>1, <2>5, <2>6, <2>7 DEF CustomInv
<1>13. CASE AssembleResult
  <2>1. UNCHANGED <<custom, output, outcome>>
    BY <1>13 DEF AssembleResult
  <2>2. CustomAnswerIsThisRuns'
    BY <1>13, AssembledAnswer
  <2> QED
    BY <2>1, <2>2 DEF CustomInv, CallType, OutputInv, RawInv, Vouched, Plan
<1> QED
  BY <1>5, <1>7, <1>8, <1>9, <1>10, <1>11, <1>12, <1>13 DEF CustomNext

(* For every configuration of a custom engine and everything its command   *)
(* or service may say: the answer of a call is of this call; only where *)
(* removing an older one failed may it be an earlier run's, and only where *)
(* the output path is the input's the framework's own; errors and exit     *)
(* code agree, and its files are those of the case.                        *)
THEOREM CustomAnswerCorrect == CustomSpec => []CustomAnswerIsThisRuns
<1>1. CustomInv /\ [CustomNext]_customVars => CustomInv'
  <2>1. ASSUME CustomInv, UNCHANGED customVars PROVE CustomInv'
    BY <2>1 DEF CustomInv, CallType, OutputInv, RawInv, Vouched, Plan, CustomAnswerIsThisRuns,
       RunFailed, customVars
  <2> QED
    BY <2>1, CustomInvNext
<1>2. CustomInv => CustomAnswerIsThisRuns
  BY DEF CustomInv
<1> QED
  BY <1>1, <1>2, CustomInvInit, PTL DEF CustomSpec

-----------------------------------------------------------------------------
(* The setup of an agent.                                                  *)
Looking  == {"install", "check", "inspect"}
Reached(steps) == setup.step \in steps \/ (setup.step = "over" /\ setup.errs = {})

(* Which version commands find, once the setup has looked.                 *)
FoundInv ==
  /\ setup.step = "inspect" => Found # Missing
  /\ Reached({"mcp", "skill"}) => Found # Missing /\ (Pinned = AnyVersion \/ Found = Pinned)

(* The first n servers of a plan, each as it was last described.           *)
Described(asked, n) ==
  {asked[i] : i \in {j \in 1..n : \A k \in 1..n : k > j => asked[k].name # asked[j].name}}

(* The servers left are the last ones of the plan; those before them are   *)
(* registered.                                                             *)
ServersInv ==
  \E n \in 0..Len(setup.plan.servers) :
    /\ Len(setup.servers) = Len(setup.plan.servers) - n
    /\ \A i \in 1..Len(setup.servers) : setup.servers[i] = setup.plan.servers[n + i]
    /\ setup.step \in Looking => n = 0
    /\ Reached(Looking \cup {"mcp", "skill"}) => registered = Described(setup.plan.servers, n)
    /\ Reached({"skill"}) => n = Len(setup.plan.servers)

(* Nothing but the files listed is uploaded, and all of them in the end.   *)
PlanFiles == {e.path : e \in {f \in setup.plan.tree : ~f.dir}}
SkillInv ==
  /\ setup.plan.template \/ uploaded \subseteq ListSkillFiles
  /\ setup.step = "over" /\ setup.errs = {} =>
       uploaded = IF setup.plan.template THEN PlanFiles ELSE ListSkillFiles

SetupSteps == Looking \cup {"mcp", "skill", "over"}
SetupType ==
  /\ setup \in [plan : SetupPlans, step : SetupSteps, servers : Seq(Servers),
                errs : SUBSET {"install", "check", "version", "mcp", "node", "skill"}]
  /\ setup.step # "over" => setup.errs = {}

SetupInv == SetupType /\ FoundInv /\ ServersInv /\ SkillInv

LEMMA SetupTypeStep ==
  ASSUME SetupType, SetupNext
  PROVE  SetupType' /\ setup'.plan = setup.plan
<1>1. \A p \in SetupPlans : p.servers \in Seq(Servers)
  BY PlansReadable
<1>2. ASSUME NEW s, Go(s), s \in SetupSteps, setup.step # "over"
      PROVE  SetupType' /\ setup'.plan = setup.plan
  BY <1>2 DEF Go, SetupType
<1>3. ASSUME NEW w, Break(w), w \in {"install", "check", "version", "mcp", "node", "skill"}
      
      PROVE  SetupType' /\ setup'.plan = setup.plan
  BY <1>3 DEF Break, SetupType, SetupSteps
<1>4. CASE Install
  BY <1>2, <1>3, <1>4 DEF Install, SetupAt, SetupSteps, Looking
<1>5. CASE Check
  BY <1>2, <1>3, <1>5 DEF Check, SetupAt, SetupSteps, Looking
<1>6. CASE InspectRuntime
  BY <1>2, <1>3, <1>6 DEF InspectRuntime, SetupAt, SetupSteps, Looking
<1>7. CASE InstallMCP
  <2>1. CASE setup.servers # <<>> /\ setup' = [setup EXCEPT !.servers = Tail(@)]
    <3>1. Tail(setup.servers) \in Seq(Servers)
      BY <2>1, HeadTailProperties DEF SetupType
    <3> QED
      BY <2>1, <3>1 DEF SetupType
  <2> QED
    BY <1>2, <1>3, <1>7, <2>1 DEF InstallMCP, SetupAt, SetupSteps
<1>8. CASE InstallSkill
  <2>1. CASE UNCHANGED setup
    BY <2>1 DEF SetupType
  <2> QED
    BY <1>2, <1>3, <1>8, <2>1 DEF InstallSkill, SetupAt, SetupSteps
<1> QED
  BY <1>4, <1>5, <1>6, <1>7, <1>8 DEF SetupNext

LEMMA FoundStep ==
  ASSUME SetupType, FoundInv, SetupNext
  PROVE  FoundInv'
<1>1. Pinned' = Pinned
  BY SetupTypeStep DEF Pinned
<1>2. ASSUME Break("install") \/ Break("check") \/ Break("version") \/ Break("mcp")
             \/ Break("node") \/ Break("skill")
      PROVE  FoundInv'
  <2>1. setup'.step = "over" /\ setup'.errs # {}
    BY <1>2 DEF Break, SetupType
  <2> QED
    BY <2>1 DEF FoundInv, Reached
<1>3. ASSUME NEW s, Go(s), s \in {"mcp", "skill", "over"}, Found' = Found,
             Found # Missing, Pinned = AnyVersion \/ Found = Pinned
      PROVE  FoundInv'
  BY <1>1, <1>3 DEF Go, SetupType, FoundInv, Reached
<1>4. CASE Install
  <2>1. CASE Go("check")
    BY <2>1 DEF Go, SetupType, FoundInv, Reached
  <2> QED
    BY <1>2, <1>4, <2>1 DEF Install
<1>5. CASE Check
  <2>1. Found' = Found
    BY <1>5 DEF Check, Found, FoundOn
  <2>2. CASE Found # Missing /\ Go("inspect")
    BY <2>1, <2>2 DEF Go, SetupType, FoundInv, Reached
  <2> QED
    BY <1>2, <1>5, <2>2 DEF Check
<1>6. CASE InspectRuntime
  <2>1. Found' = Found
    BY <1>6 DEF InspectRuntime, Found, FoundOn
  <2>2. Found # Missing
    BY <1>6 DEF InspectRuntime, SetupAt, FoundInv
  <2> QED
    BY <1>2, <1>3, <1>6, <2>1, <2>2 DEF InspectRuntime
<1>7. CASE InstallMCP \/ InstallSkill
  <2>1. Found' = Found
    BY <1>7 DEF InstallMCP, InstallSkill, Found, FoundOn
  <2>2. setup.step \in {"mcp", "skill"}
    BY <1>7 DEF InstallMCP, InstallSkill, SetupAt
  <2>3. Found # Missing /\ (Pinned = AnyVersion \/ Found = Pinned)
    BY <2>2 DEF FoundInv, Reached
  <2>4. ASSUME setup'.step = setup.step PROVE FoundInv'
    BY <1>1, <2>1, <2>2, <2>3, <2>4 DEF FoundInv, Reached
  <2>5. CASE setup' = [setup EXCEPT !.servers = Tail(@)] \/ UNCHANGED setup
    BY <2>4, <2>5 DEF SetupType
  <2> QED
    BY <1>2, <1>3, <1>7, <2>1, <2>3, <2>5 DEF InstallMCP, InstallSkill
<1> QED
  BY <1>4, <1>5, <1>6, <1>7 DEF SetupNext

(* Describing one more server: what bore its name goes, it is added.       *)
LEMMA DescribedNext ==
  ASSUME NEW asked, NEW n \in Nat
  PROVE  Described(asked, n + 1)
           = {s \in Described(asked, n) : s.name # asked[n + 1].name} \cup {asked[n + 1]}
<1> DEFINE s == asked[n + 1]
           L(m, j) == \A k \in 1..m : k > j => asked[k].name # asked[j].name
<1>1. \A j \in 1..n : L(n + 1, j) <=> L(n, j) /\ s.name # asked[j].name
  OBVIOUS
<1>2. L(n + 1, n + 1)
  OBVIOUS
<1>3. \A m \in Nat : Described(asked, m) = {asked[i] : i \in {j \in 1..m : L(m, j)}}
  BY DEF Described
<1> HIDE DEF s, L
<1>4. 1..(n + 1) = (1..n) \cup {n + 1} /\ n + 1 \notin 1..n
  OBVIOUS
<1>5. \A x : x \in Described(asked, n + 1) <=>
          \/ \E j \in 1..n : L(n, j) /\ s.name # asked[j].name /\ x = asked[j]
          \/ x = s
  BY <1>1, <1>2, <1>3, <1>4 DEF s
<1>6. \A x : x \in Described(asked, n) <=> \E j \in 1..n : L(n, j) /\ x = asked[j]
  BY <1>3
<1>7. \A x : x \in Described(asked, n + 1) <=>
              (x \in Described(asked, n) /\ x.name # s.name) \/ x = s
  BY <1>5, <1>6
<1> QED
  BY <1>7 DEF s

LEMMA ServersStep ==
  ASSUME SetupType, ServersInv, SetupNext
  PROVE  ServersInv'
<1> DEFINE asked == setup.plan.servers
<1>1. SetupType' /\ setup'.plan = setup.plan
  BY SetupTypeStep
<1>2. asked \in Seq(Servers)
  BY PlansReadable DEF SetupType
<1>3. PICK n \in 0..Len(asked) :
         /\ Len(setup.servers) = Len(asked) - n
         /\ \A i \in 1..Len(setup.servers) : setup.servers[i] = asked[n + i]
         /\ setup.step \in Looking => n = 0
         /\ Reached(Looking \cup {"mcp", "skill"}) => registered = Described(asked, n)
         /\ Reached({"skill"}) => n = Len(asked)
  BY DEF ServersInv
<1>4. ASSUME NEW m \in 0..Len(asked),
             Len(setup'.servers) = Len(asked) - m,
             \A i \in 1..Len(setup'.servers) : setup'.servers[i] = asked[m + i],
             setup'.step \in Looking => m = 0,
             Reached(Looking \cup {"mcp", "skill"})' => registered' = Described(asked, m),
             Reached({"skill"})' => m = Len(asked)
      PROVE  ServersInv'
  BY <1>1, <1>4 DEF ServersInv
<1>5. ASSUME setup'.step = "over", setup'.errs # {}, setup'.servers = setup.servers
      PROVE  ServersInv'
  <2>1. /\ ~Reached(Looking \cup {"mcp", "skill"})' /\ ~Reached({"skill"})'
        /\ setup'.step \notin Looking
    BY <1>5 DEF Reached, Looking
  <2> QED
    BY <1>3, <1>4, <1>5, <2>1
<1>6. ASSUME Break("install") \/ Break("check") \/ Break("version") \/ Break("mcp")
             \/ Break("node") \/ Break("skill")
      PROVE  ServersInv'
  <2>1. PICK why : Break(why)
    BY <1>6
  <2>2. setup' = [setup EXCEPT !.step = "over", !.errs = {why}]
    BY <2>1 DEF Break
  <2>3. setup'.step = "over" /\ setup'.errs = {why} /\ setup'.servers = setup.servers
    BY <2>2 DEF SetupType
  <2> QED
    BY <1>5, <2>3
<1>7. ASSUME NEW s, Go(s), s \in SetupSteps, UNCHANGED registered,
             setup.step \in Looking \cup {"mcp", "skill"},
             s \in Looking => setup.step \in Looking,
             s \in {"skill", "over"} => n = Len(asked)
      PROVE  ServersInv'
  <2>1. setup'.step = s /\ setup'.servers = setup.servers
    BY <1>7 DEF Go, SetupType
  <2>2. registered' = Described(asked, n)
    BY <1>3, <1>7 DEF Reached
  <2>3. Reached({"skill"})' => n = Len(asked)
    BY <1>7, <2>1 DEF Reached
  <2>4. setup'.step \in Looking => n = 0
    BY <1>3, <1>7, <2>1
  <2> QED
    BY <1>3, <1>4, <2>1, <2>2, <2>3, <2>4
<1>8. CASE Install \/ Check \/ InspectRuntime
  <2>1. setup.step \in Looking /\ UNCHANGED registered
    BY <1>8 DEF Install, Check, InspectRuntime, SetupAt, Looking
  <2>2. \E s \in {"check", "inspect", "mcp"} : Go(s)
        \/ Break("install") \/ Break("check") \/ Break("version")
    BY <1>8 DEF Install, Check, InspectRuntime
  <2> QED
    BY <1>6, <1>7, <2>1, <2>2 DEF SetupSteps, Looking
<1>9. CASE InstallMCP
  <2>1. setup.step = "mcp"
    BY <1>9 DEF InstallMCP, SetupAt
  <2>2. CASE setup.servers = <<>> /\ Go("skill") /\ UNCHANGED registered
    <3>1. n = Len(asked)
      BY <1>2, <1>3, <2>2
    <3> QED
      BY <1>7, <2>1, <2>2, <3>1 DEF SetupSteps, Looking
  <2>3. CASE /\ setup.servers # <<>>
             /\ registered' = Others(Head(setup.servers).name) \cup {Head(setup.servers)}
             /\ setup' = [setup EXCEPT !.servers = Tail(@)]
    <3>1. setup'.step = "mcp" /\ setup'.servers = Tail(setup.servers)
      BY <2>1, <2>3 DEF SetupType
    <3>2. setup.servers \in Seq(Servers) /\ Len(setup.servers) \in Nat /\ Len(setup.servers) > 0
      BY <2>3 DEF SetupType
    <3>3. n + 1 \in 0..Len(asked) /\ Head(setup.servers) = asked[n + 1]
      BY <1>2, <1>3, <3>2
    <3>4. /\ Len(setup'.servers) = Len(asked) - (n + 1)
          /\ \A i \in 1..Len(setup'.servers) : setup'.servers[i] = setup.servers[i + 1]
      BY <1>2, <1>3, <3>1, <3>2
    <3>5. \A i \in 1..Len(setup'.servers) : setup'.servers[i] = asked[(n + 1) + i]
      <4>1. ASSUME NEW i \in 1..Len(setup'.servers) PROVE setup'.servers[i] = asked[(n + 1) + i]
        <5>1. i + 1 \in 1..Len(setup.servers) /\ n + (i + 1) = (n + 1) + i
          BY <1>2, <1>3, <3>2, <3>4
        <5> QED
          BY <1>3, <3>4, <5>1
      <4> QED
        BY <4>1
    <3>6. registered' = Described(asked, n + 1)
      <4>1. registered = Described(asked, n)
        BY <1>3, <2>1 DEF Reached
      <4>2. n \in Nat
        BY <1>2, <1>3
      <4> QED
        BY <2>3, <3>3, <4>1, <4>2, DescribedNext DEF Others
    <3>7. ~Reached({"skill"})' /\ setup'.step \notin Looking
      BY <3>1 DEF Reached, Looking
    <3> QED
      BY <1>4, <3>3, <3>4, <3>5, <3>6, <3>7
  <2> QED
    BY <1>6, <1>9, <2>2, <2>3 DEF InstallMCP
<1>10. CASE InstallSkill
  <2>1. setup.step = "skill" /\ UNCHANGED registered
    BY <1>10 DEF InstallSkill, SetupAt
  <2>2. n = Len(asked)
    BY <1>3, <2>1 DEF Reached
  <2>3. CASE UNCHANGED setup
    BY <1>3, <1>4, <2>1, <2>3 DEF Reached
  <2> QED
    BY <1>6, <1>7, <1>10, <2>1, <2>2, <2>3 DEF InstallSkill, SetupSteps, Looking
<1> QED
  BY <1>8, <1>9, <1>10 DEF SetupNext
LEMMA SkillStep ==
  ASSUME SetupType, SkillInv, SetupNext
  PROVE  SkillInv'
<1>1. SetupType' /\ setup'.plan = setup.plan
  BY SetupTypeStep
<1>2. ListSkillFiles' = ListSkillFiles /\ PlanFiles' = PlanFiles
  BY <1>1 DEF ListSkillFiles, PlanFiles, Visited, EvalsIsFile, Excluded, Included
<1>3. ASSUME uploaded' = uploaded, setup'.step # "over" \/ setup'.errs # {}
      PROVE  SkillInv'
  BY <1>1, <1>2, <1>3 DEF SkillInv
<1>4. CASE Install \/ Check \/ InspectRuntime \/ InstallMCP
  <2>1. setup.step \in Looking \cup {"mcp"} /\ uploaded' = uploaded
    BY <1>4 DEF Install, Check, InspectRuntime, InstallMCP, SetupAt, Looking
  <2>2. \/ \E s \in {"check", "inspect", "mcp", "skill"} : Go(s)
        \/ setup' = [setup EXCEPT !.servers = Tail(@)]
        \/ \E w \in {"install", "check", "version", "mcp", "node"} : Break(w)
    BY <1>4 DEF Install, Check, InspectRuntime, InstallMCP
  <2>3. setup'.step # "over" \/ setup'.errs # {}
    BY <2>1, <2>2 DEF Go, Break, SetupType, Looking
  <2> QED
    BY <1>3, <2>1, <2>3
<1>5. CASE InstallSkill
  <2>1. setup.step = "skill"
    BY <1>5 DEF InstallSkill, SetupAt
  <2>2. CASE setup.plan.template /\ uploaded' = PlanFiles
    BY <1>1, <1>2, <2>2 DEF SkillInv
  <2>3. CASE ~setup.plan.template /\ uploaded = ListSkillFiles /\ UNCHANGED uploaded
    BY <1>1, <1>2, <2>3 DEF SkillInv
  <2>4. CASE /\ ~setup.plan.template /\ UNCHANGED setup
             /\ \E path \in ListSkillFiles \ uploaded : uploaded' = uploaded \cup {path}
    BY <1>1, <1>2, <2>1, <2>4 DEF SkillInv
  <2>5. CASE Break("skill") /\ UNCHANGED uploaded
    BY <1>3, <2>5 DEF Break, SetupType
  <2> QED
    BY <1>5, <2>2, <2>3, <2>4, <2>5 DEF InstallSkill, PlanFiles
<1> QED
  BY <1>4, <1>5 DEF SetupNext

(* The files listed are those wanted, all of them unless the root has a    *)
(* plain file evals.                                                       *)
LEMMA ListedAreWanted ==
  ASSUME setup.plan \in SetupPlans
  PROVE  /\ ListSkillFiles \subseteq Wanted
         /\ EvalsIsFile \/ Wanted \subseteq ListSkillFiles
<1>1. ASSUME NEW path PROVE Excluded(path) <=>
        \E n \in 0..Len(path) : SubSeq(path, 1, n) \in setup.plan.excluded
  BY DEF Excluded, Prefixes
<1>2. ASSUME NEW e \in setup.plan.tree, ~e.dir PROVE e.path \in Seq(Nat) /\ e.path # <<>>
  BY <1>2, PlansReadable
<1>3. ASSUME NEW path \in Seq(Nat), path # <<>>
      PROVE  /\ Visited(path) => path[1] # Evals
             /\ ~EvalsIsFile => (Visited(path) <=> path[1] # Evals)
  <2>1. path[1] \in Nat /\ Evals \in Nat
    BY <1>3, PlansReadable
  <2> QED
    BY <2>1 DEF Visited
<1>4. \A path \in ListSkillFiles : path \in Wanted
  BY <1>1, <1>2, <1>3 DEF ListSkillFiles, Wanted
<1>5. ~EvalsIsFile => \A path \in Wanted : path \in ListSkillFiles
  BY <1>1, <1>2, <1>3 DEF ListSkillFiles, Wanted
<1> QED
  BY <1>4, <1>5

LEMMA SetupInvInit ==
  ASSUME SetupInit
  PROVE  SetupInv
<1>1. PICK p \in SetupPlans :
        setup = [plan |-> p, step |-> IF p.host THEN "check" ELSE "install",
                 servers |-> p.servers, errs |-> {}]
  BY DEF SetupInit
<1>2. p.servers \in Seq(Servers)
  BY PlansReadable
<1>3. SetupType
  BY <1>1, <1>2 DEF SetupType, SetupSteps, Looking
<1>4. /\ setup.step \in {"check", "install"}
      /\ setup.plan.servers = p.servers /\ setup.servers = p.servers
  BY <1>1
<1>5. FoundInv
  BY <1>4 DEF FoundInv, Reached
<1>6. ServersInv
  <2>1. registered = Described(p.servers, 0)
    BY DEF SetupInit, Described
  <2>2. 0 \in 0..Len(p.servers) /\ Len(p.servers) = Len(p.servers) - 0
    BY <1>2
  <2>3. \A i \in 1..Len(p.servers) : p.servers[i] = p.servers[0 + i]
    BY <1>2
  <2>4. ~Reached({"skill"})
    BY <1>4 DEF Reached
  <2> QED
    BY <1>4, <2>1, <2>2, <2>3, <2>4 DEF ServersInv
<1>7. SkillInv
  BY <1>4 DEF SkillInv, SetupInit
<1> QED
  BY <1>3, <1>5, <1>6, <1>7 DEF SetupInv

LEMMA ReadyAgentFollows ==
  ASSUME SetupInv
  PROVE  ReadyAgent
<1>1. setup.plan \in SetupPlans /\ setup.plan.servers \in Seq(Servers)
  BY PlansReadable DEF SetupInv, SetupType
<1>2. setup.plan.template \/ uploaded \subseteq Wanted
  BY <1>1, ListedAreWanted DEF SetupInv, SkillInv
<1>3. ASSUME setup.step = "over", setup.errs = {}
      PROVE  /\ Found # Missing /\ (Pinned = AnyVersion \/ Found = Pinned)
             /\ registered = LastDescribed
             /\ \A s, t \in registered : s.name = t.name => s = t
             /\ EvalsIsFile \/ Wanted \subseteq uploaded
  <2>1. Found # Missing /\ (Pinned = AnyVersion \/ Found = Pinned)
    BY <1>3 DEF SetupInv, FoundInv, Reached
  <2> DEFINE asked == setup.plan.servers
  <2>2. registered = Described(asked, Len(asked))
    BY <1>3 DEF SetupInv, ServersInv, Reached
  <2>3. DOMAIN asked = 1..Len(asked) /\ Len(asked) \in Nat
    BY <1>1
  <2>4. registered = LastDescribed
    BY <2>2, <2>3 DEF LastDescribed, Described
  <2>5. ASSUME NEW s \in registered, NEW t \in registered, s.name = t.name PROVE s = t
    <3>1. PICK i \in 1..Len(asked) :
            s = asked[i] /\ \A k \in 1..Len(asked) : k > i => asked[k].name # asked[i].name
      BY <2>2 DEF Described
    <3>2. PICK j \in 1..Len(asked) :
            t = asked[j] /\ \A k \in 1..Len(asked) : k > j => asked[k].name # asked[j].name
      BY <2>2 DEF Described
    <3>3. ~(i > j) /\ ~(j > i)
      BY <2>5, <3>1, <3>2
    <3> QED
      BY <2>3, <3>1, <3>2, <3>3
  <2>6. EvalsIsFile \/ Wanted \subseteq uploaded
    <3>1. Wanted \subseteq PlanFiles
      BY DEF Wanted, PlanFiles
    <3> QED
      BY <1>1, <1>3, <3>1, ListedAreWanted DEF SetupInv, SkillInv
  <2> QED
    BY <2>1, <2>4, <2>5, <2>6
<1> QED
  BY <1>2, <1>3 DEF ReadyAgent

(* For every plan of a setup, every version found in the runtime and every *)
(* step that fails: a setup that ends without an error leaves the version  *)
(* the configuration pins as the one commands find, each server as it was  *)
(* last described, and the skill; what is kept out is never uploaded.      *)
THEOREM ReadyAgentCorrect == SetupSpec => []ReadyAgent
<1>1. SetupInit => SetupInv
  BY SetupInvInit
<1>2. SetupInv /\ [SetupNext]_setupVars => SetupInv'
  <2>1. ASSUME SetupInv, SetupNext PROVE SetupInv'
    BY <2>1, SetupTypeStep, FoundStep, ServersStep, SkillStep DEF SetupInv
  <2>2. ASSUME SetupInv, UNCHANGED setupVars PROVE SetupInv'
    BY <2>2 DEF SetupInv, SetupType, FoundInv, ServersInv, SkillInv, Reached, Found, FoundOn,
       Pinned, ListSkillFiles, PlanFiles, Visited, EvalsIsFile, Excluded, Included, setupVars
  <2> QED
    BY <2>1, <2>2
<1>3. SetupInv => ReadyAgent
  BY ReadyAgentFollows
<1> QED
  BY <1>1, <1>2, <1>3, PTL DEF SetupSpec
==============================================================================
