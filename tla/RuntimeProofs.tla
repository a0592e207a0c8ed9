---------------------------- MODULE RuntimeProofs ----------------------------
(***************************************************************************)
(* What holds of the three runtimes for every configuration, any number of *)
(* calls, any exit codes and whatever a search may return.  What is inside *)
(* the workspace or the download target is a fact about path.Clean on      *)
(* paths of any length: a recursive function, reasoned about by taking a   *)
(* shortest sequence of segments for which a statement fails.              *)
(***************************************************************************)
EXTENDS Runtimes, WellFoundedInduction, TLAPS

(* A set of natural numbers that is not empty has a least member: the form *)
(* of induction used here.                                                 *)
LEMMA Least ==
  ASSUME NEW T \in SUBSET Nat, T # {}
  PROVE  \E n \in T : \A m \in T : n <= m
<1>1. IsWellFoundedOn(OpToRel(<, Nat), Nat)
  BY NatLessThanWellFounded
<1>2. \E n \in T : \A m \in T : ~(<<m, n>> \in OpToRel(<, Nat))
  BY <1>1, WFMin
<1>3. \A m, n \in Nat : <<m, n>> \in OpToRel(<, Nat) <=> m < n
  BY DEF OpToRel
<1>4. \E n \in T : \A m \in T : ~(m < n)
  BY <1>2, <1>3, Zenon
<1> QED
  BY <1>4

-----------------------------------------------------------------------------
(* One step of path.Clean: what a segment does to the cleaned path.        *)
Push(abs, done, s) ==
  CASE s = "." -> done
    [] s = ".." /\ done # <<>> /\ Last(done) # ".." -> Front(done)
    [] s = ".." /\ done = <<>> /\ abs -> done
    [] OTHER -> Append(done, s)

Pushes(abs, segs, f, n) == f = [k \in 0..n |-> IF k = 0 THEN <<>> ELSE Push(abs, f[k - 1], segs[k])]

LEMMA CleanIs ==
  ASSUME NEW p
  PROVE  Clean(p) = [p EXCEPT !.segs =
                       (CHOOSE f : Pushes(p.abs, p.segs, f, Len(p.segs)))[Len(p.segs)]]
BY DEF Clean, Push, Pushes

LEMMA PushesExist ==
  ASSUME NEW abs, NEW segs, NEW n \in Nat
  PROVE  \E f : Pushes(abs, segs, f, n)
<1> DEFINE T == {k \in Nat : ~\E f : Pushes(abs, segs, f, k)}
<1>1. ASSUME T # {} PROVE FALSE
  <2>1. PICK k \in T : \A m \in T : k <= m
    BY <1>1, Least
  <2>2. k # 0
    <3>1. Pushes(abs, segs, [j \in 0..0 |-> <<>>], 0)
      BY DEF Pushes
    <3> QED
      BY <2>1, <3>1
  <2>3. k - 1 \in Nat /\ k - 1 \notin T
    BY <2>1, <2>2
  <2>4. PICK f : Pushes(abs, segs, f, k - 1)
    BY <2>3
  <2> DEFINE g == [j \in 0..k |-> IF j = k THEN Push(abs, f[k - 1], segs[k]) ELSE f[j]]
  <2>5. Pushes(abs, segs, g, k)
    <3>1. \A j \in 0..(k - 1) : f[j] = IF j = 0 THEN <<>> ELSE Push(abs, f[j - 1], segs[j])
      BY <2>4 DEF Pushes
    <3>2. \A j \in 0..k : g[j] = IF j = 0 THEN <<>> ELSE Push(abs, g[j - 1], segs[j])
      BY <2>2, <2>3, <3>1
    <3> HIDE DEF g
    <3>3. g = [j \in 0..k |-> g[j]]
      BY DEF g
    <3> QED
      BY <3>2, <3>3 DEF Pushes
  <2> QED
    BY <2>1, <2>5
<1> QED
  BY <1>1

LEMMA PushesAgree ==
  ASSUME NEW abs, NEW segs, NEW more, NEW n \in Nat, NEW f, NEW g,
         Pushes(abs, segs, f, n), Pushes(abs, more, g, n + 1),
         \A k \in 1..n : segs[k] = more[k]
  PROVE  \A k \in 0..n : f[k] = g[k]
<1> DEFINE T == {k \in 0..n : f[k] # g[k]}
<1>1. ASSUME T # {} PROVE FALSE
  <2>1. T \in SUBSET Nat
    OBVIOUS
  <2>2. PICK k \in T : \A j \in T : k <= j
    BY <1>1, <2>1, Least
  <2>3. /\ f[k] = IF k = 0 THEN <<>> ELSE Push(abs, f[k - 1], segs[k])
        /\ g[k] = IF k = 0 THEN <<>> ELSE Push(abs, g[k - 1], more[k])
    BY <2>2 DEF Pushes
  <2>4. k # 0
    BY <2>2, <2>3
  <2>5. k - 1 \in 0..n /\ k - 1 \notin T /\ k \in 1..n
    BY <2>2, <2>4
  <2> QED
    BY <2>2, <2>3, <2>4, <2>5
<1> QED
  BY <1>1

-----------------------------------------------------------------------------
(* Induction over sequences: a set of them that is not empty has a member  *)
(* that is empty, or whose front is not in the set.                        *)
LEMMA AppendFacts ==
  ASSUME NEW S, NEW s \in Seq(S), NEW x \in S
  PROVE  /\ Append(s, x) \in Seq(S) /\ Len(Append(s, x)) = Len(s) + 1 /\ Len(s) \in Nat
         /\ \A k \in 1..Len(s) : Append(s, x)[k] = s[k]
         /\ Append(s, x)[Len(s) + 1] = x
OBVIOUS

LEMMA SplitLast ==
  ASSUME NEW S, NEW s \in Seq(S), s # <<>>
  PROVE  /\ Front(s) \in Seq(S) /\ Last(s) \in S /\ Len(s) \in Nat \ {0}
         /\ Len(Front(s)) = Len(s) - 1 /\ s = Append(Front(s), Last(s))
         /\ \A k \in 1..(Len(s) - 1) : Front(s)[k] = s[k]
<1>1. Len(s) \in Nat \ {0}
  OBVIOUS
<1>2. /\ Front(s) \in Seq(S) /\ Len(Front(s)) = Len(s) - 1
      /\ \A k \in 1..(Len(s) - 1) : Front(s)[k] = s[k]
  <2>1. Front(s) \in Seq(S)
    BY <1>1 DEF Front
  <2>2. Len(Front(s)) = Len(s) - 1
    <3>1. CASE Len(s) = 1
      BY <3>1 DEF Front
    <3>2. CASE Len(s) > 1
      BY <3>2 DEF Front
    <3>3. Len(s) = 1 \/ Len(s) > 1
      <4> DEFINE n == Len(s)
      <4>1. n \in Nat \ {0}
        BY <1>1
      <4> HIDE DEF n
      <4>2. n = 1 \/ n > 1
        BY <4>1
      <4> QED
        BY <4>2 DEF n
    <3> QED
      BY <3>1, <3>2, <3>3, Zenon
  <2>3. ASSUME NEW k \in 1..(Len(s) - 1) PROVE Front(s)[k] = s[k]
    <3>1. Front(s)[k] = s[1 + k - 1]
      BY <1>1 DEF Front
    <3> QED
      BY <3>1
  <2> QED
    BY <2>1, <2>2, <2>3
<1>3. Last(s) \in S
  BY <1>1 DEF Last
<1>4. s = Append(Front(s), Last(s))
  BY <1>1, <1>2, <1>3 DEF Last
<1> QED
  BY <1>1, <1>2, <1>3, <1>4

LEMMA SeqLeast ==
  ASSUME NEW S, NEW B \in SUBSET Seq(S), B # {}
  PROVE  \/ <<>> \in B
         \/ \E s \in Seq(S) \ B, x \in S : Append(s, x) \in B
<1> SUFFICES ASSUME <<>> \notin B
             PROVE  \E s \in Seq(S) \ B, x \in S : Append(s, x) \in B
  OBVIOUS
<1> DEFINE T == {Len(s) : s \in B}
<1>1. T \in SUBSET Nat /\ T # {}
  <2>1. \A s \in B : Len(s) \in Nat
    OBVIOUS
  <2>2. PICK s : s \in B
    OBVIOUS
  <2>3. Len(s) \in T
    BY <2>2
  <2> QED
    BY <2>1, <2>3
<1>2. PICK n \in T : \A m \in T : n <= m
  BY <1>1, Least
<1>3. PICK s \in B : Len(s) = n
  BY <1>2
<1>4. s \in Seq(S) /\ s # <<>>
  BY <1>3
<1>5. /\ Front(s) \in Seq(S) /\ Last(s) \in S /\ Len(Front(s)) = Len(s) - 1
      /\ s = Append(Front(s), Last(s)) /\ Len(s) \in Nat
  BY <1>4, SplitLast
<1>6. Front(s) \notin B
  <2>1. ~(n <= Len(Front(s)))
    BY <1>3, <1>5
  <2> QED
    BY <1>2, <2>1
<1> QED
  BY <1>3, <1>5, <1>6

-----------------------------------------------------------------------------
(* The segments path.Clean leaves of segs, and their recurrence.           *)
Reduce(abs, segs) == (CHOOSE f : Pushes(abs, segs, f, Len(segs)))[Len(segs)]

LEMMA CleanReduces ==
  ASSUME NEW abs, NEW segs
  PROVE  Clean([abs |-> abs, segs |-> segs]) = [abs |-> abs, segs |-> Reduce(abs, segs)]
BY CleanIs DEF Reduce

LEMMA ReduceEmpty ==
  ASSUME NEW abs
  PROVE  Reduce(abs, <<>>) = <<>>
<1>1. Len(<<>>) = 0
  OBVIOUS
<1>2. PICK f : f = (CHOOSE g : Pushes(abs, <<>>, g, 0)) /\ Pushes(abs, <<>>, f, 0)
  BY PushesExist
<1>3. f[0] = <<>>
  BY <1>2 DEF Pushes
<1> QED
  BY <1>1, <1>2, <1>3 DEF Reduce

LEMMA ReduceAppend ==
  ASSUME NEW S, NEW abs, NEW s \in Seq(S), NEW x \in S
  PROVE  Reduce(abs, Append(s, x)) = Push(abs, Reduce(abs, s), x)
<1> DEFINE n == Len(s)  t == Append(s, x)
<1>1. n \in Nat /\ Len(t) = n + 1 /\ t[n + 1] = x /\ \A k \in 1..n : s[k] = t[k]
  BY AppendFacts
<1>2. PICK f : f = (CHOOSE g : Pushes(abs, s, g, n)) /\ Pushes(abs, s, f, n)
  BY <1>1, PushesExist
<1> HIDE DEF n, t
<1>0. n + 1 \in Nat /\ n <= n + 1 /\ n + 1 # 0 /\ (n + 1) - 1 = n /\ n + 1 \in 0..(n + 1)
  BY <1>1
<1>3. PICK g : g = (CHOOSE h : Pushes(abs, t, h, n + 1)) /\ Pushes(abs, t, g, n + 1)
  BY <1>0, PushesExist
<1>4. \A k \in 0..n : f[k] = g[k]
  <2>1. n \in Nat /\ Pushes(abs, s, f, n) /\ Pushes(abs, t, g, n + 1)
    BY <1>1, <1>2, <1>3
  <2>2. \A k \in 1..n : s[k] = t[k]
    BY <1>1
  <2> QED
    BY <2>1, <2>2, PushesAgree
<1>5. g[n + 1] = Push(abs, g[n], x)
  <2>1. \A k \in 0..(n + 1) : g[k] = IF k = 0 THEN <<>> ELSE Push(abs, g[k - 1], t[k])
    BY <1>3 DEF Pushes
  <2>2. g[n + 1] = Push(abs, g[(n + 1) - 1], t[n + 1])
    BY <1>0, <2>1
  <2> QED
    BY <1>0, <1>1, <2>2
<1>6. Reduce(abs, s) = f[n] /\ Reduce(abs, t) = g[n + 1]
  BY <1>1, <1>2, <1>3 DEF Reduce, n
<1>7. Reduce(abs, t) = Push(abs, Reduce(abs, s), x)
  BY <1>1, <1>4, <1>5, <1>6
<1> QED
  BY <1>7 DEF t

(* A cleaned path has no ".", and ".." only at the head of a relative one. *)
Cleaned(abs, s) ==
  \A k \in 1..Len(s) : /\ s[k] # "."
                       /\ s[k] = ".." => ~abs /\ \A j \in 1..k : s[j] = ".."

LEMMA PushCleaned ==
  ASSUME NEW S, NEW abs \in BOOLEAN, NEW done \in Seq(S), NEW x \in S, Cleaned(abs, done)
  PROVE  Push(abs, done, x) \in Seq(S) /\ Cleaned(abs, Push(abs, done, x))
<1>1. CASE Push(abs, done, x) = done
  BY <1>1
<1>2. CASE done # <<>> /\ Push(abs, done, x) = Front(done)
  BY <1>2, SplitLast DEF Cleaned
<1>3. CASE /\ Push(abs, done, x) = Append(done, x) /\ x # "."
           /\ x = ".." => (done = <<>> /\ ~abs) \/ (done # <<>> /\ Last(done) = "..")
  <2> DEFINE t == Append(done, x)
  <2>1. /\ t \in Seq(S) /\ Len(t) = Len(done) + 1 /\ Len(done) \in Nat /\ t[Len(done) + 1] = x
        /\ \A k \in 1..Len(done) : t[k] = done[k]
    BY AppendFacts
  <2>2. x = ".." => ~abs /\ \A j \in 1..Len(done) : done[j] = ".."
    <3>1. CASE done = <<>>
      BY <1>3, <3>1
    <3>2. CASE done # <<>>
      BY <1>3, <3>2, <2>1, SplitLast DEF Cleaned, Last
    <3> QED
      BY <3>1, <3>2
  <2> HIDE DEF t
  <2>3. Cleaned(abs, t)
    BY <1>3, <2>1, <2>2 DEF Cleaned
  <2> QED
    BY <1>3, <2>1, <2>3 DEF t
<1> QED
  BY <1>1, <1>2, <1>3 DEF Push

LEMMA ReduceCleaned ==
  ASSUME NEW S, NEW abs \in BOOLEAN, NEW segs \in Seq(S)
  PROVE  Reduce(abs, segs) \in Seq(S) /\ Cleaned(abs, Reduce(abs, segs))
<1> DEFINE B == {s \in Seq(S) : ~(Reduce(abs, s) \in Seq(S) /\ Cleaned(abs, Reduce(abs, s)))}
<1>1. <<>> \notin B
  <2>1. <<>> \in Seq(S) /\ Cleaned(abs, <<>>)
    BY DEF Cleaned
  <2> QED
    BY <2>1, ReduceEmpty
<1>2. ASSUME NEW s \in Seq(S) \ B, NEW x \in S PROVE Append(s, x) \notin B
  <2>1. Reduce(abs, Append(s, x)) = Push(abs, Reduce(abs, s), x)
    BY ReduceAppend
  <2>2. Reduce(abs, s) \in Seq(S) /\ Cleaned(abs, Reduce(abs, s))
    OBVIOUS
  <2> QED
    BY <2>1, <2>2, PushCleaned
<1>3. B \in SUBSET Seq(S)
  OBVIOUS
<1>4. B = {}
  <2> HIDE DEF B
  <2> QED
    BY <1>1, <1>2, <1>3, SeqLeast
<1> QED
  BY <1>4

(* Segments that are neither "." nor ".." are appended as they are.        *)
PlainSegments(s) == \A k \in 1..Len(s) : s[k] \notin {".", ".."}

LEMMA ConcatFacts ==
  ASSUME NEW S, NEW t \in Seq(S), NEW s \in Seq(S), NEW x \in S
  PROVE  /\ t \o s \in Seq(S) /\ t \o <<>> = t
         /\ t \o Append(s, x) = Append(t \o s, x)
OBVIOUS

LEMMA ReducePlain ==
  ASSUME NEW S, NEW abs \in BOOLEAN, NEW t \in Seq(S), NEW segs \in Seq(S), PlainSegments(segs)
  PROVE  Reduce(abs, t \o segs) = Reduce(abs, t) \o segs
<1> DEFINE B == {s \in Seq(S) : PlainSegments(s) /\ Reduce(abs, t \o s) # Reduce(abs, t) \o s}
<1>0. Reduce(abs, t) \in Seq(S)
  BY ReduceCleaned
<1>1. <<>> \notin B
  <2>1. t \o <<>> = t /\ Reduce(abs, t) \o <<>> = Reduce(abs, t)
    BY <1>0
  <2> QED
    BY <2>1
<1>2. ASSUME NEW s \in Seq(S) \ B, NEW x \in S, PlainSegments(Append(s, x))
      PROVE  Reduce(abs, t \o Append(s, x)) = Reduce(abs, t) \o Append(s, x)
  <2>1. PlainSegments(s) /\ x \notin {".", ".."}
    BY <1>2, AppendFacts DEF PlainSegments
  <2>2. Reduce(abs, t \o s) = Reduce(abs, t) \o s
    BY <2>1
  <2>3. Reduce(abs, Append(t \o s, x)) = Push(abs, Reduce(abs, t \o s), x)
    <3> DEFINE u == t \o s
    <3>1. u \in Seq(S)
      OBVIOUS
    <3> HIDE DEF u, B
    <3>2. Reduce(abs, Append(u, x)) = Push(abs, Reduce(abs, u), x)
      BY <3>1, ReduceAppend
    <3> QED
      BY <3>2 DEF u
  <2>4. Push(abs, Reduce(abs, t) \o s, x) = Append(Reduce(abs, t) \o s, x)
    BY <2>1 DEF Push
  <2>5. /\ t \o Append(s, x) = Append(t \o s, x)
        /\ Reduce(abs, t) \o Append(s, x) = Append(Reduce(abs, t) \o s, x)
    BY <1>0, ConcatFacts
  <2> QED
    BY <2>2, <2>3, <2>4, <2>5
<1>3. B \in SUBSET Seq(S)
  OBVIOUS
<1>4. \A s \in Seq(S) \ B, x \in S : Append(s, x) \notin B
  BY <1>2
<1>5. B = {}
  <2> HIDE DEF B
  <2> QED
    BY <1>1, <1>3, <1>4, SeqLeast
<1> QED
  BY <1>5

-----------------------------------------------------------------------------
(* The checks that keep a path inside a directory.                         *)
Segments == STRING \cup {"workspace", "host"}
Path     == [abs : BOOLEAN, segs : Seq(Segments)]

LEMMA SeqMonotone ==
  ASSUME NEW S, NEW T, S \subseteq T, NEW s \in Seq(S)
  PROVE  s \in Seq(T)
OBVIOUS

LEMMA StringsAreSegments ==
  ASSUME NEW s \in Seq(STRING)
  PROVE  s \in Seq(Segments)
<1>1. STRING \subseteq Segments
  BY DEF Segments
<1> QED
  BY <1>1, SeqMonotone

LEMMA CleanFacts ==
  ASSUME NEW p \in Path
  PROVE  /\ Clean(p) \in Path /\ Clean(p).abs = p.abs /\ Clean(p).segs = Reduce(p.abs, p.segs)
         /\ Cleaned(p.abs, Clean(p).segs)
<1>1. p = [abs |-> p.abs, segs |-> p.segs] /\ p.abs \in BOOLEAN /\ p.segs \in Seq(Segments)
  BY DEF Path
<1>2. Clean([abs |-> p.abs, segs |-> p.segs]) = [abs |-> p.abs, segs |-> Reduce(p.abs, p.segs)]
  BY CleanReduces
<1>3. Reduce(p.abs, p.segs) \in Seq(Segments) /\ Cleaned(p.abs, Reduce(p.abs, p.segs))
  BY <1>1, ReduceCleaned
<1> QED
  BY <1>1, <1>2, <1>3 DEF Path

LEMMA PlainStays ==
  ASSUME NEW abs \in BOOLEAN, NEW s \in Seq(Segments), PlainSegments(s)
  PROVE  Reduce(abs, s) = s
<1>1. <<>> \in Seq(Segments) /\ <<>> \o s = s
  OBVIOUS
<1>2. Reduce(abs, <<>> \o s) = Reduce(abs, <<>>) \o s
  BY <1>1, ReducePlain
<1> QED
  BY <1>1, <1>2, ReduceEmpty

LEMMA PrefixOfConcat ==
  ASSUME NEW S, NEW s \in Seq(S), NEW t \in Seq(S)
  PROVE  IsPrefix(s, s \o t)
<1>1. Len(s) <= Len(s \o t)
  OBVIOUS
<1>2. SubSeq(s, 1, Len(s)) = s /\ SubSeq(s \o t, 1, Len(s)) = s
  OBVIOUS
<1> QED
  BY <1>1, <1>2 DEF IsPrefix

LEMMA JoinFacts ==
  ASSUME NEW dir \in Path, NEW p \in Path
  PROVE  /\ Join(dir, p) \in Path /\ Join(dir, p).abs = dir.abs
         /\ Join(dir, p).segs = Reduce(dir.abs, dir.segs \o p.segs)
         /\ Cleaned(dir.abs, Join(dir, p).segs)
<1> DEFINE q == [dir EXCEPT !.segs = @ \o p.segs]
<1>1. q \in Path /\ q.abs = dir.abs /\ q.segs = dir.segs \o p.segs
  <2>1. dir.segs \in Seq(Segments) /\ p.segs \in Seq(Segments) /\ dir.abs \in BOOLEAN
    BY DEF Path
  <2>2. dir.segs \o p.segs \in Seq(Segments)
    BY <2>1
  <2>0. dir = [abs |-> dir.abs, segs |-> dir.segs]
    BY DEF Path
  <2>3. q = [abs |-> dir.abs, segs |-> dir.segs \o p.segs]
    <3> DEFINE a == dir.abs  s == dir.segs  t == p.segs  u == s \o t
    <3>1. q = [dir EXCEPT !.segs = u] /\ dir = [abs |-> a, segs |-> s]
      BY <2>0
    <3> HIDE DEF a, s, u, q
    <3>2. q = [abs |-> a, segs |-> u]
      BY <3>1
    <3> QED
      BY <3>2 DEF a, s, u
  <2> QED
    BY <2>1, <2>2, <2>3 DEF Path
<1>2. Join(dir, p) = Clean(q)
  BY DEF Join
<1> HIDE DEF q
<1>3. /\ Clean(q) \in Path /\ Clean(q).abs = q.abs /\ Clean(q).segs = Reduce(q.abs, q.segs)
      /\ Cleaned(q.abs, Clean(q).segs)
  BY <1>1, CleanFacts
<1> QED
  BY <1>1, <1>2, <1>3

LEMMA CleanedIsPlain ==
  ASSUME NEW s \in Seq(Segments), NEW abs \in BOOLEAN, Cleaned(abs, s),
         abs \/ s = <<>> \/ Head(s) # ".."
  PROVE  PlainSegments(s)
<1> SUFFICES ASSUME NEW k \in 1..Len(s), s[k] \in {".", ".."} PROVE FALSE
  BY DEF PlainSegments
<1>1. s[k] = ".." /\ ~abs /\ \A j \in 1..k : s[j] = ".."
  BY DEF Cleaned
<1>2. s[1] = ".." /\ s # <<>>
  BY <1>1
<1>3. Head(s) = s[1]
  BY <1>2
<1> QED
  BY <1>1, <1>2, <1>3

LEMMA WorkspaceFacts ==
  /\ Workspace \in Path /\ Workspace.abs = TRUE /\ Clean(Workspace) = Workspace
<1> DEFINE W == <<"workspace">>
<1>1. W \in Seq(Segments) /\ PlainSegments(W)
  <2>1. W \in Seq(Segments) /\ Len(W) = 1 /\ W[1] = "workspace"
    <3>1. "workspace" \in Segments
      BY DEF Segments
    <3> QED
      BY <3>1
  <2> HIDE DEF W
  <2>2. \A k \in 1..Len(W) : k = 1
    BY <2>1
  <2> QED
    BY <2>1, <2>2 DEF PlainSegments
<1>2. Workspace = [abs |-> TRUE, segs |-> W]
  BY DEF Workspace, Abs
<1> HIDE DEF W
<1>3. Reduce(TRUE, W) = W
  BY <1>1, PlainStays
<1>4. Clean([abs |-> TRUE, segs |-> W]) = [abs |-> TRUE, segs |-> Reduce(TRUE, W)]
  BY CleanReduces
<1> QED
  BY <1>1, <1>2, <1>3, <1>4 DEF Path

(* DockerRuntime.remotePath: whatever ".." a relative path has, what is     *)
(* used of it is the workspace or below.                                    *)
LEMMA DockerPathInside ==
  ASSUME NEW p \in Path, p.abs = FALSE, dockerPath(Workspace, p).ok = TRUE
  PROVE  Inside(Workspace, dockerPath(Workspace, p).path)
<1> DEFINE j == Join(Workspace, p)
<1>1. /\ j \in Path /\ j.abs = TRUE /\ Cleaned(TRUE, j.segs)
  BY WorkspaceFacts, JoinFacts
<1>2. isSubPath(Workspace, j) /\ dockerPath(Workspace, p).path = j
  BY DEF dockerPath, Use, Refused
<1> HIDE DEF j
<1>3. j.segs \in Seq(Segments)
  BY <1>1 DEF Path
<1>4. PlainSegments(j.segs)
  BY <1>1, <1>3, CleanedIsPlain
<1>5. Reduce(TRUE, j.segs) = j.segs
  BY <1>3, <1>4, PlainStays
<1>6. Clean(j) = j
  <2>1. Clean(j) \in Path /\ Clean(j).abs = TRUE /\ Clean(j).segs = Reduce(TRUE, j.segs)
    BY <1>1, CleanFacts
  <2>2. \A x \in Path : x = [abs |-> x.abs, segs |-> x.segs]
    BY DEF Path
  <2> QED
    BY <1>1, <1>5, <2>1, <2>2
<1> QED
  BY <1>2, <1>6, WorkspaceFacts DEF isSubPath

(* safeLocalTarget: whatever the name a search reports, the host file it is *)
(* written to is in the target directory or below.                          *)
LEMMA TargetInside ==
  ASSUME NEW root \in Path, NEW rel \in Path, safeLocalTarget(root, rel).ok = TRUE
  PROVE  Inside(Clean(root), safeLocalTarget(root, rel).path)
<1> DEFINE c == Clean(rel)
<1>1. c \in Path /\ Cleaned(c.abs, c.segs)
  BY CleanFacts
<1>2. /\ ~(c.abs \/ (c.segs # <<>> /\ Head(c.segs) = ".."))
      /\ safeLocalTarget(root, rel).path = Join(root, c)
  BY DEF safeLocalTarget, Use, Refused
<1> HIDE DEF c
<1>3. /\ c.segs \in Seq(Segments) /\ c.abs \in BOOLEAN
      /\ root.segs \in Seq(Segments) /\ root.abs \in BOOLEAN
  BY <1>1 DEF Path
<1>4. PlainSegments(c.segs)
  BY <1>1, <1>2, <1>3, CleanedIsPlain
<1>5. Reduce(root.abs, root.segs \o c.segs) = Reduce(root.abs, root.segs) \o c.segs
  BY <1>3, <1>4, ReducePlain
<1>6. /\ Join(root, c).abs = root.abs /\ Join(root, c).segs = Reduce(root.abs, root.segs \o c.segs)
      /\ Clean(root).abs = root.abs /\ Clean(root).segs = Reduce(root.abs, root.segs)
  BY <1>1, JoinFacts, CleanFacts
<1>7. Reduce(root.abs, root.segs) \in Seq(Segments)
  BY <1>3, ReduceCleaned
<1>8. IsPrefix(Reduce(root.abs, root.segs), Reduce(root.abs, root.segs) \o c.segs)
  BY <1>3, <1>7, PrefixOfConcat
<1> QED
  BY <1>2, <1>5, <1>6, <1>8 DEF Inside

-----------------------------------------------------------------------------
(* What each step of Create, and the calls that follow it, can rely on.    *)
Creating == {"creating", "starting", "connecting", "deleting", "mkdir", "rollback", "cleanup"}
Using    == {"ready", "executing", "downloading"}
Steps    == {"new", "failed", "discarded"} \cup Creating \cup Using

TypeInv ==
  /\ config \in Configs /\ pc \in Steps
  /\ handle \in BOOLEAN /\ started \in BOOLEAN /\ workdir \in BOOLEAN /\ orphan \in BOOLEAN
  /\ calls \in Nat /\ expired \in BOOLEAN

EgressFitsPolicy ==
  Is("docker") \/ Is("opensandbox") =>
    CASE config.policy = "deny_all"       -> network = "none"
      [] config.policy = "allow_declared" -> network \in {"none", "declared"}
      [] OTHER                            -> TRUE

HandleInv ==
  /\ pc \in {"new", "creating"} => remote = "absent" /\ handle = FALSE
  /\ pc = "starting" => Is("docker") /\ handle = TRUE /\ EgressFitsPolicy
  /\ pc \in {"connecting", "deleting"} => Is("opensandbox") /\ handle = FALSE
  /\ pc = "connecting" => remote = "running" /\ EgressFitsPolicy
  /\ pc = "mkdir" => handle = TRUE /\ remote = "running" /\ EgressFitsPolicy
  /\ pc \in {"rollback", "cleanup"} \cup Using => handle = TRUE
  /\ pc \in {"executing", "downloading"} => calls > 0
  /\ calls > 0 => pc \in Using \cup {"discarded"}
  /\ Is("docker") /\ pc \in Creating => config.policy # "allow_declared"

(* The process group of a local command and what Exec knows about it.      *)
ExecTypes ==
  /\ leader \in {"none", "running", "exited", "signalled"} /\ leaderCode \in Int
  /\ child \in Local!Children /\ termSent \in BOOLEAN
  /\ grace \in {"off", "waiting", "fired", "stopped"}
  /\ wait \in {"idle", "waiting", "draining", "returned"}
  /\ runErr \in {"nil", "exit", "context", "waitDelay", "other"}

ExecInv ==
  /\ wait # "returned" => execResult = Local!NoResult
  /\ termSent \/ grace = "waiting" => expired
  /\ leader = "signalled" => leaderCode = -1
  /\ leader = "signalled" /\ wait # "idle" => expired
  /\ wait \in {"draining", "returned"} =>
       /\ runErr # "other" => Local!LeaderExited
       /\ runErr \in {"nil", "waitDelay"} =>
            leader = "exited" /\ leaderCode = 0 /\ termSent = FALSE
       /\ runErr = "exit" => leaderCode # 0
  /\ termSent /\ wait \in {"waiting", "draining"} => grace \in {"waiting", "fired"}
  /\ grace = "fired" => child = Local!Gone
  /\ termSent /\ wait = "returned" => ~Local!PipesOpen

(* The workers of a download, and the files that were handed over to them. *)
PoolTypes ==
  /\ next \in Nat \ {0} /\ DOMAIN files = 1..Len(files) /\ Len(files) \in Nat
  /\ cancelled \in BOOLEAN /\ errCh \in {"none", "fault", "context"}
  /\ sender \in {"idle", "sending", "sent", "stopped", "returned"}

Settled(k) == files[k].skip \/ (files[k].target.ok /\ files[k].target.path \in DOMAIN written)

Kept(p) == Inside(Clean(HostDir), p) /\ Pool!AsFound(p)

Busy(k) == \E w \in DOMAIN worker : worker[w].at \in {"downloading", "failed"} /\ worker[w].file = k

PoolInv ==
  /\ \A k \in DOMAIN files : files[k].target.ok => Inside(Clean(HostDir), files[k].target.path)
  /\ \A p \in DOMAIN written : Kept(p)
  /\ \A w \in DOMAIN worker :
       /\ worker[w].at = "downloading" => worker[w].file \in DOMAIN files
       /\ worker[w].at = "failed" =>
            /\ worker[w].err \in {"fault", "context"}
            /\ worker[w].err = "context" => expired \/ errCh # "none"
       /\ worker[w].at = "cancelling" => errCh # "none"
  /\ errCh = "none" => \A k \in DOMAIN files : k < next => Settled(k) \/ Busy(k)
  /\ errCh = "context" => expired
  /\ cancelled => errCh # "none"
  /\ sender = "sent" => next > Len(files)
  /\ sender = "stopped" => expired \/ cancelled
-----------------------------------------------------------------------------
(* The steps of a runtime that is in use leave the handle alone.           *)
UsingStep ==
  /\ UNCHANGED <<config, handle, started, remote, workdir, network, orphan>>
  /\ expired' \in BOOLEAN
  /\ \/ UNCHANGED <<pc, calls, ret>>
     \/ pc = "ready" /\ pc' \in Using /\ calls' = calls + 1
     \/ pc \in {"executing", "downloading"} /\ pc' \in Using /\ calls' = calls

LEMMA UsingSteps ==
  ASSUME expired \in BOOLEAN,
         \/ Exec \/ LocalStart \/ LocalReturn \/ LocalStep
         \/ \E p \in Paths, mkdir, copy, second \in {"ok", "failed"} :
              \/ DockerTransfer(p, mkdir, copy) \/ SandboxTransfer(p, mkdir, <<copy, second>>)
              \/ HostTransfer(p, mkdir, copy)
         \/ SandboxDownloadDir \/ DownloadStep \/ DownloadReturns
         \/ GroupStep \/ EscalationStep \/ Expire
  PROVE  UsingStep
<1>1. CASE Exec
  BY <1>1 DEF Exec, Calling, UsingStep, Using, backend
<1>2. CASE LocalStart
  BY <1>2 DEF LocalStart, Calling, UsingStep, Using, backend
<1>3. CASE LocalReturn
  BY <1>3 DEF LocalReturn, Goto, UsingStep, Using, backend
<1>4. CASE LocalStep \/ GroupStep \/ EscalationStep
  BY <1>4 DEF LocalStep, GroupStep, EscalationStep, UsingStep, backend,
              Local!ExecSteps, Local!SignalGroup
<1>5. ASSUME NEW p \in Paths, NEW mkdir \in {"ok", "failed"}, NEW copy \in {"ok", "failed"},
             NEW second \in {"ok", "failed"},
             \/ DockerTransfer(p, mkdir, copy) \/ SandboxTransfer(p, mkdir, <<copy, second>>)
             \/ HostTransfer(p, mkdir, copy)
      PROVE  UsingStep
  <2>1. ASSUME NEW end, NEW succeeds, Transferred(p, end, succeeds) PROVE UsingStep
    BY <2>1 DEF Transferred, Calling, UsingStep, Using, backend
  <2>2. CASE DockerTransfer(p, mkdir, copy)
    BY <2>1, <2>2 DEF DockerTransfer
  <2>3. CASE SandboxTransfer(p, mkdir, <<copy, second>>)
    BY <2>1, <2>3 DEF SandboxTransfer
  <2>4. CASE HostTransfer(p, mkdir, copy)
    BY <2>1, <2>4 DEF HostTransfer
  <2> QED
    BY <1>5, <2>2, <2>3, <2>4
<1>6. CASE SandboxDownloadDir
  BY <1>6 DEF SandboxDownloadDir, Calling, Goto, UsingStep, Using, backend
<1>7. CASE DownloadStep
  BY <1>7 DEF DownloadStep, UsingStep, backend
<1>8. CASE DownloadReturns
  BY <1>8 DEF DownloadReturns, Goto, UsingStep, Using, backend
<1>9. CASE Expire
  BY <1>9 DEF Expire, UsingStep, backend
<1> QED
  BY <1>1, <1>2, <1>3, <1>4, <1>5, <1>6, <1>7, <1>8, <1>9

HandleAll == TypeInv /\ HandleInv /\ HandleTellsTheTruth

LEMMA HandleInit == Init => HandleAll
<1> SUFFICES ASSUME Init PROVE HandleAll
  OBVIOUS
<1>1. TypeInv
  BY DEF Init, TypeInv, Steps
<1>2. HandleInv
  BY DEF Init, HandleInv, Using, Creating
<1>3. HandleTellsTheTruth
  BY DEF Init, HandleTellsTheTruth, Alive
<1> QED
  BY <1>1, <1>2, <1>3 DEF HandleAll

(* Whatever keeps what the handle knows and has, keeps the invariant.      *)
LEMMA HandleUsing ==
  ASSUME HandleAll, UsingStep
  PROVE  HandleAll'
<1> USE DEF HandleAll
<1>1. TypeInv'
  BY DEF TypeInv, UsingStep, Using, Steps
<1>2. HandleInv'
  BY DEF TypeInv, HandleInv, UsingStep, Using, Creating, Steps, Is, EgressFitsPolicy
<1>3. HandleTellsTheTruth'
  BY DEF TypeInv, HandleInv, HandleTellsTheTruth, UsingStep, Using, Creating, Steps, Is, At, Alive
<1> QED
  BY <1>1, <1>2, <1>3

LEMMA HandleStep == HandleAll /\ [Next]_vars => HandleAll'
<1> SUFFICES ASSUME HandleAll, [Next]_vars PROVE HandleAll'
  OBVIOUS
<1> USE DEF HandleAll
<1> DEFINE Frame == UNCHANGED <<config, calls, expired>>
<1>0. NoIO => Frame
  BY DEF NoIO
<1>1. CASE NewRuntime
  <2>1. Frame /\ UNCHANGED <<handle, started, remote, workdir, network, orphan>> /\ pc = "new"
    BY <1>0, <1>1 DEF NewRuntime, backend
  <2>2. \/ pc' = "creating" /\ (Is("docker") => config.policy # "allow_declared")
        \/ pc' = "discarded"
    BY <1>1 DEF NewRuntime, Goto, Constructible
  <2>3. TypeInv'
    BY <2>1, <2>2 DEF TypeInv, Steps, Creating
  <2>4. HandleInv'
    BY <2>1, <2>2 DEF TypeInv, HandleInv, Using, Creating, Is
  <2>5. HandleTellsTheTruth'
    BY <2>1, <2>2 DEF HandleInv, HandleTellsTheTruth, Alive
  <2> QED
    BY <2>3, <2>4, <2>5
<1>2. CASE NoneCreate
  <2>1. Frame /\ UNCHANGED <<started, network, orphan>> /\ pc = "creating" /\ Is("none")
    BY <1>0, <1>2 DEF NoneCreate, At
  <2>2. \/ pc' = "ready" /\ handle' = TRUE /\ remote' = "running" /\ workdir' = TRUE
        \/ pc' = "failed" /\ UNCHANGED <<handle, remote, workdir>>
    BY <1>2 DEF NoneCreate, Goto
  <2>3. TypeInv'
    BY <2>1, <2>2 DEF TypeInv, Steps, Using
  <2>4. HandleInv'
    BY <2>1, <2>2 DEF TypeInv, HandleInv, Using, Creating, Is
  <2>5. HandleTellsTheTruth'
    BY <2>1, <2>2 DEF HandleInv, HandleTellsTheTruth, Alive, Is
  <2> QED
    BY <2>3, <2>4, <2>5
<1>3. ASSUME NEW o \in Outcomes, DockerCreate(o) PROVE HandleAll'
  <2>1. /\ Frame /\ UNCHANGED <<started, workdir>> /\ pc = "creating" /\ Is("docker")
        /\ orphan' = (o = "cut") /\ network' = dockerNetwork
    BY <1>0, <1>3 DEF DockerCreate, At
  <2>2. \/ o = "ok" /\ pc' = "starting" /\ handle' = TRUE /\ remote' = "made"
        \/ o = "failed" /\ pc' = "failed" /\ handle' = FALSE /\ remote' = "absent"
        \/ o = "cut" /\ pc' = "failed" /\ handle' = FALSE /\ remote' = "made"
    BY <1>3 DEF DockerCreate, Goto, Outcomes
  <2>3. TypeInv'
    BY <2>1, <2>2 DEF TypeInv, Steps, Creating
  <2>4. config.policy # "allow_declared"
    BY <2>1 DEF HandleInv, Creating
  <2>5. EgressFitsPolicy'
    BY <2>1, <2>4 DEF EgressFitsPolicy, dockerNetwork, Is
  <2>6. HandleInv'
    BY <2>1, <2>2, <2>4, <2>5 DEF TypeInv, HandleInv, Using, Creating, Is
  <2>7. HandleTellsTheTruth'
    BY <2>1, <2>2 DEF HandleTellsTheTruth, Alive
  <2> QED
    BY <2>3, <2>6, <2>7
<1>4. ASSUME NEW o \in Outcomes, DockerCreateStart(o) PROVE HandleAll'
  <2>1. /\ Frame /\ UNCHANGED <<handle, workdir, network, orphan>> /\ pc = "starting"
        /\ Is("docker") /\ started' \in BOOLEAN /\ handle = TRUE /\ EgressFitsPolicy
    BY <1>0, <1>4 DEF DockerCreateStart, At, HandleInv
  <2>2. \/ pc' = "mkdir" /\ remote' = "running"
        \/ pc' = "rollback"
    BY <1>4 DEF DockerCreateStart, Goto
  <2>3. TypeInv'
    BY <2>1, <2>2 DEF TypeInv, Steps, Creating
  <2>4. HandleInv'
    BY <2>1, <2>2 DEF TypeInv, HandleInv, Using, Creating, Is, EgressFitsPolicy
  <2>5. HandleTellsTheTruth'
    BY <2>1, <2>2 DEF HandleTellsTheTruth
  <2> QED
    BY <2>3, <2>4, <2>5
<1>5. ASSUME NEW o \in Outcomes, DockerMkdir(o) PROVE HandleAll'
  <2>1. /\ Frame /\ UNCHANGED <<handle, started, remote, network, orphan>> /\ pc = "mkdir"
        /\ Is("docker") /\ handle = TRUE /\ remote = "running" /\ EgressFitsPolicy
        /\ workdir' \in BOOLEAN
    BY <1>0, <1>5 DEF DockerMkdir, At, HandleInv
  <2>2. \/ pc' = "ready" /\ workdir' = TRUE
        \/ pc' = "rollback"
    BY <1>5 DEF DockerMkdir, Goto
  <2>3. TypeInv'
    BY <2>1, <2>2 DEF TypeInv, Steps, Creating, Using
  <2>4. HandleInv'
    BY <2>1, <2>2 DEF TypeInv, HandleInv, Using, Creating, Is
  <2>5. HandleTellsTheTruth'
    BY <2>1, <2>2 DEF HandleTellsTheTruth, EgressFitsPolicy, Is
  <2> QED
    BY <2>3, <2>4, <2>5
<1>6. ASSUME NEW o \in Outcomes, DockerRollback(o) PROVE HandleAll'
  <2>1. /\ Frame /\ UNCHANGED <<workdir, network, orphan>> /\ pc = "rollback" /\ pc' = "failed"
        /\ Is("docker") /\ started' \in BOOLEAN /\ calls = 0
    BY <1>0, <1>6 DEF DockerRollback, At, Goto, HandleInv, TypeInv, Using
  <2>2. \/ handle' = TRUE
        \/ handle' = FALSE /\ remote' = "removed"
    BY <1>6 DEF DockerRollback, StillHeld
  <2>3. TypeInv'
    BY <2>1, <2>2 DEF TypeInv, Steps
  <2>4. HandleInv'
    BY <2>1, <2>2 DEF HandleInv, Using, Creating
  <2>5. HandleTellsTheTruth'
    BY <2>1, <2>2 DEF HandleTellsTheTruth, Alive
  <2> QED
    BY <2>3, <2>4, <2>5
<1>7. CASE SandboxUnconfigured
  <2>1. /\ Frame /\ UNCHANGED <<handle, started, remote, workdir, network, orphan>>
        /\ pc = "creating" /\ pc' = "failed"
    BY <1>0, <1>7 DEF SandboxUnconfigured, At, Goto, backend
  <2>2. TypeInv'
    BY <2>1 DEF TypeInv, Steps
  <2>3. HandleInv'
    BY <2>1 DEF TypeInv, HandleInv, Using, Creating
  <2>4. HandleTellsTheTruth'
    BY <2>1 DEF HandleInv, HandleTellsTheTruth, Alive
  <2> QED
    BY <2>2, <2>3, <2>4
<1>8. ASSUME NEW o \in Outcomes, SandboxCreate(o) PROVE HandleAll'
  <2>1. /\ Frame /\ UNCHANGED <<handle, started, workdir>> /\ pc = "creating"
        /\ Is("opensandbox") /\ orphan' = (o = "cut") /\ network' = sandboxNetwork
    BY <1>0, <1>8 DEF SandboxCreate, At
  <2>2. \/ o = "ok" /\ pc' = "connecting" /\ remote' = "running"
        \/ o = "failed" /\ pc' = "failed" /\ remote' = "absent"
        \/ o = "cut" /\ pc' = "failed"
    BY <1>8 DEF SandboxCreate, Goto, Outcomes
  <2>3. TypeInv'
    BY <2>1, <2>2 DEF TypeInv, Steps, Creating
  <2>4. EgressFitsPolicy'
    BY <2>1 DEF EgressFitsPolicy, sandboxNetwork, Is
  <2>5. HandleInv'
    BY <2>1, <2>2, <2>4 DEF TypeInv, HandleInv, Using, Creating, Is
  <2>6. HandleTellsTheTruth'
    BY <2>1, <2>2 DEF HandleTellsTheTruth, Alive, At, Is
  <2> QED
    BY <2>3, <2>5, <2>6
<1>9. ASSUME NEW o \in Outcomes, SandboxConnect(o) PROVE HandleAll'
  <2>1. /\ Frame /\ UNCHANGED <<started, remote, workdir, network, orphan>> /\ pc = "connecting"
        /\ Is("opensandbox") /\ remote = "running" /\ EgressFitsPolicy
    BY <1>0, <1>9 DEF SandboxConnect, At, HandleInv
  <2>2. \/ pc' = "mkdir" /\ handle' = TRUE
        \/ pc' = "deleting" /\ handle' = FALSE
    BY <1>9 DEF SandboxConnect, Goto
  <2>3. TypeInv'
    BY <2>1, <2>2 DEF TypeInv, Steps, Creating
  <2>4. HandleInv'
    BY <2>1, <2>2 DEF TypeInv, HandleInv, Using, Creating, Is, EgressFitsPolicy
  <2>5. HandleTellsTheTruth'
    BY <2>1, <2>2 DEF HandleTellsTheTruth, At, Is
  <2> QED
    BY <2>3, <2>4, <2>5
<1>10. ASSUME NEW o \in Outcomes, SandboxDelete(o) PROVE HandleAll'
  <2>1. /\ Frame /\ UNCHANGED <<handle, started, workdir, network>> /\ pc = "deleting"
        /\ pc' = "failed" /\ orphan' = (o = "failed") /\ Is("opensandbox")
    BY <1>0, <1>10 DEF SandboxDelete, At, Goto
  <2>2. \/ orphan' = TRUE
        \/ remote' = "removed"
    BY <1>10 DEF SandboxDelete
  <2>3. TypeInv'
    BY <2>1 DEF TypeInv, Steps
  <2>4. HandleInv'
    BY <2>1 DEF TypeInv, HandleInv, Using, Creating
  <2>5. HandleTellsTheTruth'
    BY <2>1, <2>2 DEF HandleTellsTheTruth, Alive
  <2> QED
    BY <2>3, <2>4, <2>5
<1>11. ASSUME NEW o \in Outcomes, NEW shell \in Outcomes, SandboxMkdir(o, shell)
       PROVE  HandleAll'
  <2>1. /\ Frame /\ UNCHANGED <<handle, started, remote, network, orphan>> /\ pc = "mkdir"
        /\ Is("opensandbox") /\ handle = TRUE /\ remote = "running" /\ EgressFitsPolicy
        /\ workdir' \in BOOLEAN
    BY <1>0, <1>11 DEF SandboxMkdir, At, HandleInv
  <2>2. \/ pc' = "ready" /\ workdir' = TRUE
        \/ pc' = "cleanup"
    BY <1>11 DEF SandboxMkdir, Goto, ensureDirectory
  <2>3. TypeInv'
    BY <2>1, <2>2 DEF TypeInv, Steps, Creating, Using
  <2>4. HandleInv'
    BY <2>1, <2>2 DEF TypeInv, HandleInv, Using, Creating, Is
  <2>5. HandleTellsTheTruth'
    BY <2>1, <2>2 DEF HandleTellsTheTruth, EgressFitsPolicy, Is
  <2> QED
    BY <2>3, <2>4, <2>5
<1>12. ASSUME NEW o \in Outcomes, SandboxCleanup(o) PROVE HandleAll'
  <2>1. /\ Frame /\ UNCHANGED <<started, workdir, network, orphan>> /\ pc = "cleanup"
        /\ pc' = "failed" /\ handle = TRUE
    BY <1>0, <1>12 DEF SandboxCleanup, closeSandbox, At, Goto, HandleInv
  <2>2. \/ config.keep = TRUE /\ handle' = FALSE
        \/ handle' = TRUE
        \/ handle' = FALSE /\ remote' = "removed"
    BY <1>12, <2>1 DEF SandboxCleanup, closeSandbox, TypeInv, Configs
  <2>3. TypeInv'
    BY <2>1, <2>2 DEF TypeInv, Steps
  <2>4. HandleInv'
    BY <2>1, <2>2 DEF TypeInv, HandleInv, Using, Creating
  <2>5. HandleTellsTheTruth'
    BY <2>1, <2>2 DEF HandleTellsTheTruth, Alive
  <2> QED
    BY <2>3, <2>4, <2>5
<1>13. CASE Close
  <2>1. PICK o \in Outcomes, client \in Outcomes :
          \/ Is("docker") /\ DockerClose(o)
          \/ Is("opensandbox") /\ SandboxClose(o, client)
          \/ Is("none") /\ NoneClose(o)
    BY <1>13 DEF Close
  <2>2. Frame /\ pc \in {"ready", "failed"} /\ pc' = "discarded"
    BY <1>0, <1>13, <2>1 DEF Close, DockerClose, SandboxClose, NoneClose, Goto
  <2>3. /\ UNCHANGED <<workdir, network, orphan>>
        /\ handle' \in BOOLEAN /\ started' \in BOOLEAN
    BY <2>1 DEF DockerClose, SandboxClose, NoneClose, closeSandbox, TypeInv
  <2>4. TypeInv'
    BY <2>2, <2>3 DEF TypeInv, Steps
  <2>5. HandleInv'
    BY <2>2 DEF HandleInv, Using, Creating
  <2>6. Alive => handle \/ orphan \/ config.keep
    BY <2>2 DEF HandleTellsTheTruth, At
  <2>7. Alive' /\ config.keep = FALSE => orphan' \/ (handle' /\ ret' = "error")
    <3>1. CASE Is("docker") /\ DockerClose(o)
      BY <2>3, <2>6, <3>1 DEF DockerClose, Goto, Alive, Outcomes, TypeInv
    <3>2. CASE Is("opensandbox") /\ SandboxClose(o, client)
      BY <2>3, <2>6, <3>2 DEF SandboxClose, closeSandbox, Goto, Alive, Outcomes, TypeInv
    <3>3. CASE Is("none") /\ NoneClose(o)
      BY <2>3, <2>6, <3>3 DEF NoneClose, Goto, Alive, Outcomes, TypeInv
    <3> QED
      BY <2>1, <3>1, <3>2, <3>3
  <2>8. HandleTellsTheTruth'
    BY <2>2, <2>7 DEF HandleTellsTheTruth, TypeInv, Configs
  <2> QED
    BY <2>4, <2>5, <2>8
<1>14. ASSUME NEW o \in Outcomes, StartRuntime(o) \/ StopRuntime(o) PROVE HandleAll'
  <2>1. /\ UNCHANGED <<config, expired, pc, handle, workdir, network, orphan>>
        /\ pc = "ready" /\ calls' = calls + 1 /\ started' \in BOOLEAN
    BY <1>14 DEF StartRuntime, StopRuntime, Calling
  <2>2. TypeInv'
    BY <2>1 DEF TypeInv
  <2>3. HandleInv'
    BY <2>1 DEF TypeInv, HandleInv, Using, Creating
  <2>4. HandleTellsTheTruth'
    BY <2>1 DEF TypeInv, HandleInv, HandleTellsTheTruth, Using
  <2> QED
    BY <2>2, <2>3, <2>4
<1>15. CASE UNCHANGED vars
  <2>1. UsingStep
    BY <1>15 DEF UsingStep, vars, backend, TypeInv
  <2> QED
    BY <2>1, HandleUsing
<1>16. CASE \/ Exec \/ LocalStart \/ LocalReturn \/ LocalStep
            \/ \E p \in Paths, mkdir, copy, second \in {"ok", "failed"} :
                 \/ DockerTransfer(p, mkdir, copy) \/ SandboxTransfer(p, mkdir, <<copy, second>>)
                 \/ HostTransfer(p, mkdir, copy)
            \/ SandboxDownloadDir \/ DownloadStep \/ DownloadReturns
            \/ GroupStep \/ EscalationStep \/ Expire
  <2>1. expired \in BOOLEAN
    BY DEF TypeInv
  <2>2. UsingStep
    BY <1>16, <2>1, UsingSteps
  <2> QED
    BY <2>2, HandleUsing
<1> QED
  BY <1>1, <1>2, <1>3, <1>4, <1>5, <1>6, <1>7, <1>8, <1>9, <1>10, <1>11, <1>12, <1>13, <1>14,
     <1>15, <1>16 DEF Next, Step, CreateStep

(* Each part of a runtime keeps its type, whichever steps of Create fail   *)
(* and however they are reported (none.go, docker.go, opensandbox.go).     *)
THEOREM RuntimeTypes == Spec => []TypeInv
<1>1. HandleAll => TypeInv
  BY DEF HandleAll
<1> QED
  BY <1>1, HandleInit, HandleStep, PTL DEF Spec

(* What Create leaves in the handle, its rollbacks and deletions remove,   *)
(* and Close stops: a container, sandbox or directory that exists and is   *)
(* to be deleted is known to the handle, unless its creation reported an   *)
(* error, and Create returns nil for a running one, no more open than the  *)
(* policy says.                                                            *)
THEOREM HandleCorrect == Spec => []HandleTellsTheTruth
<1>1. HandleAll => HandleTellsTheTruth
  BY DEF HandleAll
<1> QED
  BY <1>1, HandleInit, HandleStep, PTL DEF Spec
-----------------------------------------------------------------------------
(* The steps of a local command.                                           *)
ExecCore == expired \in BOOLEAN /\ ExecTypes /\ ExecInv /\ Local!ReportedAsItEnded

LEMMA GoneIsChild == Local!Gone \in Local!Children
BY DEF Local!Gone, Local!Children

LEMMA ExecCoreInit == Init => ExecCore
<1> SUFFICES ASSUME Init PROVE ExecCore
  OBVIOUS
<1>1. /\ leader = "none" /\ leaderCode = 0 /\ child = Local!Gone /\ termSent = FALSE
      /\ grace = "off" /\ wait = "idle" /\ runErr = "nil" /\ execResult = Local!NoResult
      /\ expired = FALSE
  BY DEF Init, Local!Init
<1>2. leaderCode \in Int /\ termSent \in BOOLEAN /\ expired \in BOOLEAN
  <2>1. leaderCode \in Int
    BY <1>1
  <2>2. termSent \in BOOLEAN /\ expired \in BOOLEAN
    BY <1>1, Zenon
  <2> QED
    BY <2>1, <2>2
<1>3. ExecTypes
  BY <1>1, <1>2, GoneIsChild DEF ExecTypes
<1>4. ExecInv
  BY <1>1 DEF ExecInv
<1>5. Local!ReportedAsItEnded
  BY <1>1 DEF Local!ReportedAsItEnded
<1> QED
  BY <1>2, <1>3, <1>4, <1>5 DEF ExecCore

LEMMA ExecQuiet ==
  ASSUME ExecCore, UNCHANGED execVars, expired' \in BOOLEAN, expired => expired'
  PROVE  ExecCore'
<1>1. /\ leader' = leader /\ leaderCode' = leaderCode /\ child' = child /\ termSent' = termSent
      /\ grace' = grace /\ wait' = wait /\ runErr' = runErr /\ execResult' = execResult
  BY DEF execVars
<1>2. ExecTypes'
  BY <1>1 DEF ExecCore, ExecTypes
<1>3. ExecInv'
  BY <1>1 DEF ExecCore, ExecInv, Local!LeaderExited, Local!PipesOpen
<1>4. Local!ReportedAsItEnded'
  BY <1>1 DEF ExecCore, Local!ReportedAsItEnded
<1> QED
  BY <1>2, <1>3, <1>4 DEF ExecCore

LEMMA LocalSteps ==
  ASSUME ExecCore, expired' = expired,
         Local!Start \/ Local!LeaderExits \/ Local!ChildExits \/ Local!Escalate
           \/ Local!GiveUpEscalation \/ Local!ExecSteps
  PROVE  ExecCore'
<1> USE DEF ExecCore
<1>1. CASE Local!Start
  <2>1. /\ leader' \in {"none", "running"} /\ leaderCode' = 0 /\ child' \in Local!Children
        /\ termSent' = FALSE /\ grace' = "off" /\ wait' \in {"waiting", "returned"}
        /\ wait' = "returned" => runErr' = "other"
        /\ runErr' \in {"nil", "other"} /\ execResult' = Local!NoResult
    <3>1. \/ /\ leader' = "running" /\ wait' = "waiting" /\ runErr' = "nil"
             /\ child' \in Local!Children
          \/ leader' = "none" /\ wait' = "returned" /\ runErr' = "other" /\ child' = Local!Gone
      BY <1>1 DEF Local!Start
    <3>2. /\ leaderCode' = 0 /\ termSent' = FALSE /\ grace' = "off"
          /\ execResult' = Local!NoResult
      BY <1>1 DEF Local!Start
    <3> QED
      BY <3>1, <3>2, GoneIsChild
  <2>0. leaderCode' \in Int /\ termSent' \in BOOLEAN
    <3>1. leaderCode' \in Int
      BY <2>1
    <3>2. termSent' \in BOOLEAN
      BY <2>1, Zenon
    <3> QED
      BY <3>1, <3>2
  <2>2. ExecTypes'
    BY <2>0, <2>1 DEF ExecTypes
  <2>3. ExecInv'
    BY <2>1 DEF ExecInv
  <2>4. Local!ReportedAsItEnded'
    BY <2>1 DEF Local!ReportedAsItEnded
  <2> QED
    BY <2>2, <2>3, <2>4
<1>2. CASE Local!LeaderExits
  <2>1. /\ UNCHANGED <<child, termSent, grace, wait, runErr, execResult>> /\ leader = "running"
        /\ \/ leader' = "exited" /\ leaderCode' \in Int
           \/ termSent /\ leader' = "signalled" /\ leaderCode' = -1
    BY <1>2, RuntimesAssumption DEF Local!LeaderExits
  <2>2. ExecTypes'
    BY <2>1 DEF ExecTypes
  <2>3. wait \in {"idle", "waiting"} \/ runErr = "other"
    BY <2>1 DEF ExecTypes, ExecInv, Local!LeaderExited
  <2>4. execResult # Local!NoResult => wait = "returned"
    BY DEF ExecInv
  <2>5. ExecInv'
    BY <2>1, <2>3 DEF ExecTypes, ExecInv, Local!PipesOpen
  <2>6. Local!ReportedAsItEnded'
    BY <2>1, <2>3, <2>4 DEF ExecTypes, ExecInv, Local!ReportedAsItEnded
  <2> QED
    BY <2>2, <2>5, <2>6
<1>3. CASE Local!ChildExits
  <2>1. /\ UNCHANGED <<leader, leaderCode, termSent, grace, wait, runErr, execResult>>
        /\ child' = Local!Gone
    BY <1>3 DEF Local!ChildExits
  <2>2. ExecTypes'
    BY <2>1 DEF ExecTypes, Local!Gone, Local!Children
  <2>3. ExecInv'
    BY <2>1 DEF ExecInv, Local!PipesOpen, Local!LeaderExited, Local!Gone
  <2>4. Local!ReportedAsItEnded'
    BY <2>1 DEF Local!ReportedAsItEnded
  <2> QED
    BY <2>2, <2>3, <2>4
<1>4. CASE Local!Escalate
  <2>1. /\ UNCHANGED <<termSent, wait, runErr, execResult>> /\ grace = "waiting"
        /\ grace' = "fired" /\ child' = Local!Gone
        /\ \/ Local!LeaderExited /\ UNCHANGED <<leader, leaderCode>>
           \/ ~Local!LeaderExited /\ leader' = "signalled" /\ leaderCode' = -1
    BY <1>4 DEF Local!Escalate
  <2>2. ExecTypes'
    BY <2>1 DEF ExecTypes, Local!Gone, Local!Children
  <2>3. ExecInv'
    BY <2>1 DEF ExecTypes, ExecInv, Local!PipesOpen, Local!LeaderExited, Local!Gone
  <2>4. Local!ReportedAsItEnded'
    BY <2>1 DEF ExecTypes, ExecInv, Local!ReportedAsItEnded, Local!LeaderExited
  <2> QED
    BY <2>2, <2>3, <2>4
<1>5. CASE Local!GiveUpEscalation
  <2>1. /\ UNCHANGED <<leader, leaderCode, child, termSent, wait, runErr, execResult>>
        /\ grace' = "stopped" /\ wait \in {"returned", "idle"}
    BY <1>5 DEF Local!GiveUpEscalation
  <2>2. ExecTypes'
    BY <2>1 DEF ExecTypes
  <2>3. ExecInv'
    BY <2>1 DEF ExecInv, Local!PipesOpen, Local!LeaderExited
  <2>4. Local!ReportedAsItEnded'
    BY <2>1 DEF Local!ReportedAsItEnded
  <2> QED
    BY <2>2, <2>3, <2>4
<1>6. CASE Local!SignalGroup
  <2>1. /\ UNCHANGED <<leader, leaderCode, child, wait, runErr, execResult>>
        /\ expired /\ wait = "waiting" /\ termSent' = TRUE /\ grace' = "waiting"
    BY <1>6 DEF Local!SignalGroup
  <2>2. ExecTypes'
    BY <2>1 DEF ExecTypes
  <2>3. ExecInv'
    BY <2>1 DEF ExecInv
  <2>4. Local!ReportedAsItEnded'
    BY <2>1 DEF ExecInv, Local!ReportedAsItEnded
  <2> QED
    BY <2>2, <2>3, <2>4
<1>7. CASE Local!ReapLeader
  <2>1. /\ UNCHANGED <<leader, leaderCode, child, termSent, grace, execResult>>
        /\ wait = "waiting" /\ wait' = "draining" /\ Local!LeaderExited
        /\ \/ leaderCode # 0 /\ runErr' = "exit"
           \/ leaderCode = 0 /\ termSent = TRUE /\ runErr' = "context"
           \/ leaderCode = 0 /\ termSent = FALSE /\ runErr' = "nil"
    BY <1>7 DEF Local!ReapLeader, ExecTypes
  <2>2. ExecTypes'
    BY <2>1 DEF ExecTypes
  <2>3. ExecInv'
    BY <2>1 DEF ExecTypes, ExecInv, Local!LeaderExited
  <2>4. Local!ReportedAsItEnded'
    BY <2>1 DEF ExecInv, Local!ReportedAsItEnded
  <2> QED
    BY <2>2, <2>3, <2>4
<1>8. CASE Local!PipesClosed
  <2>1. /\ UNCHANGED <<leader, leaderCode, child, termSent, grace, runErr, execResult>>
        /\ wait = "draining" /\ wait' = "returned" /\ ~Local!PipesOpen
    BY <1>8 DEF Local!PipesClosed
  <2>2. ExecTypes'
    BY <2>1 DEF ExecTypes
  <2>3. ExecInv'
    BY <2>1 DEF ExecInv, Local!LeaderExited, Local!PipesOpen
  <2>4. Local!ReportedAsItEnded'
    BY <2>1 DEF ExecInv, Local!ReportedAsItEnded
  <2> QED
    BY <2>2, <2>3, <2>4
<1>9. CASE Local!StopDraining
  <2>1. /\ UNCHANGED <<leader, leaderCode, child, termSent, grace, execResult>>
        /\ wait = "draining" /\ wait' = "returned" /\ Local!PipesOpen /\ grace # "waiting"
        /\ \/ runErr = "nil" /\ runErr' = "waitDelay"
           \/ runErr # "nil" /\ runErr' = runErr
    BY <1>9 DEF Local!StopDraining, Local!DelayElapsed
  <2>2. termSent = FALSE
    BY <2>1 DEF ExecTypes, ExecInv, Local!PipesOpen, Local!Gone
  <2>3. ExecTypes'
    BY <2>1 DEF ExecTypes
  <2>4. ExecInv'
    BY <2>1, <2>2 DEF ExecInv, Local!LeaderExited, Local!PipesOpen
  <2>5. Local!ReportedAsItEnded'
    BY <2>1 DEF ExecInv, Local!ReportedAsItEnded
  <2> QED
    BY <2>3, <2>4, <2>5
<1>10. CASE Local!Classify
  <2>1. /\ UNCHANGED <<leader, leaderCode, child, termSent, grace, wait, runErr>>
        /\ wait = "returned" /\ execResult' = Local!classifyExecError(runErr, expired, leaderCode)
    BY <1>10 DEF Local!Classify
  <2>2. ExecTypes'
    BY <2>1 DEF ExecTypes
  <2>3. ExecInv'
    BY <2>1 DEF ExecInv, Local!LeaderExited, Local!PipesOpen
  <2>4. Local!ReportedAsItEnded'
    <3>1. CASE runErr = "nil"
      BY <2>1, <3>1 DEF ExecInv, Local!ReportedAsItEnded, Local!classifyExecError
    <3>2. CASE runErr # "nil" /\ expired
      BY <2>1, <3>2 DEF ExecInv, Local!ReportedAsItEnded, Local!classifyExecError
    <3>3. CASE runErr = "exit" /\ ~expired
      <4>1. leader = "exited" /\ leaderCode # 0
        BY <2>1, <3>3 DEF ExecTypes, ExecInv, Local!LeaderExited
      <4> QED
        BY <2>1, <3>3, <4>1 DEF Local!ReportedAsItEnded, Local!classifyExecError
    <3>4. CASE runErr = "waitDelay" /\ ~expired
      BY <2>1, <3>4 DEF ExecInv, Local!ReportedAsItEnded, Local!classifyExecError
    <3>5. CASE runErr \in {"context", "other"} /\ ~expired
      BY <2>1, <3>5 DEF Local!ReportedAsItEnded, Local!classifyExecError
    <3> QED
      BY <3>1, <3>2, <3>3, <3>4, <3>5 DEF ExecTypes
  <2> QED
    BY <2>2, <2>3, <2>4
<1> QED
  BY <1>1, <1>2, <1>3, <1>4, <1>5, <1>6, <1>7, <1>8, <1>9, <1>10 DEF Local!ExecSteps

LEMMA LocalReturnStep ==
  ASSUME ExecCore, LocalReturn
  PROVE  ExecCore'
<1>1. /\ wait' = "idle" /\ execResult' = Local!NoResult /\ runErr' = "nil" /\ leader' = "none"
      /\ leaderCode' = 0 /\ termSent' = FALSE /\ UNCHANGED <<expired, child, grace>>
  BY DEF LocalReturn
<1>0. leaderCode' \in Int /\ termSent' \in BOOLEAN
  <2>1. leaderCode' \in Int
    BY <1>1
  <2>2. termSent' \in BOOLEAN
    BY <1>1, Zenon
  <2> QED
    BY <2>1, <2>2
<1>2. ExecTypes'
  BY <1>0, <1>1 DEF ExecCore, ExecTypes
<1>3. ExecInv'
  BY <1>1 DEF ExecCore, ExecInv
<1>4. Local!ReportedAsItEnded'
  BY <1>1 DEF Local!ReportedAsItEnded
<1> QED
  BY <1>1, <1>2, <1>3, <1>4 DEF ExecCore

(* What a step may do to the local command, to the download and to the     *)
(* call: one disjunct for each way the actions change them.                *)
ExecPart ==
  \/ UNCHANGED execVars
  \/ LocalReturn
  \/ /\ expired' = expired
     /\ \/ Local!Start \/ Local!LeaderExits \/ Local!ChildExits \/ Local!Escalate
        \/ Local!GiveUpEscalation \/ Local!ExecSteps

PoolPart ==
  \/ UNCHANGED poolVars
  \/ DownloadReturns
  \/ expired' = expired /\ Pool!PoolStep
  \/ expired' = expired /\ \E n \in Parallelisms : Pool!DownloadDir(n)

Moved(p, end) ==
  /\ report' = [NoReport EXCEPT !.cause = "transfer", !.given = p, !.path = end]
  /\ Is("docker") => end = dockerPath(Workspace, p)

CallPart ==
  \/ UNCHANGED report
  \/ report' = NoReport
  \/ Exec
  \/ \E p \in Paths : \E end : Moved(p, end)

Parts == /\ config' = config /\ expired' \in BOOLEAN
         /\ expired => expired'
         /\ ExecPart /\ PoolPart /\ CallPart

LEMMA StepParts ==
  ASSUME config \in Configs, expired \in BOOLEAN, [Next]_vars
  PROVE  Parts
<1> DEFINE Quiet == UNCHANGED <<config, report, expired, execVars, poolVars>>
<1>1. ASSUME Quiet PROVE Parts
  BY <1>1 DEF Parts, ExecPart, PoolPart, CallPart
<1>2. NoIO => Quiet
  BY DEF NoIO
<1> HIDE DEF Quiet
<1>3. CASE NewRuntime \/ NoneCreate \/ SandboxUnconfigured \/ Close
  <2>1. Quiet
    BY <1>2, <1>3 DEF NewRuntime, NoneCreate, SandboxUnconfigured, Close
  <2> QED
    BY <1>1, <2>1
<1>4. ASSUME NEW o \in Outcomes,
             \/ DockerCreate(o) \/ DockerCreateStart(o) \/ DockerMkdir(o) \/ DockerRollback(o)
             \/ SandboxCreate(o) \/ SandboxConnect(o) \/ SandboxDelete(o) \/ SandboxCleanup(o)
             \/ \E shell \in Outcomes : SandboxMkdir(o, shell)
      PROVE  Parts
  <2>1. Quiet
    BY <1>2, <1>4 DEF DockerCreate, DockerCreateStart, DockerMkdir, DockerRollback, SandboxCreate,
                      SandboxConnect, SandboxDelete, SandboxCleanup, SandboxMkdir
  <2> QED
    BY <1>1, <2>1
<1>5. ASSUME NEW o \in Outcomes, StartRuntime(o) \/ StopRuntime(o) PROVE Parts
  <2>1. Quiet
    BY <1>5 DEF StartRuntime, StopRuntime, Quiet
  <2> QED
    BY <1>1, <2>1
<1>6. CASE Exec
  BY <1>6 DEF Exec, Parts, ExecPart, PoolPart, CallPart
<1>7. CASE LocalStart
  BY <1>7 DEF LocalStart, Parts, ExecPart, PoolPart, CallPart
<1>8. CASE LocalReturn
  BY <1>8 DEF LocalReturn, Parts, ExecPart, PoolPart, CallPart
<1>9. CASE LocalStep \/ GroupStep \/ EscalationStep
  BY <1>9 DEF LocalStep, GroupStep, EscalationStep, Parts, ExecPart, PoolPart, CallPart
<1>10. ASSUME NEW p \in Paths, NEW mkdir \in {"ok", "failed"}, NEW copy \in {"ok", "failed"},
              NEW second \in {"ok", "failed"},
              \/ DockerTransfer(p, mkdir, copy) \/ SandboxTransfer(p, mkdir, <<copy, second>>)
              \/ HostTransfer(p, mkdir, copy)
       PROVE  Parts
  <2>1. ASSUME NEW end, NEW succeeds, Transferred(p, end, succeeds),
               Is("docker") => end = dockerPath(Workspace, p)
        PROVE  Parts
    <3>1. UNCHANGED <<config, expired, execVars, poolVars>> /\ Moved(p, end)
      BY <2>1 DEF Transferred, Moved
    <3> QED
      BY <3>1 DEF Parts, ExecPart, PoolPart, CallPart
  <2>2. CASE DockerTransfer(p, mkdir, copy)
    BY <2>1, <2>2 DEF DockerTransfer
  <2>3. CASE SandboxTransfer(p, mkdir, <<copy, second>>)
    BY <2>1, <2>3 DEF SandboxTransfer, Is
  <2>4. CASE HostTransfer(p, mkdir, copy)
    BY <2>1, <2>4 DEF HostTransfer, Is
  <2> QED
    BY <1>10, <2>2, <2>3, <2>4
<1>11. CASE SandboxDownloadDir
  BY <1>11 DEF SandboxDownloadDir, Parts, ExecPart, PoolPart, CallPart
<1>12. CASE DownloadStep
  BY <1>12 DEF DownloadStep, Parts, ExecPart, PoolPart, CallPart
<1>13. CASE DownloadReturns
  BY <1>13 DEF DownloadReturns, Parts, ExecPart, PoolPart, CallPart
<1>14. CASE Expire
  BY <1>14 DEF Expire, Parts, ExecPart, PoolPart, CallPart
<1>15. CASE UNCHANGED vars
  <2>1. Quiet
    BY <1>15 DEF vars, Quiet
  <2> QED
    BY <1>1, <2>1
<1> QED
  BY <1>3, <1>4, <1>5, <1>6, <1>7, <1>8, <1>9, <1>10, <1>11, <1>12, <1>13, <1>14, <1>15
     DEF Next, Step, CreateStep

LEMMA ExecCoreStep ==
  ASSUME ExecCore, Parts
  PROVE  ExecCore'
<1>1. CASE UNCHANGED execVars
  BY <1>1, ExecQuiet DEF Parts
<1>2. CASE LocalReturn
  BY <1>2, LocalReturnStep
<1>3. CASE /\ expired' = expired
           /\ \/ Local!Start \/ Local!LeaderExits \/ Local!ChildExits \/ Local!Escalate
              \/ Local!GiveUpEscalation \/ Local!ExecSteps
  BY <1>3, LocalSteps
<1> QED
  BY <1>1, <1>2, <1>3 DEF Parts, ExecPart

-----------------------------------------------------------------------------
(* What is said of a command in a container or a sandbox.                  *)
CallHonest ==
  /\ report.cause \in {"daemon", "cli", "sdk", "context"} => report.err # "nil"
  /\ report.cause = "command" =>
       IF report.err = "nil" THEN report.code = report.left
                             ELSE report.err = "context" /\ expired
  /\ report.cause \in {"noExit", "nothing"} =>
       Is("opensandbox") /\ report.code = (IF report.cause = "noExit" THEN 0 ELSE -1)

LEMMA DockerExecHonest ==
  ASSUME expired \in BOOLEAN, NEW a \in DockerAnswers, report' = DockerExec(a), expired' = expired
  PROVE  CallHonest'
<1> DEFINE err == IF a.exit = 0 THEN "nil" ELSE a.runErr
           ran == Local!classifyExecError(err, expired, a.exit)
<1>1. /\ report'.cause = a.cause /\ report'.left = a.exit /\ report'.code = ran.code
      /\ report'.err = classifyExecResult(expired, ran.code, a.stderr, ran.err)
  BY DEF DockerExec
<1>2. \/ /\ a.cause = "command" /\ a.exit \in ExitCodes /\ a.stderr = "plain" /\ a.runErr = "exit"
      \/ /\ a.cause = "daemon" /\ a.exit = 1 /\ a.stderr = "daemon" /\ a.runErr = "exit"
      \/ /\ a.cause = "cli" /\ a.exit = -1 /\ a.runErr = "other"
      \/ /\ a.cause = "context" /\ a.exit = -1 /\ a.runErr = "exit" /\ expired
  BY DEF DockerAnswers
<1>3. CASE expired /\ err # "nil"
  <2>1. ran = [code |-> -1, err |-> "context"]
    BY <1>3 DEF Local!classifyExecError
  <2> HIDE DEF ran
  <2>2. report'.err = "context"
    BY <1>1, <1>3, <2>1 DEF classifyExecResult
  <2> QED
    BY <1>1, <1>2, <1>3, <2>2 DEF CallHonest
<1>4. CASE err = "nil"
  <2>1. ran = [code |-> 0, err |-> "nil"] /\ a.exit = 0
    BY <1>2, <1>4 DEF Local!classifyExecError
  <2>2. a.cause = "command"
    BY <1>2, <2>1
  <2> HIDE DEF ran
  <2>3. report'.err = "nil"
    BY <1>1, <2>1 DEF classifyExecResult
  <2> QED
    BY <1>1, <2>1, <2>2, <2>3 DEF CallHonest
<1>5. CASE ~expired /\ err = "exit"
  <2>1. ran = [code |-> a.exit, err |-> "nil"]
    BY <1>5 DEF Local!classifyExecError
  <2> HIDE DEF ran
  <2>2. CASE a.cause = "command" /\ a.stderr = "plain"
    <3>1. report'.err = "nil"
      BY <1>1, <1>5, <2>1, <2>2 DEF classifyExecResult
    <3> QED
      BY <1>1, <2>1, <2>2, <3>1 DEF CallHonest
  <2>3. CASE a.cause = "daemon" /\ a.exit = 1 /\ a.stderr = "daemon"
    <3>1. report'.err = "error"
      BY <1>1, <1>5, <2>1, <2>3 DEF classifyExecResult
    <3> QED
      BY <1>1, <2>3, <3>1 DEF CallHonest
  <2> QED
    BY <1>2, <1>5, <2>2, <2>3
<1>6. CASE ~expired /\ err = "other"
  <2>1. ran = [code |-> -1, err |-> "other"] /\ a.cause = "cli"
    BY <1>2, <1>6 DEF Local!classifyExecError
  <2> HIDE DEF ran
  <2>2. report'.err = "error"
    BY <1>1, <1>6, <2>1 DEF classifyExecResult
  <2> QED
    BY <1>1, <2>1, <2>2 DEF CallHonest
<1> QED
  BY <1>2, <1>3, <1>4, <1>5, <1>6

LEMMA CallStep ==
  ASSUME CallHonest, expired \in BOOLEAN, Parts
  PROVE  CallHonest'
<1>1. CASE UNCHANGED report
  BY <1>1 DEF CallHonest, Is, Parts
<1>2. CASE report' = NoReport
  BY <1>2 DEF CallHonest, NoReport
<1>3. CASE Exec
  <2>1. expired' = expired /\ config' = config
    BY <1>3 DEF Exec
  <2>2. CASE \E a \in DockerAnswers : report' = DockerExec(a)
    BY <2>1, <2>2, DockerExecHonest
  <2>3. CASE Is("opensandbox") /\ \E a \in SandboxAnswers : report' = SandboxExec(a)
    <3>1. PICK a \in SandboxAnswers : report' = SandboxExec(a)
      BY <2>3
    <3>2. /\ report'.cause = a.cause /\ report'.left = a.exit
          /\ report'.code = IF a.cause \in {"sdk", "nothing"} THEN -1 ELSE a.exit
          /\ a.cause = "noExit" => a.exit = 0
          /\ report'.err = IF a.cause = "sdk" THEN "error" ELSE "nil"
          /\ a.cause \in {"command", "noExit", "nothing", "sdk"}
      BY <3>1 DEF SandboxExec, SandboxAnswers
    <3>3. Is("opensandbox")'
      BY <2>1, <2>3 DEF Is
    <3> QED
      BY <3>2, <3>3 DEF CallHonest
  <2> QED
    BY <1>3, <2>2, <2>3 DEF Exec
<1>4. ASSUME NEW p \in Paths, NEW end, Moved(p, end) PROVE CallHonest'
  <2>1. report'.cause = "transfer"
    BY <1>4 DEF Moved, NoReport
  <2> QED
    BY <2>1 DEF CallHonest
<1> QED
  BY <1>1, <1>2, <1>3, <1>4 DEF Parts, CallPart

(* Exec of each runtime: the exit code is the command's own, an error says *)
(* that it is not, and no process that was signalled keeps the pipes open  *)
(* when Exec has returned, at any point the context may expire.            *)
THEOREM ExecIsHonestCorrect == Spec => []ExecIsHonest
<1> DEFINE Inv == HandleAll /\ ExecCore /\ CallHonest
<1>1. Init => Inv
  <2>1. Init => CallHonest
    BY DEF Init, CallHonest, NoReport
  <2> QED
    BY <2>1, HandleInit, ExecCoreInit
<1>2. Inv /\ [Next]_vars => Inv'
  <2> SUFFICES ASSUME Inv, [Next]_vars PROVE Inv'
    OBVIOUS
  <2>1. config \in Configs /\ expired \in BOOLEAN
    BY DEF HandleAll, TypeInv
  <2>2. Parts
    BY <2>1, StepParts
  <2> QED
    BY <2>1, <2>2, HandleStep, ExecCoreStep, CallStep
<1>3. Inv => ExecIsHonest
  <2> SUFFICES ASSUME Inv PROVE ExecIsHonest
    OBVIOUS
  <2>1. Local!CancelledGroupEnds
    BY DEF ExecCore, ExecTypes, ExecInv, Local!CancelledGroupEnds
  <2> QED
    BY <2>1 DEF ExecIsHonest, CallHonest, ExecCore
<1> QED
  BY <1>1, <1>2, <1>3, PTL DEF Spec
-----------------------------------------------------------------------------
(* The operators of the instance of DownloadPool are those of RemotePaths. *)
LEMMA PoolOperators ==
  /\ \A p : Pool!Clean(p) = Clean(p)
  /\ \A d, p : Pool!Inside(d, p) = Inside(d, p)
  /\ \A r, f : Pool!remoteRelativePath(r, f) = remoteRelativePath(r, f)
  /\ \A r, f : Pool!safeLocalTarget(r, f) = safeLocalTarget(r, f)
<1>1. ASSUME NEW p PROVE Pool!Clean(p) = Clean(p)
  BY DEF Pool!Clean, Clean, Pool!Last, Last, Pool!Front, Front
<1>2. ASSUME NEW d, NEW p PROVE Pool!Inside(d, p) = Inside(d, p)
  BY DEF Pool!Inside, Inside, Pool!IsPrefix, IsPrefix
<1>3. ASSUME NEW r, NEW f PROVE Pool!remoteRelativePath(r, f) = remoteRelativePath(r, f)
  BY <1>1, <1>2 DEF Pool!remoteRelativePath, remoteRelativePath, Pool!Use, Use, Pool!Rel, Rel,
                    Pool!Refused, Refused, Pool!NoPath, NoPath
<1>4. ASSUME NEW r, NEW f PROVE Pool!Join(r, f) = Join(r, f)
  BY <1>1 DEF Pool!Join, Join
<1>5. ASSUME NEW r, NEW f PROVE Pool!safeLocalTarget(r, f) = safeLocalTarget(r, f)
  BY <1>1, <1>4 DEF Pool!safeLocalTarget, safeLocalTarget, Pool!Use, Use, Pool!Rel, Rel,
                    Pool!Refused, Refused, Pool!NoPath, NoPath
<1> QED
  BY <1>1, <1>2, <1>3, <1>5

LEMMA SubSeqType ==
  ASSUME NEW S, NEW s \in Seq(S), NEW m \in 1..(Len(s) + 1)
  PROVE  SubSeq(s, m, Len(s)) \in Seq(S)
OBVIOUS

LEMMA RelativeIsPath ==
  ASSUME NEW root \in Path, NEW file \in Path, remoteRelativePath(root, file).ok = TRUE
  PROVE  remoteRelativePath(root, file).path \in Path
<1> DEFINE dir == Clean(root)  f == Clean(file)  m == Len(dir.segs) + 1
<1>1. dir \in Path /\ f \in Path
  BY CleanFacts
<1>2. /\ Inside(dir, f)
      /\ remoteRelativePath(root, file).path = Rel(SubSeq(f.segs, m, Len(f.segs)))
  BY DEF remoteRelativePath, Use, Refused
<1> HIDE DEF dir, f
<1>3. dir.segs \in Seq(Segments) /\ f.segs \in Seq(Segments)
  BY <1>1 DEF Path
<1>4. Len(dir.segs) \in Nat /\ Len(f.segs) \in Nat /\ Len(dir.segs) <= Len(f.segs)
  BY <1>2, <1>3 DEF Inside, IsPrefix
<1>5. m \in 1..(Len(f.segs) + 1)
  BY <1>4
<1> HIDE DEF m
<1>6. SubSeq(f.segs, m, Len(f.segs)) \in Seq(Segments)
  BY <1>3, <1>5, SubSeqType
<1> QED
  BY <1>2, <1>6 DEF Rel, Path

LEMMA HostIsPath == HostDir \in Path
<1>1. "host" \in Segments
  BY DEF Segments
<1>2. <<"host">> \in Seq(Segments)
  BY <1>1
<1> QED
  BY <1>2 DEF HostDir, Abs, Path

LEMMA FilesPlaced ==
  ASSUME NEW file, file.path \in Path, Pool!PlaceOf(file).target.ok = TRUE
  PROVE  Inside(Clean(HostDir), Pool!PlaceOf(file).target.path)
<1> DEFINE rel == remoteRelativePath(Workspace, file.path)
<1>1. Pool!PlaceOf(file).target = IF rel.ok THEN safeLocalTarget(HostDir, rel.path) ELSE Refused
  BY PoolOperators DEF Pool!PlaceOf, Pool!Refused, Refused, Pool!NoPath, NoPath, Pool!Rel, Rel
<1>2. rel.ok = TRUE /\ Pool!PlaceOf(file).target = safeLocalTarget(HostDir, rel.path)
  <2>1. rel.ok \in BOOLEAN
    BY DEF remoteRelativePath, Use, Refused
  <2> HIDE DEF rel
  <2> QED
    BY <1>1, <2>1 DEF Refused
<1>3. rel.path \in Path
  BY <1>2, WorkspaceFacts, RelativeIsPath
<1> HIDE DEF rel
<1> QED
  BY <1>2, <1>3, HostIsPath, TargetInside

LEMMA ElementOfSeq ==
  ASSUME NEW S, NEW s \in Seq(S), NEW k \in DOMAIN s
  PROVE  s[k] \in S
OBVIOUS

LEMMA LenOfFunction ==
  ASSUME NEW n \in Nat, NEW f, f = [k \in 1..n |-> f[k]]
  PROVE  Len(f) = n /\ DOMAIN f = 1..n
<1> DEFINE S == {f[k] : k \in 1..n}
<1>1. f \in [1..n -> S]
  OBVIOUS
<1> HIDE DEF S
<1>2. f \in Seq(S)
  BY <1>1
<1> QED
  BY <1>1, <1>2

-----------------------------------------------------------------------------
(* The steps of a download.                                                *)
PoolCore == expired \in BOOLEAN /\ PoolTypes /\ PoolInv /\ Pool!DownloadIsWhole

LEMMA PoolInit == Init => PoolCore
<1> SUFFICES ASSUME Init PROVE PoolCore
  OBVIOUS
<1>1. /\ files = <<>> /\ sender = "idle" /\ next = 1 /\ worker = <<>> /\ errCh = "none"
      /\ cancelled = FALSE /\ written = <<>> /\ expired = FALSE
  BY DEF Init, Pool!Init
<1>2. DOMAIN files = 1..0 /\ Len(files) = 0 /\ DOMAIN worker = 1..0 /\ DOMAIN written = 1..0
  BY <1>1
<1>3. PoolTypes
  <2>1. cancelled \in BOOLEAN
    BY <1>1, Zenon
  <2>2. next \in Nat \ {0} /\ DOMAIN files = 1..Len(files) /\ Len(files) \in Nat
    BY <1>1, <1>2
  <2> QED
    BY <1>1, <2>1, <2>2 DEF PoolTypes
<1>4. PoolInv
  BY <1>1, <1>2 DEF PoolInv
<1>5. Pool!DownloadIsWhole
  BY <1>1 DEF Pool!DownloadIsWhole
<1>6. expired \in BOOLEAN
  BY <1>1, Zenon
<1> QED
  BY <1>3, <1>4, <1>5, <1>6 DEF PoolCore

LEMMA PoolQuiet ==
  ASSUME PoolCore, UNCHANGED poolVars, expired' \in BOOLEAN, expired => expired'
  PROVE  PoolCore'
<1>1. /\ files' = files /\ sender' = sender /\ next' = next /\ worker' = worker
      /\ errCh' = errCh /\ cancelled' = cancelled /\ written' = written /\ outcome' = outcome
  BY DEF poolVars
<1>2. PoolTypes'
  BY <1>1 DEF PoolCore, PoolTypes
<1>3. PoolInv'
  BY <1>1 DEF PoolCore, PoolInv, Settled, Busy, Kept, Pool!AsFound
<1>4. Pool!DownloadIsWhole'
  BY <1>1 DEF PoolCore, Pool!DownloadIsWhole, Pool!AllLeft, Pool!AsFound
<1> QED
  BY <1>2, <1>3, <1>4 DEF PoolCore

(* What the parts of PoolInv say, one worker or file at a time.            *)
LEMMA Goes ==
  ASSUME NEW w \in DOMAIN worker, NEW to, Pool!Goes(w, to)
  PROVE  /\ DOMAIN worker' = DOMAIN worker /\ worker'[w] = to
         /\ \A v \in DOMAIN worker : v # w => worker'[v] = worker[v]
BY DEF Pool!Goes

LEMMA HandOverStep ==
  ASSUME PoolCore, expired' = expired, NEW w \in DOMAIN worker, Pool!HandOver(w)
  PROVE  PoolCore'
<1> USE DEF PoolCore
<1> DEFINE to == [at |-> "downloading", file |-> next, err |-> "none"]
<1>1. /\ sender = "sending" /\ next <= Len(files) /\ worker[w].at = "receiving"
      /\ next' = next + 1 /\ UNCHANGED <<files, sender, errCh, cancelled, written, outcome>>
      /\ Pool!Goes(w, to)
  BY DEF Pool!HandOver
<1>2. /\ DOMAIN worker' = DOMAIN worker /\ worker'[w] = to
      /\ \A v \in DOMAIN worker : v # w => worker'[v] = worker[v]
  <2> HIDE DEF to
  <2> QED
    BY <1>1, Goes
<1>3. PoolTypes'
  BY <1>1 DEF PoolTypes
<1>4. worker'[w].at = "downloading" /\ worker'[w].file = next
  BY <1>2
<1>5. next \in DOMAIN files
  BY <1>1 DEF PoolTypes
<1> HIDE DEF to
<1>6. ASSUME NEW k \in DOMAIN files, errCh = "none", k < next' PROVE Settled(k)' \/ Busy(k)'
  <2>1. CASE k = next
    BY <1>2, <1>4, <2>1 DEF Busy
  <2>2. CASE k < next
    <3>1. Settled(k) \/ Busy(k)
      BY <1>6, <2>2 DEF PoolInv
    <3>2. CASE Settled(k)
      BY <1>1, <3>2 DEF Settled
    <3>3. CASE Busy(k)
      BY <1>1, <1>2, <3>3 DEF Busy
    <3> QED
      BY <3>1, <3>2, <3>3
  <2> QED
    BY <1>1, <1>6, <2>1, <2>2 DEF PoolTypes
<1>7. PoolInv'
  BY <1>1, <1>2, <1>4, <1>5, <1>6 DEF PoolInv, Kept, Pool!AsFound
<1>8. Pool!DownloadIsWhole'
  BY <1>1 DEF Pool!DownloadIsWhole
<1> QED
  BY <1>3, <1>7, <1>8

LEMMA DownloadFileStep ==
  ASSUME PoolCore, expired' = expired, NEW w \in DOMAIN worker, Pool!Download(w)
  PROVE  PoolCore'
<1> USE DEF PoolCore
<1>0. PICK n : n = worker[w].file
  OBVIOUS
<1> DEFINE file == files[n]
           Fails(e) == Pool!Goes(w, [at |-> "failed", file |-> n, err |-> e]) /\ UNCHANGED written
           More == written' = [p \in DOMAIN written \cup {file.target.path} |->
                                 IF p \in DOMAIN written THEN written[p] ELSE file.mode]
<1>1. /\ worker[w].at = "downloading"
      /\ UNCHANGED <<files, sender, next, errCh, cancelled, outcome>>
  BY DEF Pool!Download
<1>2. \/ file.skip /\ Pool!Goes(w, Pool!To("receiving")) /\ UNCHANGED written
      \/ Fails("fault")
      \/ file.target.ok /\ Pool!Goes(w, Pool!To("receiving")) /\ More
      \/ Pool!ctxDone /\ Fails("context")
  BY <1>0 DEF Pool!Download
<1>3. n \in DOMAIN files
  BY <1>0, <1>1 DEF PoolInv
<1>4. PoolTypes'
  BY <1>1 DEF PoolTypes
<1>5. Pool!DownloadIsWhole'
  <2>1. sender # "returned"
    BY <1>1 DEF Pool!DownloadIsWhole, Pool!AllLeft
  <2> QED
    BY <1>1, <2>1 DEF Pool!DownloadIsWhole
<1>6. ASSUME NEW to, Pool!Goes(w, to), \A p \in DOMAIN written' : Kept(p)',
             DOMAIN written \subseteq DOMAIN written',
             to.at \in {"receiving", "failed"},
             to.at = "failed" => /\ to.err \in {"fault", "context"} /\ to.file = n
                                 /\ to.err = "context" => expired \/ errCh # "none",
             to.at = "receiving" => Settled(n)'
      PROVE  PoolInv'
  <2>1. /\ DOMAIN worker' = DOMAIN worker /\ worker'[w] = to
        /\ \A v \in DOMAIN worker : v # w => worker'[v] = worker[v]
    BY <1>6, Goes
  <2>2. ASSUME NEW k \in DOMAIN files, errCh = "none", k < next PROVE Settled(k)' \/ Busy(k)'
    <3>1. Settled(k) \/ Busy(k)
      BY <2>2 DEF PoolInv
    <3>2. CASE Settled(k)
      BY <1>1, <1>6, <3>2 DEF Settled
    <3>3. CASE k = n
      <4>1. CASE to.at = "receiving"
        BY <1>6, <3>3, <4>1
      <4>2. CASE to.at = "failed"
        BY <1>6, <2>1, <3>3, <4>2 DEF Busy
      <4> QED
        BY <1>6, <4>1, <4>2
    <3>4. CASE Busy(k) /\ k # n
      BY <1>0, <1>1, <2>1, <3>4 DEF Busy
    <3> QED
      BY <3>1, <3>2, <3>3, <3>4
  <2> QED
    BY <1>1, <1>6, <2>1, <2>2 DEF PoolInv
<1> HIDE DEF More
<1>7. CASE file.skip /\ Pool!Goes(w, Pool!To("receiving")) /\ UNCHANGED written
  <2>1. Settled(n)'
    BY <1>1, <1>7 DEF Settled
  <2>2. Pool!To("receiving").at = "receiving"
    BY DEF Pool!To
  <2>3. /\ \A p \in DOMAIN written' : Kept(p)'
        /\ DOMAIN written \subseteq DOMAIN written'
    BY <1>1, <1>7 DEF PoolInv, Kept, Pool!AsFound
  <2>4. PoolInv'
    BY <1>6, <1>7, <2>1, <2>2, <2>3
  <2> QED
    BY <1>4, <1>5, <2>4
<1>8. ASSUME NEW e \in {"fault", "context"}, Fails(e),
             e = "context" => expired \/ errCh # "none"
      PROVE  PoolCore'
  <2> DEFINE to == [at |-> "failed", file |-> n, err |-> e]
  <2>1. to.at = "failed" /\ to.file = n /\ to.err = e /\ Pool!Goes(w, to)
    BY <1>8
  <2> HIDE DEF to
  <2>2. /\ \A p \in DOMAIN written' : Kept(p)'
        /\ DOMAIN written \subseteq DOMAIN written'
    BY <1>1, <1>8 DEF PoolInv, Kept, Pool!AsFound
  <2>3. PoolInv'
    BY <1>6, <1>8, <2>1, <2>2
  <2> QED
    BY <1>4, <1>5, <2>3
<1>9. CASE file.target.ok /\ Pool!Goes(w, Pool!To("receiving")) /\ More
  <2>1. Inside(Clean(HostDir), file.target.path)
    BY <1>3, <1>9 DEF PoolInv
  <2>2. /\ \A p \in DOMAIN written' : Kept(p)'
        /\ DOMAIN written \subseteq DOMAIN written'
    <3>1. DOMAIN written' = DOMAIN written \cup {file.target.path}
      BY <1>9 DEF More
    <3>2. ASSUME NEW p \in DOMAIN written PROVE Kept(p)'
      <4>1. written'[p] = written[p]
        BY <1>9, <3>1, <3>2 DEF More
      <4> QED
        BY <1>1, <3>2, <4>1 DEF PoolInv, Kept, Pool!AsFound
    <3>3. ASSUME NEW p, p = file.target.path, p \notin DOMAIN written PROVE Kept(p)'
      <4>1. written'[p] = file.mode
        BY <1>9, <3>1, <3>3 DEF More
      <4> QED
        BY <1>1, <1>3, <1>9, <2>1, <3>3, <4>1 DEF Kept, Pool!AsFound
    <3> QED
      BY <3>1, <3>2, <3>3
  <2>3. Settled(n)'
    BY <1>1, <1>9 DEF Settled, More
  <2>4. Pool!To("receiving").at = "receiving"
    BY DEF Pool!To
  <2>5. PoolInv'
    BY <1>6, <1>9, <2>2, <2>3, <2>4
  <2> QED
    BY <1>4, <1>5, <2>5
<1>10. Pool!ctxDone => expired \/ errCh # "none"
  BY DEF Pool!ctxDone, PoolInv
<1> QED
  BY <1>2, <1>7, <1>8, <1>9, <1>10

LEMMA WorkerStep ==
  ASSUME PoolCore, expired' = expired, NEW w \in DOMAIN worker,
         Pool!Report(w) \/ Pool!CancelRest(w) \/ Pool!Leave(w)
  PROVE  PoolCore'
<1> USE DEF PoolCore
<1>1. /\ UNCHANGED <<files, sender, next, written, outcome>> /\ worker[w].at # "left"
  BY DEF Pool!Report, Pool!CancelRest, Pool!Leave
<1>2. Pool!DownloadIsWhole'
  <2>1. sender # "returned"
    BY <1>1 DEF Pool!DownloadIsWhole, Pool!AllLeft
  <2> QED
    BY <1>1, <2>1 DEF Pool!DownloadIsWhole
<1>3. CASE Pool!Report(w)
  <2> DEFINE to == Pool!To(IF errCh = "none" THEN "cancelling" ELSE "left")
  <2>1. /\ worker[w].at = "failed" /\ UNCHANGED cancelled /\ Pool!Goes(w, to)
        /\ errCh' = IF errCh = "none" THEN worker[w].err ELSE errCh
    BY <1>3 DEF Pool!Report
  <2>2. /\ errCh' \in {"fault", "context"}
        /\ errCh' = "context" => expired
    BY <2>1 DEF PoolInv, PoolTypes
  <2>3. to.at \in {"cancelling", "left"}
    BY DEF Pool!To
  <2> HIDE DEF to
  <2>4. /\ DOMAIN worker' = DOMAIN worker /\ worker'[w] = to
        /\ \A v \in DOMAIN worker : v # w => worker'[v] = worker[v]
    BY <2>1, Goes
  <2>5. PoolTypes'
    BY <1>1, <2>1, <2>2 DEF PoolTypes
  <2>6. PoolInv'
    BY <1>1, <2>1, <2>2, <2>3, <2>4 DEF PoolInv, Kept, Pool!AsFound
  <2> QED
    BY <1>2, <2>5, <2>6
<1>4. CASE Pool!CancelRest(w)
  <2>1. /\ worker[w].at = "cancelling" /\ cancelled' = TRUE /\ Pool!Goes(w, Pool!To("left"))
        /\ errCh' = errCh
    BY <1>4 DEF Pool!CancelRest
  <2>2. errCh # "none" /\ Pool!To("left").at = "left"
    BY <2>1 DEF PoolInv, Pool!To
  <2>3. /\ DOMAIN worker' = DOMAIN worker /\ worker'[w] = Pool!To("left")
        /\ \A v \in DOMAIN worker : v # w => worker'[v] = worker[v]
    BY <2>1, Goes
  <2>4. cancelled' \in BOOLEAN
    BY <2>1, Zenon
  <2>5. PoolTypes'
    BY <1>1, <2>1, <2>4 DEF PoolTypes
  <2>6. PoolInv'
    BY <1>1, <2>1, <2>2, <2>3 DEF PoolInv, Kept, Pool!AsFound
  <2> QED
    BY <1>2, <2>5, <2>6
<1>5. CASE Pool!Leave(w)
  <2>1. /\ worker[w].at = "receiving" /\ UNCHANGED <<errCh, cancelled>>
        /\ Pool!Goes(w, Pool!To("left"))
    BY <1>5 DEF Pool!Leave
  <2>2. Pool!To("left").at = "left"
    BY DEF Pool!To
  <2>3. /\ DOMAIN worker' = DOMAIN worker /\ worker'[w] = Pool!To("left")
        /\ \A v \in DOMAIN worker : v # w => worker'[v] = worker[v]
    BY <2>1, Goes
  <2>4. PoolTypes'
    BY <1>1, <2>1 DEF PoolTypes
  <2>5. ASSUME NEW k \in DOMAIN files PROVE (Settled(k) => Settled(k)') /\ (Busy(k) => Busy(k)')
    <3>1. Settled(k) => Settled(k)'
      BY <1>1 DEF Settled
    <3>2. Busy(k) => Busy(k)'
      BY <2>1, <2>3 DEF Busy
    <3> QED
      BY <3>1, <3>2
  <2>6. PoolInv'
    BY <1>1, <2>1, <2>2, <2>3, <2>5 DEF PoolInv, Kept, Pool!AsFound
  <2> QED
    BY <1>2, <2>4, <2>6
<1> QED
  BY <1>3, <1>4, <1>5

LEMMA SenderStep ==
  ASSUME PoolCore, expired' = expired, Pool!StopSending \/ Pool!AllSent \/ Pool!Collect
  PROVE  PoolCore'
<1> USE DEF PoolCore
<1>1. UNCHANGED <<files, next, worker, errCh, cancelled, written>>
  BY DEF Pool!StopSending, Pool!AllSent, Pool!Collect
<1>2. /\ sender' \in {"stopped", "sent", "returned"}
      /\ sender' = "stopped" => expired \/ cancelled
      /\ sender' = "sent" => next > Len(files)
  BY DEF Pool!StopSending, Pool!AllSent, Pool!Collect, Pool!SenderSeesCancel, Pool!ctxDone
<1>3. PoolTypes'
  BY <1>1, <1>2 DEF PoolTypes
<1>4. PoolInv'
  <2>1. ASSUME NEW k \in DOMAIN files PROVE (Settled(k)' <=> Settled(k)) /\ (Busy(k)' <=> Busy(k))
    BY <1>1 DEF Settled, Busy
  <2> QED
    BY <1>1, <1>2, <2>1 DEF PoolInv, Kept, Pool!AsFound
<1>5. Pool!DownloadIsWhole'
  <2>1. CASE ~Pool!Collect
    <3>1. sender' # "returned"
      BY <2>1 DEF Pool!StopSending, Pool!AllSent
    <3> QED
      BY <3>1 DEF Pool!DownloadIsWhole
  <2>2. CASE Pool!Collect
    <3>1. /\ sender \in {"stopped", "sent"} /\ Pool!AllLeft /\ sender' = "returned"
          /\ \/ errCh # "none" /\ outcome' = errCh
             \/ errCh = "none" /\ sender = "stopped" /\ outcome' = "context"
             \/ errCh = "none" /\ sender = "sent" /\ outcome' = "nil"
      BY <2>2 DEF Pool!Collect
    <3>2. \A k \in DOMAIN files : ~Busy(k)
      BY <3>1 DEF Busy, Pool!AllLeft
    <3>0. errCh # "nil"
      BY DEF PoolTypes
    <3>3. errCh = "none" /\ sender = "sent" => \A k \in DOMAIN files : Settled(k)
      BY <3>2 DEF PoolInv, PoolTypes
    <3>4. outcome' = "context" => expired
      BY <3>1 DEF PoolInv
    <3>5. \A p \in DOMAIN written' :
            Pool!Inside(Pool!Clean(HostDir), p) /\ Pool!AsFound(p)'
      BY <1>1, PoolOperators DEF PoolInv, Kept, Pool!AsFound
    <3> HIDE DEF Pool!AsFound
    <3> QED
      BY <1>1, <3>0, <3>1, <3>3, <3>4, <3>5 DEF Pool!DownloadIsWhole, Pool!AllLeft, Settled
  <2> QED
    BY <2>1, <2>2
<1> QED
  BY <1>3, <1>4, <1>5

LEMMA DownloadDirStep ==
  ASSUME PoolCore, expired' = expired, NEW n \in Parallelisms, Pool!DownloadDir(n)
  PROVE  PoolCore'
<1> USE DEF PoolCore
<1> DEFINE Fresh == [at |-> "receiving", file |-> 0, err |-> "none"]
<1>1. next' = 1 /\ errCh' = "none" /\ cancelled' = FALSE /\ written' = <<>>
  BY DEF Pool!DownloadDir
<1>2. DOMAIN written' = 1..0
  BY <1>1
<1>3. cancelled' \in BOOLEAN
  BY <1>1, Zenon
<1>4. \/ sender' = "returned" /\ outcome' = "fault" /\ files' = <<>> /\ worker' = <<>>
      \/ \E found \in SearchResults :
           /\ files' = [k \in DOMAIN found |-> Pool!PlaceOf(found[k])]
           /\ \/ found = <<>> /\ sender' = "returned" /\ outcome' = "nil" /\ worker' = <<>>
              \/ /\ sender' = "sending"
                 /\ \E m : worker' = [w \in 1..m |-> Fresh]
  BY DEF Pool!DownloadDir
<1>5. CASE sender' = "returned" /\ outcome' = "fault" /\ files' = <<>> /\ worker' = <<>>
  <2>1. DOMAIN files' = 1..0 /\ Len(files') = 0 /\ DOMAIN worker' = 1..0
    BY <1>5
  <2>2. PoolTypes'
    BY <1>1, <1>3, <1>5, <2>1 DEF PoolTypes
  <2>3. PoolInv'
    BY <1>1, <1>2, <1>5, <2>1 DEF PoolInv
  <2>4. Pool!DownloadIsWhole'
    BY <1>1, <1>2, <1>5, <2>1 DEF Pool!DownloadIsWhole, Pool!AllLeft
  <2> QED
    BY <2>2, <2>3, <2>4
<1>6. ASSUME NEW found \in SearchResults, files' = [k \in DOMAIN found |-> Pool!PlaceOf(found[k])],
             \/ found = <<>> /\ sender' = "returned" /\ outcome' = "nil" /\ worker' = <<>>
             \/ /\ sender' = "sending"
                /\ \E m : worker' = [w \in 1..m |-> Fresh]
      PROVE  PoolCore'
  <2> DEFINE l == Len(found)
  <2>1. found \in Seq([path : [abs : BOOLEAN, segs : Seq(STRING)], mode : Int])
    BY RuntimesAssumption
  <2>2. l \in Nat /\ DOMAIN found = 1..l
    BY <2>1
  <2>3. ASSUME NEW k \in DOMAIN found PROVE found[k].path \in Path
    <3>1. found[k].path \in [abs : BOOLEAN, segs : Seq(STRING)]
      <4>1. found[k] \in [path : [abs : BOOLEAN, segs : Seq(STRING)], mode : Int]
        <5> DEFINE R == [path : [abs : BOOLEAN, segs : Seq(STRING)], mode : Int]
        <5>1. found \in Seq(R)
          BY <2>1
        <5> HIDE DEF R
        <5>2. found[k] \in R
          BY <2>3, <5>1, ElementOfSeq
        <5> QED
          BY <5>2 DEF R
      <4>2. \A S : found[k] \in [path : S, mode : Int] => found[k].path \in S
        OBVIOUS
      <4> QED
        BY <4>1, <4>2, Zenon
    <3> QED
      BY <3>1, StringsAreSegments DEF Path
  <2> HIDE DEF l
  <2>4. Len(files') = l /\ DOMAIN files' = 1..l
    <3>1. files' = [k \in 1..l |-> files'[k]]
      BY <1>6, <2>2
    <3> QED
      BY <2>2, <3>1, LenOfFunction
  <2>5. ASSUME NEW k \in DOMAIN files', files'[k].target.ok
        PROVE  Inside(Clean(HostDir), files'[k].target.path)
    <3>1. files'[k] = Pool!PlaceOf(found[k]) /\ k \in DOMAIN found
      BY <1>6, <2>2, <2>4, <2>5
    <3>2. Pool!PlaceOf(found[k]).target.ok \in BOOLEAN
      BY DEF Pool!PlaceOf, Pool!safeLocalTarget, Pool!Use, Pool!Refused
    <3>3. Pool!PlaceOf(found[k]).target.ok = TRUE
      BY <2>5, <3>1, <3>2
    <3> QED
      BY <2>3, <3>1, <3>3, FilesPlaced
  <2>6. ASSUME NEW w \in DOMAIN worker' PROVE worker'[w].at = "receiving"
    <3>1. CASE worker' = <<>>
      BY <2>6, <3>1
    <3>2. ASSUME NEW m, worker' = [v \in 1..m |-> Fresh]
          PROVE  worker'[w].at = "receiving"
      BY <2>6, <3>2
    <3> QED
      BY <1>6, <3>1, <3>2
  <2>7. PoolTypes'
    BY <1>1, <1>3, <1>6, <2>2, <2>4 DEF PoolTypes
  <2>8. \A k \in DOMAIN files' : ~(k < next')
    BY <1>1, <2>2, <2>4
  <2>9. PoolInv'
    BY <1>1, <1>2, <1>6, <2>5, <2>6, <2>8 DEF PoolInv
  <2>10. Pool!DownloadIsWhole'
    <3>1. CASE sender' = "sending"
      BY <3>1 DEF Pool!DownloadIsWhole
    <3>2. CASE found = <<>> /\ outcome' = "nil" /\ worker' = <<>>
      <4>1. DOMAIN files' = 1..0 /\ DOMAIN worker' = 1..0
        BY <2>4, <3>2 DEF l
      <4> QED
        BY <1>2, <3>2, <4>1 DEF Pool!DownloadIsWhole, Pool!AllLeft
    <3> QED
      BY <1>6, <3>1, <3>2
  <2> QED
    BY <2>7, <2>9, <2>10
<1> QED
  BY <1>4, <1>5, <1>6

LEMMA DownloadReturnsStep ==
  ASSUME PoolCore, DownloadReturns
  PROVE  PoolCore'
<1> USE DEF PoolCore
<1>1. /\ sender' = "idle" /\ files' = <<>> /\ worker' = <<>> /\ written' = <<>>
      /\ next' = 1 /\ errCh' = "none" /\ cancelled' = FALSE /\ expired' = expired
  BY DEF DownloadReturns
<1>2. /\ DOMAIN files' = 1..0 /\ Len(files') = 0 /\ DOMAIN worker' = 1..0
      /\ DOMAIN written' = 1..0
  BY <1>1
<1>3. cancelled' \in BOOLEAN
  BY <1>1, Zenon
<1>4. PoolTypes'
  BY <1>1, <1>2, <1>3 DEF PoolTypes
<1>5. PoolInv'
  BY <1>1, <1>2 DEF PoolInv
<1>6. Pool!DownloadIsWhole'
  BY <1>1 DEF Pool!DownloadIsWhole
<1> QED
  BY <1>1, <1>4, <1>5, <1>6

LEMMA PoolCoreStep ==
  ASSUME PoolCore, Parts
  PROVE  PoolCore'
<1>1. CASE UNCHANGED poolVars
  BY <1>1, PoolQuiet DEF Parts
<1>2. CASE DownloadReturns
  BY <1>2, DownloadReturnsStep
<1>3. CASE expired' = expired /\ Pool!PoolStep
  <2>1. CASE Pool!StopSending \/ Pool!AllSent \/ Pool!Collect
    BY <1>3, <2>1, SenderStep
  <2>2. ASSUME NEW w \in DOMAIN worker,
               \/ Pool!HandOver(w) \/ Pool!Download(w) \/ Pool!Report(w)
               \/ Pool!CancelRest(w) \/ Pool!Leave(w)
        PROVE  PoolCore'
    BY <1>3, <2>2, HandOverStep, DownloadFileStep, WorkerStep
  <2> QED
    BY <1>3, <2>1, <2>2 DEF Pool!PoolStep
<1>4. ASSUME expired' = expired, NEW n \in Parallelisms, Pool!DownloadDir(n) PROVE PoolCore'
  BY <1>4, DownloadDirStep
<1> QED
  BY <1>1, <1>2, <1>3, <1>4 DEF Parts, PoolPart

(* A transfer of docker is inside the workspace or refused.                *)
TransferInside ==
  report.cause = "transfer" /\ Is("docker") /\ report.path.ok /\ ~report.given.abs
    => Inside(Workspace, report.path.path)

LEMMA TransferStep ==
  ASSUME TransferInside, Parts
  PROVE  TransferInside'
<1>1. CASE UNCHANGED report
  BY <1>1 DEF TransferInside, Parts, Is
<1>2. CASE report' = NoReport
  BY <1>2 DEF TransferInside, NoReport
<1>3. CASE Exec
  <2>1. report'.cause # "transfer"
    <3>1. CASE \E a \in DockerAnswers : report' = DockerExec(a)
      BY <3>1 DEF DockerExec, DockerAnswers
    <3>2. CASE \E a \in SandboxAnswers : report' = SandboxExec(a)
      BY <3>2 DEF SandboxExec, SandboxAnswers
    <3> QED
      BY <1>3, <3>1, <3>2 DEF Exec
  <2> QED
    BY <2>1 DEF TransferInside
<1>4. ASSUME NEW p \in Paths, NEW end, Moved(p, end) PROVE TransferInside'
  <2>1. report'.given = p /\ report'.path = end
    BY <1>4 DEF Moved, NoReport
  <2>2. p \in Path
    <3>1. p \in [abs : BOOLEAN, segs : Seq(STRING)]
      BY RuntimesAssumption
    <3> QED
      BY <3>1, StringsAreSegments DEF Path
  <2>3. ASSUME Is("docker"), end.ok, ~p.abs PROVE Inside(Workspace, end.path)
    <3>1. end = dockerPath(Workspace, p) /\ p.abs = FALSE
      BY <1>4, <2>2, <2>3 DEF Moved, Path
    <3>2. dockerPath(Workspace, p).ok \in BOOLEAN
      BY DEF dockerPath, Use, Refused
    <3>3. dockerPath(Workspace, p).ok = TRUE
      BY <2>3, <3>1, <3>2
    <3> QED
      BY <2>2, <3>1, <3>3, DockerPathInside
  <2> QED
    BY <2>1, <2>3 DEF TransferInside, Parts, Is
<1> QED
  BY <1>1, <1>2, <1>3, <1>4 DEF Parts, CallPart

(* DownloadDir with any number of workers and any search result: nil only  *)
(* with every file in its place, every file inside the target, the context *)
(* blamed only when it is over, no worker left; and docker's relative      *)
(* paths stay inside the workspace.                                        *)
THEOREM TransfersAreWholeCorrect == Spec => []TransfersAreWhole
<1> DEFINE Inv == HandleAll /\ PoolCore /\ TransferInside
<1>1. Init => Inv
  <2>1. Init => TransferInside
    BY DEF Init, TransferInside, NoReport
  <2> QED
    BY <2>1, HandleInit, PoolInit
<1>2. Inv /\ [Next]_vars => Inv'
  <2> SUFFICES ASSUME Inv, [Next]_vars PROVE Inv'
    OBVIOUS
  <2>1. config \in Configs /\ expired \in BOOLEAN
    BY DEF HandleAll, TypeInv
  <2>2. Parts
    BY <2>1, StepParts
  <2> QED
    BY <2>2, HandleStep, PoolCoreStep, TransferStep
<1>3. Inv => TransfersAreWhole
  BY DEF PoolCore, TransferInside, TransfersAreWhole
<1> QED
  BY <1>1, <1>2, <1>3, PTL DEF Spec
=============================================================================
