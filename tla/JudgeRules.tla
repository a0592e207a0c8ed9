---------------------------- MODULE JudgeRules -----------------------------
(***************************************************************************)
(* Rules and expectations (internal/judge/rule_based.go and expect.go) as  *)
(* operators over a judge's input                                          *)
(*   [words, exitCode, calls, files, holds, turns, golden].                *)
(* A text is the set of words (and of patterns) found in it, a tool call   *)
(* its name and the set of its name-value pairs, and the workspace the set *)
(* of the paths in it; `holds` tells what the files contain, `golden` how  *)
(* the final message compares with the golden file.  A turn is             *)
(*   [number, status, words, calls].                                       *)
(* A rule has the fields `set` (those present in the configuration) and    *)
(*   all, any, not (words or patterns in order), code, name, args, paths,  *)
(*   turn.                                                                 *)
(***************************************************************************)
EXTENDS JudgeAnswer

Invalid == "("          \* a pattern that does not compile: found in no text
Outside == "../x"       \* a path out of the workspace, or one stat fails on

Fields == <<"output_contains", "output_matches", "exit_code", "tool_called", "files_exist",
            "files_not_exist", "turn_response_contains", "turn_response_not_contains",
            "tool_called_in_turn", "tool_not_called_in_turn">>

Items(seq) == {seq[i] : i \in DOMAIN seq}

ContainsAll(words, seq) == Items(seq) \subseteq words
ContainsAny(words, seq) == seq = <<>> \/ Items(seq) \cap words # {}
ContainsNone(words, seq) == Items(seq) \cap words = {}

(* anyRegexMatches and firstMatchingRegex: patterns are tried in order up  *)
(* to the first that matches or does not compile.                          *)
FirstHit(words, seq) ==
  LET hits == {i \in DOMAIN seq : seq[i] = Invalid \/ seq[i] \in words}
  IN  IF hits = {} THEN "none"
      ELSE IF seq[CHOOSE i \in hits : \A j \in hits : i <= j] = Invalid THEN "invalid"
           ELSE "matched"

outputContains(rule, words) == /\ ContainsAll(words, rule.all)
                               /\ ContainsAny(words, rule.any)
                               /\ ContainsNone(words, rule.not)

outputMatches(rule, words) == /\ ContainsAll(words, rule.all)
                              /\ rule.any = <<>> \/ FirstHit(words, rule.any) = "matched"
                              /\ FirstHit(words, rule.not) = "none"

(* A call of that name whose arguments include those of the rule.          *)
Called(name, args, calls) == \E c \in calls : c.name = name /\ args \subseteq c.args

FilesExist(paths, files) == Items(paths) \subseteq files
FilesNotExist(paths, files) == \A p \in Items(paths) : p # Outside /\ p \notin files

(* lookupTurn: the first turn of that number, provided it completed.       *)
InTurn(n, turns) ==
  LET found == {j \in DOMAIN turns : /\ turns[j].number = n /\ n >= 1
                                     /\ \A k \in 1..(j - 1) : turns[k].number # n}
  IN  {turns[j] : j \in {i \in found : turns[i].status = "completed"}}

(* evaluateAssertion dispatches on the first field that is set.            *)
FieldOf(rule) ==
  LET present == {i \in DOMAIN Fields : Fields[i] \in rule.set}
  IN  IF present = {} THEN "unknown_rule"
      ELSE Fields[CHOOSE i \in present : \A j \in present : i <= j]

turnResponseContains(rule, turns) ==
  \E turn \in InTurn(rule.turn, turns) :
    ContainsAll(turn.words, rule.all) /\ ContainsAny(turn.words, rule.any)
turnResponseNotContains(rule, turns) ==
  \E turn \in InTurn(rule.turn, turns) : ContainsNone(turn.words, rule.not)
toolCalledInTurn(rule, turns) ==
  \E turn \in InTurn(rule.turn, turns) : Called(rule.name, rule.args, turn.calls)
toolNotCalledInTurn(rule, turns) ==
  \E turn \in InTurn(rule.turn, turns) : ~Called(rule.name, {}, turn.calls)

Met(rule, in) ==
  LET field == FieldOf(rule)
  IN  \/ field = "output_contains" /\ outputContains(rule, in.words)
      \/ field = "output_matches" /\ outputMatches(rule, in.words)
      \/ field = "exit_code" /\ in.exitCode = rule.code
      \/ field = "tool_called" /\ Called(rule.name, rule.args, in.calls)
      \/ field = "files_exist" /\ FilesExist(rule.paths, in.files)
      \/ field = "files_not_exist" /\ FilesNotExist(rule.paths, in.files)
      \/ field = "turn_response_contains" /\ turnResponseContains(rule, in.turns)
      \/ field = "turn_response_not_contains" /\ turnResponseNotContains(rule, in.turns)
      \/ field = "tool_called_in_turn" /\ toolCalledInTurn(rule, in.turns)
      \/ field = "tool_not_called_in_turn" /\ toolNotCalledInTurn(rule, in.turns)

(* RuleBasedJudge.Evaluate: a failure rule that is met decides alone, then *)
(* every success rule has to be met.                                       *)
RuleAssertions(failure, success, in) ==
  LET matched == {i \in DOMAIN failure : Met(failure[i], in)}
  IN  IF matched # {} THEN [i \in matched |-> FALSE]
      ELSE [i \in DOMAIN success |-> Met(success[i], in)]

-----------------------------------------------------------------------------
(* Expectations: [mustContain, mustNotContain, exitCode, filesExist,       *)
(* filesNotExist, golden, fileContains]; an exit code is a set of at most  *)
(* one, a check of fileContains a pair of a path and a word.               *)
NoExpect == [mustContain |-> <<>>, mustNotContain |-> <<>>, exitCode |-> {}, filesExist |-> <<>>,
             filesNotExist |-> <<>>, golden |-> FALSE, fileContains |-> <<>>]

(* mergeExpectConfig: the lists of the defaults and the case are joined    *)
(* (an entry twice means what it means once), a scalar of the case wins.   *)
MergeExpect(defaults, case) ==
  [mustContain    |-> defaults.mustContain \o case.mustContain,
   mustNotContain |-> defaults.mustNotContain \o case.mustNotContain,
   exitCode       |-> IF case.exitCode # {} THEN case.exitCode ELSE defaults.exitCode,
   filesExist     |-> defaults.filesExist \o case.filesExist,
   filesNotExist  |-> defaults.filesNotExist \o case.filesNotExist,
   golden         |-> defaults.golden \/ case.golden,
   fileContains   |-> defaults.fileContains \o case.fileContains]

ConfiguredRules(expect) ==
       {f \in {"mustContain", "mustNotContain", "filesExist", "filesNotExist", "fileContains"} :
          expect[f] # <<>>}
  \cup {f \in {"exitCode"} : expect.exitCode # {}} \cup {f \in {"golden"} : expect.golden}

Fulfilled(f, expect, in) ==
  \/ f = "mustContain" /\ ContainsAll(in.words, expect.mustContain)
  \/ f = "mustNotContain" /\ ContainsNone(in.words, expect.mustNotContain)
  \/ f = "exitCode" /\ in.exitCode \in expect.exitCode
  \/ f = "filesExist" /\ FilesExist(expect.filesExist, in.files)
  \/ f = "filesNotExist" /\ FilesNotExist(expect.filesNotExist, in.files)
  \/ f = "golden" /\ in.golden = "equal"    \* trimmed; not "different", not "unreadable"
  \/ /\ f = "fileContains"
     /\ \A check \in Items(expect.fileContains) :
          check[1] \in in.files /\ check \in in.holds

(* CheckExpect and ToAssertionResults: one assertion for each rule that is *)
(* configured.                                                             *)
ExpectAssertions(expect, in) == [f \in ConfiguredRules(expect) |-> Fulfilled(f, expect, in)]
=============================================================================
