---------------------------- MODULE EngineInstall ----------------------------
(* Making a built-in agent ready in the runtime of a case: install the CLI *)
(* (never on the host itself), check that it is there, inspect its         *)
(* version, register the MCP servers, upload the skill.  The first step    *)
(* that fails ends the setup, and what earlier steps did stays.            *)
EXTENDS Naturals, SequencesExt

CONSTANTS SetupPlans,
          Latest,         (* what an installer fetches when asked for no version *)
          DefaultCodex    (* codexDefaultVersion                                 *)

(* A plan is [agent, pinned, host, servers, template, tree, excluded,      *)
(* included]: pinned the exact version asked for ("" for any), servers a   *)
(* sequence of [name, transport, whole], whole when the fields its         *)
(* transport needs are there; template whether skills are installed by     *)
(* a command of the configuration; tree the skill's files and directories, *)
(* [path, dir] with path a sequence of names given as numbers in the order *)
(* of a directory listing; excluded and included what the patterns match,  *)
(* included {} when there are none.                                        *)
CONSTANT Evals                    (* the number of the name "evals"        *)

Servers == [name : STRING, transport : STRING, whole : BOOLEAN]
ASSUME PlansReadable ==
  /\ Evals \in Nat
  /\ \A p \in SetupPlans :
       /\ p.servers \in Seq(Servers)
       /\ \A e \in p.tree : e.path \in Seq(Nat) /\ (e.path = <<>> => e.dir)

VARIABLES setup,        (* [plan, step, servers left, errs]                *)
          installed,    (* [local, system]: the CLI under ~/.local and the *)
                        (* one on the default PATH: a version or Missing   *)
          searchLocal,  (* whether ~/.local is on the runtime's PATH       *)
          registered,   (* the MCP servers in the CLI's configuration      *)
          uploaded      (* the skill's files that are in the runtime       *)
setupVars == <<setup, installed, searchLocal, registered, uploaded>>

AnyVersion == ""                  (* the version of a plan that pins none  *)
Missing == "missing"
Unnamed == "unnamed"              (* a CLI that prints no semantic version *)

SetupInit ==
  /\ \E p \in SetupPlans, system \in {Missing, Unnamed, "v1", DefaultCodex, Latest} :
       /\ setup = [plan |-> p, step |-> IF p.host THEN "check" ELSE "install",
                   servers |-> p.servers, errs |-> {}]
       /\ installed = [local |-> Missing, system |-> system]
  /\ searchLocal = FALSE /\ registered = {} /\ uploaded = {}

SetupAt(step) == setup.step = step
Go(step) == setup' = [setup EXCEPT !.step = step]
Break(why) == setup' = [setup EXCEPT !.step = "over", !.errs = {why}]

(* The CLI a command finds.  Qoder's installer takes no version: a pinned  *)
(* one is dropped for it.                                                  *)
FoundOn(local, where) ==
  IF local /\ where.local # Missing THEN where.local ELSE where.system
Found == FoundOn(searchLocal, installed)
Pinned == IF setup.plan.agent = "qodercli" THEN AnyVersion ELSE setup.plan.pinned

-----------------------------------------------------------------------------
(* The version an install command asks for: codex has one of its own when  *)
(* none is pinned.  installedVersionGuard, or without a version any CLI    *)
(* that is there, makes the command a no-op.                               *)
Demanded ==
  IF setup.plan.agent = "codex" /\ Pinned = AnyVersion THEN DefaultCodex ELSE Pinned
Satisfied(found) == IF Demanded = AnyVersion THEN found # Missing ELSE found = Demanded

Fetched == [installed EXCEPT !.local = IF Demanded = AnyVersion THEN Latest ELSE Demanded]

(* Install: the probe that puts ~/.local on the PATH may fail, the install *)
(* command still runs; it may fail too.                                    *)
Install ==
  /\ SetupAt("install")
  /\ \E probed \in BOOLEAN :
       /\ searchLocal' = probed
       /\ \/ Satisfied(FoundOn(probed, installed)) /\ Go("check") /\ UNCHANGED installed
          \/ /\ ~Satisfied(FoundOn(probed, installed)) /\ Go("check")
             /\ installed' = Fetched
          \/ Break("install") /\ installed' \in {installed, Fetched}
  /\ UNCHANGED <<registered, uploaded>>

Check ==
  /\ SetupAt("check")
  /\ \/ Found # Missing /\ Go("inspect")
     \/ Break("check")
  /\ UNCHANGED <<installed, searchLocal, registered, uploaded>>

SlipNoInspection ==
  /\ SetupAt("inspect")
  /\ Go("mcp") \/ Break("version")
  /\ UNCHANGED <<installed, searchLocal, registered, uploaded>>

(* InspectRuntime: the version printed must be the pinned one; without a   *)
(* pinned one it may be any, or none that can be read, codex's too.        *)
InspectRuntime ==
  /\ SetupAt("inspect")
  /\ \/ Pinned \in {AnyVersion, Found} /\ Go("mcp")
     \/ Break("version")
  /\ UNCHANGED <<installed, searchLocal, registered, uploaded>>

-----------------------------------------------------------------------------
(* InstallMCP: Node first for the agents that need it, then one server     *)
(* after the other: its command is built, removes what bears the name and  *)
(* adds it anew; when the command fails, either may have happened.         *)
Transports == {"stdio", "http", ""}
Buildable(s) == s.transport \in Transports /\ s.whole
Others(name) == {s \in registered : s.name # name}

InstallMCP ==
  /\ SetupAt("mcp")
  /\ \/ setup.servers = <<>> /\ Go("skill") /\ UNCHANGED registered
     \/ /\ setup.servers # <<>>
        /\ LET s == Head(setup.servers)
           IN  \/ /\ Buildable(s)
                  /\ registered' = Others(s.name) \cup {s}
                  /\ setup' = [setup EXCEPT !.servers = Tail(@)]
               \/ /\ Buildable(s) /\ Break("mcp")
                  /\ registered' \in {registered, Others(s.name), Others(s.name) \cup {s}}
               \/ ~Buildable(s) /\ Break("mcp") /\ UNCHANGED registered
               \/ /\ setup.plan.agent # "qodercli" /\ registered = {}
                  /\ Break("node") /\ UNCHANGED registered
  /\ UNCHANGED <<installed, searchLocal, uploaded>>

-----------------------------------------------------------------------------
(* ListSkillFiles: what filepath.Walk visits, from the root, <<>>.  A      *)
(* directory that is excluded takes along what is below it, and so does    *)
(* the root's evals.                                                       *)
(* When evals is a plain file, the same return value makes Walk skip the   *)
(* rest of the root.                                                       *)
Excluded(path) == Prefixes(path) \cap setup.plan.excluded # {}
EvalsIsFile == [path |-> <<Evals>>, dir |-> FALSE] \in setup.plan.tree
Visited(path) == IF EvalsIsFile THEN path[1] < Evals ELSE path[1] # Evals
Included(path) == setup.plan.included = {} \/ path \in setup.plan.included

ListSkillFiles ==
  {e.path : e \in {f \in setup.plan.tree :
                     ~f.dir /\ Visited(f.path) /\ ~Excluded(f.path) /\ Included(f.path)}}

(* InstallSkill: a template installs everything or nothing and takes no    *)
(* patterns; otherwise the files go up one after the other.                *)
InstallSkill ==
  /\ SetupAt("skill")
  /\ \/ /\ setup.plan.template
        /\ setup.plan.excluded = {} /\ setup.plan.included = {}
        /\ uploaded' = {e.path : e \in {f \in setup.plan.tree : ~f.dir}}
        /\ Go("over")
     \/ /\ ~setup.plan.template
        /\ \/ uploaded = ListSkillFiles /\ Go("over") /\ UNCHANGED uploaded
           \/ \E path \in ListSkillFiles \ uploaded :
                uploaded' = uploaded \cup {path} /\ UNCHANGED setup
     \/ Break("skill") /\ UNCHANGED uploaded
  /\ UNCHANGED <<installed, searchLocal, registered>>

-----------------------------------------------------------------------------
(* A setup that succeeds leaves the agent the configuration asks for: the  *)
(* pinned version is the one commands find, each server is registered once *)
(* and as it was last described, and the skill is there without what the   *)
(* patterns and evals keep out.  Nothing kept out is ever uploaded.        *)
Wanted ==
  {e.path : e \in {f \in setup.plan.tree :
                     /\ ~f.dir /\ f.path[1] # Evals /\ Included(f.path)
                     /\ \A n \in 0 .. Len(f.path) :
                          SubSeq(f.path, 1, n) \notin setup.plan.excluded}}
LastDescribed ==
  LET asked == setup.plan.servers
  IN  {asked[i] : i \in {j \in DOMAIN asked :
                           \A k \in DOMAIN asked : k > j => asked[k].name # asked[j].name}}
ReadyAgent ==
  /\ setup.plan.template \/ uploaded \subseteq Wanted
  /\ setup.step = "over" /\ setup.errs = {} =>
       /\ Found \notin {Missing} /\ (Pinned = AnyVersion \/ Found = Pinned)
       /\ registered = LastDescribed
       /\ \A s, t \in registered : s.name = t.name => s = t
       /\ EvalsIsFile \/ Wanted \subseteq uploaded

SetupNext == Install \/ Check \/ InspectRuntime \/ InstallMCP \/ InstallSkill
SetupSpec == SetupInit /\ [][SetupNext]_setupVars
=============================================================================
