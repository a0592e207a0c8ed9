---------------------------- MODULE SessionLookup ----------------------------
(* The search for the session file of a run among those under the CLI's    *)
(* project tree in the runtime's home.                                     *)
(*                                                                         *)
(* A file is [name, tree, key, depth, listed, cwd, mtime, owner, thread,   *)
(* size, lines]: the tree and the canonical name of the directory it is    *)
(* in, how deep below that, whether its name is one the search lists, the  *)
(* working directory its first 64 KiB record ("" when none), its           *)
(* modification time in seconds, and who wrote it, which the search cannot *)
(* see: owner is the workspace, thread the conversation.                   *)
EXTENDS EngineOutput

CONSTANTS canonicalWorkspaceKey,   (* workspace -> directory name: lossy   *)
          PartOf                   (* pairs of conversation ids of which a *)
                                   (* name with the second matches a       *)
                                   (* pattern with the first               *)

(* A CLI records the directory it runs in, if any.                         *)
SessionFile(f) ==
  f.cwd \in {Blank, f.owner} /\ f.mtime \in Nat /\ f.lines \in Seq(Lines)

InTree(files, tree) == {f \in files : f.tree = tree /\ f.listed}

(* Files in directories whose name matches the workspace's, or, when these *)
(* hold none, anywhere in the tree.                                        *)
Candidates(files, workspace, depth) ==
  {f \in files : f.key = canonicalWorkspaceKey[workspace] /\ f.depth \in 1..depth}
Recording(files, workspace) == {f \in files : f.cwd = workspace}
SlipNeverRecorded(files) == FALSE
AnyRecordsCwd(files) == \E f \in files : f.cwd # Blank

Kept(files, workspace, depth) ==
  LET here     == Candidates(files, workspace, depth)
      anywhere == {f \in files : f.depth \in 0..depth}
      own      == Recording(here, workspace)
  IN  IF here = {} THEN Recording(anywhere, workspace)
      ELSE IF own # {} THEN own
      ELSE IF AnyRecordsCwd(here) THEN {} ELSE here

(* Two files of the same second are told apart by the order of find.       *)
Newest(files) == {f \in files : \A g \in files : g.mtime <= f.mtime}

findAgentSessionJSONL(files, tree, workspace, depth) ==
  Newest(Kept(InTree(files, tree), workspace, depth))

(* codex names its files after the conversation.  The pattern has the id   *)
(* anywhere in a name, so a file of a conversation whose id contains it    *)
(* matches as well, and find | head -1 takes whichever comes first.        *)
NamedAfter(f, thread) == f.thread = thread \/ <<thread, f.thread>> \in PartOf

findCodexSessionPath(files, thread) ==
  IF thread = Blank THEN {} ELSE {f \in InTree(files, "codex") : NamedAfter(f, thread)}
=============================================================================
