---------------------------- MODULE RemotePaths ----------------------------
(***************************************************************************)
(* Slash-separated paths as the runtimes handle them: a path is a record   *)
(* of a flag, absolute or not, and its segments.  Clean and Join do what   *)
(* Go's package path does; the rest are the checks of docker.go and        *)
(* opensandbox.go (internal/runtime) that keep a path inside a directory.  *)
(***************************************************************************)
EXTENDS Naturals, Sequences, SequencesExt

Abs(segs) == [abs |-> TRUE, segs |-> segs]
Rel(segs) == [abs |-> FALSE, segs |-> segs]

NoPath == Rel(<<>>)                                         \* "" and "."

Clean(p) ==
  LET cleaned[k \in 0..Len(p.segs)] ==
        IF k = 0 THEN <<>>
        ELSE LET done == cleaned[k - 1]  s == p.segs[k]
             IN  CASE s = "." -> done
                   [] s = ".." /\ done # <<>> /\ Last(done) # ".." -> Front(done)
                   [] s = ".." /\ done = <<>> /\ p.abs -> done
                   [] OTHER -> Append(done, s)
  IN  [p EXCEPT !.segs = cleaned[Len(p.segs)]]

Join(dir, p) == Clean([dir EXCEPT !.segs = @ \o p.segs])

Inside(dir, p) == p.abs = dir.abs /\ IsPrefix(dir.segs, p.segs)

-----------------------------------------------------------------------------
(* What became of a path: the path to use, or a refusal.                   *)
Use(p)  == [ok |-> TRUE, path |-> p]
Refused == [ok |-> FALSE, path |-> NoPath]

isSubPath(parent, child) == Inside(Clean(parent), Clean(child))

(* DockerRuntime.remotePath and the check of Exec's working directory: an  *)
(* absolute path is taken as it is, a relative one may not leave the       *)
(* workspace.                                                              *)
dockerPath(workspace, p) ==
  IF p.abs THEN Use(Clean(p))
  ELSE IF isSubPath(workspace, Join(workspace, p)) THEN Use(Join(workspace, p)) ELSE Refused

(* OpenSandboxRuntime.remotePath: no such check.                           *)
sandboxPath(workspace, p) ==
  IF p.abs THEN Use(Clean(p)) ELSE Use(Join(workspace, p))

(* NoneRuntime.pathInWorkspaceOrAbs                                        *)
hostPath(workspace, p) == sandboxPath(workspace, p)

(* The place of a search result under the directory that was searched.     *)
remoteRelativePath(root, file) ==
  LET dir == Clean(root)  f == Clean(file)
  IN  IF Inside(dir, f) THEN Use(Rel(SubSeq(f.segs, Len(dir.segs) + 1, Len(f.segs))))
                        ELSE Refused

(* The host file a relative path names: never above the target directory.  *)
safeLocalTarget(root, rel) ==
  LET clean == Clean(rel)
  IN  IF clean.abs \/ (clean.segs # <<>> /\ Head(clean.segs) = "..") THEN Refused
      ELSE Use(Join(root, clean))
=============================================================================
