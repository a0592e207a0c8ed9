---------------------------- MODULE DownloadPool ----------------------------
(***************************************************************************)
(* OpenSandboxRuntime.DownloadDir (internal/runtime/opensandbox.go): the   *)
(* files found by the search are handed over an unbuffered channel to a    *)
(* few workers; the first error is kept in a channel of one place and      *)
(* cancels the rest, and the sender waits for every worker.                *)
(***************************************************************************)
EXTENDS RemotePaths, FiniteSets

CONSTANTS SearchResults,   \* the sequences of files a search may return: [path, mode]
          Source, Target   \* the directories of the call

VARIABLES
  expired,     \* the caller's context is over
  files,       \* what the search returned, with the place of each file
  sender,      \* where downloadFiles is
  next,        \* the file the sender hands over next
  worker,      \* what each worker is doing
  errCh,       \* the error in the channel, "none" if it is empty
  cancelled,   \* cancel() of the derived context was called
  written,     \* target path -> mode of the files on the host, set when one is created
  outcome      \* what DownloadDir returned

poolVars == <<files, sender, next, worker, errCh, cancelled, written, outcome>>

DefaultParallelism == 8
MaxParallelism == 64

(* resolveFileTransferParallelism: 0 also stands for an absent setting and *)
(* for what Atoi does not accept.                                          *)
FileTransferParallelism(raw) ==
  IF raw <= 0 THEN DefaultParallelism ELSE Min({raw, MaxParallelism})

(* safeFileMode: the decimal digits of the API read as octal ones, 0600    *)
(* when they are none.                                                     *)
noneFileMode == 384
safeFileMode(raw) ==
  LET digit == [k \in 0..2 |-> (raw \div (10^k)) % 10]
  IN  IF raw <= 0 \/ raw > 777 \/ \E k \in 0..2 : digit[k] > 7 THEN noneFileMode
      ELSE digit[0] + 8 * digit[1] + 64 * digit[2]

Init == /\ files = <<>> /\ sender = "idle" /\ next = 1 /\ worker = <<>> /\ errCh = "none"
        /\ cancelled = FALSE /\ written = <<>> /\ outcome = "pending"

ctxDone == expired \/ cancelled

(* downloadSearchResult works out where a file goes: its place under the   *)
(* source, then under the target; the searched directory itself is nothing *)
(* to download.                                                            *)
PlaceOf(file) ==
  LET rel == remoteRelativePath(Source, file.path)
  IN  [mode |-> safeFileMode(file.mode), skip |-> rel.ok /\ rel.path = NoPath,
       target |-> IF rel.ok THEN safeLocalTarget(Target, rel.path) ELSE Refused]

-----------------------------------------------------------------------------
(* The search, the target directory, and the workers.                      *)
DownloadDir(parallelism) ==
  /\ sender = "idle"
  /\ next' = 1 /\ errCh' = "none" /\ cancelled' = FALSE /\ written' = <<>>
  /\ \/ /\ sender' = "returned" /\ outcome' = "fault"       \* search or MkdirAll failed
        /\ files' = <<>> /\ worker' = <<>>
     \/ \E found \in SearchResults :
          /\ files' = [k \in DOMAIN found |-> PlaceOf(found[k])]
          /\ IF found = <<>>
             THEN sender' = "returned" /\ outcome' = "nil" /\ worker' = <<>>
             ELSE /\ sender' = "sending" /\ outcome' = "pending"
                  /\ worker' = [w \in 1..Min({FileTransferParallelism(parallelism), Len(found)})
                                  |-> [at |-> "receiving", file |-> 0, err |-> "none"]]

Goes(w, to) == worker' = [worker EXCEPT ![w] = to]
To(at)      == [at |-> at, file |-> 0, err |-> "none"]

(* The rendezvous of the sender and a worker.                              *)
HandOver(w) == /\ sender = "sending" /\ next <= Len(files) /\ worker[w].at = "receiving"
               /\ Goes(w, [at |-> "downloading", file |-> next, err |-> "none"])
               /\ next' = next + 1
               /\ UNCHANGED <<files, sender, errCh, cancelled, written, outcome>>

(* The other ready case of the select.                                     *)
SlipNeverStops == FALSE
SenderSeesCancel == sender = "sending" /\ next <= Len(files) /\ ctxDone

StopSending == /\ SenderSeesCancel
               /\ sender' = "stopped"
               /\ UNCHANGED <<files, next, worker, errCh, cancelled, written, outcome>>

AllSent == /\ sender = "sending" /\ next > Len(files)
           /\ sender' = "sent"
           /\ UNCHANGED <<files, next, worker, errCh, cancelled, written, outcome>>

Download(w) ==
  LET file == files[worker[w].file]
      Fails(e) == Goes(w, [at |-> "failed", file |-> worker[w].file, err |-> e])
                  /\ UNCHANGED written
  IN  /\ worker[w].at = "downloading"
      /\ \/ file.skip /\ Goes(w, To("receiving")) /\ UNCHANGED written
         \/ ~file.skip /\ ~file.target.ok /\ Fails("fault")
         \/ /\ ~file.skip /\ file.target.ok
            /\ \/ /\ Goes(w, To("receiving"))
                  /\ written' = [p \in DOMAIN written \cup {file.target.path} |->
                                   IF p \in DOMAIN written THEN written[p] ELSE file.mode]
               \/ Fails("fault")
               \/ ctxDone /\ Fails("context")
      /\ UNCHANGED <<files, sender, next, errCh, cancelled, outcome>>

(* The first error fills the channel and cancels; the others are dropped.  *)
SlipCancelFirst(w) == /\ worker[w].at = "failed"
                      /\ cancelled' = TRUE
                      /\ errCh' = IF cancelled /\ errCh = "none" THEN worker[w].err ELSE errCh
                      /\ IF cancelled THEN Goes(w, To("left")) ELSE UNCHANGED worker
                      /\ UNCHANGED <<files, sender, next, written, outcome>>

Report(w) == /\ worker[w].at = "failed"
             /\ errCh' = IF errCh = "none" THEN worker[w].err ELSE errCh
             /\ Goes(w, To(IF errCh = "none" THEN "cancelling" ELSE "left"))
             /\ UNCHANGED <<files, sender, next, cancelled, written, outcome>>

CancelRest(w) == /\ worker[w].at = "cancelling"
                 /\ cancelled' = TRUE /\ Goes(w, To("left"))
                 /\ UNCHANGED <<files, sender, next, errCh, written, outcome>>

(* The channel was closed: range ends.                                     *)
Leave(w) == /\ sender \in {"stopped", "sent"} /\ worker[w].at = "receiving"
            /\ Goes(w, To("left"))
            /\ UNCHANGED <<files, sender, next, errCh, cancelled, written, outcome>>

AllLeft == \A w \in DOMAIN worker : worker[w].at = "left"

(* wg.Wait, then the error that was kept.                                  *)
Collect == /\ sender \in {"stopped", "sent"} /\ AllLeft
           /\ sender' = "returned"
           /\ outcome' = CASE errCh # "none" -> errCh
                           [] errCh = "none" /\ sender = "stopped" -> "context"
                           [] OTHER -> "nil"
           /\ UNCHANGED <<files, next, worker, errCh, cancelled, written>>

PoolStep == \/ StopSending \/ AllSent \/ Collect
            \/ \E w \in DOMAIN worker : \/ HandOver(w) \/ Download(w) \/ Report(w)
                                        \/ CancelRest(w) \/ Leave(w)

-----------------------------------------------------------------------------
(* A file of the host has the place and the mode of a file that was found. *)
AsFound(p) == \E k \in DOMAIN files : /\ files[k].target.ok /\ files[k].target.path = p
                                      /\ files[k].mode = written[p]

(* A nil result means that every file that was found is on the host, each  *)
(* inside the target directory and with its mode; an error is the one that *)
(* went wrong, never the cancellation that followed from it; and no worker *)
(* is left behind.                                                         *)
DownloadIsWhole ==
  sender = "returned" =>
    /\ outcome = "nil" => \A k \in DOMAIN files :
         files[k].skip \/ (files[k].target.ok /\ files[k].target.path \in DOMAIN written)
    /\ outcome = "context" => expired
    /\ \A p \in DOMAIN written : Inside(Clean(Target), p) /\ AsFound(p)
    /\ AllLeft
=============================================================================
