---------------------------- MODULE JudgeContext ---------------------------
(***************************************************************************)
(* What an agent judge is given to read (internal/judge/                   *)
(* context_materializer.go) and where its configuration comes from         *)
(* (factory.go).  A text is [bytes, blank]; "" and 0 are fields not set,   *)
(* and a context nobody configured is NoContext.                           *)
(***************************************************************************)
EXTENDS Integers, Sequences, FiniteSets

TextKeys == {"final_message", "transcript", "workspace_diff", "generated_files"}

CONSTANT DefaultMaxBytes     \* defaultJudgeContextMaxBytes

Contexts == [profile : STRING, mode : [TextKeys -> STRING],
             maxBytes : Nat, maxTurns : Nat, maxLines : Nat,
             attachmentsSet : BOOLEAN, attachments : Seq([root : STRING, readable : BOOLEAN])]

NoContext == [profile |-> "", mode |-> [k \in TextKeys |-> ""],
              maxBytes |-> 0, maxTurns |-> 0, maxLines |-> 0,
              attachmentsSet |-> FALSE, attachments |-> <<>>]

Over(default, value) == IF value = "" THEN default ELSE value
OverNumber(default, value) == IF value > 0 THEN value ELSE default

(* MergeJudgeContextConfig: what the case sets wins, field by field.       *)
MergeContext(global, case) ==
  [profile  |-> Over(global.profile, case.profile),
   mode     |-> [k \in TextKeys |-> Over(global.mode[k], case.mode[k])],
   maxBytes |-> OverNumber(global.maxBytes, case.maxBytes),
   maxTurns |-> OverNumber(global.maxTurns, case.maxTurns),
   maxLines |-> OverNumber(global.maxLines, case.maxLines),
   attachmentsSet |-> global.attachmentsSet \/ case.attachmentsSet,
   attachments |-> IF case.attachmentsSet THEN case.attachments ELSE global.attachments]

(* The configuration of a judge; a number that is not set is <<>>.         *)
JudgeConfigs == [type : {"", "rule_based", "script", "agent_judge", "other"}, model : STRING,
                 threshold : Seq(Nat), timeout : Seq(Nat), context : Contexts]

(* MergeJudgeConfig: a case that names a judge replaces the global one but *)
(* for its model, threshold, timeout and context; one that does not is not *)
(* consulted at all.                                                       *)
MergeJudgeConfig(global, case) ==
  IF case.type = "" THEN global
  ELSE [case EXCEPT !.model     = Over(global.model, @),
                    !.threshold = IF @ = <<>> THEN global.threshold ELSE @,
                    !.timeout   = IF @ = <<>> THEN global.timeout ELSE @,
                    !.context   = MergeContext(global.context, @)]

(* resolveJudgeContext: the profile's modes under the configured ones.     *)
ProfileMode(profile, key) ==
  IF profile = "minimal"
  THEN IF key = "final_message" THEN "truncate" ELSE "omit"
  ELSE CASE key = "final_message"   -> "include"
         [] key = "generated_files" -> "index"
         [] OTHER                   -> "file_ref"

Effective(cfg) ==
  [mode |-> [k \in TextKeys |-> Over(ProfileMode(cfg.profile, k), cfg.mode[k])],
   maxBytes |-> OverNumber(DefaultMaxBytes, cfg.maxBytes),
   maxTurns |-> cfg.maxTurns, maxLines |-> cfg.maxLines, attachments |-> cfg.attachments]

-----------------------------------------------------------------------------
Bytes(sizes) ==
  LET sum[k \in 0..Len(sizes)] == IF k = 0 THEN 0 ELSE sum[k - 1] + sizes[k]
  IN  sum[Len(sizes)]
TextOf(sizes) == [bytes |-> Bytes(sizes), blank |-> sizes = <<>>]

(* marshalTranscript keeps the last messages, limitLines the first lines;  *)
(* 0 keeps everything.                                                     *)
LastOf(sizes, n)  == IF n > 0 /\ Len(sizes) > n THEN SubSeq(sizes, Len(sizes) - n + 1, Len(sizes))
                                                ELSE sizes
FirstOf(sizes, n) == IF n > 0 /\ Len(sizes) > n THEN SubSeq(sizes, 1, n) ELSE sizes

Omitted == [mode |-> "omit", bytes |-> 0, original |-> 0, inline |-> 0, file |-> 0]

(* A slip that inlines what exceeds the budget.                            *)
SlipAlwaysInline(text, mode, maxBytes) ==
  IF mode = "omit" \/ text.blank THEN Omitted
  ELSE [mode |-> mode, bytes |-> text.bytes, original |-> text.bytes,
        inline |-> IF mode = "file_ref" THEN 0 ELSE text.bytes, file |-> text.bytes]

(* materializeText: how much of a text is in the prompt and how much in a  *)
(* file.  The whole text is written to a file unless it is omitted.        *)
MaterializeText(text, mode, maxBytes) ==
  LET used   == IF mode = "include" /\ text.bytes > maxBytes THEN "file_ref" ELSE mode
      inline == CASE used = "include"  -> text.bytes
                  [] used = "truncate" -> IF text.bytes > maxBytes THEN maxBytes ELSE text.bytes
                  [] OTHER             -> 0
  IN  IF mode = "omit" \/ text.blank THEN Omitted
      ELSE [mode |-> used, bytes |-> IF used = "truncate" THEN inline ELSE text.bytes,
            original |-> text.bytes, inline |-> inline, file |-> text.bytes]

(* materializeGeneratedFiles: the list of names, inlined on demand.        *)
MaterializeGenerated(names, mode, maxBytes) ==
  LET index == [bytes |-> Bytes(names), blank |-> FALSE]
  IN  IF mode = "omit" \/ names = <<>> THEN Omitted
      ELSE MaterializeText(index, IF mode = "include" /\ index.bytes <= maxBytes
                                  THEN "include" ELSE "file_ref", maxBytes)

(* The modes materializeText can deliver; of generated_files every other   *)
(* mode than these is an index.                                            *)
Supported(cfg, in) ==
  \A k \in TextKeys \ {"generated_files"} :
    Effective(cfg).mode[k] \in {"include", "truncate", "file_ref", "omit"} \/ in[k] = <<>>

(* resolveAttachmentPath: inside the skill or the workspace.               *)
AttachmentsReadable(cfg) ==
  \A i \in DOMAIN cfg.attachments : /\ cfg.attachments[i].root \in {"skill", "workspace"}
                                    /\ cfg.attachments[i].readable

(* The texts of MaterializeJudgeContext, in[k] being the sizes of the      *)
(* parts of text k: messages, lines or names.                              *)
Materials(cfg, in) ==
  LET e == Effective(cfg)
      Text(k, sizes) == MaterializeText(TextOf(sizes), e.mode[k], e.maxBytes)
  IN  [final_message   |-> Text("final_message", in.final_message),
       transcript      |-> Text("transcript", LastOf(in.transcript, e.maxTurns)),
       workspace_diff  |-> Text("workspace_diff", FirstOf(in.workspace_diff, e.maxLines)),
       generated_files |-> MaterializeGenerated(in.generated_files, e.mode["generated_files"],
                                                e.maxBytes)]
=============================================================================
