---------------------------- MODULE EventStream ----------------------------
(***************************************************************************)
(* What a reader of an event log may rely on, whatever the producer does:  *)
(* the complete records are numbered 1, 2, 3, ... without a gap, a record  *)
(* is never changed or removed, and once the stream is over (the record    *)
(* carrying last_event was written, a write failed, or the publisher was   *)
(* closed) no record is added.                                             *)
(***************************************************************************)
EXTENDS Naturals, Sequences

CONSTANT Payloads

VARIABLES stream, over

streamVars == <<stream, over>>

Init == stream = <<>> /\ over = FALSE

(* One more record; the final record ends the stream, and so may any       *)
(* record whose write reported an error after its newline went out.        *)
Extend == /\ ~over
          /\ \E payload \in Payloads, last \in BOOLEAN :
               /\ stream' = Append(stream, [sequence  |-> Len(stream) + 1,
                                            lastEvent |-> last,
                                            payload   |-> payload])
               /\ over' \in BOOLEAN
               /\ last => over'

(* The stream is cut without a final record.                               *)
Cut == ~over /\ over' = TRUE /\ UNCHANGED stream

Next == Extend \/ Cut

Spec == Init /\ [][Next]_streamVars
=============================================================================
