----------------------------- MODULE Publisher -----------------------------
(***************************************************************************)
(* evalevent.Publisher over its JSONLSink (internal/evalevent/publisher.go *)
(* and jsonl.go): the state of one invocation's publisher as a record, the *)
(* effect of one serialized call on it, and the publisher on its own with  *)
(* callers that may make any call at any time.  Every call holds p.mu from *)
(* start to end, so a call is one step here; JSONLSink.tla takes the call  *)
(* apart into its writes and shows that this is sound.                     *)
(***************************************************************************)
EXTENDS Naturals, Sequences

CONSTANTS Payloads,        \* everything a caller may hand to Publish
          ValidPayloads,   \* those whose validate() returns nil
          MaxSafeInteger,  \* the largest sequence number of the protocol
          SinkFaults       \* the ways a write of this instance may fail

VARIABLE pub

(* What the sink did with one record: wrote it; returned an error before   *)
(* its first byte (cancelled context, oversized record, closed sink);      *)
(* returned an error after some of its bytes; or returned an error although*)
(* the whole line had already reached the file.                            *)
WriteOutcomes == {"written"} \cup SinkFaults

Events == [sequence : Nat, lastEvent : BOOLEAN, payload : ValidPayloads]

(* A slip numbering the events from 0.                                     *)
SlipNumberFromZero == [log |-> <<>>, torn |-> FALSE, nextSequence |-> 0,
                       finalized |-> FALSE, closed |-> FALSE, err |-> {}]

NewPublisher == [log |-> <<>>, torn |-> FALSE, nextSequence |-> 1,
                 finalized |-> FALSE, closed |-> FALSE, err |-> {}]

(* Slips of the guard: each forgets one of its reasons to refuse.          *)
SlipAfterFinal(p, payload) == /\ ~p.closed /\ p.err = {} /\ payload \in ValidPayloads
                              /\ p.nextSequence <= MaxSafeInteger
SlipAfterClose(p, payload) == /\ ~p.finalized /\ p.err = {} /\ payload \in ValidPayloads
                              /\ p.nextSequence <= MaxSafeInteger

Accepts(p, payload) == /\ ~p.closed
                       /\ ~p.finalized
                       /\ p.err = {}
                       /\ payload \in ValidPayloads
                       /\ p.nextSequence <= MaxSafeInteger

(* Slips of a failed write: the error is not remembered; or the number is  *)
(* used up and publication goes on.                                        *)
SlipForgetError(p) == p
SlipSkipNumber(p) == [p EXCEPT !.nextSequence = @ + 1]

(* The sink returned an error: it is sticky.                               *)
Failed(p) == [p EXCEPT !.err = {"publish"}]

(* The publisher after publishEvent; p itself when the call is rejected.   *)
PublishEvent(p, payload, last, io) ==
  LET event    == [sequence |-> p.nextSequence, lastEvent |-> last, payload |-> payload]
      appended == [p EXCEPT !.log = Append(@, event)]
  IN  CASE ~Accepts(p, payload) -> p
        [] Accepts(p, payload) /\ io = "written" ->
             [appended EXCEPT !.nextSequence = @ + 1, !.finalized = last]
        [] Accepts(p, payload) /\ io = "late"    -> Failed(appended)
        [] Accepts(p, payload) /\ io = "torn"    -> Failed([p EXCEPT !.torn = TRUE])
        [] OTHER -> Failed(p)

(* publishEvent returned nil.                                              *)
Published(p, payload, io) == Accepts(p, payload) /\ io = "written"

ClosePublisher(p, ok) ==
  IF p.closed THEN p
  ELSE [p EXCEPT !.closed = TRUE, !.err = IF ok THEN @ ELSE @ \cup {"close"}]

-----------------------------------------------------------------------------
Init == pub = NewPublisher

Publish == \E payload \in Payloads, io \in WriteOutcomes :
             pub' = PublishEvent(pub, payload, FALSE, io)

PublishLast == \E payload \in Payloads, io \in WriteOutcomes :
                 pub' = PublishEvent(pub, payload, TRUE, io)

Close == \E ok \in BOOLEAN : pub' = ClosePublisher(pub, ok)

Next == Publish \/ PublishLast \/ Close

Spec == Init /\ [][Next]_pub

-----------------------------------------------------------------------------
TypeOK == pub \in [log : Seq(Events), torn : BOOLEAN, nextSequence : Nat \ {0},
                   finalized : BOOLEAN, closed : BOOLEAN, err : SUBSET {"publish", "close"}]

(* The records of the file are numbered from 1 without a gap or a          *)
(* repetition, also when a write failed after its line was complete: the   *)
(* number it used is never given to another record.                        *)
LogContiguous == \A i \in DOMAIN pub.log : pub.log[i].sequence = i

(* A record with last_event is the end of the file: nothing follows it,    *)
(* not even when its own write reported an error.                          *)
LastEventEndsLog ==
  \A i \in DOMAIN pub.log :
    pub.log[i].lastEvent => /\ i = Len(pub.log)
                            /\ ~pub.torn
                            /\ pub.finalized \/ "publish" \in pub.err

(* An unterminated record is only ever the end of a failed stream, which   *)
(* never acquires a final marker: a reader cannot take a torn file for a   *)
(* complete one.                                                           *)
TornNeverFinal ==
  pub.torn => /\ "publish" \in pub.err
              /\ ~pub.finalized
              /\ \A i \in DOMAIN pub.log : ~pub.log[i].lastEvent

PublisherInv == LogContiguous /\ LastEventEndsLog /\ TornNeverFinal

(* After a failed write, after the final record and after Close the file   *)
(* is never written again, and the first error is never forgotten.         *)
FrozenOnceOver ==
  [][ /\ pub.err \subseteq pub'.err
      /\ pub.closed \/ pub.finalized \/ pub.err # {}
           => pub'.log = pub.log /\ pub'.torn = pub.torn ]_pub

Stream == INSTANCE EventStream
            WITH stream <- pub.log,
                 over   <- pub.closed \/ pub.finalized \/ pub.err # {}

(* The publisher keeps the reader's contract.                              *)
ImplementsStream == Stream!Spec
=============================================================================
