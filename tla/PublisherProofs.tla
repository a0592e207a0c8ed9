--------------------------- MODULE PublisherProofs ---------------------------
(***************************************************************************)
(* What holds of the publisher for every set of payloads, every number of  *)
(* calls and every combination of sink faults: its file keeps the          *)
(* contract of EventStream.                                                *)
(***************************************************************************)
EXTENDS Publisher, SequenceTheorems, TLAPS

(* The inductive strengthening: while no write has failed the next number  *)
(* is one past the length of the file and no record is torn.               *)
NumberingInv == "publish" \notin pub.err => /\ pub.nextSequence = Len(pub.log) + 1
                                            /\ ~pub.torn

IInv == TypeOK /\ PublisherInv /\ NumberingInv

PublisherState == [log : Seq(Events), torn : BOOLEAN, nextSequence : Nat \ {0},
                   finalized : BOOLEAN, closed : BOOLEAN, err : SUBSET {"publish", "close"}]

(* The fields of the publisher q that an accepted event leaves behind.     *)
Written(p, q, event) ==
  /\ q.log = Append(p.log, event)
  /\ \/ /\ q.nextSequence = p.nextSequence + 1
        /\ q.finalized = event.lastEvent
        /\ q.err = p.err
     \/ /\ q.nextSequence = p.nextSequence
        /\ q.finalized = p.finalized
        /\ q.err = {"publish"}
  /\ q.torn = p.torn /\ q.closed = p.closed

NotWritten(p, q) ==
  /\ q.log = p.log
  /\ q.nextSequence = p.nextSequence
  /\ q.finalized = p.finalized
  /\ q.err = {"publish"}
  /\ q.torn \in BOOLEAN
  /\ q.closed = p.closed

-----------------------------------------------------------------------------
(* An accepted event either gets into the file, under the next number, or  *)
(* leaves the complete records alone; a failure is remembered either way.  *)
LEMMA PublishEventEffect ==
  ASSUME NEW p \in PublisherState, NEW payload, NEW last \in BOOLEAN, NEW io \in WriteOutcomes,
         Accepts(p, payload)
  PROVE  LET event == [sequence |-> p.nextSequence, lastEvent |-> last, payload |-> payload]
             q     == PublishEvent(p, payload, last, io)
         IN  /\ q \in PublisherState
             /\ event \in Events
             /\ Written(p, q, event) \/ NotWritten(p, q)
<1> DEFINE event == [sequence |-> p.nextSequence, lastEvent |-> last, payload |-> payload]
           appended == [p EXCEPT !.log = Append(@, event)]
           q == PublishEvent(p, payload, last, io)
<1>1. event \in Events
  BY DEF Accepts, Events, PublisherState
<1>2. event.lastEvent = last
  OBVIOUS
<1>3. q = CASE io = "written" -> [appended EXCEPT !.nextSequence = @ + 1, !.finalized = last]
            [] io = "late"    -> Failed(appended)
            [] io = "torn"    -> Failed([p EXCEPT !.torn = TRUE])
            [] OTHER          -> Failed(p)
  BY DEF PublishEvent
<1> HIDE DEF event, q
<1>4. Append(p.log, event) \in Seq(Events)
  BY <1>1 DEF PublisherState
<1>5. appended \in PublisherState /\ appended.log = Append(p.log, event)
  BY <1>4 DEF PublisherState
<1>6. /\ appended.torn = p.torn /\ appended.nextSequence = p.nextSequence
      /\ appended.finalized = p.finalized /\ appended.closed = p.closed /\ appended.err = p.err
  BY DEF PublisherState
<1> HIDE DEF appended
<1>7. CASE io = "written"
  <2>1. q = [appended EXCEPT !.nextSequence = @ + 1, !.finalized = last]
    BY <1>3, <1>7
  <2>2. q \in PublisherState
    <3>1. appended.nextSequence + 1 \in Nat \ {0}
      BY <1>5 DEF PublisherState
    <3> DEFINE n == appended.nextSequence + 1
    <3> HIDE DEF n
    <3>2. q = [appended EXCEPT !.nextSequence = n, !.finalized = last]
      BY <2>1 DEF n
    <3> QED
      BY <1>5, <3>1, <3>2 DEF PublisherState, n
  <2>3. /\ q.log = Append(p.log, event) /\ q.nextSequence = p.nextSequence + 1
        /\ q.finalized = last /\ q.err = p.err /\ q.torn = p.torn /\ q.closed = p.closed
    BY <1>5, <1>6, <2>1 DEF PublisherState
  <2>4. Written(p, q, event)
    BY <1>2, <2>3 DEF Written
  <2> QED
    BY <1>1, <2>2, <2>4 DEF event, q
<1>8. CASE io = "late"
  <2>1. q = [appended EXCEPT !.err = {"publish"}]
    BY <1>3, <1>8 DEF Failed
  <2> QED
    BY <1>1, <1>5, <1>6, <2>1 DEF PublisherState, Written, event, q
<1>9. CASE io \notin {"written", "late"}
  <2>1. q = Failed([p EXCEPT !.torn = TRUE]) \/ q = Failed(p)
    BY <1>3, <1>9
  <2> QED
    BY <1>1, <2>1 DEF PublisherState, NotWritten, Failed, event, q
<1> QED
  BY <1>7, <1>8, <1>9

(* publishEvent returns a publisher, whatever it is handed.                *)
LEMMA PublishEventType ==
  ASSUME NEW p \in PublisherState, NEW payload, NEW last \in BOOLEAN, NEW io \in WriteOutcomes
  PROVE  PublishEvent(p, payload, last, io) \in PublisherState
<1>1. CASE Accepts(p, payload)
  BY <1>1, PublishEventEffect
<1>2. CASE ~Accepts(p, payload)
  BY <1>2 DEF PublishEvent
<1> QED
  BY <1>1, <1>2

LEMMA ClosePublisherType ==
  ASSUME NEW p \in PublisherState, NEW ok \in BOOLEAN
  PROVE  ClosePublisher(p, ok) \in PublisherState
<1>1. CASE p.closed
  BY <1>1 DEF ClosePublisher
<1>2. CASE ~p.closed
  <2>1. ClosePublisher(p, ok) =
          [p EXCEPT !.closed = TRUE, !.err = IF ok THEN @ ELSE @ \cup {"close"}]
    BY <1>2 DEF ClosePublisher
  <2>2. (IF ok THEN p.err ELSE p.err \cup {"close"}) \in SUBSET {"publish", "close"}
    BY DEF PublisherState
  <2> QED
    BY <2>1, <2>2 DEF PublisherState
<1> QED
  BY <1>1, <1>2

(* Every publisher the program can reach has the declared shape.           *)
THEOREM TypeCorrect == Spec => []TypeOK
<1>1. Init => TypeOK
  BY DEF Init, NewPublisher, TypeOK
<1>2. TypeOK /\ [Next]_pub => TypeOK'
  <2> SUFFICES ASSUME pub \in PublisherState, [Next]_pub
               PROVE  pub' \in PublisherState
    BY DEF TypeOK, PublisherState
  <2>1. CASE Publish
    BY <2>1, PublishEventType DEF Publish
  <2>2. CASE PublishLast
    BY <2>2, PublishEventType DEF PublishLast
  <2>3. CASE Close
    BY <2>3, ClosePublisherType DEF Close
  <2> QED
    BY <2>1, <2>2, <2>3 DEF Next
<1> QED
  BY <1>1, <1>2, PTL DEF Spec

-----------------------------------------------------------------------------
(* The invariant of one publisher p, so that it can be carried through     *)
(* several calls in a row.                                                 *)
Sound(p) ==
  /\ p \in PublisherState
  /\ \A i \in DOMAIN p.log : p.log[i].sequence = i
  /\ \A i \in DOMAIN p.log : p.log[i].lastEvent => /\ i = Len(p.log)
                                                   /\ ~p.torn
                                                   /\ p.finalized \/ "publish" \in p.err
  /\ p.torn => /\ "publish" \in p.err
               /\ ~p.finalized
               /\ \A i \in DOMAIN p.log : ~p.log[i].lastEvent
  /\ "publish" \notin p.err => p.nextSequence = Len(p.log) + 1 /\ ~p.torn

LEMMA SoundIsIInv == /\ IInv <=> Sound(pub)
                     /\ IInv' <=> Sound(pub)'
BY DEF IInv, TypeOK, PublisherInv, LogContiguous, LastEventEndsLog, TornNeverFinal, NumberingInv,
       Sound, PublisherState

(* A call of Publish or PublishLast keeps the invariant.                   *)
LEMMA PublishKeepsSound ==
  ASSUME NEW p, Sound(p), NEW payload, NEW last \in BOOLEAN, NEW io \in WriteOutcomes
  PROVE  Sound(PublishEvent(p, payload, last, io))
<1>1. CASE ~Accepts(p, payload)
  BY <1>1 DEF PublishEvent
<1>2. CASE Accepts(p, payload)
  <2> DEFINE event == [sequence |-> p.nextSequence, lastEvent |-> last, payload |-> payload]
             q     == PublishEvent(p, payload, last, io)
  <2>1. p \in PublisherState
    BY DEF Sound
  <2>2. /\ q \in PublisherState
        /\ event \in Events
        /\ Written(p, q, event) \/ NotWritten(p, q)
    BY <1>2, <2>1, PublishEventEffect
  <2>3. event.sequence = p.nextSequence /\ event.lastEvent = last
    OBVIOUS
  <2> HIDE DEF event, q
  <2>4. /\ ~p.finalized /\ p.err = {}
        /\ p.nextSequence = Len(p.log) + 1 /\ ~p.torn
    BY <1>2 DEF Accepts, Sound
  <2>5. \A i \in DOMAIN p.log : p.log[i].sequence = i /\ ~p.log[i].lastEvent
    BY <2>1, <2>4 DEF Sound, PublisherState, Events
  <2>6. CASE Written(p, q, event)
    <3>1. p.log \in Seq(Events)
      BY <2>1 DEF PublisherState
    <3>2. /\ Len(q.log) = Len(p.log) + 1
          /\ DOMAIN q.log = 1..(Len(p.log) + 1)
          /\ \A i \in 1..Len(p.log) : q.log[i] = p.log[i]
          /\ q.log[Len(p.log) + 1] = event
      BY <2>2, <2>6, <3>1 DEF Written
    <3>3. \A i \in DOMAIN q.log : q.log[i].sequence = i
      BY <2>3, <2>4, <2>5, <3>1, <3>2
    <3>4. q.torn = FALSE
      BY <2>1, <2>4, <2>6 DEF Written, PublisherState
    <3>5. (q.finalized = last) \/ "publish" \in q.err
      BY <2>3, <2>6 DEF Written
    <3>6. \A i \in DOMAIN q.log : q.log[i].lastEvent => /\ i = Len(q.log)
                                                        /\ q.finalized \/ "publish" \in q.err
      BY <2>3, <2>5, <3>1, <3>2, <3>5
    <3>7. "publish" \notin q.err => q.nextSequence = Len(q.log) + 1
      BY <2>1, <2>4, <2>6, <3>1, <3>2 DEF Written, PublisherState
    <3>8. Sound(q)
      BY <2>2, <3>3, <3>4, <3>6, <3>7 DEF Sound
    <3> QED
      BY <3>8 DEF q
  <2>7. CASE NotWritten(p, q)
    <3>1. Sound(q)
      BY <2>2, <2>4, <2>5, <2>7 DEF NotWritten, Sound
    <3> QED
      BY <3>1 DEF q
  <2> QED
    BY <2>2, <2>6, <2>7
<1> QED
  BY <1>1, <1>2

LEMMA CloseKeepsSound ==
  ASSUME NEW p, Sound(p), NEW ok \in BOOLEAN
  PROVE  Sound(ClosePublisher(p, ok))
<1> DEFINE q == ClosePublisher(p, ok)
<1>1. p \in PublisherState
  BY DEF Sound
<1>2. q \in PublisherState
  BY <1>1, ClosePublisherType
<1>3. /\ q.log = p.log /\ q.torn = p.torn
      /\ q.finalized = p.finalized /\ q.nextSequence = p.nextSequence
      /\ p.err \subseteq q.err
      /\ "publish" \in q.err => "publish" \in p.err
  BY <1>1 DEF ClosePublisher, PublisherState
<1> HIDE DEF q
<1>4. Sound(q)
  BY <1>2, <1>3 DEF Sound
<1> QED
  BY <1>4 DEF q

LEMMA IInvCorrect == Spec => []IInv
<1>1. Init => IInv
  BY DEF Init, NewPublisher, IInv, TypeOK, PublisherInv, LogContiguous, LastEventEndsLog,
         TornNeverFinal, NumberingInv
<1>2. IInv /\ [Next]_pub => IInv'
  <2> SUFFICES ASSUME IInv, [Next]_pub PROVE IInv'
    OBVIOUS
  <2>1. CASE Publish
    BY <2>1, SoundIsIInv, PublishKeepsSound DEF Publish
  <2>2. CASE PublishLast
    BY <2>2, SoundIsIInv, PublishKeepsSound DEF PublishLast
  <2>3. CASE Close
    BY <2>3, SoundIsIInv, CloseKeepsSound DEF Close
  <2>4. CASE UNCHANGED pub
    BY <2>4 DEF IInv, TypeOK, PublisherInv, LogContiguous, LastEventEndsLog, TornNeverFinal,
                NumberingInv
  <2> QED
    BY <2>1, <2>2, <2>3, <2>4 DEF Next
<1> QED
  BY <1>1, <1>2, PTL DEF Spec

(* The numbering of the file has no gap and no repetition, its final       *)
(* record is the last, and a torn file has none.                           *)
THEOREM PublisherSafety == Spec => [](LogContiguous /\ LastEventEndsLog /\ TornNeverFinal)
<1>1. IInv => LogContiguous /\ LastEventEndsLog /\ TornNeverFinal
  BY DEF IInv, PublisherInv
<1> QED
  BY <1>1, IInvCorrect, PTL

-----------------------------------------------------------------------------
Over(p) == p.closed \/ p.finalized \/ p.err # {}

(* A call that is accepted finds the stream open and leaves the errors it  *)
(* found; a call that is not changes nothing.                              *)
LEMMA PublishStep ==
  ASSUME IInv, NEW payload \in Payloads, NEW last \in BOOLEAN, NEW io \in WriteOutcomes,
         pub' = PublishEvent(pub, payload, last, io)
  PROVE  \/ pub' = pub
         \/ /\ ~Over(pub)
            /\ \/ /\ pub'.log = Append(pub.log, [sequence  |-> Len(pub.log) + 1,
                                                 lastEvent |-> last, payload |-> payload])
                  /\ last => Over(pub')
               \/ pub'.log = pub.log /\ Over(pub')
<1>1. CASE ~Accepts(pub, payload)
  BY <1>1 DEF PublishEvent
<1>2. CASE Accepts(pub, payload)
  <2> DEFINE event == [sequence |-> pub.nextSequence, lastEvent |-> last, payload |-> payload]
  <2>1. pub \in PublisherState
    BY DEF IInv, TypeOK, PublisherState
  <2>2. Written(pub, pub', event) \/ NotWritten(pub, pub')
    BY <1>2, <2>1, PublishEventEffect
  <2>3. event.lastEvent = last
    OBVIOUS
  <2>4. pub.nextSequence = Len(pub.log) + 1
    BY <1>2 DEF Accepts, IInv, NumberingInv
  <2>5. event = [sequence |-> Len(pub.log) + 1, lastEvent |-> last, payload |-> payload]
    BY <2>4
  <2> HIDE DEF event
  <2>6. ~Over(pub)
    BY <1>2 DEF Accepts, Over
  <2>7. CASE Written(pub, pub', event)
    BY <2>3, <2>5, <2>6, <2>7 DEF Written, Over
  <2>8. CASE NotWritten(pub, pub')
    BY <2>6, <2>8 DEF NotWritten, Over
  <2> QED
    BY <2>2, <2>7, <2>8
<1> QED
  BY <1>1, <1>2

(* Every call is a step of EventStream or leaves it alone.                 *)
LEMMA StreamStep ==
  ASSUME IInv, [Next]_pub
  PROVE  [Stream!Next]_(Stream!streamVars)
<1>1. ASSUME NEW payload \in Payloads, NEW last \in BOOLEAN, NEW io \in WriteOutcomes,
             pub' = PublishEvent(pub, payload, last, io)
      PROVE  [Stream!Next]_(Stream!streamVars)
  <2>1. CASE pub' = pub
    BY <2>1 DEF Stream!streamVars
  <2>2. CASE ~Over(pub) /\ pub'.log = pub.log /\ Over(pub')
    BY <2>2 DEF Over, Stream!Next, Stream!Cut
  <2>3. CASE /\ ~Over(pub)
             /\ pub'.log = Append(pub.log, [sequence  |-> Len(pub.log) + 1,
                                            lastEvent |-> last, payload |-> payload])
             /\ last => Over(pub')
    <3>1. Over(pub') \in BOOLEAN
      BY <1>1, PublishEventType DEF IInv, TypeOK, PublisherState, Over
    <3> QED
      BY <2>3, <3>1 DEF Over, Stream!Next, Stream!Extend
  <2> QED
    BY <1>1, <2>1, <2>2, <2>3, PublishStep
<1>2. CASE Close
  <2>1. PICK ok \in BOOLEAN : pub' = ClosePublisher(pub, ok)
    BY <1>2 DEF Close
  <2>2. pub \in PublisherState /\ pub' \in PublisherState
    BY <2>1, ClosePublisherType DEF IInv, TypeOK, PublisherState
  <2>3. \/ pub' = pub
        \/ pub'.log = pub.log /\ pub'.closed = TRUE /\ (Over(pub) => Over(pub'))
    BY <2>1, <2>2 DEF ClosePublisher, PublisherState, Over
  <2>4. Over(pub) \in BOOLEAN /\ Over(pub') \in BOOLEAN
    BY <2>2 DEF PublisherState, Over
  <2> QED
    BY <2>2, <2>3, <2>4 DEF Over, PublisherState, Stream!Next, Stream!Cut, Stream!streamVars
<1>3. CASE UNCHANGED pub
  BY <1>3 DEF Stream!streamVars
<1> QED
  BY <1>1, <1>2, <1>3 DEF Next, Publish, PublishLast

(* The publisher implements the contract its readers rely on.              *)
THEOREM PublisherImplementsStream == Spec => ImplementsStream
<1>1. Init => Stream!Init
  BY DEF Init, NewPublisher, Stream!Init
<1>2. IInv /\ [Next]_pub => [Stream!Next]_(Stream!streamVars)
  BY StreamStep
<1> QED
  BY <1>1, <1>2, IInvCorrect, PTL DEF Spec, ImplementsStream, Stream!Spec

(* A stream that is over never changes, and no error is ever forgotten.    *)
THEOREM PublisherFrozen == Spec => FrozenOnceOver
<1> DEFINE Frozen == /\ pub.err \subseteq pub'.err
                     /\ pub.closed \/ pub.finalized \/ pub.err # {}
                          => pub'.log = pub.log /\ pub'.torn = pub.torn
<1>1. ASSUME IInv, [Next]_pub
      PROVE  [Frozen]_pub
  <2>1. ASSUME NEW payload \in Payloads, NEW last \in BOOLEAN, NEW io \in WriteOutcomes,
               pub' = PublishEvent(pub, payload, last, io)
        PROVE  [Frozen]_pub
    <3>1. pub' = pub \/ ~Over(pub)
      BY <1>1, <2>1, PublishStep
    <3> QED
      BY <3>1 DEF Over
  <2>2. CASE Close
    <3>1. PICK ok \in BOOLEAN : pub' = ClosePublisher(pub, ok)
      BY <2>2 DEF Close
    <3>2. pub \in PublisherState
      BY <1>1 DEF IInv, TypeOK, PublisherState
    <3> QED
      BY <3>1, <3>2 DEF ClosePublisher, PublisherState
  <2> QED
    BY <1>1, <2>1, <2>2 DEF Next, Publish, PublishLast
<1>2. IInv /\ [Next]_pub => [Frozen]_pub
  BY <1>1
<1> QED
  BY <1>2, IInvCorrect, PTL DEF Spec, FrozenOnceOver
=============================================================================
