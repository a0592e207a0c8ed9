--------------------------- MODULE JSONLSinkProofs ---------------------------
(***************************************************************************)
(* For every number of goroutines, every size of records and every set of  *)
(* payloads: the sink under the publisher's mutex implements the atomic    *)
(* Publisher, so a call may be taken as one step wherever the publisher is *)
(* used, and an unterminated record is never unexplained.                  *)
(***************************************************************************)
EXTENDS JSONLSink, TLAPS

Locations == {"idle", "locking", "closing", "writing"}

TypeInv == /\ mu \in Callers \cup {NoCaller}
           /\ pc \in [Callers -> Locations]
           /\ call \in [Callers -> Calls]
           /\ remaining \in Nat /\ partial \in Nat
           /\ nextSequence \in Nat
           /\ finalized \in BOOLEAN /\ closed \in BOOLEAN
           /\ err \in SUBSET {"publish", "close"}
           /\ alive \in BOOLEAN

(* Only the holder of the mutex is writing, and a holder is writing.       *)
MutexInv == /\ \A c \in Callers : pc[c] = "writing" => mu = c
            /\ mu # NoCaller => pc[mu] = "writing"

(* While a record is on its way, the reasons for which Enter let it in     *)
(* still hold, and its bytes are in the file or to be written.             *)
InFlightInv ==
  mu # NoCaller => /\ ~closed /\ ~finalized /\ err = {}
                   /\ call[mu].payload \in ValidLines
                   /\ nextSequence <= MaxSequence
                   /\ partial + remaining = RecordSize
                   /\ remaining > 0

(* Between calls only a failed write leaves bytes behind.                  *)
LeftoverInv == mu = NoCaller /\ partial > 0 => "publish" \in err

SinkInv == TypeInv /\ MutexInv /\ InFlightInv /\ LeftoverInv

-----------------------------------------------------------------------------
(* What a writer knows when it takes its next step.                        *)
LEMMA WriterState ==
  ASSUME SinkInv, NEW c \in Callers, pc[c] = "writing"
  PROVE  /\ mu = c /\ mu # NoCaller
         /\ ~closed /\ ~finalized /\ err = {}
         /\ call[c] \in Calls
         /\ call[c].payload \in ValidLines
         /\ nextSequence <= MaxSequence
         /\ partial + remaining = RecordSize
         /\ remaining > 0
  BY SinkAssumption DEF SinkInv, TypeInv, MutexInv, InFlightInv

(* One byte more or the rest of the record: what PutBytes leaves.          *)
LEMMA BytesConserved ==
  ASSUME NEW c \in Callers, remaining \in Nat, partial \in Nat,
         NEW n \in 0..remaining, PutBytes(c, n)
  PROVE  /\ remaining' \in Nat /\ partial' \in Nat
         /\ n < remaining => /\ partial' = partial + n
                             /\ partial' + remaining' = partial + remaining
                             /\ remaining' > 0
                             /\ file' = file
         /\ n = remaining => partial' = 0 /\ file' = Append(file, Record(c))
  BY DEF PutBytes

LEMMA SinkInvInit == SinkInit => SinkInv
<1> SUFFICES ASSUME SinkInit PROVE SinkInv
  OBVIOUS
<1>1. call \in [Callers -> Calls]
  <2>1. {[payload |-> p, last |-> FALSE] : p \in Lines} \subseteq Calls
    <3>1. ASSUME NEW p \in Lines PROVE [payload |-> p, last |-> FALSE] \in Calls
      BY DEF Calls
    <3> QED
      BY <3>1
  <2>2. call \in [Callers -> {[payload |-> p, last |-> FALSE] : p \in Lines}]
    BY DEF SinkInit
  <2> QED
    BY <2>1, <2>2
<1>2. pc \in [Callers -> Locations] /\ \A c \in Callers : pc[c] = "idle"
  BY DEF SinkInit, Locations
<1>3. /\ mu = NoCaller /\ remaining = 0 /\ partial = 0
      /\ nextSequence = 1 /\ finalized = FALSE /\ closed = FALSE /\ err = {} /\ alive = TRUE
  BY DEF SinkInit
<1>4. TypeInv
  BY <1>1, <1>2, <1>3 DEF TypeInv
<1>5. MutexInv /\ InFlightInv /\ LeftoverInv
  BY <1>2, <1>3 DEF MutexInv, InFlightInv, LeftoverInv
<1> QED
  BY <1>4, <1>5 DEF SinkInv

LEMMA SinkInvStep == SinkInv /\ [SinkNext]_sinkVars => SinkInv'
<1> SUFFICES ASSUME SinkInv, [SinkNext]_sinkVars PROVE SinkInv'
  OBVIOUS
<1> USE SinkAssumption
<1>1. ASSUME NEW c \in Callers, CallPublish(c) PROVE SinkInv'
  <2>1. PICK args \in Calls : call' = [call EXCEPT ![c] = args]
    BY <1>1 DEF CallPublish
  <2>2. mu # c
    BY <1>1 DEF CallPublish, SinkInv, MutexInv
  <2> QED
    BY <1>1, <2>1, <2>2 DEF CallPublish, Goto, publisherVars, SinkInv, TypeInv, MutexInv,
                            InFlightInv, LeftoverInv, Locations
<1>2. ASSUME NEW c \in Callers, CallClose(c) PROVE SinkInv'
  BY <1>2 DEF CallClose, Goto, publisherVars, SinkInv, TypeInv, MutexInv, InFlightInv,
              LeftoverInv, Locations
<1>3. ASSUME NEW c \in Callers, Enter(c) PROVE SinkInv'
  <2>1. UNCHANGED <<call, file, partial, nextSequence, finalized, closed, err, alive>>
    BY <1>3 DEF Enter, publisherVars
  <2>2. pc[c] = "locking" /\ mu = NoCaller
    BY <1>3 DEF Enter, Unlocked
  <2>3. CASE Goto(c, "idle") /\ UNCHANGED <<mu, remaining>>
    BY <2>1, <2>2, <2>3 DEF Goto, SinkInv, TypeInv, MutexInv, InFlightInv, LeftoverInv, Locations
  <2>4. CASE /\ ~(closed \/ finalized \/ err # {})
             /\ call[c].payload \in ValidLines
             /\ ~(nextSequence > MaxSequence)
             /\ Goto(c, "writing") /\ mu' = c /\ remaining' = RecordSize
    <3>1. partial = 0
      BY <2>2, <2>4 DEF SinkInv, TypeInv, LeftoverInv
    <3> QED
      BY <2>1, <2>2, <2>4, <3>1 DEF Goto, SinkInv, TypeInv, MutexInv, InFlightInv,
                                    LeftoverInv, Locations
  <2> QED
    BY <1>3, <2>3, <2>4 DEF Enter
<1>4. ASSUME NEW c \in Callers, Refuse(c) PROVE SinkInv'
  BY <1>4, WriterState DEF Refuse, Fail, Return, Goto, SinkInv, TypeInv, MutexInv, InFlightInv,
                           LeftoverInv, Locations
<1>5. ASSUME NEW c \in Callers, WriteSome(c) PROVE SinkInv'
  <2>1. PICK n \in 1..(remaining - 1) : PutBytes(c, n)
    BY <1>5 DEF WriteSome
  <2>2. n \in 0..remaining /\ n < remaining
    BY <2>1 DEF SinkInv, TypeInv
  <2>3. /\ remaining' \in Nat /\ partial' \in Nat
        /\ partial' + remaining' = partial + remaining /\ remaining' > 0
    BY <2>1, <2>2, BytesConserved DEF SinkInv, TypeInv
  <2> QED
    BY <1>5, <2>3, WriterState DEF WriteSome, publisherVars, SinkInv, TypeInv, MutexInv,
                                   InFlightInv, LeftoverInv
<1>6. ASSUME NEW c \in Callers, WriteRest(c) PROVE SinkInv'
  <2>1. remaining' \in Nat /\ partial' = 0
    BY <1>6, BytesConserved DEF WriteRest, SinkInv, TypeInv
  <2>2. call[c].last \in BOOLEAN
    BY DEF SinkInv, TypeInv, Calls
  <2> QED
    BY <1>6, <2>1, <2>2, WriterState DEF WriteRest, Return, Goto, SinkInv, TypeInv, MutexInv,
                                         InFlightInv, LeftoverInv, Locations
<1>7. ASSUME NEW c \in Callers, WriteFail(c) PROVE SinkInv'
  <2>1. PICK n \in 0..remaining : PutBytes(c, n)
    BY <1>7 DEF WriteFail
  <2>2. remaining' \in Nat /\ partial' \in Nat
    BY <2>1, BytesConserved DEF SinkInv, TypeInv
  <2> QED
    BY <1>7, <2>2, WriterState DEF WriteFail, Fail, Return, Goto, SinkInv, TypeInv, MutexInv,
                                   InFlightInv, LeftoverInv, Locations
<1>8. ASSUME NEW c \in Callers, EnterClose(c) PROVE SinkInv'
  BY <1>8 DEF EnterClose, Goto, Unlocked, SinkInv, TypeInv, MutexInv, InFlightInv, LeftoverInv,
              Locations
<1>9. CASE Kill
  BY <1>9 DEF Kill, publisherVars, SinkInv, TypeInv, MutexInv, InFlightInv, LeftoverInv
<1>10. CASE UNCHANGED sinkVars
  BY <1>10 DEF sinkVars, publisherVars, SinkInv, TypeInv, MutexInv, InFlightInv, LeftoverInv
<1> QED
  BY <1>1, <1>2, <1>3, <1>4, <1>5, <1>6, <1>7, <1>8, <1>9, <1>10 DEF SinkNext, Step

THEOREM SinkInvCorrect == SinkSpec => []SinkInv
  BY SinkInvInit, SinkInvStep, PTL DEF SinkSpec

-----------------------------------------------------------------------------
(* The bytes of an unterminated record belong to the write in progress, or *)
(* to the failed one the publisher remembers: a reader that finds such     *)
(* bytes while the stream goes on may wait for the rest.                   *)
THEOREM UnterminatedExplained == SinkSpec => []UnterminatedIsExplained
<1>1. SinkInv => UnterminatedIsExplained
  BY SinkAssumption DEF SinkInv, MutexInv, InFlightInv, LeftoverInv, UnterminatedIsExplained
<1> QED
  BY <1>1, SinkInvCorrect, PTL

-----------------------------------------------------------------------------
Abstract == [log |-> file, torn |-> partial > 0 /\ "publish" \in err,
             nextSequence |-> nextSequence, finalized |-> finalized,
             closed |-> closed, err |-> err]

(* The record of the publisher, its mark of a torn record given a value.   *)
View(log, torn, next, last, isClosed, errors) ==
  [log |-> log, torn |-> torn, nextSequence |-> next, finalized |-> last,
   closed |-> isClosed, err |-> errors]

(* The records of publishers whose log is one of logs.                     *)
Views(logs) == [log : logs, torn : BOOLEAN, nextSequence : Nat, finalized : BOOLEAN,
                closed : BOOLEAN, err : SUBSET {"publish", "close"}]

(* Close on an open publisher, field by field.                             *)
LEMMA CloseOutcome ==
  ASSUME NEW logs, NEW p \in Views(logs), NEW q \in Views(logs), NEW ok \in BOOLEAN,
         q.log = p.log, q.torn = p.torn, q.nextSequence = p.nextSequence,
         q.finalized = p.finalized,
         p.closed = FALSE, q.closed = TRUE,
         q.err = IF ok THEN p.err ELSE p.err \cup {"close"}
  PROVE  q = Atomic!ClosePublisher(p, ok)
<1>1. ASSUME NEW later, q.err = later
      PROVE  q = [p EXCEPT !.closed = TRUE, !.err = later]
  BY <1>1 DEF Views
<1> QED
  BY <1>1 DEF Atomic!ClosePublisher

LEMMA ViewIntact ==
  ASSUME ~(partial' > 0 /\ "publish" \in err')
  PROVE  Abstract' = View(file', FALSE, nextSequence', finalized', closed', err')
<1>1. (partial' > 0 /\ "publish" \in err') = FALSE
  OBVIOUS
<1> QED
  BY <1>1 DEF Abstract, View

LEMMA ViewTorn ==
  ASSUME partial' > 0, "publish" \in err'
  PROVE  Abstract' = View(file', TRUE, nextSequence', finalized', closed', err')
<1>1. (partial' > 0 /\ "publish" \in err') = TRUE
  OBVIOUS
<1> QED
  BY <1>1 DEF Abstract, View

(* A writer finds the publisher open and its record acceptable.            *)
LEMMA WriterView ==
  ASSUME SinkInv, NEW c \in Callers, pc[c] = "writing"
  PROVE  /\ err = {} /\ closed = FALSE /\ finalized = FALSE
         /\ Abstract = View(file, FALSE, nextSequence, FALSE, FALSE, {})
         /\ Atomic!Accepts(Abstract, call[c].payload)
<1>1. err = {} /\ closed = FALSE /\ finalized = FALSE
  BY WriterState DEF SinkInv, TypeInv
<1>2. (partial > 0 /\ "publish" \in err) = FALSE
  BY <1>1
<1>3. Abstract = View(file, FALSE, nextSequence, FALSE, FALSE, {})
  BY <1>1, <1>2 DEF Abstract, View
<1> QED
  BY <1>1, <1>3, WriterState DEF View, Atomic!Accepts

(* Its call under each outcome of the write.                               *)
LEMMA WriterOutcomes ==
  ASSUME SinkInv, NEW c \in Callers, pc[c] = "writing"
  PROVE  /\ Atomic!PublishEvent(Abstract, call[c].payload, call[c].last, "written")
              = View(Append(file, Record(c)), FALSE, nextSequence + 1, call[c].last, FALSE, {})
         /\ Atomic!PublishEvent(Abstract, call[c].payload, call[c].last, "late")
              = View(Append(file, Record(c)), FALSE, nextSequence, FALSE, FALSE, {"publish"})
         /\ Atomic!PublishEvent(Abstract, call[c].payload, call[c].last, "torn")
              = View(file, TRUE, nextSequence, FALSE, FALSE, {"publish"})
         /\ Atomic!PublishEvent(Abstract, call[c].payload, call[c].last, "refused")
              = View(file, FALSE, nextSequence, FALSE, FALSE, {"publish"})
<1> DEFINE p == View(file, FALSE, nextSequence, FALSE, FALSE, {})
           appended == [p EXCEPT !.log = Append(@, Record(c))]
           outcome(io) == Atomic!PublishEvent(p, call[c].payload, call[c].last, io)
<1>1. Record(c) = [sequence |-> p.nextSequence, lastEvent |-> call[c].last,
                   payload |-> call[c].payload]
  BY DEF Record, View
<1>2. Abstract = p /\ Atomic!Accepts(p, call[c].payload)
  BY WriterView
<1>3. outcome("written")
        = [appended EXCEPT !.nextSequence = @ + 1, !.finalized = call[c].last]
  BY <1>1, <1>2 DEF Atomic!PublishEvent
<1>4. outcome("late") = Atomic!Failed(appended)
  BY <1>1, <1>2 DEF Atomic!PublishEvent
<1>5. outcome("torn") = Atomic!Failed([p EXCEPT !.torn = TRUE])
  BY <1>2 DEF Atomic!PublishEvent
<1>6. outcome("refused") = Atomic!Failed(p)
  BY <1>2 DEF Atomic!PublishEvent
<1>7. /\ outcome("written")
           = View(Append(file, Record(c)), FALSE, nextSequence + 1, call[c].last, FALSE, {})
      /\ outcome("late")
           = View(Append(file, Record(c)), FALSE, nextSequence, FALSE, FALSE, {"publish"})
      /\ outcome("torn")    = View(file, TRUE, nextSequence, FALSE, FALSE, {"publish"})
      /\ outcome("refused") = View(file, FALSE, nextSequence, FALSE, FALSE, {"publish"})
  BY <1>3, <1>4, <1>5, <1>6 DEF Atomic!Failed, View
<1> QED
  BY <1>2, <1>7

(* The end of a write, seen from the publisher, is one call with one of    *)
(* the outcomes of a write.                                                *)
LEMMA WriteIsCall ==
  ASSUME SinkInv, NEW c \in Callers, pc[c] = "writing",
         NEW io \in Atomic!WriteOutcomes,
         Abstract' = Atomic!PublishEvent(Abstract, call[c].payload, call[c].last, io)
  PROVE  Atomic!Next
<1>1. call[c].payload \in Lines /\ call[c].last \in BOOLEAN
  BY DEF SinkInv, TypeInv, Calls
<1>2. CASE call[c].last = TRUE
  BY <1>1, <1>2 DEF Atomic!Next, Atomic!PublishLast, Abstract
<1>3. CASE call[c].last = FALSE
  BY <1>1, <1>3 DEF Atomic!Next, Atomic!Publish, Abstract
<1> QED
  BY <1>1, <1>2, <1>3

LEMMA RefineStep ==
  ASSUME SinkInv, SinkInv', [SinkNext]_sinkVars
  PROVE  [Atomic!Next]_Abstract
<1> USE SinkAssumption
<1>1. ASSUME NEW c \in Callers, CallPublish(c) \/ CallClose(c) \/ Enter(c)
      PROVE  UNCHANGED Abstract
  BY <1>1 DEF CallPublish, CallClose, Enter, publisherVars, Abstract
<1>2. ASSUME NEW c \in Callers, Refuse(c) PROVE Atomic!Next
  <2>1. pc[c] = "writing" /\ partial = 0 /\ err = {}
    BY <1>2, WriterState DEF Refuse, SinkInv, TypeInv
  <2>2. partial' = 0 /\ err' = {"publish"} /\ UNCHANGED <<file, nextSequence, finalized, closed>>
    BY <1>2, <2>1 DEF Refuse, Fail
  <2>3. Abstract' = View(file, FALSE, nextSequence, FALSE, FALSE, {"publish"})
    <3>1. Abstract' = View(file', FALSE, nextSequence', finalized', closed', err')
      BY <2>2, ViewIntact
    <3> QED
      BY <2>1, <2>2, <3>1, WriterView
  <2>4. Abstract' = Atomic!PublishEvent(Abstract, call[c].payload, call[c].last, "refused")
    BY <2>1, <2>3, WriterOutcomes
  <2> QED
    BY <2>1, <2>4, WriteIsCall DEF Atomic!WriteOutcomes
<1>3. ASSUME NEW c \in Callers, WriteSome(c) PROVE UNCHANGED Abstract
  <2>1. PICK n \in 1..(remaining - 1) : PutBytes(c, n)
    BY <1>3 DEF WriteSome
  <2>2. n \in 0..remaining /\ n < remaining
    BY <2>1 DEF SinkInv, TypeInv
  <2>3. file' = file
    BY <2>1, <2>2, BytesConserved DEF SinkInv, TypeInv
  <2>4. err = {} /\ UNCHANGED <<nextSequence, finalized, closed, err>>
    BY <1>3, WriterState DEF WriteSome, publisherVars
  <2>5. Abstract' = View(file, FALSE, nextSequence, FALSE, FALSE, {})
    BY <1>3, <2>3, <2>4, WriterView, ViewIntact DEF WriteSome
  <2> QED
    BY <1>3, <2>5, WriterView DEF WriteSome
<1>4. ASSUME NEW c \in Callers, WriteRest(c) PROVE Atomic!Next
  <2>1. pc[c] = "writing" /\ err = {}
    BY <1>4, WriterState DEF WriteRest
  <2>2. remaining \in 0..remaining
    BY DEF SinkInv, TypeInv
  <2>3. file' = Append(file, Record(c)) /\ partial' = 0
    BY <1>4, <2>2, BytesConserved DEF WriteRest, SinkInv, TypeInv
  <2>4. Abstract' = View(Append(file, Record(c)), FALSE, nextSequence + 1, call[c].last, FALSE, {})
    BY <1>4, <2>1, <2>3, WriterView, ViewIntact DEF WriteRest
  <2>5. Abstract' = Atomic!PublishEvent(Abstract, call[c].payload, call[c].last, "written")
    BY <2>1, <2>4, WriterOutcomes
  <2> QED
    BY <2>1, <2>5, WriteIsCall DEF Atomic!WriteOutcomes
<1>5. ASSUME NEW c \in Callers, WriteFail(c) PROVE Atomic!Next
  <2>1. pc[c] = "writing" /\ err = {}
    BY <1>5, WriterState DEF WriteFail
  <2>2. err' = {"publish"} /\ UNCHANGED <<nextSequence, finalized, closed>>
    BY <1>5 DEF WriteFail, Fail
  <2>3. PICK n \in 0..remaining : PutBytes(c, n)
    BY <1>5 DEF WriteFail
  <2>4. CASE n = remaining
    <3>1. file' = Append(file, Record(c)) /\ partial' = 0
      BY <2>3, <2>4, BytesConserved DEF SinkInv, TypeInv
    <3>2. Abstract' = View(Append(file, Record(c)), FALSE, nextSequence, FALSE, FALSE,
                           {"publish"})
      <4>1. Abstract' = View(file', FALSE, nextSequence', finalized', closed', err')
        BY <3>1, ViewIntact
      <4> QED
        BY <2>1, <2>2, <3>1, <4>1, WriterView
    <3>3. Abstract' = Atomic!PublishEvent(Abstract, call[c].payload, call[c].last, "late")
      BY <2>1, <3>2, WriterOutcomes
    <3> QED
      BY <2>1, <3>3, WriteIsCall DEF Atomic!WriteOutcomes
  <2>5. CASE n < remaining
    <3>1. file' = file /\ partial' = partial + n
      BY <2>3, <2>5, BytesConserved DEF SinkInv, TypeInv
    <3>2. CASE partial + n > 0
      <4>1. Abstract' = View(file, TRUE, nextSequence, FALSE, FALSE, {"publish"})
        BY <2>1, <2>2, <3>1, <3>2, WriterView, ViewTorn
      <4>2. Abstract' = Atomic!PublishEvent(Abstract, call[c].payload, call[c].last, "torn")
        BY <2>1, <4>1, WriterOutcomes
      <4> QED
        BY <2>1, <4>2, WriteIsCall DEF Atomic!WriteOutcomes
    <3>3. CASE ~(partial + n > 0)
      <4>1. Abstract' = View(file, FALSE, nextSequence, FALSE, FALSE, {"publish"})
        BY <2>1, <2>2, <3>1, <3>3, WriterView, ViewIntact
      <4>2. Abstract' = Atomic!PublishEvent(Abstract, call[c].payload, call[c].last, "refused")
        BY <2>1, <4>1, WriterOutcomes
      <4> QED
        BY <2>1, <4>2, WriteIsCall DEF Atomic!WriteOutcomes
    <3> QED
      BY <3>2, <3>3
  <2> QED
    BY <2>3, <2>4, <2>5 DEF SinkInv, TypeInv
<1>6. ASSUME NEW c \in Callers, EnterClose(c) PROVE Atomic!Close \/ UNCHANGED Abstract
  <2>1. UNCHANGED <<file, partial, nextSequence, finalized>> /\ closed' = TRUE
    BY <1>6 DEF EnterClose
  <2>2. \/ err' = err
        \/ ~closed /\ err' = err \cup {"close"}
    BY <1>6 DEF EnterClose
  <2>3. Abstract \in Views({file, file'}) /\ Abstract' \in Views({file, file'})
    <3>1. (partial > 0 /\ "publish" \in err) \in BOOLEAN
          /\ (partial' > 0 /\ "publish" \in err') \in BOOLEAN
      OBVIOUS
    <3> QED
      BY <3>1 DEF Abstract, Views, SinkInv, TypeInv
  <2>4. /\ Abstract'.log = Abstract.log /\ Abstract'.torn = Abstract.torn
        /\ Abstract'.nextSequence = Abstract.nextSequence
        /\ Abstract'.finalized = Abstract.finalized
        /\ Abstract.closed = closed /\ Abstract'.closed = TRUE
        /\ Abstract.err = err /\ Abstract'.err = err'
    BY <2>1, <2>2 DEF Abstract, SinkInv, TypeInv
  <2>5. CASE closed = TRUE
    BY <2>1, <2>2, <2>5 DEF Abstract, SinkInv, TypeInv
  <2>6. CASE closed = FALSE /\ err' = err
    <3>1. Abstract' = Atomic!ClosePublisher(Abstract, TRUE)
      BY <2>3, <2>4, <2>6, CloseOutcome
    <3> QED
      BY <3>1 DEF Atomic!Close, Abstract
  <2>7. CASE closed = FALSE /\ err' = err \cup {"close"}
    <3>1. Abstract' = Atomic!ClosePublisher(Abstract, FALSE)
      BY <2>3, <2>4, <2>7, CloseOutcome
    <3> QED
      BY <3>1 DEF Atomic!Close, Abstract
  <2> QED
    BY <2>2, <2>5, <2>6, <2>7 DEF SinkInv, TypeInv
<1>7. CASE Kill \/ UNCHANGED sinkVars
  BY <1>7 DEF Kill, sinkVars, publisherVars, Abstract
<1> QED
  BY <1>1, <1>2, <1>3, <1>4, <1>5, <1>6, <1>7 DEF SinkNext, Step, Atomic!Next

(* Every behaviour of the sink is one of the publisher: its steps are calls*)
(* with one of the outcomes of a write, or change nothing that is seen.    *)
THEOREM SinkImplementsPublisher == SinkSpec => ImplementsPublisher
<1>1. SinkInit => Atomic!Init
  BY DEF SinkInit, Atomic!Init, Atomic!NewPublisher
<1>2. SinkInv /\ SinkInv' /\ [SinkNext]_sinkVars => [Atomic!Next]_Abstract
  BY RefineStep
<1> QED
  BY <1>1, <1>2, SinkInvCorrect, PTL DEF SinkSpec, ImplementsPublisher, Atomic!Spec, Abstract
=============================================================================
