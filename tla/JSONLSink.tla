----------------------------- MODULE JSONLSink -----------------------------
(***************************************************************************)
(* Publisher.publishEvent and JSONLSink.Publish call by call: goroutines   *)
(* (the heartbeat, the tasks, the command) contend for p.mu, the holder    *)
(* hands its record to the file in as many writes as the file takes, the   *)
(* context may be cancelled, the file may fail between or during writes,   *)
(* and the process may be killed.  s.mu is taken only by the holder of     *)
(* p.mu, which owns the sink, so p.mu stands for both.  The specification  *)
(* implements Publisher, where a call is a single step.                    *)
(***************************************************************************)
EXTENDS Naturals, Sequences

CONSTANTS Callers,         \* goroutines that publish or close
          Lines,           \* everything a caller may hand to Publish
          ValidLines,      \* those whose validate() returns nil
          MaxSequence,     \* the largest sequence number of the protocol
          RecordSize,      \* bytes of a record, newline included
          NoCaller

ASSUME SinkAssumption == /\ ValidLines \subseteq Lines
                         /\ MaxSequence \in Nat \ {0}
                         /\ RecordSize \in Nat \ {0}
                         /\ NoCaller \notin Callers

VARIABLES
  mu,             \* p.mu: the goroutine holding it, or NoCaller
  pc,             \* what each goroutine is doing
  call,           \* the arguments of its publishEvent call
  remaining,      \* bytes of the record in flight not written yet
  file,           \* the newline-terminated records of the file
  partial,        \* bytes of the unterminated record at its end
  nextSequence, finalized, closed, err,    \* the fields of Publisher
  alive           \* the process has not been killed

publisherVars == <<nextSequence, finalized, closed, err>>
sinkVars == <<mu, pc, call, remaining, file, partial, publisherVars, alive>>

Calls == [payload : Lines, last : BOOLEAN]

SinkInit == /\ mu = NoCaller
            /\ pc = [c \in Callers |-> "idle"]
            /\ call \in [Callers -> {[payload |-> p, last |-> FALSE] : p \in Lines}]
            /\ remaining = 0 /\ file = <<>> /\ partial = 0
            /\ nextSequence = 1 /\ finalized = FALSE /\ closed = FALSE /\ err = {}
            /\ alive = TRUE

Goto(c, step) == pc' = [pc EXCEPT ![c] = step]

(* Slips: a return path without its Unlock; a call that does not lock.     *)
SlipReturnLocked(c) == Goto(c, "idle") /\ UNCHANGED mu
SlipNoLock == mu \in Callers \cup {NoCaller}

Return(c) == Goto(c, "idle") /\ mu' = NoCaller

Unlocked == mu = NoCaller

(* A slip that does not remember the error, and the sticky error.          *)
SlipForgetError == UNCHANGED err
Fail == err' = {"publish"}

-----------------------------------------------------------------------------
(* A goroutine enters Publish, PublishLast or Close and waits for p.mu.    *)
CallPublish(c) == /\ pc[c] = "idle"
                  /\ \E args \in Calls : call' = [call EXCEPT ![c] = args]
                  /\ Goto(c, "locking")
                  /\ UNCHANGED <<mu, remaining, file, partial, publisherVars, alive>>

CallClose(c) == /\ pc[c] = "idle"
                /\ Goto(c, "closing")
                /\ UNCHANGED <<mu, call, remaining, file, partial, publisherVars, alive>>

(* p.mu is granted; the record is marshalled or the call is rejected.      *)
Enter(c) ==
  /\ pc[c] = "locking" /\ Unlocked
  /\ IF \/ closed \/ finalized \/ err # {}
        \/ call[c].payload \notin ValidLines
        \/ nextSequence > MaxSequence
     THEN Goto(c, "idle") /\ UNCHANGED <<mu, remaining>>
     ELSE Goto(c, "writing") /\ mu' = c /\ remaining' = RecordSize
  /\ UNCHANGED <<call, file, partial, publisherVars, alive>>

(* The sink refuses the record before its first byte: cancelled context,   *)
(* record over the size limit.                                             *)
Refuse(c) == /\ pc[c] = "writing" /\ remaining = RecordSize
             /\ Fail
             /\ Return(c)
             /\ UNCHANGED <<call, remaining, file, partial, nextSequence, finalized, closed, alive>>

Record(c) == [sequence |-> nextSequence, lastEvent |-> call[c].last, payload |-> call[c].payload]

(* n more bytes reach the file; the last one completes the line.           *)
PutBytes(c, n) == /\ remaining' = remaining - n
                  /\ IF n = remaining
                     THEN file' = Append(file, Record(c)) /\ partial' = 0
                     ELSE partial' = partial + n /\ UNCHANGED file

(* A short write: the loop goes round with the rest of the record.         *)
WriteSome(c) == /\ pc[c] = "writing"
                /\ \E n \in 1..(remaining - 1) : PutBytes(c, n)
                /\ UNCHANGED <<mu, pc, call, publisherVars, alive>>

(* The rest of the record is written and the publisher moves on.           *)
WriteRest(c) == /\ pc[c] = "writing"
                /\ PutBytes(c, remaining)
                /\ nextSequence' = nextSequence + 1
                /\ finalized' = call[c].last
                /\ Return(c)
                /\ UNCHANGED <<call, closed, err, alive>>

(* Write returns an error, after any number of the bytes it was given.     *)
WriteFail(c) == /\ pc[c] = "writing"
                /\ \E n \in 0..remaining : PutBytes(c, n)
                /\ Fail
                /\ Return(c)
                /\ UNCHANGED <<call, nextSequence, finalized, closed, alive>>

EnterClose(c) == /\ pc[c] = "closing" /\ Unlocked
                 /\ Goto(c, "idle")
                 /\ closed' = TRUE
                 /\ \/ UNCHANGED err
                    \/ ~closed /\ err' = err \cup {"close"}
                 /\ UNCHANGED <<mu, call, remaining, file, partial, nextSequence, finalized, alive>>

(* The process is killed: whatever the file holds is what readers see.     *)
Kill == alive' = FALSE /\ UNCHANGED <<mu, pc, call, remaining, file, partial, publisherVars>>

Step(c) == \/ Enter(c) \/ Refuse(c) \/ WriteSome(c) \/ WriteRest(c) \/ WriteFail(c)
           \/ EnterClose(c)

SinkNext == /\ alive
            /\ \/ \E c \in Callers : CallPublish(c) \/ CallClose(c) \/ Step(c)
               \/ Kill

(* The scheduler runs every goroutine, Go's mutex is handed over to a      *)
(* waiter after at most a millisecond (starvation mode), and the file      *)
(* answers every write.                                                    *)
SinkFairness == \A c \in Callers : /\ WF_sinkVars(alive /\ Step(c))
                                   /\ SF_sinkVars(alive /\ (Enter(c) \/ EnterClose(c)))

SinkSpec == SinkInit /\ [][SinkNext]_sinkVars
FairSinkSpec == SinkSpec /\ SinkFairness

-----------------------------------------------------------------------------
(* At every instant the file is complete records followed by at most one   *)
(* unterminated one, which belongs to the one write in progress (or the    *)
(* one a kill interrupted) or to the failed write the publisher remembers. *)
UnterminatedIsExplained ==
  partial > 0 => \/ "publish" \in err
                 \/ /\ mu # NoCaller
                    /\ pc[mu] = "writing"
                    /\ partial + remaining = RecordSize

(* A call is one step of Publisher: its record appears complete together   *)
(* with the publisher's verdict on it.                                     *)
Atomic == INSTANCE Publisher
            WITH Payloads <- Lines, ValidPayloads <- ValidLines,
                 MaxSafeInteger <- MaxSequence,
                 SinkFaults <- {"refused", "torn", "late"},
                 pub <- [log |-> file, torn |-> partial > 0 /\ "publish" \in err,
                         nextSequence |-> nextSequence, finalized |-> finalized,
                         closed |-> closed, err |-> err]

ImplementsPublisher == Atomic!Spec

(* No caller waits for ever: every call returns unless the process is      *)
(* killed.                                                                 *)
EveryCallReturns == \A c \in Callers : pc[c] # "idle" ~> pc[c] = "idle" \/ ~alive
=============================================================================
