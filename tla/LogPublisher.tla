----------------------------- MODULE LogPublisher -----------------------------
(***************************************************************************)
(* The publisher of serviceability logs (internal/logpublisher): once a    *)
(* second read a batch, publish and acknowledge its records one by one,    *)
(* stop at the first failure.  The Health read after a publish or an       *)
(* acknowledgement and what is then written to the snapshot belong to the  *)
(* same step; the alert path, whose publisher has the same shape, takes    *)
(* them apart.                                                             *)
(*                                                                         *)
(* `topic' is the Kafka topic as the sequences of the records in it; a     *)
(* record written twice in a row is kept once.                             *)
(***************************************************************************)
EXTENDS LogState, LogDiagnostics, Sequences

CONSTANT BatchLimit   \* Records(100)

ASSUME LogPublisherAssumption == BatchLimit \in Nat \ {0}

VARIABLES
  flush,      \* the local state of flush()
  recovery,   \* Publisher.stateRecoveryRequired
  topic       \* the Kafka topic

publisherVars == <<flush, recovery, topic>>

NoFlush == [pc |-> "idle", batch |-> {}]

LogPublisherInit == flush = NoFlush /\ recovery = FALSE /\ topic = <<>>

\* The record the loop is at.
NextRecord == CHOOSE s \in flush.batch : \A t \in flush.batch : s <= t

WriteTopic(s) ==
  topic' = IF topic # <<>> /\ topic[Len(topic)] = s THEN topic ELSE Append(topic, s)

\* The end of a flush that met no error.
FlushGood ==
  /\ diag' = SetLogPublisherStateHealthy(SetLogStateFull(diag, LogFull'), TRUE)
  /\ recovery' = FALSE
  /\ flush' = NoFlush

FlushRead ==
  /\ flush.pc = "idle"
  /\ LogRecords(BatchLimit) # {}
  /\ flush' = [pc |-> "publish", batch |-> LogRecords(BatchLimit)]
  /\ UNCHANGED <<storeVars, upsets, diag, recovery, topic>>

\* Nothing is queued.
FlushDrained ==
  /\ flush.pc = "idle"
  /\ LogRecords(BatchLimit) = {}
  /\ UNCHANGED <<storeVars, upsets, topic>>
  /\ FlushGood

PublishOK ==
  /\ flush.pc = "publish"
  /\ WriteTopic(NextRecord)
  /\ flush' = [flush EXCEPT !.pc = "ack"]
  /\ UNCHANGED <<storeVars, upsets, diag, recovery>>

\* Variant: goes on to the acknowledgement after a failure.
PublishFailsAcked(written) ==
  /\ flush.pc = "publish"
  /\ IF written THEN WriteTopic(NextRecord) ELSE UNCHANGED topic
  /\ flush' = [flush EXCEPT !.pc = "ack"]
  /\ UNCHANGED <<storeVars, upsets, diag, recovery>>

\* The record may have been stored although its confirmation failed.  The state
\* is healthy unless an earlier state error still waits for a good flush.
PublishFails(written) ==
  /\ flush.pc = "publish"
  /\ IF written THEN WriteTopic(NextRecord) ELSE UNCHANGED topic
  /\ LET d == SetLogStateFull(diag, LogFull)
     IN  diag' = IF recovery THEN d ELSE SetLogPublisherStateHealthy(d, TRUE)
  /\ flush' = NoFlush
  /\ UNCHANGED <<storeVars, upsets, recovery>>

\* The next record of the batch, or the end of the flush.
FlushAcknowledge ==
  /\ flush.pc = "ack"
  /\ LogAcknowledge(NextRecord)
  /\ IF flush.batch = {NextRecord} THEN FlushGood
     ELSE /\ diag' = SetLogStateFull(diag, LogFull')
          /\ flush' = [pc |-> "publish", batch |-> flush.batch \ {NextRecord}]
          /\ UNCHANGED recovery
  /\ UNCHANGED <<upsets, topic>>

\* A transaction of the flush fails: Records, Acknowledge (also on a corrupt
\* record), or the Health after a failed publish (of a record stored or not) or
\* after an acknowledgement.
FlushStateFails ==
  /\ \/ StoreFails /\ UNCHANGED topic
     \/ flush.pc = "publish" /\ StoreFails /\ WriteTopic(NextRecord)
     \/ /\ flush.pc = "ack" /\ ~LogAckValid(NextRecord)
        /\ UNCHANGED <<storeVars, upsets, topic>>
     \/ /\ flush.pc = "ack" /\ upsets < MaxUpsets
        /\ LogAcknowledge(NextRecord)
        /\ upsets' = upsets + 1 /\ UNCHANGED topic
  /\ recovery' = TRUE
  /\ diag' = SetLogPublisherStateHealthy(diag, FALSE)
  /\ flush' = NoFlush

FlushNext ==
  \/ FlushRead \/ FlushDrained
  \/ PublishOK \/ \E written \in BOOLEAN : PublishFails(written)
  \/ FlushAcknowledge \/ FlushStateFails
===============================================================================
