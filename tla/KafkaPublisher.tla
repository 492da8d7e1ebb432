---------------------------- MODULE KafkaPublisher ----------------------------
(***************************************************************************)
(* The alert publisher (internal/kafka/producer.go, Publisher.flush), run  *)
(* once a second beside the alert pipeline over the same outbox: read a    *)
(* batch, publish its records one by one, acknowledge each one after Kafka *)
(* has confirmed it, stop at the first failure.                            *)
(*                                                                         *)
(* `topic' is the Kafka topic, as the outbox sequences of the records in   *)
(* it.  A publish that fails may still have been written (the             *)
(* confirmation was lost or late).  A record written twice in a row is     *)
(* kept once: consumers see it as the same event.                          *)
(***************************************************************************)
EXTENDS Outbox, AlertDiagnostics, Sequences

CONSTANT BatchLimit   \* Records(100)

ASSUME PublisherAssumption == BatchLimit \in Nat \ {0}

VARIABLES
  flush,      \* the local state of flush()
  recovery,   \* Publisher.stateRecoveryRequired
  topic       \* the Kafka topic

publisherVars == <<flush, recovery, topic>>

Waiting == [pc |-> "idle", batch |-> {}, size |-> 0, why |-> "none",
            events |-> 0, full |-> FALSE]

PublisherInit == flush = Waiting /\ recovery = FALSE

\* Variant: the newest record first.
CurrentNewest == CHOOSE s \in flush.batch : \A t \in flush.batch : t <= s

\* The record the loop is at.
Current == CHOOSE s \in flush.batch : \A t \in flush.batch : s <= t

Write(s) ==
  topic' = IF topic # <<>> /\ topic[Len(topic)] = s THEN topic ELSE Append(topic, s)

\* Every state error ends the flush the same way.
StateError(buffered) ==
  /\ recovery' = TRUE
  /\ diag' = SetKafkaBuffered(SetAlertPublisherStateHealthy(diag, FALSE), buffered)
  /\ flush' = Waiting

FlushRead ==
  /\ flush.pc = "idle"
  /\ LET batch == Records(BatchLimit)
     IN  flush' = IF batch = {}
                  THEN [Waiting EXCEPT !.pc = "health", !.why = "drained"]
                  ELSE [Waiting EXCEPT !.pc = "publish", !.batch = batch,
                                       !.size = Cardinality(batch)]
  /\ UNCHANGED <<storeVars, diag, recovery, topic>>

FlushReadFails ==
  /\ StoreFaults
  /\ flush.pc = "idle"
  /\ StateError(0)
  /\ UNCHANGED <<storeVars, topic>>

PublishOK ==
  /\ flush.pc = "publish"
  /\ Write(Current)
  /\ flush' = [flush EXCEPT !.pc = "ack"]
  /\ UNCHANGED <<storeVars, diag, recovery>>

PublishFails(written) ==
  /\ flush.pc = "publish"
  /\ IF written THEN Write(Current) ELSE UNCHANGED topic
  /\ flush' = [flush EXCEPT !.pc = "health", !.why = "failed"]
  /\ UNCHANGED <<storeVars, diag, recovery>>

FlushAcknowledge ==
  /\ flush.pc = "ack"
  /\ Acknowledge(Current)
  /\ flush' = [flush EXCEPT !.pc = "health", !.why = "acked"]
  /\ UNCHANGED <<diag, recovery, topic>>

\* Acknowledge fails: an I/O error, or a record it calls corrupt.
AcknowledgeFails ==
  /\ flush.pc = "ack"
  /\ StoreFaults \/ ~AckValid(Current)
  /\ StateError(flush.size)
  /\ UNCHANGED <<storeVars, topic>>

\* Health is read once on every path; the two gauges are written after it.
FlushHealth ==
  /\ flush.pc = "health"
  /\ flush' = [flush EXCEPT !.pc = IF flush.why = "drained" THEN "buffered"
                                                            ELSE "full",
                            !.events = meta.count, !.full = Full]
  /\ UNCHANGED <<storeVars, diag, recovery, topic>>

FlushHealthFails ==
  /\ StoreFaults
  /\ flush.pc = "health"
  /\ StateError(0)
  /\ UNCHANGED <<storeVars, topic>>

\* An empty outbox: buffered, then full; the flush was good.
DrainedBuffered ==
  /\ flush.pc = "buffered" /\ flush.why = "drained"
  /\ diag' = SetKafkaBuffered(diag, flush.events)
  /\ flush' = [flush EXCEPT !.pc = "full"]
  /\ UNCHANGED <<storeVars, recovery, topic>>

DrainedFull ==
  /\ flush.pc = "full" /\ flush.why = "drained"
  /\ diag' = SetAlertPublisherStateHealthy(SetAlertStateFull(diag, flush.full), TRUE)
  /\ recovery' = FALSE
  /\ flush' = Waiting
  /\ UNCHANGED <<storeVars, topic>>

\* Variant: a reachable Health is taken for a recovered state.
FailedFullHealthy ==
  /\ flush.pc = "full" /\ flush.why = "failed"
  /\ diag' = SetAlertPublisherStateHealthy(SetAlertStateFull(diag, flush.full), TRUE)
  /\ flush' = [flush EXCEPT !.pc = "buffered"]
  /\ UNCHANGED <<storeVars, recovery, topic>>

\* After a failed publish the state is healthy unless an earlier state error is
\* still waiting for a good flush.
FailedFull ==
  /\ flush.pc = "full" /\ flush.why = "failed"
  /\ LET d == SetAlertStateFull(diag, flush.full)
     IN  diag' = IF recovery THEN d ELSE SetAlertPublisherStateHealthy(d, TRUE)
  /\ flush' = [flush EXCEPT !.pc = "buffered"]
  /\ UNCHANGED <<storeVars, recovery, topic>>

FailedBuffered ==
  /\ flush.pc = "buffered" /\ flush.why = "failed"
  /\ diag' = SetKafkaBuffered(diag, flush.events)
  /\ flush' = Waiting
  /\ UNCHANGED <<storeVars, recovery, topic>>

AckedFull ==
  /\ flush.pc = "full" /\ flush.why = "acked"
  /\ diag' = SetAlertStateFull(diag, flush.full)
  /\ flush' = [flush EXCEPT !.pc = "buffered"]
  /\ UNCHANGED <<storeVars, recovery, topic>>

\* The next record of the batch, or the end of a good flush.
AckedBuffered ==
  /\ flush.pc = "buffered" /\ flush.why = "acked"
  /\ LET rest == flush.batch \ {Current}
         d == SetKafkaBuffered(diag, flush.events)
     IN  IF rest # {}
         THEN /\ flush' = [flush EXCEPT !.pc = "publish", !.batch = rest,
                                        !.why = "none", !.events = 0,
                                        !.full = FALSE]
              /\ diag' = d
              /\ UNCHANGED recovery
         ELSE /\ flush' = Waiting
              /\ diag' = SetAlertPublisherStateHealthy(d, TRUE)
              /\ recovery' = FALSE
  /\ UNCHANGED <<storeVars, topic>>

FlushNext ==
  \/ FlushRead \/ FlushReadFails
  \/ PublishOK \/ \E written \in BOOLEAN : PublishFails(written)
  \/ FlushAcknowledge \/ AcknowledgeFails
  \/ FlushHealth \/ FlushHealthFails
  \/ DrainedBuffered \/ DrainedFull
  \/ FailedFull \/ FailedBuffered
  \/ AckedFull \/ AckedBuffered
===============================================================================
