--------------------------- MODULE AlertDiagnostics ---------------------------
(***************************************************************************)
(* The alert part of the in-memory snapshot that /ready and /metrics read  *)
(* (internal/snapshot/store.go).  Each setter takes the store's lock once, *)
(* so each setter is one atomic write.  Gauges that nothing reads back     *)
(* (durations, list completeness, deferred and published totals) are left  *)
(* out.                                                                    *)
(***************************************************************************)
EXTENDS Naturals

VARIABLE diag

NoDiagnostics ==
  [collectionReady |-> FALSE, pipelineStateOK |-> FALSE,
   publisherStateOK |-> FALSE, stateFull |-> FALSE, buffered |-> 0]

Diagnostics ==
  [collectionReady : BOOLEAN, pipelineStateOK : BOOLEAN,
   publisherStateOK : BOOLEAN, stateFull : BOOLEAN, buffered : Nat]

\* recomputeAlertReadyLocked runs inside every setter, so the stored flag is
\* always this conjunction.
AlertPipelineReady ==
  /\ diag.collectionReady
  /\ diag.pipelineStateOK
  /\ diag.publisherStateOK
  /\ ~diag.stateFull

SetAlertCollectionReady(d, ready) == [d EXCEPT !.collectionReady = ready]

SetAlertPipelineStateHealthy(d, healthy) == [d EXCEPT !.pipelineStateOK = healthy]

SetAlertPublisherStateHealthy(d, healthy) == [d EXCEPT !.publisherStateOK = healthy]

SetAlertStateFull(d, full) == [d EXCEPT !.stateFull = full]

\* SetKafkaBuffered, and the gauge RecordKafkaPublish writes.
SetKafkaBuffered(d, events) == [d EXCEPT !.buffered = events]
===============================================================================
