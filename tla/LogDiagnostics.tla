---------------------------- MODULE LogDiagnostics ----------------------------
(***************************************************************************)
(* The serviceability log part of the in-memory snapshot                   *)
(* (internal/snapshot/store.go): four flags and their conjunction.  The    *)
(* gauges that nothing reads back are left out.                            *)
(***************************************************************************)
VARIABLE diag

NoLogDiagnostics == [collectionReady |-> FALSE, pipelineStateOK |-> FALSE,
                     publisherStateOK |-> FALSE, stateFull |-> FALSE]

LogDiagnosticsType == [collectionReady : BOOLEAN, pipelineStateOK : BOOLEAN,
                       publisherStateOK : BOOLEAN, stateFull : BOOLEAN]

\* recomputeServiceabilityLogReadyLocked runs inside every setter.
LogPipelineReady ==
  /\ diag.collectionReady
  /\ diag.pipelineStateOK
  /\ diag.publisherStateOK
  /\ ~diag.stateFull

SetLogCollectionReady(d, ready) == [d EXCEPT !.collectionReady = ready]

SetLogPipelineStateHealthy(d, healthy) == [d EXCEPT !.pipelineStateOK = healthy]

SetLogPublisherStateHealthy(d, healthy) == [d EXCEPT !.publisherStateOK = healthy]

SetLogStateFull(d, full) == [d EXCEPT !.stateFull = full]
===============================================================================
