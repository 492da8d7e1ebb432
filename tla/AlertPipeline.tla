----------------------------- MODULE AlertPipeline -----------------------------
(***************************************************************************)
(* One alert poll cycle after the other (internal/alerts/pipeline.go):     *)
(* list, classify every listed alert against its checkpoint, select a fair *)
(* subset, fetch the details with up to Concurrency workers and enqueue    *)
(* them, reconcile the checkpoints with the list, report.                  *)
(*                                                                         *)
(* The environment is the DDAE server, `source', and the wall clock `now'. *)
(* An alert has a content and a version; a list entry shows the version as *)
(* its marker, or no usable marker for the alerts in Unmarked.             *)
(***************************************************************************)
EXTENDS Outbox, AlertDiagnostics, Sequences

CONSTANTS
  MaxPerCycle, Concurrency, RefreshInterval,  \* Options of the pipeline
  Unmarked,     \* alerts whose updatedOn is not usable
  MaxVersion,   \* bound: changes of one alert
  MaxTime       \* bound: clock

ASSUME PipelineAssumption ==
  /\ MaxPerCycle \in Nat \ {0} /\ Concurrency \in Nat \ {0}
  /\ RefreshInterval \in Nat \ {0}
  /\ Unmarked \subseteq Alerts
  /\ MaxVersion \in Nat /\ MaxTime \in Nat \ {0}
  /\ Markers = 1..MaxVersion

VARIABLES
  source,           \* the server's alerts; NoHash when it is not listed
  now,              \* the wall clock
  waitingOrder, nextRefreshTurn,
  poll,             \* the local state of poll()
  inflight,         \* tasks with a worker: "requested" or the content fetched
  accepted          \* history: every record ever inserted, in sequence order

INSTANCE FairSelection WITH Ids <- Alerts, maxPerCycle <- MaxPerCycle

pollVars == <<waitingOrder, nextRefreshTurn, poll, inflight>>

Present == {id \in Alerts : source[id].hash # NoHash}

Idle == [pc |-> "idle", at |-> 0, markers |-> [id \in {} |-> id],
         complete |-> FALSE, unclassified |-> {}, new |-> {}, refresh |-> {},
         todo |-> {}, deferred |-> {}, stateOK |-> TRUE, detailOK |-> TRUE,
         events |-> 0, full |-> FALSE]

PollInit ==
  /\ SelectionInit
  /\ poll = Idle
  /\ inflight = [id \in {} |-> id]

SourceInit ==
  /\ source = [id \in Alerts |-> [hash |-> NoHash, ver |-> 0]]
  /\ now = 1

-------------------------------------------------------------------------------
(* Environment *)

\* An alert appears, changes (also back to an earlier content) or disappears.
SourceChanges(id, hash) ==
  /\ source[id].ver < MaxVersion
  /\ hash # NoHash \/ id \in Present
  /\ source' = [source EXCEPT ![id] = [hash |-> hash, ver |-> @.ver + 1]]
  /\ UNCHANGED <<storeVars, diag, now, pollVars, accepted>>

Tick ==
  /\ now < MaxTime
  /\ now' = now + 1
  /\ UNCHANGED <<storeVars, diag, source, pollVars, accepted>>

-------------------------------------------------------------------------------
(* The list *)

PollListFails ==
  /\ poll.pc = "idle"
  /\ diag' = SetAlertCollectionReady(diag, FALSE)
  /\ UNCHANGED <<storeVars, source, now, pollVars, accepted>>

\* usableMarker(updatedOn)
Marker(id) == IF id \in Unmarked THEN NoMarker ELSE source[id].ver

\* A list is complete when totalRecords is present and no larger than the
\* number of valid, distinct ids in it.
PollList(shown, complete) ==
  /\ poll.pc = "idle"
  /\ shown \subseteq Present
  /\ complete => shown = Present
  /\ poll' = [Idle EXCEPT !.pc = "classify", !.at = now,
                          !.markers = [id \in shown |-> Marker(id)],
                          !.complete = complete, !.unclassified = shown]
  /\ UNCHANGED <<storeVars, diag, source, now, waitingOrder, nextRefreshTurn,
                 inflight, accepted>>

-------------------------------------------------------------------------------
(* Classification and selection *)

\* Priority 0: no checkpoint, or a usable marker that differs from its marker.
IsNew(id) ==
  Known(id) => /\ poll.markers[id] # NoMarker
               /\ poll.markers[id] # checkpoints[id].marker

\* Priority 1.
IsDue(id) ==
  /\ ~IsNew(id)
  /\ \/ checkpoints[id].lastFetched = 0
     \/ poll.at - checkpoints[id].lastFetched >= RefreshInterval

Classified(id) == [poll EXCEPT !.unclassified = @ \ {id}]

\* FetchState says the detail is wanted.
ClassifyTask(id) ==
  /\ poll.pc = "classify" /\ id \in poll.unclassified
  /\ IsNew(id) \/ IsDue(id)
  /\ poll' = IF IsNew(id)
             THEN [Classified(id) EXCEPT !.new = @ \cup {id}]
             ELSE [Classified(id) EXCEPT !.refresh = @ \cup {id}]
  /\ UNCHANGED <<storeVars, diag, source, now, waitingOrder, nextRefreshTurn,
                 inflight, accepted>>

\* Nothing to fetch: the checkpoint is only marked as seen.
ClassifySeen(id) ==
  /\ poll.pc = "classify" /\ id \in poll.unclassified
  /\ ~IsNew(id) /\ ~IsDue(id)
  /\ MarkSeen(id, poll.markers[id])
  /\ poll' = Classified(id)
  /\ UNCHANGED <<diag, source, now, waitingOrder, nextRefreshTurn, inflight,
                 accepted>>

\* FetchState or MarkSeen fails: the alert is skipped in this cycle.
ClassifyFails(id) ==
  /\ StoreFaults
  /\ poll.pc = "classify" /\ id \in poll.unclassified
  /\ poll' = [Classified(id) EXCEPT !.stateOK = FALSE]
  /\ diag' = SetAlertPipelineStateHealthy(diag, FALSE)
  /\ UNCHANGED <<storeVars, source, now, waitingOrder, nextRefreshTurn,
                 inflight, accepted>>

LastFetched == [id \in Alerts |-> ReadCheckpoint(id).lastFetched]

PollSelect ==
  /\ poll.pc = "classify" /\ poll.unclassified = {}
  /\ LET selected == SelectedNew(poll.new, poll.refresh, LastFetched)
                       \cup SelectedRefresh(poll.new, poll.refresh, LastFetched)
     IN  /\ SelectFair(poll.new, poll.refresh, LastFetched, selected)
         /\ poll' = [poll EXCEPT !.pc = "fetch", !.todo = selected,
                                 !.deferred = (poll.new \cup poll.refresh) \ selected]
  /\ UNCHANGED <<storeVars, diag, source, now, inflight, accepted>>

-------------------------------------------------------------------------------
(* fetchDetails: a dispatcher, workers, and their results *)

Running == DOMAIN inflight

SetInflight(id, value) ==
  inflight' = [x \in Running \cup {id} |-> IF x = id THEN value ELSE inflight[x]]

DropInflight(id) == inflight' = [x \in Running \ {id} |-> inflight[x]]

\* The unbuffered channel hands the tasks out in the selected order, which is
\* the order the waiting list was given for them.
Dispatch(id) ==
  /\ poll.pc = "fetch" /\ id \in poll.todo
  /\ \A other \in poll.todo : waitingOrder[id] <= waitingOrder[other]
  /\ Cardinality(Running) < Concurrency
  /\ SetInflight(id, "requested")
  /\ poll' = [poll EXCEPT !.todo = @ \ {id}]
  /\ UNCHANGED <<storeVars, diag, source, now, waitingOrder, nextRefreshTurn,
                 accepted>>

\* Variant: tasks that were never handed out are not counted.
CycleTimeoutUncounted ==
  /\ poll.pc = "fetch" /\ poll.todo # {}
  /\ poll' = [poll EXCEPT !.todo = {}]
  /\ UNCHANGED <<storeVars, diag, source, now, waitingOrder, nextRefreshTurn,
                 inflight, accepted>>

\* The cycle's deadline passes: the dispatcher stops and the tasks that were
\* not handed out count as a failure.
CycleTimeout ==
  /\ poll.pc = "fetch" /\ poll.todo # {}
  /\ poll' = [poll EXCEPT !.todo = {}, !.detailOK = FALSE]
  /\ UNCHANGED <<storeVars, diag, source, now, waitingOrder, nextRefreshTurn,
                 inflight, accepted>>

DetailArrives(id) ==
  /\ id \in Running /\ inflight[id] = "requested"
  /\ id \in Present
  /\ SetInflight(id, source[id].hash)
  /\ UNCHANGED <<storeVars, diag, source, now, waitingOrder, nextRefreshTurn,
                 poll, accepted>>

\* AlertDetail or BuildEvent fails.
DetailFails(id) ==
  /\ id \in Running /\ inflight[id] = "requested"
  /\ DropInflight(id)
  /\ poll' = [poll EXCEPT !.detailOK = FALSE]
  /\ UNCHANGED <<storeVars, diag, source, now, waitingOrder, nextRefreshTurn,
                 accepted>>

\* Enqueue commits a record, or finds the content known.
DetailStored(id) ==
  /\ id \in Running /\ inflight[id] # "requested"
  /\ LET hash == inflight[id]
         marker == poll.markers[id]
     IN  \/ /\ EnqueueKnown(id, hash, marker, poll.at)
            /\ UNCHANGED accepted
         \/ /\ EnqueueNew(id, hash, marker, poll.at)
            /\ accepted' = Append(accepted, [id |-> id, hash |-> hash])
  /\ DropInflight(id)
  /\ UNCHANGED <<diag, source, now, waitingOrder, nextRefreshTurn, poll>>

\* Enqueue returns FullError or an I/O error; nothing is committed.
DetailRefused(id) ==
  /\ id \in Running /\ inflight[id] # "requested"
  /\ \/ EnqueueFull(id, inflight[id], poll.markers[id], poll.at)
     \/ StoreFaults /\ UNCHANGED storeVars
  /\ DropInflight(id)
  /\ poll' = [poll EXCEPT !.detailOK = FALSE, !.stateOK = FALSE]
  /\ UNCHANGED <<diag, source, now, waitingOrder, nextRefreshTurn, accepted>>

-------------------------------------------------------------------------------
(* The end of the cycle *)

FetchDone == poll.pc = "fetch" /\ poll.todo = {} /\ Running = {}

\* ReconcileListed, which may commit and still report FullError.
PollReconcile ==
  /\ FetchDone
  /\ ReconcileListed(DOMAIN poll.markers, poll.at, poll.complete)
  /\ LET ok == poll.stateOK
               /\ ~ReconcileFull(DOMAIN poll.markers, poll.at, poll.complete)
     IN  /\ poll' = [poll EXCEPT !.pc = "health", !.stateOK = ok]
         /\ diag' = IF ok THEN diag
                    ELSE SetAlertPipelineStateHealthy(diag, FALSE)
  /\ UNCHANGED <<source, now, waitingOrder, nextRefreshTurn, inflight, accepted>>

PollReconcileFails ==
  /\ StoreFaults
  /\ FetchDone
  /\ poll.complete
  /\ poll' = [poll EXCEPT !.pc = "health", !.stateOK = FALSE]
  /\ diag' = SetAlertPipelineStateHealthy(diag, FALSE)
  /\ UNCHANGED <<storeVars, source, now, waitingOrder, nextRefreshTurn, inflight,
                 accepted>>

\* Variant: the gauges of the cycle are never filled in.
PollHealthIgnored ==
  /\ poll.pc = "health"
  /\ poll' = [poll EXCEPT !.pc = "buffered"]
  /\ UNCHANGED <<storeVars, diag, source, now, waitingOrder, nextRefreshTurn,
                 inflight, accepted>>

PollHealth ==
  /\ poll.pc = "health"
  /\ poll' = [poll EXCEPT !.pc = "buffered", !.events = meta.count, !.full = Full]
  /\ UNCHANGED <<storeVars, diag, source, now, waitingOrder, nextRefreshTurn,
                 inflight, accepted>>

\* Health fails: the cycle goes on with 0 events and "not full".
PollHealthFails ==
  /\ StoreFaults
  /\ poll.pc = "health"
  /\ poll' = [poll EXCEPT !.pc = "buffered", !.stateOK = FALSE]
  /\ diag' = SetAlertPipelineStateHealthy(diag, FALSE)
  /\ UNCHANGED <<storeVars, source, now, waitingOrder, nextRefreshTurn, inflight,
                 accepted>>

PollBuffered ==
  /\ poll.pc = "buffered"
  /\ diag' = SetKafkaBuffered(diag, poll.events)
  /\ poll' = [poll EXCEPT !.pc = "full"]
  /\ UNCHANGED <<storeVars, source, now, waitingOrder, nextRefreshTurn, inflight,
                 accepted>>

PollFull ==
  /\ poll.pc = "full"
  /\ diag' = SetAlertStateFull(diag, poll.full)
  /\ poll' = [poll EXCEPT !.pc = "report"]
  /\ UNCHANGED <<storeVars, source, now, waitingOrder, nextRefreshTurn, inflight,
                 accepted>>

PollReport ==
  /\ poll.pc = "report"
  /\ LET d == SetAlertCollectionReady(diag, poll.complete /\ poll.detailOK)
     IN  diag' = IF poll.stateOK /\ poll.detailOK
                 THEN SetAlertPipelineStateHealthy(d, TRUE) ELSE d
  /\ poll' = Idle
  /\ UNCHANGED <<storeVars, source, now, waitingOrder, nextRefreshTurn, inflight,
                 accepted>>

PollNext ==
  \/ PollListFails
  \/ \E shown \in SUBSET Alerts, complete \in BOOLEAN : PollList(shown, complete)
  \/ \E id \in Alerts :
       \/ ClassifyTask(id) \/ ClassifySeen(id) \/ ClassifyFails(id)
       \/ Dispatch(id) \/ DetailArrives(id) \/ DetailFails(id)
       \/ DetailStored(id) \/ DetailRefused(id)
  \/ PollSelect \/ CycleTimeout
  \/ PollReconcile \/ PollReconcileFails
  \/ PollHealth \/ PollHealthFails
  \/ PollBuffered \/ PollFull \/ PollReport

SourceNext ==
  \/ \E id \in Alerts, hash \in Hashes \cup {NoHash} : SourceChanges(id, hash)
  \/ Tick
===============================================================================
