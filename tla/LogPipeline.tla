------------------------------ MODULE LogPipeline ------------------------------
(***************************************************************************)
(* The two writers of the log queue: the live poll                         *)
(* (internal/serviceability/pipeline.go), one cycle after the other with   *)
(* up to Concurrency detail workers, and one worker of the history         *)
(* backfill (logSource in internal/historyscan/adapters.go), whose scan is *)
(* modelled by HistoryScan.                                                *)
(*                                                                         *)
(* The environment is the DDAE server and the clock.  A log has a version, *)
(* its updatedOn, and a content; the server may answer a detail request    *)
(* with the version before the current one.  The list entry of a version   *)
(* and its detail may lack a usable updatedOn, each independently of the   *)
(* other.                                                                  *)
(***************************************************************************)
EXTENDS LogState, LogDiagnostics, Sequences

CONSTANTS
  MaxPerCycle, Concurrency, RefreshInterval,  \* Options of the pipeline
  MaxVersion    \* bound: versions of one log

ASSUME LogPipelineAssumption ==
  /\ MaxPerCycle \in Nat \ {0} /\ Concurrency \in Nat \ {0}
  /\ RefreshInterval \in Nat \ {0}
  /\ Logs \subseteq Nat
  /\ MaxVersion \in Nat /\ MaxUpsets \in Nat
  /\ Markers = 1..MaxVersion

VARIABLES
  options,    \* [backfill], chosen when the program starts
  source,     \* the server's logs
  now,        \* the wall clock
  waitingOrder, nextRefreshTurn,
  poll,       \* the local state of poll()
  inflight,   \* details with a worker: Requested, or the answer
  backfill,   \* the item a worker of the backfill records
  accepted    \* history: every record ever inserted, in sequence order

INSTANCE FairSelection WITH Ids <- Logs, maxPerCycle <- MaxPerCycle

envVars == <<options, source, now>>
pollVars == <<waitingOrder, nextRefreshTurn, poll, inflight>>

Present == {id \in Logs : source[id].hash # NoHash}

Requested == [hash |-> NoHash, ver |-> 0, marker |-> NoMarker]

\* fetched: the lastFetched of the tasks; answered (history): the logs whose detail
\* Enqueue took in this cycle.
NoPoll == [pc |-> "idle", at |-> 0, markers |-> [id \in {} |-> id],
           complete |-> FALSE, enough |-> FALSE, unclassified |-> {}, seen |-> {},
           new |-> {}, refresh |-> {}, fetched |-> [id \in Logs |-> 0],
           todo |-> {}, deferred |-> {}, answered |-> {},
           stateOK |-> TRUE, detailOK |-> TRUE]

\* listed: usableMarker of the list entry's updatedOn; marker: of the detail's; old
\* and oldMarker: the detail of the version before.  marked and dated (history):
\* every list entry, or detail, of the log so far had a usable updatedOn.
NeverLogged == [hash |-> NoHash, ver |-> 0, listed |-> NoMarker, marker |-> NoMarker,
                old |-> NoHash, oldMarker |-> NoMarker, marked |-> TRUE, dated |-> TRUE]

NoBackfill == [pc |-> "idle", id |-> 0, when |-> 0, answer |-> Requested]

LogPipelineInit ==
  /\ options \in [backfill : BOOLEAN]
  /\ source = [id \in Logs |-> NeverLogged]
  /\ now = 1
  /\ SelectionInit
  /\ poll = NoPoll /\ inflight = [id \in {} |-> id]
  /\ backfill = NoBackfill
  /\ accepted = <<>>

-------------------------------------------------------------------------------
(* The server and the clock *)

\* usableMarker of an updatedOn: its time, the version, or nothing without one.
UsableMarker(ver, usable) == IF usable THEN ver ELSE NoMarker

Updatable == {id \in Logs : source[id].ver < MaxVersion}

Missing(usable) == IF usable THEN 0 ELSE 1

\* A list entry or a detail without a usable updatedOn counts as an upset.
SourceUpdates(id, hash, marked, dated) ==
  /\ id \in Updatable
  /\ source' = [source EXCEPT ![id] =
                  [hash |-> hash, ver |-> @.ver + 1,
                   listed |-> UsableMarker(@.ver + 1, marked),
                   marker |-> UsableMarker(@.ver + 1, dated),
                   old |-> @.hash, oldMarker |-> @.marker,
                   marked |-> @.marked /\ marked, dated |-> @.dated /\ dated]]
  /\ upsets' = upsets + Missing(marked) + Missing(dated)
  /\ upsets' <= MaxUpsets
  /\ UNCHANGED <<storeVars, diag, options, now, pollVars, backfill, accepted>>

SourceRemoves(id) ==
  /\ id \in Present
  /\ source' = [source EXCEPT ![id] =
                  [NeverLogged EXCEPT !.ver = source[id].ver, !.marked = source[id].marked,
                                      !.dated = source[id].dated]]
  /\ UNCHANGED <<storeVars, upsets, diag, options, now, pollVars, backfill, accepted>>

\* The retention passes: far longer than a cycle or a request may take.
Tick ==
  /\ upsets < MaxUpsets /\ poll = NoPoll /\ backfill = NoBackfill
  /\ now' = now + Retention
  /\ upsets' = upsets + 1
  /\ UNCHANGED <<storeVars, diag, options, source, pollVars, backfill, accepted>>

\* What a detail request may return.
Answers(id) ==
  LET s == source[id]
  IN  {[hash |-> s.hash, ver |-> s.ver, marker |-> s.marker]}
        \cup IF s.old = NoHash THEN {}
             ELSE {[hash |-> s.old, ver |-> s.ver - 1, marker |-> s.oldMarker]}

-------------------------------------------------------------------------------
(* Enqueue, as both writers call it *)

\* Accepted into the queue, or dropped as known or outdated.
Enqueued(id, answer, marker, at) ==
  \/ /\ \/ LogEnqueueKnown(id, answer.hash, marker, at)
        \/ LogEnqueueOutdated(id, marker)
     /\ UNCHANGED accepted
  \/ /\ LogEnqueueNew(id, answer.hash, marker, at)
     /\ accepted' = Append(accepted, [id |-> id, hash |-> answer.hash,
                                      ver |-> answer.ver])

\* FullError or an I/O error: nothing is committed.
NotEnqueued(id, answer, marker, at) ==
  \/ LogEnqueueFull(id, answer.hash, marker, at) /\ UNCHANGED upsets
  \/ StoreFails

-------------------------------------------------------------------------------
(* The poll cycle *)

PollListFails ==
  /\ poll.pc = "idle"
  /\ diag' = SetLogCollectionReady(diag, FALSE)
  /\ UNCHANGED <<storeVars, upsets, envVars, pollVars, backfill, accepted>>

\* wellFormed: the metadata is there and every id is valid and distinct;
\* threshold: the list stays within the threshold it states.  A list with fewer
\* logs than its total is usable and not complete.
PollList(shown, wellFormed, threshold) ==
  /\ poll.pc = "idle"
  /\ shown \subseteq Present
  /\ poll' = [NoPoll EXCEPT
                !.pc = "classify", !.at = now,
                !.markers = [id \in shown |-> source[id].listed],
                !.complete = wellFormed /\ shown = Present,
                !.enough = wellFormed /\ (shown = Present
                                          \/ (options.backfill /\ threshold)),
                !.unclassified = shown]
  /\ UNCHANGED <<storeVars, upsets, diag, envVars, waitingOrder, nextRefreshTurn,
                 inflight, backfill, accepted>>

IsNew(id) == LogIsNew(id, poll.markers[id])

IsDue(id) == LogIsDue(id, poll.markers[id], poll.at, RefreshInterval)

Classified(id) == [poll EXCEPT !.unclassified = @ \ {id}]

\* The task keeps the lastFetched that FetchState returned.
Task(id) == [Classified(id) EXCEPT !.fetched[id] = ReadCheckpoint(id).lastFetched]

\* FetchState: the detail is wanted, or the log is only to be marked as seen.
\* The backfill may store the log before MarkSeen does.
Classify(id) ==
  /\ poll.pc = "classify" /\ poll.seen = {} /\ id \in poll.unclassified
  /\ poll' = CASE IsNew(id) -> [Task(id) EXCEPT !.new = @ \cup {id}]
               [] IsDue(id) -> [Task(id) EXCEPT !.refresh = @ \cup {id}]
               [] OTHER     -> [poll EXCEPT !.seen = {id}]
  /\ UNCHANGED <<storeVars, upsets, diag, envVars, waitingOrder, nextRefreshTurn,
                 inflight, backfill, accepted>>

ClassifySeen(id) ==
  /\ poll.pc = "classify" /\ id \in poll.seen
  /\ LogMarkSeen(id, poll.markers[id])
  /\ poll' = [Classified(id) EXCEPT !.seen = {}]
  /\ UNCHANGED <<upsets, diag, envVars, waitingOrder, nextRefreshTurn, inflight,
                 backfill, accepted>>

\* FetchState or MarkSeen fails: the log is skipped in this cycle.
ClassifyFails(id) ==
  /\ poll.pc = "classify" /\ id \in poll.unclassified
  /\ poll.seen \subseteq {id}
  /\ StoreFails
  /\ poll' = [Classified(id) EXCEPT !.stateOK = FALSE, !.seen = {}]
  /\ diag' = SetLogPipelineStateHealthy(diag, FALSE)
  /\ UNCHANGED <<envVars, waitingOrder, nextRefreshTurn, inflight, backfill, accepted>>

PollSelect ==
  /\ poll.pc = "classify" /\ poll.unclassified = {}
  /\ LET selected == SelectedNew(poll.new, poll.refresh, poll.fetched)
                       \cup SelectedRefresh(poll.new, poll.refresh, poll.fetched)
     IN  /\ SelectFair(poll.new, poll.refresh, poll.fetched, selected)
         /\ poll' = [poll EXCEPT
                       !.pc = "fetch", !.todo = selected,
                       !.new = {}, !.refresh = {}, !.fetched = NoPoll.fetched,
                       !.deferred = (poll.new \cup poll.refresh) \ selected]
  /\ UNCHANGED <<storeVars, upsets, diag, envVars, inflight, backfill, accepted>>

Running == DOMAIN inflight

DropInflight(id) == inflight' = [x \in Running \ {id} |-> inflight[x]]

Dispatch(id) ==
  /\ poll.pc = "fetch" /\ id \in poll.todo
  /\ \A other \in poll.todo : waitingOrder[id] <= waitingOrder[other]
  /\ Cardinality(Running) < Concurrency
  /\ inflight' = [x \in Running \cup {id} |-> IF x = id THEN Requested
                                                        ELSE inflight[x]]
  /\ poll' = [poll EXCEPT !.todo = @ \ {id}]
  /\ UNCHANGED <<storeVars, upsets, diag, envVars, waitingOrder, nextRefreshTurn,
                 backfill, accepted>>

\* Variant: tasks that were never handed out are not counted.
CycleTimeoutUncounted ==
  /\ poll.pc = "fetch" /\ poll.todo # {}
  /\ poll' = [poll EXCEPT !.todo = {}]
  /\ UNCHANGED <<storeVars, upsets, diag, envVars, waitingOrder, nextRefreshTurn,
                 inflight, backfill, accepted>>

\* The deadline of the cycle: tasks that were not handed out count as failed.
CycleTimeout ==
  /\ poll.pc = "fetch" /\ poll.todo # {}
  /\ poll' = [poll EXCEPT !.todo = {}, !.detailOK = FALSE]
  /\ UNCHANGED <<storeVars, upsets, diag, envVars, waitingOrder, nextRefreshTurn,
                 inflight, backfill, accepted>>

DetailArrives(id, answer) ==
  /\ id \in Running /\ inflight[id] = Requested
  /\ id \in Present /\ answer \in Answers(id)
  /\ inflight' = [inflight EXCEPT ![id] = answer]
  /\ UNCHANGED <<storeVars, upsets, diag, envVars, waitingOrder, nextRefreshTurn,
                 poll, backfill, accepted>>

\* ServiceabilityLogDetail or BuildEvent fails.
DetailFails(id) ==
  /\ id \in Running /\ inflight[id] = Requested
  /\ DropInflight(id)
  /\ poll' = [poll EXCEPT !.detailOK = FALSE]
  /\ UNCHANGED <<storeVars, upsets, diag, envVars, waitingOrder, nextRefreshTurn,
                 backfill, accepted>>

\* Variant: stored under the marker of the list, whatever version was fetched.
DetailMarkerOfList(id) == poll.markers[id]

\* detailMarker: the detail's own updatedOn, or that of the list.
DetailMarker(id) ==
  IF inflight[id].marker # NoMarker THEN inflight[id].marker ELSE poll.markers[id]

DetailStored(id) ==
  /\ id \in Running /\ inflight[id] # Requested
  /\ Enqueued(id, inflight[id], DetailMarker(id), poll.at)
  /\ DropInflight(id)
  /\ poll' = [poll EXCEPT !.answered = @ \cup {id}]
  /\ UNCHANGED <<upsets, diag, envVars, waitingOrder, nextRefreshTurn, backfill>>

DetailRefused(id) ==
  /\ id \in Running /\ inflight[id] # Requested
  /\ NotEnqueued(id, inflight[id], DetailMarker(id), poll.at)
  /\ DropInflight(id)
  /\ poll' = [poll EXCEPT !.detailOK = FALSE, !.stateOK = FALSE]
  /\ UNCHANGED <<diag, envVars, waitingOrder, nextRefreshTurn, backfill, accepted>>

FetchDone == poll.pc = "fetch" /\ poll.todo = {} /\ Running = {}

\* A list that is not complete proves nothing about absence.
PollReconcile ==
  /\ FetchDone
  /\ IF poll.complete THEN LogReconcile(DOMAIN poll.markers, poll.at)
                      ELSE UNCHANGED storeVars
  /\ LET ok == poll.stateOK /\ ~(poll.complete /\ LogReconcileFull)
     IN  /\ poll' = [poll EXCEPT !.pc = "report", !.stateOK = ok]
         /\ diag' = IF ok THEN diag ELSE SetLogPipelineStateHealthy(diag, FALSE)
  /\ UNCHANGED <<upsets, envVars, waitingOrder, nextRefreshTurn, inflight, backfill,
                 accepted>>

PollReconcileFails ==
  /\ FetchDone /\ poll.complete
  /\ StoreFails
  /\ poll' = [poll EXCEPT !.pc = "report", !.stateOK = FALSE]
  /\ diag' = SetLogPipelineStateHealthy(diag, FALSE)
  /\ UNCHANGED <<envVars, waitingOrder, nextRefreshTurn, inflight, backfill, accepted>>

\* Health, and the report.  With the backfill enabled a truncated list is enough.
PollReport ==
  /\ poll.pc = "report"
  /\ LET ready == poll.enough /\ poll.detailOK /\ poll.stateOK
         d == SetLogCollectionReady(SetLogStateFull(diag, LogFull), ready)
     IN  diag' = IF poll.stateOK /\ poll.detailOK
                 THEN SetLogPipelineStateHealthy(d, TRUE) ELSE d
  /\ poll' = NoPoll
  /\ UNCHANGED <<storeVars, upsets, envVars, waitingOrder, nextRefreshTurn, inflight,
                 backfill, accepted>>

\* Health fails: the report says not ready, and not full.
PollHealthFails ==
  /\ poll.pc = "report"
  /\ StoreFails
  /\ diag' = SetLogCollectionReady(SetLogStateFull(
               SetLogPipelineStateHealthy(diag, FALSE), FALSE), FALSE)
  /\ poll' = NoPoll
  /\ UNCHANGED <<envVars, waitingOrder, nextRefreshTurn, inflight, backfill, accepted>>

PollNext ==
  \/ PollListFails
  \/ /\ poll.pc = "idle"
     /\ \E shown \in SUBSET Present, wellFormed, threshold \in BOOLEAN :
          PollList(shown, wellFormed, threshold)
  \/ \E id \in Logs :
       \/ Classify(id) \/ ClassifySeen(id) \/ ClassifyFails(id)
       \/ Dispatch(id) \/ DetailFails(id)
       \/ id \in Present /\ \E answer \in Answers(id) : DetailArrives(id, answer)
       \/ DetailStored(id) \/ DetailRefused(id)
  \/ PollSelect \/ CycleTimeout
  \/ PollReconcile \/ PollReconcileFails
  \/ PollReport \/ PollHealthFails

-------------------------------------------------------------------------------
(* The backfill *)

\* logPage: an item needs a usable updatedOn; a worker of the scan takes it.
BackfillTake(id) ==
  /\ options.backfill /\ backfill = NoBackfill
  /\ id \in Present /\ source[id].listed # NoMarker
  /\ backfill' = [NoBackfill EXCEPT !.pc = "requested", !.id = id,
                                    !.when = source[id].listed]
  /\ UNCHANGED <<storeVars, upsets, diag, envVars, pollVars, accepted>>

\* The detail arrives.  One that is undated or predates the list is an error of the
\* item.
BackfillDetail(answer) ==
  /\ backfill.pc = "requested"
  /\ backfill.id \in Present /\ answer \in Answers(backfill.id)
  /\ backfill' = IF answer.marker = NoMarker \/ answer.ver < backfill.when
                 THEN NoBackfill
                 ELSE [NoBackfill EXCEPT !.pc = "record", !.id = backfill.id,
                                         !.answer = answer]
  /\ UNCHANGED <<storeVars, upsets, diag, envVars, pollVars, accepted>>

BackfillDetailFails ==
  /\ backfill.pc = "requested"
  /\ backfill' = NoBackfill
  /\ UNCHANGED <<storeVars, upsets, diag, envVars, pollVars, accepted>>

BackfillStored ==
  /\ backfill.pc = "record"
  /\ Enqueued(backfill.id, backfill.answer, backfill.answer.marker, now)
  /\ backfill' = NoBackfill
  /\ UNCHANGED <<upsets, diag, envVars, pollVars>>

BackfillRefused ==
  /\ backfill.pc = "record"
  /\ NotEnqueued(backfill.id, backfill.answer, backfill.answer.marker, now)
  /\ backfill' = NoBackfill
  /\ UNCHANGED <<diag, envVars, pollVars, accepted>>

BackfillNext ==
  \/ \E id \in Logs : BackfillTake(id)
  \/ /\ backfill.pc = "requested" /\ backfill.id \in Present
     /\ \E answer \in Answers(backfill.id) : BackfillDetail(answer)
  \/ BackfillDetailFails \/ BackfillStored \/ BackfillRefused

SourceNext ==
  \/ \E id \in Updatable, hash \in Hashes, marked, dated \in BOOLEAN :
       SourceUpdates(id, hash, marked, dated)
  \/ \E id \in Logs : SourceRemoves(id)
  \/ Tick
===============================================================================
