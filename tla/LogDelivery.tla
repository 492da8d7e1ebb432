------------------------------ MODULE LogDelivery ------------------------------
(***************************************************************************)
(* The serviceability log path as a whole: the DDAE server, the live poll, *)
(* the history backfill, the log queue both write to, the publisher, the   *)
(* readiness flags, and a process that can stop at any step and start      *)
(* again on the same file.                                                 *)
(***************************************************************************)
EXTENDS LogPipeline, LogPublisher, FiniteSetsExt

vars == <<storeVars, upsets, diag, envVars, pollVars, backfill, accepted,
          publisherVars>>

Init ==
  /\ StoreInit /\ upsets = 0
  /\ diag = NoLogDiagnostics
  /\ LogPipelineInit
  /\ LogPublisherInit

\* Committed transactions and the topic survive; what is in memory is lost.
CrashRestart ==
  /\ upsets < MaxUpsets
  /\ upsets' = upsets + 1
  /\ LogReopen
  /\ diag' = NoLogDiagnostics
  /\ waitingOrder' = [x \in {} |-> x] /\ nextRefreshTurn' = FALSE
  /\ poll' = NoPoll /\ inflight' = [id \in {} |-> id]
  /\ backfill' = NoBackfill
  /\ flush' = NoFlush /\ recovery' = FALSE
  /\ UNCHANGED <<topic, envVars, accepted>>

Writers == (PollNext \/ BackfillNext) /\ UNCHANGED publisherVars

Publisher == FlushNext /\ UNCHANGED <<envVars, pollVars, backfill, accepted>>

Environment == SourceNext /\ UNCHANGED publisherVars

Next == Writers \/ Publisher \/ Environment \/ CrashRestart

Spec == Init /\ [][Next]_vars

-------------------------------------------------------------------------------
(* Properties *)

\* Every variable has its type, and the file is within its limits and never one that
\* Acknowledge or Open calls corrupt.
TypeOK ==
  /\ StoreTypeOK /\ WithinLimits
  /\ diag \in LogDiagnosticsType
  /\ topic \in Seq(1..sequence)
  /\ upsets \in 0..MaxUpsets
  /\ Running \subseteq DOMAIN poll.markers /\ poll.todo \cap Running = {}
  /\ LogStateValid

\* The record a topic entry carries.
Content(i) == accepted[topic[i]]

D == INSTANCE Delivery
       WITH Events <- [id : Logs, hash : Hashes, ver : Markers],
            log <- [i \in 1..Len(topic) |-> Content(i)]

\* With two writers too, the topic is a growing prefix of what was accepted: in
\* order, without gaps, across failed publishes and restarts.
DeliversInOrder == D!DeliverySafety

\* The content accepted last for a log.
LastAccepted(id) ==
  LET at == {i \in 1..Len(accepted) : accepted[i].id = id}
  IN  IF at = {} THEN NoHash ELSE accepted[Max(at)].hash

\* Poll and backfill fetch the same log at the same time, and the server may
\* answer either with an older version: of a log whose list entries and details
\* carry a usable updatedOn, a version accepted later is never older, so consumers
\* are never set back.  (A list entry without one makes MarkSeen forget the marker.)
NeverSetBack ==
  \A i, j \in 1..Len(accepted) :
    (/\ i < j /\ accepted[i].id = accepted[j].id
     /\ source[accepted[i].id].marked /\ source[accepted[i].id].dated)
      => accepted[i].ver <= accepted[j].ver

\* Of a log whose details carry a usable updatedOn, a checkpoint never claims a
\* version whose content is not the one accepted last, whatever its list entries
\* carry.  The poll leaves a log alone while its list marker is the checkpoint's, so
\* a false claim (a stale detail stored under the list's marker, an observation
\* refused by a full queue, a marker of the other writer) would hide the change.  An
\* undated detail is stored under the list's marker, and a stale one then does make
\* the false claim, until the next refresh.
MarkersTellTheTruth ==
  \A id \in Present :
    (source[id].dated /\ Known(id) /\ checkpoints[id].marker = source[id].ver)
      => LastAccepted(id) = source[id].hash

\* What was stored of a listed log is as new as the list says, and not due for a
\* refresh.
UpToDate(id) ==
  /\ poll.markers[id] # NoMarker =>
       checkpoints[id].marker # NoMarker /\ poll.markers[id] <= checkpoints[id].marker
  /\ checkpoints[id].lastFetched > 0
  /\ poll.at - checkpoints[id].lastFetched < RefreshInterval

\* The cycle left nothing to do for the log: Enqueue took its detail in this cycle,
\* or it was up to date without.
Collected(id) == Known(id) /\ (id \in poll.answered \/ UpToDate(id))

\* A cycle that leaves the log path ready has collected every log of its list that
\* it did not defer, whatever the backfill did beside it: a new, changed or due one
\* that failed, was refused or was not handed out in time makes the path unready.
ReadyMeansCollected ==
  [][(poll.pc = "report" /\ poll'.pc = "idle" /\ LogPipelineReady') =>
       \A id \in DOMAIN poll.markers \ poll.deferred : Collected(id)]_vars
===============================================================================
