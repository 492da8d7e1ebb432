------------------------------- MODULE LogState -------------------------------
(***************************************************************************)
(* The durable queue of serviceability logs (internal/logstate/store.go):  *)
(* the same file layout and transactions as the alert outbox, so this      *)
(* module is Outbox with logs for alerts, except that                      *)
(*                                                                         *)
(*   - two writers share it, the live poll and the history backfill, so a  *)
(*     marker never goes back and an older detail is dropped;              *)
(*   - ReconcileListed measures its limit with the bucket's statistics,    *)
(*     which count the committed pages: what the same transaction deletes  *)
(*     is still counted.                                                   *)
(***************************************************************************)
EXTENDS Outbox

CONSTANT MaxUpsets   \* bound: failing transactions, crashes, expirations

VARIABLE upsets      \* failing transactions, crashes, expirations so far

Logs == Alerts       \* what the outbox calls alerts are logs here

\* A transaction fails with an I/O error and commits nothing.
StoreFails ==
  /\ upsets < MaxUpsets
  /\ upsets' = upsets + 1
  /\ UNCHANGED storeVars

\* Variant: any detail may be written over any other.
OlderNever(incoming, previous) == FALSE

\* olderMarker: only two usable markers are compared.
OlderMarker(incoming, previous) ==
  incoming # NoMarker /\ previous # NoMarker /\ incoming < previous

\* The detail is older than what the checkpoint has seen.
Outdated(id, marker) == OlderMarker(marker, ReadCheckpoint(id).marker)

\* Enqueue of an outdated detail commits nothing and is not an error.
LogEnqueueOutdated(id, marker) ==
  /\ CheckpointRoom(id)
  /\ Outdated(id, marker)
  /\ UNCHANGED storeVars

LogEnqueueKnown(id, hash, marker, at) ==
  ~Outdated(id, marker) /\ EnqueueKnown(id, hash, marker, at)

LogEnqueueNew(id, hash, marker, at) ==
  ~Outdated(id, marker) /\ EnqueueNew(id, hash, marker, at)

LogEnqueueFull(id, hash, marker, at) ==
  /\ CheckpointRoom(id) => ~Outdated(id, marker)
  /\ EnqueueFull(id, hash, marker, at)

\* MarkSeen: the log was listed, whatever the age of the marker.
LogMarkSeen(id, marker) ==
  /\ CheckpointRoom(id)
  /\ PutCheckpoint(id,
       [ReadCheckpoint(id) EXCEPT
          !.marker = IF Outdated(id, marker) THEN @ ELSE marker,
          !.absentSince = 0])
  /\ UNCHANGED <<outbox, meta, sequence>>

\* FetchState and the priority poll() derives from it: 0 for an unknown log or
\* a usable marker that is not the checkpoint's, 1 when a refresh is due.
LogIsNew(id, marker) ==
  Known(id) => marker # NoMarker /\ marker # checkpoints[id].marker

LogIsDue(id, marker, at, interval) ==
  /\ ~LogIsNew(id, marker)
  /\ \/ checkpoints[id].lastFetched = 0
     \/ at - checkpoints[id].lastFetched >= interval

LogRecords(limit) == Records(limit)

\* Acknowledge refuses what it calls corrupt; a byte counter below the record's
\* size is corrupt too.
LogAckValid(s) == AckValid(s) /\ Size[outbox[s].hash] <= meta.bytes

LogAcknowledge(s) ==
  /\ s \in DOMAIN outbox => LogAckValid(s)
  /\ Acknowledge(s)

\* ReconcileListed of a complete list.
LogReconcile(listed, now) ==
  /\ checkpoints' = [id \in Retained(listed, now) |-> MarkAbsent(id, listed, now)]
  /\ UNCHANGED <<outbox, meta, sequence>>

\* It reports FullError after its commit, from the count before its deletions.
LogReconcileFull == Cardinality(DOMAIN checkpoints) >= MaxCheckpoints

\* Health()
LogFull == Full

\* validateRecords and validateCheckpoints
LogStateValid ==
  /\ \A id \in DOMAIN checkpoints : checkpoints[id].pending = NewestHash(id)
  /\ \A s \in DOMAIN outbox : s > 0 /\ Known(outbox[s].id)

\* Open of an existing file.
LogReopen ==
  /\ LogStateValid
  /\ meta' = [count |-> Cardinality(DOMAIN outbox),
              bytes |-> BytesOf(DOMAIN outbox)]
  /\ UNCHANGED <<outbox, checkpoints, sequence>>
===============================================================================
