-------------------------------- MODULE Outbox --------------------------------
(***************************************************************************)
(* The durable alert outbox (internal/outbox/store.go).                    *)
(*                                                                         *)
(* The store is one bbolt file with three buckets.  Every operation is one *)
(* bbolt transaction, so every operation is one atomic action here:        *)
(*                                                                         *)
(*   outbox       the queued records, keyed by the bucket's sequence       *)
(*   checkpoints  one checkpoint per known alert                           *)
(*   meta         the persisted counters "event-count" and "event-bytes"   *)
(*   sequence     the outbox bucket's own sequence (Bucket.NextSequence)   *)
(*                                                                         *)
(* A payload is represented by its content hash and a hash by a model      *)
(* value; the encoded size of a record is a function of its hash.          *)
(* LastSeenAt and CreatedAt are never read back by the program and are     *)
(* left out.  Timestamps are positive integers, 0 is the zero timestamp.   *)
(***************************************************************************)
EXTENDS Integers, FiniteSets

CONSTANTS
  Alerts,          \* alert ids
  Hashes,          \* content hashes an alert can have
  Markers,         \* usable list markers (updatedOn of a list entry)
  NoHash,          \* the empty hash ""
  NoMarker,        \* the empty marker ""
  Size,            \* encoded size of a record, by content hash
  MaxEvents, MaxBytes, MaxCheckpoints,   \* Options
  Retention,       \* Options.Retention
  StoreFaults      \* TRUE if a bbolt transaction may fail with an I/O error

\* Open() refuses options that are not positive.
ASSUME OptionsAssumption ==
  /\ MaxEvents \in Nat \ {0} /\ MaxBytes \in Nat \ {0}
  /\ MaxCheckpoints \in Nat \ {0} /\ Retention \in Nat \ {0}
  /\ StoreFaults \in BOOLEAN

\* An empty hash or marker is not a hash or a marker; a record is not empty.
ASSUME ValueAssumption ==
  /\ NoHash \notin Hashes /\ NoMarker \notin Markers
  /\ Size \in [Hashes -> Nat \ {0}]

VARIABLES outbox, checkpoints, meta, sequence

storeVars == <<outbox, checkpoints, meta, sequence>>

Record == [id : Alerts, hash : Hashes]

Checkpoint == [marker : Markers \cup {NoMarker},
               pending : Hashes \cup {NoHash},
               delivered : Hashes \cup {NoHash},
               lastFetched : Nat,
               absentSince : Nat]

-------------------------------------------------------------------------------
(* Reading the buckets *)

Known(id) == id \in DOMAIN checkpoints

\* readCheckpoint: a missing key decodes to the zero Checkpoint.
ReadCheckpoint(id) ==
  IF Known(id) THEN checkpoints[id]
  ELSE [marker |-> NoMarker, pending |-> NoHash, delivered |-> NoHash,
        lastFetched |-> 0, absentSince |-> 0]

\* The queued records of an alert, and the one a forward cursor meets last.
QueuedOf(id) == {s \in DOMAIN outbox : outbox[s].id = id}

Greatest(seqs) == CHOOSE s \in seqs : \A t \in seqs : t <= s

Newest(id) == Greatest(QueuedOf(id))

NewestHash(id) == IF QueuedOf(id) = {} THEN NoHash ELSE outbox[Newest(id)].hash

\* The bytes of a set of records, each named by its record and position.
ByteSet(seqs) == UNION {{s} \X (1..Size[outbox[s].hash]) : s \in seqs}

BytesOf(seqs) == Cardinality(ByteSet(seqs))

\* Variant: the cursor is advanced before the first read.
RecordsSkipsFirst(limit) ==
  {s \in DOMAIN outbox : Cardinality({t \in DOMAIN outbox : t < s}) \in 1..limit}

\* Records(limit): the first limit records in key order.
Records(limit) ==
  {s \in DOMAIN outbox : Cardinality({t \in DOMAIN outbox : t < s}) < limit}

\* Stats().Full
Full == \/ meta.count >= MaxEvents
        \/ meta.bytes >= MaxBytes
        \/ Cardinality(DOMAIN checkpoints) >= MaxCheckpoints

-------------------------------------------------------------------------------
(* Transactions *)

\* putCheckpoint
PutCheckpoint(id, checkpoint) ==
  checkpoints' = [x \in DOMAIN checkpoints \cup {id} |->
                    IF x = id THEN checkpoint ELSE checkpoints[x]]

\* A new checkpoint needs room in its bucket.
CheckpointRoom(id) ==
  Known(id) \/ Cardinality(DOMAIN checkpoints) < MaxCheckpoints

\* What Enqueue writes to the checkpoint before it looks at the content.
Observed(id, marker, at) ==
  [ReadCheckpoint(id) EXCEPT !.marker = marker, !.lastFetched = at,
                             !.absentSince = 0]

\* Variant: compares with the delivered content although newer content waits.
UnchangedIfEverDelivered(id, hash) ==
  ReadCheckpoint(id).pending = hash \/ ReadCheckpoint(id).delivered = hash

\* The content is already queued last, or was delivered last.
Unchanged(id, hash) ==
  LET checkpoint == ReadCheckpoint(id)
  IN  \/ checkpoint.pending = hash
      \/ checkpoint.pending = NoHash /\ checkpoint.delivered = hash

\* Variant: checks the counters without the record that is about to be added.
EventRoomBefore(hash) == meta.count <= MaxEvents /\ meta.bytes <= MaxBytes

EventRoom(hash) ==
  meta.count < MaxEvents /\ meta.bytes + Size[hash] <= MaxBytes

\* Enqueue of content that is already known: only the checkpoint is written.
EnqueueKnown(id, hash, marker, at) ==
  /\ CheckpointRoom(id)
  /\ Unchanged(id, hash)
  /\ PutCheckpoint(id, Observed(id, marker, at))
  /\ UNCHANGED <<outbox, meta, sequence>>

\* Variant: the bucket sequence is not advanced.
EnqueueReusesKey(id, hash, marker, at) ==
  /\ CheckpointRoom(id) /\ ~Unchanged(id, hash) /\ EventRoom(hash)
  /\ outbox' = [s \in DOMAIN outbox \cup {sequence + 1} |->
                  IF s = sequence + 1 THEN [id |-> id, hash |-> hash]
                                      ELSE outbox[s]]
  /\ PutCheckpoint(id, [Observed(id, marker, at) EXCEPT !.pending = hash])
  /\ meta' = [count |-> meta.count + 1, bytes |-> meta.bytes + Size[hash]]
  /\ UNCHANGED sequence

\* Enqueue of new content: record, checkpoint and counters in one transaction.
EnqueueNew(id, hash, marker, at) ==
  /\ CheckpointRoom(id)
  /\ ~Unchanged(id, hash)
  /\ EventRoom(hash)
  /\ sequence' = sequence + 1
  /\ outbox' = [s \in DOMAIN outbox \cup {sequence'} |->
                  IF s = sequence' THEN [id |-> id, hash |-> hash]
                                   ELSE outbox[s]]
  /\ PutCheckpoint(id, [Observed(id, marker, at) EXCEPT !.pending = hash])
  /\ meta' = [count |-> meta.count + 1, bytes |-> meta.bytes + Size[hash]]

\* Variant: the checkpoint is advanced although the event was refused.
EnqueueFullAdvances(id, hash, marker, at) ==
  /\ CheckpointRoom(id) /\ ~Unchanged(id, hash) /\ ~EventRoom(hash)
  /\ PutCheckpoint(id, Observed(id, marker, at))
  /\ UNCHANGED <<outbox, meta, sequence>>

\* FullError: the transaction is rolled back, the bucket sequence included.
EnqueueFull(id, hash, marker, at) ==
  /\ ~CheckpointRoom(id) \/ (~Unchanged(id, hash) /\ ~EventRoom(hash))
  /\ UNCHANGED storeVars

\* MarkSeen, and its FullError.
MarkSeen(id, marker) ==
  /\ CheckpointRoom(id)
  /\ PutCheckpoint(id, [ReadCheckpoint(id) EXCEPT !.marker = marker,
                                                  !.absentSince = 0])
  /\ UNCHANGED <<outbox, meta, sequence>>

\* The cross-checks Acknowledge makes before it changes anything.
AckValid(s) ==
  LET id == outbox[s].id
  IN  Known(id) /\ checkpoints[id].pending = NewestHash(id)

\* Variant: the counters are not taken down.
MinusNothing(a, b) == a

\* Counters are taken down to zero at most.
Minus(a, b) == IF b > a THEN 0 ELSE a - b

\* Variant: nothing is pending any more after any acknowledgement.
AcknowledgeClears(s) ==
  /\ s \in DOMAIN outbox
  /\ PutCheckpoint(outbox[s].id, [checkpoints[outbox[s].id] EXCEPT
                                    !.delivered = outbox[s].hash,
                                    !.pending = NoHash])
  /\ outbox' = [t \in DOMAIN outbox \ {s} |-> outbox[t]]
  /\ meta' = [count |-> Minus(meta.count, 1),
              bytes |-> Minus(meta.bytes, Size[outbox[s].hash])]
  /\ UNCHANGED sequence

\* Acknowledge of a queued record.  A sequence that is gone is not an error.
Acknowledge(s) ==
  /\ s \in DOMAIN outbox => AckValid(s)
  /\ IF s \notin DOMAIN outbox
     THEN UNCHANGED storeVars
     ELSE LET id == outbox[s].id IN
          /\ PutCheckpoint(id,
               [checkpoints[id] EXCEPT
                  !.delivered = outbox[s].hash,
                  !.pending = IF s = Newest(id) THEN NoHash ELSE @])
          /\ outbox' = [t \in DOMAIN outbox \ {s} |-> outbox[t]]
          /\ meta' = [count |-> Minus(meta.count, 1),
                      bytes |-> Minus(meta.bytes, Size[outbox[s].hash])]
          /\ UNCHANGED sequence

\* The checkpoint of an alert missing from a complete list.
MarkAbsent(id, listed, now) ==
  [checkpoints[id] EXCEPT
     !.absentSince = IF id \notin listed /\ @ = 0 THEN now ELSE @]

\* Variant: forgets a checkpoint with a queued record.
ExpiredAnyway(id, listed, now) ==
  /\ id \notin listed
  /\ now - MarkAbsent(id, listed, now).absentSince >= Retention

Expired(id, listed, now) ==
  /\ id \notin listed
  /\ now - MarkAbsent(id, listed, now).absentSince >= Retention
  /\ checkpoints[id].pending = NoHash

Retained(listed, now) ==
  {id \in DOMAIN checkpoints : ~Expired(id, listed, now)}

\* ReconcileListed.  An incomplete list proves nothing about absence.
ReconcileListed(listed, now, complete) ==
  /\ checkpoints' = IF complete
                    THEN [id \in Retained(listed, now) |->
                            MarkAbsent(id, listed, now)]
                    ELSE checkpoints
  /\ UNCHANGED <<outbox, meta, sequence>>

\* ReconcileListed reports FullError after it has committed.
ReconcileFull(listed, now, complete) ==
  complete /\ Cardinality(Retained(listed, now)) >= MaxCheckpoints

\* The cross-bucket checks of validateAndMigrate.
StateValid ==
  /\ \A id \in DOMAIN checkpoints : checkpoints[id].pending = NewestHash(id)
  /\ \A s \in DOMAIN outbox : s > 0 /\ Known(outbox[s].id)

\* Open of an existing file: validate, then recompute the counters.
Reopen ==
  /\ StateValid
  /\ meta' = [count |-> Cardinality(DOMAIN outbox),
              bytes |-> BytesOf(DOMAIN outbox)]
  /\ UNCHANGED <<outbox, checkpoints, sequence>>

StoreInit ==
  /\ outbox = [s \in {} |-> s]
  /\ checkpoints = [id \in {} |-> id]
  /\ meta = [count |-> 0, bytes |-> 0]
  /\ sequence = 0

StoreTypeOK ==
  /\ sequence \in Nat
  /\ DOMAIN outbox \subseteq 1..sequence
  /\ outbox \in [DOMAIN outbox -> Record]
  /\ DOMAIN checkpoints \subseteq Alerts
  /\ checkpoints \in [DOMAIN checkpoints -> Checkpoint]
  /\ meta \in [count : Nat, bytes : Nat]

\* The persisted counters say what is in the bucket, so the capacity checks of
\* Enqueue and Stats, which read only the counters, are exact.
MetaExact ==
  /\ meta.count = Cardinality(DOMAIN outbox)
  /\ meta.bytes = BytesOf(DOMAIN outbox)

\* The configured limits hold for what is really stored.
WithinLimits ==
  /\ Cardinality(DOMAIN outbox) <= MaxEvents
  /\ BytesOf(DOMAIN outbox) <= MaxBytes
  /\ Cardinality(DOMAIN checkpoints) <= MaxCheckpoints
===============================================================================
