------------------------------ MODULE AlertProofs ------------------------------
(***************************************************************************)
(* Theorems about the alert outbox and the alert path, for every number of *)
(* alerts, contents, records, workers, versions, crashes and clock         *)
(* readings, every limit and every interleaving.                           *)
(*                                                                         *)
(* The outbox alone: the inductive invariant adds to a file that is as it  *)
(* should be (OutboxLemmas) what its clients observed: a checkpoint's      *)
(* delivered hash is the one acknowledged last, and the content a consumer *)
(* will hold is the one observed last.                                     *)
(*                                                                         *)
(* The path as a whole: the invariant has one part per module and three    *)
(* that relate them: the topic and the queue are two neighbouring          *)
(* intervals of the accepted sequence (InOrder), the poll knows of each    *)
(* listed alert what is still to be done for it (Accounted), and the two   *)
(* state flags of the publisher agree.                                     *)
(***************************************************************************)
EXTENDS OutboxStore, AlertDelivery, OutboxLemmas

DeliveredIsAcked ==
  \A id \in DOMAIN checkpoints : checkpoints[id].delivered \in {NoHash, acked[id]}

OutboxInv ==
  /\ TypeOK
  /\ FileOK
  /\ DeliveredIsAcked
  /\ ConsumerConverges

-------------------------------------------------------------------------------
(* One lemma per transaction *)

\* A write of one checkpoint that keeps its delivered hash.
LEMMA DeliveredKept ==
  ASSUME OutboxInv, NEW id \in Alerts, NEW c \in Checkpoint, PutCheckpoint(id, c),
         c.delivered = ReadCheckpoint(id).delivered, UNCHANGED acked
  PROVE  DeliveredIsAcked'
<1>1. /\ DOMAIN checkpoints' = DOMAIN checkpoints \cup {id}
      /\ checkpoints'[id] = c
      /\ \A x \in DOMAIN checkpoints \ {id} : checkpoints'[x] = checkpoints[x]
  BY PutEffect DEF OutboxInv, FileOK
<1> QED
  BY <1>1 DEF OutboxInv, DeliveredIsAcked, ReadCheckpoint, Known

\* Enqueue of content the checkpoint already knows.
LEMMA KnownStep ==
  ASSUME OutboxInv, NEW id \in Alerts, NEW hash \in Hashes,
         NEW marker \in Markers \cup {NoMarker}, NEW at \in Nat,
         EnqueueKnown(id, hash, marker, at),
         observed' = [observed EXCEPT ![id] = hash], UNCHANGED acked
  PROVE  OutboxInv'
<1>1. FileOK /\ StoreTypeOK
  BY DEF OutboxInv, FileOK
<1>2. FileOK' /\ DeliveredIsAcked'
  BY <1>1, ObservedType, EnqueueKnownFile, DeliveredKept DEF EnqueueKnown
<1>3. TypeOK'
  BY <1>2 DEF OutboxInv, TypeOK, FileOK
<1>4. EventualContent(id) = hash
  <2>1. CASE ReadCheckpoint(id).pending = hash
    <3>1. Known(id) /\ NewestHash(id) = hash
      BY <2>1, <1>1, ValueAssumption DEF FileOK, ReadCheckpoint, Known, StateValid
    <3> QED
      BY <3>1, ValueAssumption DEF EventualContent, NewestHash
  <2>2. CASE /\ ReadCheckpoint(id).pending = NoHash
             /\ ReadCheckpoint(id).delivered = hash
    <3>1. /\ Known(id) /\ checkpoints[id].pending = NoHash
          /\ checkpoints[id].delivered = hash
      BY <2>2, ValueAssumption DEF ReadCheckpoint
    <3>2. acked[id] = hash
      BY <3>1, ValueAssumption DEF OutboxInv, DeliveredIsAcked, Known
    <3>3. QueuedOf(id) = {}
      BY <1>1, <3>1, NothingPending DEF Known
    <3> QED
      BY <3>2, <3>3 DEF EventualContent
  <2> QED
    BY <2>1, <2>2 DEF EnqueueKnown, Unchanged
<1>5. \A x \in Alerts : EventualContent(x)' = EventualContent(x)
  BY QueueSame DEF EnqueueKnown, EventualContent
<1>6. ConsumerConverges'
  BY <1>4, <1>5 DEF OutboxInv, TypeOK, ConsumerConverges
<1> QED
  BY <1>2, <1>3, <1>6 DEF OutboxInv

\* MarkSeen.
LEMMA SeenStep ==
  ASSUME OutboxInv, NEW id \in Alerts, NEW marker \in Markers \cup {NoMarker},
         Seen(id, marker)
  PROVE  OutboxInv'
<1> DEFINE c == [ReadCheckpoint(id) EXCEPT !.marker = marker, !.absentSince = 0]
<1>1. c \in Checkpoint /\ c.delivered = ReadCheckpoint(id).delivered
  BY ReadType DEF OutboxInv, FileOK, Checkpoint
<1>2. /\ MarkSeen(id, marker) /\ PutCheckpoint(id, c)
      /\ UNCHANGED <<outbox, meta, sequence, observed, acked>>
  BY DEF Seen, MarkSeen
<1> HIDE DEF c
<1>3. FileOK'
  BY <1>2, MarkSeenFile DEF OutboxInv
<1>4. DeliveredIsAcked'
  BY <1>1, <1>2, DeliveredKept
<1>5. \A x \in Alerts : EventualContent(x)' = EventualContent(x)
  BY <1>2, QueueSame DEF EventualContent
<1> QED
  BY <1>2, <1>3, <1>4, <1>5 DEF OutboxInv, TypeOK, FileOK, ConsumerConverges

\* Enqueue of new content.
LEMMA NewStep ==
  ASSUME OutboxInv, NEW id \in Alerts, NEW hash \in Hashes,
         NEW marker \in Markers \cup {NoMarker}, NEW at \in Nat,
         EnqueueNew(id, hash, marker, at),
         observed' = [observed EXCEPT ![id] = hash], UNCHANGED acked
  PROVE  OutboxInv'
<1> DEFINE c == [Observed(id, marker, at) EXCEPT !.pending = hash]
<1>1. FileOK /\ StoreTypeOK
  BY DEF OutboxInv, FileOK
<1>2. c \in Checkpoint /\ c.delivered = ReadCheckpoint(id).delivered
  BY <1>1, ObservedType DEF Checkpoint
<1>3. /\ PutCheckpoint(id, c)
      /\ sequence' = sequence + 1
      /\ outbox' = [s \in DOMAIN outbox \cup {sequence'} |->
                      IF s = sequence' THEN [id |-> id, hash |-> hash]
                                       ELSE outbox[s]]
  BY DEF EnqueueNew
<1> HIDE DEF c
<1>4. FileOK'
  BY <1>1, EnqueueNewFile
<1>5. DeliveredIsAcked'
  BY <1>2, <1>3, DeliveredKept
<1>6. /\ QueuedOf(id)' = QueuedOf(id) \cup {sequence + 1}
      /\ NewestHash(id)' = hash
      /\ \A x \in Alerts \ {id} : /\ QueuedOf(x)' = QueuedOf(x)
                                  /\ NewestHash(x)' = NewestHash(x)
  BY <1>1, <1>3, InsertQueue
<1>7. ConsumerConverges'
  <2>1. EventualContent(id)' = hash
    BY <1>6 DEF EventualContent
  <2>2. \A x \in Alerts \ {id} : EventualContent(x)' = EventualContent(x)
    BY <1>6 DEF EventualContent
  <2> QED
    BY <2>1, <2>2 DEF OutboxInv, TypeOK, ConsumerConverges
<1> QED
  BY <1>4, <1>5, <1>7 DEF OutboxInv, TypeOK, FileOK

\* Acknowledge of the oldest record.
LEMMA AckStep ==
  ASSUME OutboxInv, NEW s \in DOMAIN outbox, AcknowledgeOldest(s)
  PROVE  OutboxInv'
<1>1. FileOK /\ StoreTypeOK
  BY DEF OutboxInv, FileOK
<1>2. Acknowledge(s) /\ \A t \in DOMAIN outbox : s <= t
  BY <1>1, OldestFirst DEF AcknowledgeOldest
<1>3. PICK id \in Alerts, hash \in Hashes : id = outbox[s].id /\ hash = outbox[s].hash
  BY <1>1 DEF StoreTypeOK, Record
<1>4. /\ outbox' = [t \in DOMAIN outbox \ {s} |-> outbox[t]]
      /\ acked' = [acked EXCEPT ![id] = hash]
      /\ UNCHANGED observed
  BY <1>3 DEF AcknowledgeOldest, Acknowledge
<1>5. FileOK'
  BY <1>1, <1>2, AcknowledgeFile
<1>6. /\ DOMAIN checkpoints' = DOMAIN checkpoints
      /\ checkpoints'[id].delivered = hash
      /\ \A x \in DOMAIN checkpoints \ {id} : checkpoints'[x] = checkpoints[x]
  BY <1>1, <1>2, <1>3, AcknowledgeEffect
<1>7. /\ \A x \in Alerts \ {id} :
           QueuedOf(x)' = QueuedOf(x) /\ NewestHash(x)' = NewestHash(x)
      /\ s \in QueuedOf(id)
      /\ s = Newest(id) => QueuedOf(id)' = {} /\ NewestHash(id) = hash
      /\ s # Newest(id) => /\ QueuedOf(id)' # {}
                           /\ NewestHash(id)' = NewestHash(id)
  BY <1>1, <1>2, <1>3, <1>4, RemoveQueue
<1>8. acked'[id] = hash /\ \A x \in Alerts \ {id} : acked'[x] = acked[x]
  BY <1>4 DEF OutboxInv, TypeOK
<1>9. DeliveredIsAcked'
  BY <1>1, <1>6, <1>8 DEF OutboxInv, DeliveredIsAcked, StoreTypeOK
<1>10. ConsumerConverges'
  <2>1. EventualContent(id)' = EventualContent(id)
    <3>1. EventualContent(id) = NewestHash(id)
      BY <1>7 DEF EventualContent
    <3>2. CASE s = Newest(id)
      BY <3>1, <3>2, <1>7, <1>8 DEF EventualContent
    <3>3. CASE s # Newest(id)
      BY <3>1, <3>3, <1>7 DEF EventualContent
    <3> QED
      BY <3>2, <3>3
  <2>2. \A x \in Alerts \ {id} : EventualContent(x)' = EventualContent(x)
    BY <1>7, <1>8 DEF EventualContent
  <2> QED
    BY <2>1, <2>2, <1>4 DEF OutboxInv, ConsumerConverges
<1> QED
  BY <1>4, <1>5, <1>9, <1>10 DEF OutboxInv, TypeOK, FileOK

\* ReconcileListed.
LEMMA ReconcileStep ==
  ASSUME OutboxInv, NEW listed, NEW at \in Nat, NEW complete \in BOOLEAN,
         Reconcile(listed, at, complete)
  PROVE  OutboxInv'
<1>1. /\ ReconcileListed(listed, at, complete)
      /\ UNCHANGED <<outbox, meta, sequence, observed, acked>>
  BY DEF Reconcile, ReconcileListed
<1>2. FileOK'
  BY <1>1, ReconcileFile DEF OutboxInv
<1>3. /\ DOMAIN checkpoints' \subseteq DOMAIN checkpoints
      /\ \A id \in DOMAIN checkpoints' :
           checkpoints'[id].delivered = checkpoints[id].delivered
  <2>1. CASE complete
    BY <1>1, <2>1, ReconcileEffect DEF OutboxInv, ReconcileListed
  <2>2. CASE ~complete
    BY <1>1, <2>2 DEF ReconcileListed
  <2> QED
    BY <2>1, <2>2
<1>4. DeliveredIsAcked'
  BY <1>1, <1>3 DEF OutboxInv, DeliveredIsAcked
<1>5. ConsumerConverges'
  BY <1>1, QueueSame DEF OutboxInv, ConsumerConverges, EventualContent
<1> QED
  BY <1>1, <1>2, <1>4, <1>5 DEF OutboxInv, TypeOK, FileOK

\* A step that changes nothing.
LEMMA SameStep ==
  ASSUME OutboxInv, UNCHANGED outboxVars
  PROVE  OutboxInv'
<1>1. FileOK'
  BY SameFile DEF OutboxInv, outboxVars, storeVars
<1> QED
  BY <1>1, QueueSame DEF outboxVars, OutboxInv, TypeOK, FileOK, DeliveredIsAcked,
       ConsumerConverges, EventualContent

\* Open of the file after a crash.
LEMMA RestartStep ==
  ASSUME OutboxInv, Restart
  PROVE  OutboxInv'
BY ReopenFile, SameStep DEF OutboxInv, Restart, storeVars, outboxVars

-------------------------------------------------------------------------------
(* Theorems *)

\* The initial store, an empty file, satisfies the invariant.
LEMMA OutboxInitInv == OutboxInit => OutboxInv
<1> SUFFICES ASSUME OutboxInit PROVE OutboxInv
  OBVIOUS
<1>1. FileOK
  BY InitFile DEF OutboxInit
<1>2. DeliveredIsAcked /\ ConsumerConverges
  BY DEF OutboxInit, StoreInit, DeliveredIsAcked, ConsumerConverges
<1> QED
  BY <1>1, <1>2 DEF OutboxInit, OutboxInv, FileOK, TypeOK

\* Every transaction preserves the invariant.
LEMMA OutboxNextInv == OutboxInv /\ [OutboxNext]_outboxVars => OutboxInv'
<1> SUFFICES ASSUME OutboxInv, [OutboxNext]_outboxVars PROVE OutboxInv'
  OBVIOUS
<1>1. ASSUME NEW id \in Alerts, NEW hash \in Hashes,
             NEW marker \in Markers \cup {NoMarker}, NEW at \in Times,
             Enqueue(id, hash, marker, at)
      PROVE  OutboxInv'
  <2>1. at \in Nat
    BY TimesAssumption
  <2> QED
    BY <1>1, <2>1, KnownStep, NewStep DEF Enqueue
<1>2. CASE UNCHANGED outboxVars
  BY <1>2, SameStep
<1>3. ASSUME NEW id \in Alerts, NEW hash \in Hashes,
             NEW marker \in Markers \cup {NoMarker}, NEW at \in Times,
             EnqueueRefused(id, hash, marker, at)
      PROVE  OutboxInv'
  BY <1>2, <1>3 DEF EnqueueRefused, EnqueueFull, storeVars, outboxVars
<1>4. ASSUME NEW id \in Alerts, NEW marker \in Markers \cup {NoMarker},
             Seen(id, marker)
      PROVE  OutboxInv'
  BY <1>4, SeenStep
<1>5. ASSUME NEW s \in DOMAIN outbox, AcknowledgeOldest(s)
      PROVE  OutboxInv'
  BY <1>5, AckStep
<1>6. ASSUME NEW listed \in SUBSET Alerts, NEW at \in Times,
             NEW complete \in BOOLEAN, Reconcile(listed, at, complete)
      PROVE  OutboxInv'
  BY <1>6, ReconcileStep, TimesAssumption
<1>7. CASE Restart
  BY <1>7, RestartStep
<1> QED
  BY <1>1, <1>2, <1>3, <1>4, <1>5, <1>6, <1>7 DEF OutboxNext

\* The invariant holds in every reachable state.
THEOREM OutboxInvariance == OutboxSpec => []OutboxInv
BY OutboxInitInv, OutboxNextInv, PTL DEF OutboxSpec

\* Type correctness of the store.
THEOREM TypeCorrect == OutboxSpec => []TypeOK
<1>1. OutboxInv => TypeOK
  BY DEF OutboxInv
<1> QED
  BY <1>1, OutboxInvariance, PTL

\* No sequence of transactions and restarts reaches a state that Acknowledge or
\* Open rejects as corrupt.
THEOREM StoreNeverCorrupt == OutboxSpec => []NeverCorrupt
<1>1. OutboxInv => NeverCorrupt
  BY QueuedAreValid DEF OutboxInv, FileOK, NeverCorrupt
<1> QED
  BY <1>1, OutboxInvariance, PTL

\* The persisted counters are exact.
THEOREM CountersExact == OutboxSpec => []MetaExact
<1>1. OutboxInv => MetaExact
  BY DEF OutboxInv, FileOK
<1> QED
  BY <1>1, OutboxInvariance, PTL

\* The configured limits hold for what is really stored.
THEOREM LimitsHold == OutboxSpec => []WithinLimits
<1>1. OutboxInv => WithinLimits
  BY DEF OutboxInv, FileOK
<1> QED
  BY <1>1, OutboxInvariance, PTL

\* Once the queue of an alert has drained, the consumer holds the content that
\* was observed last.
THEOREM ConsumerHasLatest == OutboxSpec => []ConsumerConverges
<1>1. OutboxInv => ConsumerConverges
  BY DEF OutboxInv
<1> QED
  BY <1>1, OutboxInvariance, PTL

\* A fetched alert with nothing queued: its checkpoint has the content acknowledged
\* last.  (A checkpoint made by MarkSeen alone may have lost it.)
FetchedIsAcked ==
  \A id \in DOMAIN checkpoints :
    (checkpoints[id].lastFetched > 0 /\ checkpoints[id].pending = NoHash)
      => checkpoints[id].delivered = acked[id]

\* Every transaction keeps it.
LEMMA FetchedStep ==
  ASSUME OutboxInv, FetchedIsAcked, [OutboxNext]_outboxVars
  PROVE  FetchedIsAcked'
<1>1. FileOK /\ StoreTypeOK /\ acked \in [Alerts -> Hashes \cup {NoHash}]
  BY DEF OutboxInv, FileOK, TypeOK
<1>2. ASSUME NEW id \in Alerts, NEW c \in Checkpoint, PutCheckpoint(id, c),
             UNCHANGED acked,
             (c.lastFetched > 0 /\ c.pending = NoHash) => c.delivered = acked[id]
      PROVE  FetchedIsAcked'
  <2>1. /\ DOMAIN checkpoints' = DOMAIN checkpoints \cup {id}
        /\ checkpoints'[id] = c
        /\ \A x \in DOMAIN checkpoints \ {id} : checkpoints'[x] = checkpoints[x]
    BY <1>1, <1>2, PutEffect
  <2> QED
    BY <1>2, <2>1 DEF FetchedIsAcked
<1>3. ASSUME NEW id \in Alerts, NEW hash \in Hashes,
             NEW marker \in Markers \cup {NoMarker}, NEW at \in Times,
             Enqueue(id, hash, marker, at)
      PROVE  FetchedIsAcked'
  <2>1. at \in Nat
    BY TimesAssumption
  <2>2. /\ Observed(id, marker, at) \in Checkpoint
        /\ Observed(id, marker, at).pending = ReadCheckpoint(id).pending
        /\ Observed(id, marker, at).delivered = ReadCheckpoint(id).delivered
    BY <1>1, <2>1, ObservedType
  <2>3. CASE EnqueueKnown(id, hash, marker, at)
    <3>1. ReadCheckpoint(id).pending = NoHash => ReadCheckpoint(id).delivered = acked[id]
      <4> SUFFICES ASSUME ReadCheckpoint(id).pending = NoHash
                   PROVE  ReadCheckpoint(id).delivered = acked[id]
        OBVIOUS
      <4>1. ReadCheckpoint(id).delivered = hash /\ hash # NoHash
        BY <2>3, ValueAssumption DEF EnqueueKnown, Unchanged
      <4>2. Known(id) /\ checkpoints[id].delivered = hash
        BY <4>1 DEF ReadCheckpoint
      <4> QED
        BY <4>1, <4>2 DEF OutboxInv, DeliveredIsAcked, Known
    <3> QED
      BY <1>2, <1>3, <2>2, <2>3, <3>1 DEF EnqueueKnown, Enqueue
  <2>4. CASE EnqueueNew(id, hash, marker, at)
    <3> DEFINE c == [Observed(id, marker, at) EXCEPT !.pending = hash]
    <3>1. c \in Checkpoint /\ c.pending = hash /\ hash # NoHash
      BY <2>2, ValueAssumption DEF Checkpoint
    <3>2. PutCheckpoint(id, c) /\ UNCHANGED acked
      BY <1>3, <2>4 DEF EnqueueNew, Enqueue
    <3> HIDE DEF c
    <3> QED
      BY <1>2, <3>1, <3>2
  <2> QED
    BY <1>3, <2>3, <2>4 DEF Enqueue
<1>4. ASSUME NEW id \in Alerts, NEW marker \in Markers \cup {NoMarker},
             Seen(id, marker)
      PROVE  FetchedIsAcked'
  <2> DEFINE r == ReadCheckpoint(id)
             c == [r EXCEPT !.marker = marker, !.absentSince = 0]
  <2>1. /\ c \in Checkpoint /\ c.lastFetched = r.lastFetched
        /\ c.pending = r.pending /\ c.delivered = r.delivered
    BY <1>1, ReadType DEF Checkpoint
  <2>2. (r.lastFetched > 0 /\ r.pending = NoHash) => r.delivered = acked[id]
    BY DEF FetchedIsAcked, ReadCheckpoint, Known
  <2>3. PutCheckpoint(id, c) /\ UNCHANGED acked
    BY <1>4 DEF Seen, MarkSeen
  <2> HIDE DEF r, c
  <2> QED
    BY <1>2, <2>1, <2>2, <2>3
<1>5. ASSUME NEW s \in DOMAIN outbox, AcknowledgeOldest(s)
      PROVE  FetchedIsAcked'
  <2>1. Acknowledge(s) /\ \A t \in DOMAIN outbox : s <= t
    BY <1>1, <1>5, OldestFirst DEF AcknowledgeOldest
  <2>2. PICK id \in Alerts, hash \in Hashes : id = outbox[s].id /\ hash = outbox[s].hash
    BY <1>1 DEF StoreTypeOK, Record
  <2>3. /\ DOMAIN checkpoints' = DOMAIN checkpoints
        /\ checkpoints'[id].delivered = hash
        /\ \A x \in DOMAIN checkpoints \ {id} : checkpoints'[x] = checkpoints[x]
    BY <1>1, <2>1, <2>2, AcknowledgeEffect
  <2>4. acked'[id] = hash /\ \A x \in Alerts \ {id} : acked'[x] = acked[x]
    BY <1>1, <1>5, <2>2 DEF AcknowledgeOldest
  <2> QED
    BY <1>1, <2>3, <2>4 DEF FetchedIsAcked, StoreTypeOK
<1>6. ASSUME NEW listed \in SUBSET Alerts, NEW at \in Times, NEW complete \in BOOLEAN,
             Reconcile(listed, at, complete)
      PROVE  FetchedIsAcked'
  <2>1. /\ DOMAIN checkpoints' \subseteq DOMAIN checkpoints
        /\ \A id \in DOMAIN checkpoints' :
             /\ checkpoints'[id].delivered = checkpoints[id].delivered
             /\ checkpoints'[id].pending = checkpoints[id].pending
             /\ checkpoints'[id].lastFetched = checkpoints[id].lastFetched
    <3>1. CASE complete
      <4>1. at \in Nat
        BY TimesAssumption
      <4> QED
        BY <1>1, <1>6, <3>1, <4>1 DEF Reconcile, ReconcileListed, Retained, MarkAbsent,
             StoreTypeOK, Checkpoint
    <3>2. CASE ~complete
      BY <1>6, <3>2 DEF Reconcile, ReconcileListed
    <3> QED
      BY <3>1, <3>2
  <2>2. acked' = acked
    BY <1>6 DEF Reconcile
  <2> QED
    BY <2>1, <2>2 DEF FetchedIsAcked
<1>7. ASSUME UNCHANGED <<checkpoints, acked>>
      PROVE  FetchedIsAcked'
  BY <1>7 DEF FetchedIsAcked
<1>8. ASSUME NEW id \in Alerts, NEW hash \in Hashes,
             NEW marker \in Markers \cup {NoMarker}, NEW at \in Times,
             EnqueueRefused(id, hash, marker, at)
      PROVE  FetchedIsAcked'
  BY <1>7, <1>8 DEF EnqueueRefused, EnqueueFull, storeVars
<1>9. CASE Restart
  BY <1>7, <1>9 DEF Restart, Reopen
<1>10. CASE UNCHANGED outboxVars
  BY <1>7, <1>10 DEF outboxVars
<1> QED
  BY <1>3, <1>4, <1>5, <1>6, <1>8, <1>9, <1>10 DEF OutboxNext

\* Nothing unchanged is sent again: while the checkpoint of a fetched alert is kept,
\* Enqueue inserts a record only if its content differs from what the topic shows of
\* the alert when its queue has drained.
THEOREM EventsAreChanges == OutboxSpec => NoRepeatedEvent
<1> DEFINE Changed ==
      \A id \in DOMAIN checkpoints, s \in DOMAIN outbox' \ DOMAIN outbox :
        (checkpoints[id].lastFetched > 0 /\ outbox'[s].id = id)
          => outbox'[s].hash # EventualContent(id)
<1>1. OutboxInit => FetchedIsAcked
  BY DEF OutboxInit, StoreInit, FetchedIsAcked
<1>2. OutboxInv /\ FetchedIsAcked /\ [OutboxNext]_outboxVars => FetchedIsAcked'
  BY FetchedStep
<1>3. OutboxInv /\ FetchedIsAcked /\ [OutboxNext]_outboxVars => [Changed]_outboxVars
  <2> SUFFICES ASSUME OutboxInv, FetchedIsAcked, OutboxNext PROVE Changed
    OBVIOUS
  <2>1. ASSUME DOMAIN outbox' \subseteq DOMAIN outbox PROVE Changed
    BY <2>1
  <2>2. ASSUME NEW x \in Alerts, NEW hash \in Hashes, NEW marker, NEW at,
               EnqueueNew(x, hash, marker, at)
        PROVE  Changed
    <3> SUFFICES ASSUME NEW id \in DOMAIN checkpoints,
                        NEW s \in DOMAIN outbox' \ DOMAIN outbox,
                        checkpoints[id].lastFetched > 0, outbox'[s].id = id
                 PROVE  outbox'[s].hash # EventualContent(id)
      OBVIOUS
    <3>1. outbox'[s] = [id |-> x, hash |-> hash]
      BY <2>2 DEF EnqueueNew
    <3>2. id = x /\ outbox'[s].hash = hash /\ Known(x)
      BY <3>1 DEF Known
    <3>3. FileOK /\ StateValid /\ checkpoints[x].pending = NewestHash(x)
      BY <3>2 DEF OutboxInv, FileOK, StateValid
    <3>4. /\ checkpoints[x].pending # hash
          /\ checkpoints[x].pending = NoHash => checkpoints[x].delivered # hash
      BY <2>2, <3>2 DEF EnqueueNew, Unchanged, ReadCheckpoint
    <3>5. CASE QueuedOf(x) # {}
      BY <3>2, <3>3, <3>4, <3>5 DEF EventualContent
    <3>6. CASE QueuedOf(x) = {}
      <4>1. checkpoints[x].pending = NoHash /\ EventualContent(x) = acked[x]
        BY <3>3, <3>6 DEF NewestHash, EventualContent
      <4> QED
        BY <3>2, <3>4, <4>1 DEF FetchedIsAcked
    <3> QED
      BY <3>5, <3>6
  <2>3. ASSUME NEW x \in Alerts, NEW hash \in Hashes,
               NEW marker \in Markers \cup {NoMarker}, NEW at \in Times,
               Enqueue(x, hash, marker, at) \/ EnqueueRefused(x, hash, marker, at)
        PROVE  Changed
    BY <2>1, <2>2, <2>3 DEF Enqueue, EnqueueKnown, EnqueueRefused, EnqueueFull, storeVars
  <2>4. ASSUME NEW x \in Alerts, NEW marker \in Markers \cup {NoMarker}, Seen(x, marker)
        PROVE  Changed
    BY <2>1, <2>4 DEF Seen, MarkSeen
  <2>5. ASSUME NEW s \in DOMAIN outbox, AcknowledgeOldest(s)
        PROVE  Changed
    BY <2>1, <2>5 DEF AcknowledgeOldest, Acknowledge
  <2>6. ASSUME NEW listed \in SUBSET Alerts, NEW at \in Times, NEW complete \in BOOLEAN,
               Reconcile(listed, at, complete)
        PROVE  Changed
    BY <2>1, <2>6 DEF Reconcile, ReconcileListed
  <2>7. CASE Restart
    BY <2>1, <2>7 DEF Restart, Reopen
  <2> QED
    BY <2>3, <2>4, <2>5, <2>6, <2>7 DEF OutboxNext
<1> QED
  BY <1>1, <1>2, <1>3, OutboxInvariance, PTL DEF OutboxSpec, NoRepeatedEvent

-------------------------------------------------------------------------------
(* The alert path *)

\* The marker every listed alert had in the list.
MarkerMaps == UNION {[S -> Markers \cup {NoMarker}] : S \in SUBSET Alerts}

SourceOK ==
  /\ source \in [Alerts -> [hash : Hashes \cup {NoHash}, ver : 0..MaxVersion]]
  /\ \A id \in Present : source[id].ver \in Markers
  /\ now \in Nat

PollType ==
  [pc : {"idle", "classify", "fetch", "health", "buffered", "full", "report"},
   at : Nat, markers : MarkerMaps, complete : BOOLEAN,
   unclassified : SUBSET Alerts, new : SUBSET Alerts, refresh : SUBSET Alerts,
   todo : SUBSET Alerts, deferred : SUBSET Alerts,
   stateOK : BOOLEAN, detailOK : BOOLEAN, events : Nat, full : BOOLEAN]

PollOK ==
  /\ poll \in PollType
  /\ inflight \in [Running -> Hashes \cup {"requested"}]
  /\ poll.unclassified \cup poll.new \cup poll.refresh \cup poll.todo \cup Running
       \subseteq DOMAIN poll.markers
  /\ poll.pc # "classify" => poll.unclassified = {}
  /\ poll.pc # "fetch" => poll.todo = {} /\ Running = {}

FlushType ==
  [pc : {"idle", "publish", "ack", "health", "full", "buffered"},
   batch : SUBSET Nat, size : Nat, why : {"none", "drained", "failed", "acked"},
   events : Nat, full : BOOLEAN]

FlushOK ==
  /\ flush \in FlushType
  /\ recovery \in BOOLEAN
  /\ diag \in Diagnostics

\* The checkpoint holds the marker of the list the poll works on.
Stored(id) == Known(id) /\ checkpoints[id].marker = poll.markers[id]

\* As long as the cycle has not failed, every listed alert is waiting for its
\* classification or its detail, was put off, or is stored; and a failure that
\* the poll knows of is in its flags or already in the snapshot.
Accounted ==
  /\ poll.pc # "idle" /\ ~poll.stateOK => ~diag.pipelineStateOK \/ ~poll.detailOK
  /\ poll.pc = "classify" /\ poll.stateOK /\ poll.detailOK =>
       \A id \in DOMAIN poll.markers :
         \/ id \in poll.unclassified \cup poll.new \cup poll.refresh
         \/ Stored(id)
  /\ poll.pc \notin {"idle", "classify"} /\ poll.stateOK /\ poll.detailOK =>
       \A id \in DOMAIN poll.markers :
         \/ id \in poll.deferred \cup poll.todo \cup Running
         \/ Stored(id)

\* The records 1..k are acknowledged, the others are queued; the topic shows the
\* acknowledged ones and at most the next; a flush works on the oldest queued
\* records, and has just acknowledged record k when it counts the result.
InOrder(k) ==
  /\ k \in 0..sequence
  /\ DOMAIN outbox = (k + 1)..sequence
  /\ topic \in Seq(Nat)
  /\ Len(topic) \in {k, k + 1} /\ Len(topic) <= sequence
  /\ \A i \in 1..Len(topic) : topic[i] = i
  /\ flush.pc \in {"publish", "ack"} =>
       \E m \in (k + 1)..sequence : flush.batch = (k + 1)..m
  /\ flush.pc = "ack" => Len(topic) = k + 1
  /\ flush.pc \in {"health", "full", "buffered"} /\ flush.why = "acked" =>
       k > 0 /\ \E m \in k..sequence : flush.batch = k..m

\* Every sequence the outbox bucket gave out is that of an accepted record.
AcceptedOK ==
  /\ accepted \in Seq(Record)
  /\ Len(accepted) = sequence

FlagsAgree == recovery => ~diag.publisherStateOK

IInv ==
  /\ FileOK
  /\ SourceOK
  /\ PollOK
  /\ FlushOK
  /\ AcceptedOK
  /\ \E k \in Nat : InOrder(k)
  /\ Accounted
  /\ FlagsAgree

-------------------------------------------------------------------------------
(* Lemmas about one state *)

\* The record a flush publishes and acknowledges is the oldest in the queue.
LEMMA CurrentIsOldest ==
  ASSUME IInv, NEW k \in Nat, InOrder(k), flush.pc \in {"publish", "ack"}
  PROVE  /\ Current = k + 1 /\ k + 1 <= sequence
         /\ k + 1 \in DOMAIN outbox
         /\ \A t \in DOMAIN outbox : k + 1 <= t
<1>1. sequence \in Nat
  BY DEF IInv, FileOK, StoreTypeOK
<1>2. PICK m \in (k + 1)..sequence : flush.batch = (k + 1)..m
  BY DEF InOrder
<1>3. Current = k + 1
  BY <1>2, LeastOf DEF Current
<1> QED
  BY <1>1, <1>2, <1>3 DEF InOrder

\* A listed alert and its marker.
LEMMA ListedType ==
  ASSUME PollOK
  PROVE  /\ DOMAIN poll.markers \subseteq Alerts
         /\ poll.markers \in [DOMAIN poll.markers -> Markers \cup {NoMarker}]
         /\ poll.at \in Nat
BY DEF PollOK, PollType, MarkerMaps

-------------------------------------------------------------------------------
(* The file stays valid *)

\* A detail that is stored.
LEMMA DetailFile ==
  ASSUME IInv, NEW id \in Alerts, DetailStored(id)
  PROVE  FileOK'
<1>1. id \in DOMAIN poll.markers /\ inflight[id] \in Hashes
  BY DEF DetailStored, IInv, PollOK
<1>2. poll.markers[id] \in Markers \cup {NoMarker} /\ poll.at \in Nat
  BY <1>1, ListedType DEF IInv
<1> QED
  BY <1>1, <1>2, EnqueueKnownFile, EnqueueNewFile DEF DetailStored, IInv

\* Every step leaves a valid file: no poll, flush or crash makes one that the
\* store calls corrupt.
LEMMA FileStep == IInv /\ [Next]_vars => FileOK'
<1> SUFFICES ASSUME IInv, [Next]_vars PROVE FileOK'
  OBVIOUS
<1> USE DEF IInv
<1>1. CASE UNCHANGED storeVars
  BY <1>1, SameFile
<1>2. ASSUME NEW id \in Alerts, ClassifySeen(id)
      PROVE  FileOK'
  <2>1. id \in DOMAIN poll.markers
    BY <1>2 DEF ClassifySeen, PollOK, PollType
  <2>2. poll.markers[id] \in Markers \cup {NoMarker}
    BY <2>1, ListedType
  <2> QED
    BY <1>2, <2>2, MarkSeenFile DEF ClassifySeen
<1>3. ASSUME NEW id \in Alerts, DetailRefused(id)
      PROVE  FileOK'
  BY <1>1, <1>3 DEF DetailRefused, EnqueueFull
<1>4. CASE PollReconcile
  BY <1>4, ListedType, ReconcileFile DEF PollReconcile, PollOK, PollType
<1>5. CASE FlushAcknowledge
  <2>1. PICK k \in Nat : InOrder(k)
    OBVIOUS
  <2>2. Current \in DOMAIN outbox /\ \A t \in DOMAIN outbox : Current <= t
    BY <1>5, <2>1, CurrentIsOldest DEF FlushAcknowledge
  <2> QED
    BY <1>5, <2>2, AcknowledgeFile DEF FlushAcknowledge
<1>6. CASE CrashRestart
  BY <1>6, ReopenFile DEF CrashRestart
<1>7. CASE PollNext
  BY <1>1, <1>2, <1>3, <1>4, <1>7, DetailFile
     DEF PollNext, PollListFails, PollList, ClassifyTask, ClassifyFails, PollSelect,
         Dispatch, CycleTimeout, DetailArrives, DetailFails, PollReconcileFails,
         PollHealth, PollHealthFails, PollBuffered, PollFull, PollReport
<1>8. CASE FlushNext
  BY <1>1, <1>5, <1>8
     DEF FlushNext, FlushRead, FlushReadFails, PublishOK, PublishFails,
         AcknowledgeFails, FlushHealth, FlushHealthFails, DrainedBuffered,
         DrainedFull, FailedFull, FailedBuffered, AckedFull, AckedBuffered
<1>9. CASE SourceNext \/ UNCHANGED vars
  BY <1>1, <1>9 DEF SourceNext, SourceChanges, Tick, vars
<1> QED
  BY <1>6, <1>7, <1>8, <1>9 DEF Next, Pipeline, Publisher, Environment

-------------------------------------------------------------------------------
(* Server, clock and the local states of poll and flush *)

\* The server only changes through its own steps.
LEMMA SourceStep == IInv /\ [Next]_vars => SourceOK'
<1> SUFFICES ASSUME IInv, [Next]_vars PROVE SourceOK'
  OBVIOUS
<1> USE DEF IInv
<1>1. CASE UNCHANGED <<source, now>>
  BY <1>1 DEF SourceOK, Present
<1>2. ASSUME NEW id \in Alerts, NEW hash \in Hashes \cup {NoHash},
             SourceChanges(id, hash)
      PROVE  SourceOK'
  <2>1. MaxVersion \in Nat /\ Markers = 1..MaxVersion
    BY PipelineAssumption
  <2>2. source[id].ver \in 0..MaxVersion /\ source[id].ver < MaxVersion
    BY <1>2 DEF SourceChanges, SourceOK
  <2>3. /\ source' = [source EXCEPT ![id] = [hash |-> hash, ver |-> source[id].ver + 1]]
        /\ now' = now
    BY <1>2 DEF SourceChanges
  <2>4. source[id].ver + 1 \in 0..MaxVersion /\ source[id].ver + 1 \in Markers
    BY <2>1, <2>2
  <2> HIDE DEF IInv
  <2>5. source' \in [Alerts -> [hash : Hashes \cup {NoHash}, ver : 0..MaxVersion]]
    BY <2>3, <2>4 DEF IInv, SourceOK
  <2>6. ASSUME NEW x \in Present' PROVE source'[x].ver \in Markers
    BY <2>3, <2>4 DEF IInv, SourceOK, Present
  <2> QED
    BY <2>3, <2>5, <2>6 DEF IInv, SourceOK
<1>3. CASE Tick
  BY <1>3 DEF Tick, SourceOK, Present
<1>4. CASE PollNext
  BY <1>1, <1>4
     DEF PollNext, PollListFails, PollList, ClassifyTask, ClassifySeen,
         ClassifyFails, PollSelect, Dispatch, CycleTimeout, DetailArrives,
         DetailFails, DetailStored, DetailRefused, PollReconcile,
         PollReconcileFails, PollHealth, PollHealthFails, PollBuffered, PollFull,
         PollReport
<1> QED
  BY <1>1, <1>2, <1>3, <1>4
     DEF Next, Pipeline, Publisher, Environment, SourceNext, CrashRestart, envVars,
         vars

\* A new cycle begins with the markers of its list.
LEMMA ListPoll ==
  ASSUME IInv, NEW shown \in SUBSET Alerts, NEW complete \in BOOLEAN,
         PollList(shown, complete)
  PROVE  PollOK'
<1>1. /\ shown \subseteq Present
      /\ poll' = [Idle EXCEPT !.pc = "classify", !.at = now,
                              !.markers = [id \in shown |-> Marker(id)],
                              !.complete = complete, !.unclassified = shown]
      /\ inflight' = inflight
  BY DEF PollList
<1>2. [id \in shown |-> Marker(id)] \in [shown -> Markers \cup {NoMarker}]
  BY <1>1 DEF Marker, IInv, SourceOK
<1>3. [id \in shown |-> Marker(id)] \in MarkerMaps
  BY <1>2 DEF MarkerMaps
<1>4. Running = {} /\ now \in Nat
  BY DEF PollList, IInv, PollOK, SourceOK
<1> QED
  BY <1>1, <1>3, <1>4 DEF Idle, IInv, PollOK, PollType, Running

\* What the classification of an alert leaves of the poll's state.
LEMMA ClassifiedEffect ==
  ASSUME PollOK, NEW id
  PROVE  LET q == Classified(id)
         IN  /\ q \in PollType
             /\ q.unclassified = poll.unclassified \ {id}
             /\ q.pc = poll.pc /\ q.markers = poll.markers
             /\ q.new = poll.new /\ q.refresh = poll.refresh
             /\ q.todo = poll.todo /\ q.deferred = poll.deferred
             /\ q.stateOK = poll.stateOK /\ q.detailOK = poll.detailOK
BY DEF PollOK, PollType, Classified

\* The selected details are some of those that are wanted.
LEMMA SelectPoll ==
  ASSUME IInv, PollSelect
  PROVE  PollOK'
<1> DEFINE selected == SelectedNew(poll.new, poll.refresh, LastFetched)
                         \cup SelectedRefresh(poll.new, poll.refresh, LastFetched)
<1>1. selected \subseteq poll.new \cup poll.refresh
  BY DEF SelectedNew, SelectedRefresh, First
<1>2. /\ poll.pc = "classify" /\ poll.unclassified = {}
      /\ poll' = [poll EXCEPT !.pc = "fetch", !.todo = selected,
                              !.deferred = (poll.new \cup poll.refresh) \ selected]
      /\ inflight' = inflight
  BY DEF PollSelect
<1> HIDE DEF selected
<1> QED
  BY <1>1, <1>2 DEF IInv, PollOK, PollType, Running

\* Tasks in the hands of a worker are listed alerts of the cycle that runs.
LEMMA PollStepOK == IInv /\ [Next]_vars => PollOK'
<1> SUFFICES ASSUME IInv, [Next]_vars PROVE PollOK'
  OBVIOUS
<1> USE DEF IInv
<1>1. CASE UNCHANGED <<poll, inflight>>
  BY <1>1 DEF PollOK, PollType, Running
<1>2. ASSUME NEW shown \in SUBSET Alerts, NEW complete \in BOOLEAN,
             PollList(shown, complete)
      PROVE  PollOK'
  BY <1>2, ListPoll
<1>3. ASSUME NEW id \in Alerts, ClassifyTask(id)
      PROVE  PollOK'
  <2> DEFINE q == Classified(id)
  <2>1. /\ q \in PollType /\ q.unclassified = poll.unclassified \ {id}
        /\ q.pc = poll.pc /\ q.markers = poll.markers
        /\ q.new = poll.new /\ q.refresh = poll.refresh /\ q.todo = poll.todo
    BY ClassifiedEffect
  <2>2. /\ poll.pc = "classify" /\ id \in poll.unclassified /\ inflight' = inflight
        /\ \/ poll' = [q EXCEPT !.new = q.new \cup {id}]
           \/ poll' = [q EXCEPT !.refresh = q.refresh \cup {id}]
    BY <1>3 DEF ClassifyTask
  <2> HIDE DEF q
  <2> QED
    BY <2>1, <2>2 DEF PollOK, PollType, Running
<1>4. ASSUME NEW id \in Alerts, ClassifySeen(id) \/ ClassifyFails(id)
      PROVE  PollOK'
  <2> DEFINE q == Classified(id)
  <2>1. /\ q \in PollType /\ q.unclassified = poll.unclassified \ {id}
        /\ q.pc = poll.pc /\ q.markers = poll.markers
        /\ q.new = poll.new /\ q.refresh = poll.refresh /\ q.todo = poll.todo
    BY ClassifiedEffect
  <2>2. /\ poll.pc = "classify" /\ inflight' = inflight
        /\ poll' = q \/ poll' = [q EXCEPT !.stateOK = FALSE]
    BY <1>4 DEF ClassifySeen, ClassifyFails
  <2> HIDE DEF q
  <2> QED
    BY <2>1, <2>2 DEF PollOK, PollType, Running
<1>5. CASE PollSelect
  BY <1>5, SelectPoll
<1>6. ASSUME NEW id \in Alerts, Dispatch(id)
      PROVE  PollOK'
  BY <1>6 DEF Dispatch, SetInflight, PollOK, PollType, Running
<1>7. CASE CycleTimeout
  BY <1>7 DEF CycleTimeout, PollOK, PollType, Running
<1>8. ASSUME NEW id \in Alerts, DetailArrives(id)
      PROVE  PollOK'
  <2>1. source[id].hash \in Hashes
    BY <1>8 DEF DetailArrives, Present, SourceOK
  <2>2. /\ id \in Running
        /\ inflight' = [x \in Running \cup {id} |->
                          IF x = id THEN source[id].hash ELSE inflight[x]]
        /\ poll' = poll
    BY <1>8 DEF DetailArrives, SetInflight
  <2> QED
    BY <2>1, <2>2 DEF PollOK, PollType, Running
<1>9. ASSUME NEW id \in Alerts, DetailFails(id) \/ DetailRefused(id)
      PROVE  PollOK'
  <2>1. /\ inflight' = [x \in Running \ {id} |-> inflight[x]]
        /\ id \in Running
        /\ \/ poll' = [poll EXCEPT !.detailOK = FALSE]
           \/ poll' = [poll EXCEPT !.detailOK = FALSE, !.stateOK = FALSE]
    BY <1>9 DEF DetailFails, DetailRefused, DropInflight
  <2>2. /\ Running' = Running \ {id}
        /\ inflight' \in [Running' -> Hashes \cup {"requested"}]
    BY <2>1 DEF PollOK, Running
  <2>3. /\ poll' \in PollType /\ poll'.pc = poll.pc /\ poll'.markers = poll.markers
        /\ poll'.unclassified = poll.unclassified /\ poll'.todo = poll.todo
        /\ poll'.new = poll.new /\ poll'.refresh = poll.refresh
    BY <2>1 DEF PollOK, PollType
  <2> QED
    BY <2>1, <2>2, <2>3 DEF PollOK
<1>10. ASSUME NEW id \in Alerts, DetailStored(id)
       PROVE  PollOK'
  BY <1>10 DEF DetailStored, DropInflight, PollOK, PollType, Running
<1>11. CASE PollReconcile \/ PollReconcileFails
  BY <1>11 DEF PollReconcile, PollReconcileFails, FetchDone, PollOK, PollType, Running
<1>12. CASE PollHealth \/ PollHealthFails
  <2>1. meta.count \in Nat /\ Full \in BOOLEAN
    BY DEF FileOK, StoreTypeOK, Full
  <2> QED
    BY <1>12, <2>1 DEF PollHealth, PollHealthFails, PollOK, PollType, Running
<1>13. CASE PollBuffered \/ PollFull
  BY <1>13 DEF PollBuffered, PollFull, PollOK, PollType, Running
<1>14. ASSUME poll' = Idle, inflight' = inflight \/ Running' = {},
              poll.pc # "fetch" \/ Running' = {},
              inflight' \in [Running' -> Hashes \cup {"requested"}]
       PROVE  PollOK'
  <2>1. [id \in {} |-> id] \in MarkerMaps
    BY DEF MarkerMaps
  <2> QED
    BY <1>14, <2>1 DEF Idle, PollOK, PollType, Running
<1>15. CASE PollReport
  BY <1>14, <1>15 DEF PollReport, PollOK, PollType, Running
<1>16. CASE CrashRestart
  BY <1>14, <1>16 DEF CrashRestart, Running
<1>17. CASE PollNext
  BY <1>1, <1>2, <1>3, <1>4, <1>5, <1>6, <1>7, <1>8, <1>9, <1>10, <1>11, <1>12,
     <1>13, <1>15, <1>17 DEF PollNext, PollListFails, pollVars
<1>18. CASE Publisher \/ Environment \/ UNCHANGED vars
  BY <1>1, <1>18
     DEF Publisher, Environment, SourceNext, SourceChanges, Tick, pollVars, vars
<1> QED
  BY <1>16, <1>17, <1>18 DEF Next, Pipeline

\* What the poll writes to the snapshot is never the publisher's flag.
LEMMA PollDiag ==
  ASSUME IInv, PollNext
  PROVE  /\ diag' \in Diagnostics
         /\ diag'.publisherStateOK = diag.publisherStateOK
<1> USE DEF IInv
<1>1. diag \in Diagnostics
  BY DEF FlushOK, FlushType
<1>2. /\ poll.events \in Nat /\ poll.full \in BOOLEAN
      /\ (poll.complete /\ poll.detailOK) \in BOOLEAN
  BY DEF PollOK, PollType
<1>3. CASE diag' = diag
  BY <1>1, <1>3
<1>4. CASE PollListFails
  BY <1>1, <1>4 DEF PollListFails, Diagnostics, SetAlertCollectionReady
<1>5. CASE \/ PollReconcile \/ PollReconcileFails \/ PollHealthFails
           \/ \E id \in Alerts : ClassifyFails(id)
  <2>1. diag' \in {diag, SetAlertPipelineStateHealthy(diag, FALSE)}
    BY <1>5 DEF PollReconcile, PollReconcileFails, PollHealthFails, ClassifyFails
  <2> QED
    BY <1>1, <2>1 DEF Diagnostics, SetAlertCollectionReady, SetAlertPipelineStateHealthy,
           SetAlertPublisherStateHealthy, SetAlertStateFull, SetKafkaBuffered
<1>6. CASE PollBuffered \/ PollFull
  <2>1. diag' \in {SetKafkaBuffered(diag, poll.events), SetAlertStateFull(diag, poll.full)}
    BY <1>6 DEF PollBuffered, PollFull
  <2> QED
    BY <1>1, <1>2, <2>1 DEF Diagnostics, SetAlertCollectionReady, SetAlertPipelineStateHealthy,
           SetAlertPublisherStateHealthy, SetAlertStateFull, SetKafkaBuffered
<1>7. CASE PollReport
  <2> DEFINE d == SetAlertCollectionReady(diag, poll.complete /\ poll.detailOK)
  <2>1. d \in Diagnostics /\ d.publisherStateOK = diag.publisherStateOK
    BY <1>1, <1>2 DEF Diagnostics, SetAlertCollectionReady, SetAlertPipelineStateHealthy,
           SetAlertPublisherStateHealthy, SetAlertStateFull, SetKafkaBuffered
  <2>2. diag' \in {d, SetAlertPipelineStateHealthy(d, TRUE)}
    BY <1>7 DEF PollReport
  <2> HIDE DEF d
  <2> QED
    BY <2>1, <2>2 DEF Diagnostics, SetAlertCollectionReady, SetAlertPipelineStateHealthy,
           SetAlertPublisherStateHealthy, SetAlertStateFull, SetKafkaBuffered
<1> QED
  BY <1>3, <1>4, <1>5, <1>6, <1>7
     DEF PollNext, PollList, ClassifyTask, ClassifySeen, PollSelect, Dispatch,
         CycleTimeout, DetailArrives, DetailFails, DetailStored, DetailRefused,
         PollHealth

\* The local state of flush() has its type.
LEMMA FlushTypes ==
  ASSUME IInv, FlushNext
  PROVE  flush' \in FlushType /\ recovery' \in BOOLEAN
<1> USE DEF IInv, FlushOK, FlushType
<1>1. Waiting \in FlushType
  BY DEF Waiting
<1>2. CASE FlushRead
  <2>1. IsFiniteSet(DOMAIN outbox) /\ DOMAIN outbox \subseteq Nat
    BY QueueFinite DEF FileOK, StoreTypeOK
  <2>2. Records(BatchLimit) \in SUBSET DOMAIN outbox
    BY DEF Records
  <2>3. Cardinality(Records(BatchLimit)) \in Nat
    BY <2>1, <2>2, FS_Subset, FS_CardinalityType
  <2>4. Records(BatchLimit) \subseteq Nat
    BY <2>1, <2>2
  <2> DEFINE batch == Records(BatchLimit)
             size == Cardinality(batch)
  <2>5. recovery' = recovery
    BY <1>2 DEF FlushRead
  <2>6. CASE batch = {}
    BY <1>1, <1>2, <2>5, <2>6 DEF FlushRead
  <2>7. CASE batch # {}
    <3>1. flush' = [Waiting EXCEPT !.pc = "publish", !.batch = batch, !.size = size]
      BY <1>2, <2>7 DEF FlushRead
    <3>2. batch \in SUBSET Nat /\ size \in Nat
      BY <2>3, <2>4
    <3> HIDE DEF batch, size
    <3> QED
      BY <1>1, <2>5, <3>1, <3>2
  <2> QED
    BY <2>6, <2>7
<1>3. CASE \/ PublishOK \/ \E written \in BOOLEAN : PublishFails(written)
           \/ FlushAcknowledge
  BY <1>3 DEF PublishOK, PublishFails, FlushAcknowledge
<1>4. CASE FlushHealth
  <2>1. meta.count \in Nat /\ Full \in BOOLEAN
    BY DEF FileOK, StoreTypeOK, Full
  <2> QED
    BY <1>4, <2>1 DEF FlushHealth
<1>5. CASE DrainedBuffered \/ FailedFull \/ AckedFull
  BY <1>5 DEF DrainedBuffered, FailedFull, AckedFull
<1>6. CASE DrainedFull \/ FailedBuffered
  BY <1>1, <1>6 DEF DrainedFull, FailedBuffered
<1>7. CASE AckedBuffered
  <2> DEFINE rest == flush.batch \ {Current}
  <2>1. \/ /\ flush' = [flush EXCEPT !.pc = "publish", !.batch = rest,
                                     !.why = "none", !.events = 0, !.full = FALSE]
           /\ recovery' = recovery
        \/ flush' = Waiting /\ recovery' = FALSE
    BY <1>7 DEF AckedBuffered
  <2>2. rest \in SUBSET Nat
    OBVIOUS
  <2> HIDE DEF rest
  <2>3. [flush EXCEPT !.pc = "publish", !.batch = rest, !.why = "none",
                      !.events = 0, !.full = FALSE] \in FlushType
    BY <2>2
  <2> HIDE DEF FlushType
  <2> QED
    BY <1>1, <2>1, <2>3
<1>8. CASE FlushReadFails \/ AcknowledgeFails \/ FlushHealthFails
  BY <1>1, <1>8 DEF FlushReadFails, AcknowledgeFails, FlushHealthFails, StateError
<1> QED
  BY <1>2, <1>3, <1>4, <1>5, <1>6, <1>7, <1>8 DEF FlushNext

\* What the publisher writes to the snapshot is never the poll's flag, and a
\* flush that still has a state error to recover from does not report itself
\* healthy.
LEMMA FlushDiag ==
  ASSUME IInv, FlushNext
  PROVE  /\ diag' \in Diagnostics
         /\ diag'.pipelineStateOK = diag.pipelineStateOK
         /\ recovery' => ~diag'.publisherStateOK
<1> USE DEF IInv, FlushOK, FlushType, FlagsAgree
<1>1. CASE diag' = diag /\ recovery' = recovery
  BY <1>1
<1>2. CASE FlushReadFails \/ AcknowledgeFails \/ FlushHealthFails
  <2> DEFINE d == SetAlertPublisherStateHealthy(diag, FALSE)
  <2>1. /\ d \in Diagnostics /\ d.pipelineStateOK = diag.pipelineStateOK
        /\ d.publisherStateOK = FALSE
    BY DEF Diagnostics, SetAlertCollectionReady, SetAlertPipelineStateHealthy,
           SetAlertPublisherStateHealthy, SetAlertStateFull, SetKafkaBuffered
  <2>2. PICK n \in Nat : diag' = SetKafkaBuffered(d, n)
    BY <1>2 DEF FlushReadFails, AcknowledgeFails, FlushHealthFails, StateError
  <2> HIDE DEF d
  <2> QED
    BY <2>1, <2>2 DEF Diagnostics, SetAlertCollectionReady, SetAlertPipelineStateHealthy,
           SetAlertPublisherStateHealthy, SetAlertStateFull, SetKafkaBuffered
<1>3. CASE DrainedBuffered \/ FailedBuffered \/ AckedFull
  <2>1. /\ diag' \in {SetKafkaBuffered(diag, flush.events),
                      SetAlertStateFull(diag, flush.full)}
        /\ recovery' = recovery
    BY <1>3 DEF DrainedBuffered, FailedBuffered, AckedFull
  <2> QED
    BY <2>1 DEF Diagnostics, SetAlertCollectionReady, SetAlertPipelineStateHealthy,
           SetAlertPublisherStateHealthy, SetAlertStateFull, SetKafkaBuffered
<1>4. CASE DrainedFull
  <2> DEFINE d == SetAlertStateFull(diag, flush.full)
  <2>1. d \in Diagnostics /\ d.pipelineStateOK = diag.pipelineStateOK
    BY DEF Diagnostics, SetAlertCollectionReady, SetAlertPipelineStateHealthy,
           SetAlertPublisherStateHealthy, SetAlertStateFull, SetKafkaBuffered
  <2>2. diag' = SetAlertPublisherStateHealthy(d, TRUE) /\ recovery' = FALSE
    BY <1>4 DEF DrainedFull
  <2> HIDE DEF d
  <2> QED
    BY <2>1, <2>2 DEF Diagnostics, SetAlertCollectionReady, SetAlertPipelineStateHealthy,
           SetAlertPublisherStateHealthy, SetAlertStateFull, SetKafkaBuffered
<1>5. CASE FailedFull
  <2> DEFINE d == SetAlertStateFull(diag, flush.full)
  <2>1. /\ d \in Diagnostics /\ d.pipelineStateOK = diag.pipelineStateOK
        /\ d.publisherStateOK = diag.publisherStateOK
    BY DEF Diagnostics, SetAlertCollectionReady, SetAlertPipelineStateHealthy,
           SetAlertPublisherStateHealthy, SetAlertStateFull, SetKafkaBuffered
  <2>2. /\ diag' = IF recovery THEN d ELSE SetAlertPublisherStateHealthy(d, TRUE)
        /\ recovery' = recovery
    BY <1>5 DEF FailedFull
  <2> HIDE DEF d
  <2> QED
    BY <2>1, <2>2 DEF Diagnostics, SetAlertCollectionReady, SetAlertPipelineStateHealthy,
           SetAlertPublisherStateHealthy, SetAlertStateFull, SetKafkaBuffered
<1>6. CASE AckedBuffered
  <2> DEFINE d == SetKafkaBuffered(diag, flush.events)
  <2>1. /\ d \in Diagnostics /\ d.pipelineStateOK = diag.pipelineStateOK
        /\ d.publisherStateOK = diag.publisherStateOK
    BY DEF Diagnostics, SetAlertCollectionReady, SetAlertPipelineStateHealthy,
           SetAlertPublisherStateHealthy, SetAlertStateFull, SetKafkaBuffered
  <2>2. \/ diag' = d /\ recovery' = recovery
        \/ diag' = SetAlertPublisherStateHealthy(d, TRUE) /\ recovery' = FALSE
    BY <1>6 DEF AckedBuffered
  <2> HIDE DEF d
  <2>3. CASE diag' = d /\ recovery' = recovery
    BY <2>1, <2>3
  <2>4. CASE diag' = SetAlertPublisherStateHealthy(d, TRUE) /\ recovery' = FALSE
    BY <2>1, <2>4 DEF Diagnostics, SetAlertPublisherStateHealthy
  <2> QED
    BY <2>2, <2>3, <2>4
<1> QED
  BY <1>1, <1>2, <1>3, <1>4, <1>5, <1>6
     DEF FlushNext, FlushRead, PublishOK, PublishFails, FlushAcknowledge, FlushHealth

\* The publisher's state and flags after any step.
LEMMA PublisherStep == IInv /\ [Next]_vars => FlushOK' /\ FlagsAgree'
<1> SUFFICES ASSUME IInv, [Next]_vars PROVE FlushOK' /\ FlagsAgree'
  OBVIOUS
<1>1. CASE Publisher
  BY <1>1, FlushTypes, FlushDiag DEF Publisher, FlushOK, FlushType, FlagsAgree
<1>2. CASE Pipeline
  BY <1>2, PollDiag DEF Pipeline, publisherVars, IInv, FlushOK, FlushType, FlagsAgree
<1>3. CASE Environment \/ UNCHANGED vars
  BY <1>3 DEF Environment, SourceNext, SourceChanges, Tick, publisherVars, vars,
              IInv, FlushOK, FlushType, FlagsAgree
<1>4. CASE CrashRestart
  BY <1>4 DEF CrashRestart, NoDiagnostics, Diagnostics, Waiting, FlushOK, FlushType, FlagsAgree
<1> QED
  BY <1>1, <1>2, <1>3, <1>4 DEF Next

-------------------------------------------------------------------------------
(* The topic and the queue *)

\* Publishing the next record adds it to the topic, or finds it there.
LEMMA WriteEffect ==
  ASSUME NEW k \in Nat, InOrder(k), Write(k + 1)
  PROVE  /\ topic' \in Seq(Nat)
         /\ Len(topic') = k + 1
         /\ \A i \in 1..Len(topic') : topic'[i] = i
         /\ \/ topic' = topic
            \/ Len(topic) = k /\ topic' = Append(topic, k + 1)
<1>1. /\ topic \in Seq(Nat) /\ Len(topic) \in Nat /\ Len(topic) \in {k, k + 1}
      /\ \A i \in 1..Len(topic) : topic[i] = i
  BY DEF InOrder
<1>2. CASE Len(topic) = k + 1
  <2>1. topic # <<>> /\ topic[Len(topic)] = k + 1
    BY <1>1, <1>2
  <2>2. topic' = topic
    BY <2>1 DEF Write
  <2> QED
    BY <2>2, <1>1, <1>2
<1>3. CASE Len(topic) = k
  <2>1. ~(topic # <<>> /\ topic[Len(topic)] = k + 1)
    BY <1>1, <1>3
  <2>2. topic' = Append(topic, k + 1)
    BY <2>1 DEF Write
  <2>3. topic' \in Seq(Nat) /\ Len(topic') = k + 1
    BY <2>2, <1>1, <1>3
  <2>4. \A i \in 1..Len(topic') : topic'[i] = i
    BY <2>2, <2>3, <1>1, <1>3
  <2> QED
    BY <2>2, <2>3, <2>4, <1>3
<1> QED
  BY <1>1, <1>2, <1>3

\* The queue and the topic do not change, and the flush is at rest.
LEMMA OrderAtRest ==
  ASSUME NEW k \in Nat, InOrder(k), UNCHANGED <<outbox, sequence, topic>>,
         flush' = Waiting
  PROVE  InOrder(k)'
BY DEF InOrder, Waiting

\* A record inserted by a worker goes to the end of the queue.
LEMMA InsertOrder ==
  ASSUME IInv, NEW k \in Nat, InOrder(k), NEW id \in Alerts, DetailStored(id),
         UNCHANGED <<flush, topic>>
  PROVE  AcceptedOK' /\ InOrder(k)'
<1>1. /\ id \in DOMAIN poll.markers /\ inflight[id] \in Hashes
      /\ sequence \in Nat
  BY DEF DetailStored, IInv, PollOK, FileOK, StoreTypeOK
<1>2. CASE EnqueueKnown(id, inflight[id], poll.markers[id], poll.at)
           /\ UNCHANGED accepted
  BY <1>2 DEF EnqueueKnown, IInv, AcceptedOK, InOrder
<1>3. CASE EnqueueNew(id, inflight[id], poll.markers[id], poll.at)
           /\ accepted' = Append(accepted, [id |-> id, hash |-> inflight[id]])
  <2>1. [id |-> id, hash |-> inflight[id]] \in Record
    BY <1>1 DEF Record
  <2>2. sequence' = sequence + 1 /\ DOMAIN outbox' = DOMAIN outbox \cup {sequence + 1}
    BY <1>3 DEF EnqueueNew
  <2>3. AcceptedOK'
    BY <1>3, <2>1, <2>2 DEF IInv, AcceptedOK
  <2>4. DOMAIN outbox' = (k + 1)..sequence'
    BY <1>1, <2>2 DEF InOrder
  <2>5. InOrder(k)'
    <3>1. (k + 1)..sequence \subseteq (k + 1)..sequence' /\ k..sequence \subseteq k..sequence'
      BY <1>1, <2>2
    <3> QED
      BY <1>1, <2>2, <2>4, <3>1 DEF InOrder
  <2> QED
    BY <2>3, <2>5
<1> QED
  BY <1>2, <1>3 DEF DetailStored

\* A publication, confirmed or not.
LEMMA PublishOrder ==
  ASSUME IInv, NEW k \in Nat, InOrder(k),
         PublishOK \/ \E written \in BOOLEAN : PublishFails(written)
  PROVE  InOrder(k)'
<1>1. flush.pc = "publish" /\ UNCHANGED <<outbox, sequence>>
  BY DEF PublishOK, PublishFails, storeVars
<1>2. Current = k + 1 /\ k + 1 <= sequence
  BY <1>1, CurrentIsOldest
<1>3. sequence \in Nat
  BY DEF IInv, FileOK, StoreTypeOK
<1>4. Write(Current) => /\ topic' \in Seq(Nat) /\ Len(topic') = k + 1
                        /\ \A i \in 1..Len(topic') : topic'[i] = i
  BY <1>2, WriteEffect
<1>5. CASE PublishOK
  <2>1. flush'.pc = "ack" /\ flush'.batch = flush.batch
    BY <1>5 DEF PublishOK, IInv, FlushOK, FlushType
  <2> QED
    BY <1>1, <1>2, <1>3, <1>4, <1>5, <2>1 DEF PublishOK, InOrder
<1>6. ASSUME NEW written \in BOOLEAN, PublishFails(written)
      PROVE  InOrder(k)'
  <2>1. flush'.pc = "health" /\ flush'.why = "failed"
    BY <1>6 DEF PublishFails, IInv, FlushOK, FlushType
  <2>2. CASE Write(Current)
    BY <1>1, <1>2, <1>3, <1>4, <2>1, <2>2 DEF InOrder
  <2>3. CASE topic' = topic
    BY <1>1, <2>1, <2>3 DEF InOrder
  <2> QED
    BY <1>6, <2>2, <2>3 DEF PublishFails
<1> QED
  BY <1>5, <1>6

\* The acknowledgement of record k + 1.
LEMMA AcknowledgeOrder ==
  ASSUME IInv, NEW k \in Nat, InOrder(k), FlushAcknowledge
  PROVE  InOrder(k + 1)'
<1>1. /\ Current = k + 1 /\ k + 1 <= sequence /\ k + 1 \in DOMAIN outbox
      /\ sequence \in Nat
  BY CurrentIsOldest DEF FlushAcknowledge, IInv, FileOK, StoreTypeOK
<1>2. /\ DOMAIN outbox' = DOMAIN outbox \ {k + 1}
      /\ sequence' = sequence /\ topic' = topic
  BY <1>1 DEF FlushAcknowledge, Acknowledge
<1>3. DOMAIN outbox' = (k + 2)..sequence
  BY <1>1, <1>2 DEF InOrder
<1>4. flush'.pc = "health" /\ flush'.batch = flush.batch /\ flush.pc = "ack"
  BY DEF FlushAcknowledge, IInv, FlushOK, FlushType
<1>5. \E m \in (k + 1)..sequence : flush'.batch = (k + 1)..m
  BY <1>4 DEF InOrder
<1>6. Len(topic) = k + 1
  BY <1>4 DEF InOrder
<1> QED
  BY <1>1, <1>2, <1>3, <1>4, <1>5, <1>6 DEF InOrder

\* The other steps of the flush.
LEMMA FlushOrder ==
  ASSUME IInv, NEW k \in Nat, InOrder(k), FlushNext, ~FlushAcknowledge
  PROVE  InOrder(k)'
<1>1. sequence \in Nat /\ flush \in FlushType
  BY DEF IInv, FileOK, StoreTypeOK, FlushOK
<1>2. CASE FlushRead
  <2>1. UNCHANGED <<outbox, sequence, topic>>
    BY <1>2 DEF FlushRead, storeVars
  <2>2. CASE Records(BatchLimit) = {}
    <3>1. flush'.pc = "health" /\ flush'.why = "drained"
      BY <1>2, <2>2 DEF FlushRead, Waiting
    <3> QED
      BY <2>1, <3>1 DEF InOrder
  <2>3. CASE Records(BatchLimit) # {}
    <3>1. flush'.pc = "publish" /\ flush'.batch = Records(BatchLimit)
      BY <1>2, <2>3 DEF FlushRead, Waiting
    <3>2. \E m \in (k + 1)..sequence : Records(BatchLimit) = (k + 1)..m
      BY <1>1, <2>3, BatchOfInterval, PublisherAssumption DEF InOrder
    <3> QED
      BY <2>1, <3>1, <3>2 DEF InOrder
  <2> QED
    BY <2>2, <2>3
<1>3. CASE FlushHealth
  <2>1. /\ flush.pc = "health" /\ flush'.pc \in {"full", "buffered"}
        /\ flush'.why = flush.why /\ flush'.batch = flush.batch
        /\ UNCHANGED <<outbox, sequence, topic>>
    BY <1>1, <1>3 DEF FlushHealth, FlushType, storeVars
  <2> QED
    BY <2>1 DEF InOrder
<1>4. CASE DrainedBuffered \/ FailedFull
  <2>1. /\ flush'.pc \in {"full", "buffered"} /\ flush'.why # "acked"
        /\ UNCHANGED <<outbox, sequence, topic>>
    BY <1>1, <1>4 DEF DrainedBuffered, FailedFull, FlushType, storeVars
  <2> QED
    BY <2>1 DEF InOrder
<1>5. CASE AckedFull
  <2>1. /\ flush.pc = "full" /\ flush.why = "acked" /\ flush'.pc = "buffered"
        /\ flush'.batch = flush.batch /\ UNCHANGED <<outbox, sequence, topic>>
    BY <1>1, <1>5 DEF AckedFull, FlushType, storeVars
  <2> QED
    BY <2>1 DEF InOrder
<1>6. CASE AckedBuffered
  <2>1. UNCHANGED <<outbox, sequence, topic>>
    BY <1>6 DEF AckedBuffered, storeVars
  <2>2. PICK m \in k..sequence : flush.batch = k..m
    BY <1>6 DEF AckedBuffered, InOrder
  <2>3. Current = k
    BY <1>1, <2>2, LeastOf DEF Current
  <2>4. flush.batch \ {Current} = (k + 1)..m
    BY <1>1, <2>2, <2>3
  <2>5. CASE (k + 1)..m = {}
    BY <1>6, <2>1, <2>4, <2>5, OrderAtRest DEF AckedBuffered
  <2>6. CASE (k + 1)..m # {}
    <3>1. flush'.pc = "publish" /\ flush'.batch = (k + 1)..m
      BY <1>1, <1>6, <2>4, <2>6 DEF AckedBuffered, FlushType
    <3>2. m \in (k + 1)..sequence
      BY <1>1, <2>6
    <3> QED
      BY <2>1, <3>1, <3>2 DEF InOrder
  <2> QED
    BY <2>5, <2>6
<1>7. CASE \/ FlushReadFails \/ AcknowledgeFails \/ FlushHealthFails
           \/ DrainedFull \/ FailedBuffered
  BY <1>7, OrderAtRest
     DEF FlushReadFails, AcknowledgeFails, FlushHealthFails, DrainedFull,
         FailedBuffered, StateError, storeVars
<1> QED
  BY <1>2, <1>3, <1>4, <1>5, <1>6, <1>7, PublishOrder DEF FlushNext

\* A poll step other than a stored detail inserts nothing.
LEMMA PollInsertsNothing ==
  ASSUME PollNext, \A id \in Alerts : ~DetailStored(id)
  PROVE  UNCHANGED <<outbox, sequence, accepted>>
BY DEF PollNext, PollListFails, PollList, ClassifyTask, ClassifySeen, MarkSeen,
       ClassifyFails, PollSelect, Dispatch, CycleTimeout, DetailArrives,
       DetailFails, DetailRefused, EnqueueFull, PollReconcile, ReconcileListed,
       PollReconcileFails, PollHealth, PollHealthFails, PollBuffered, PollFull,
       PollReport, storeVars

\* After every step the topic and the queue are neighbouring intervals.
LEMMA OrderStep == IInv /\ [Next]_vars => AcceptedOK' /\ \E k \in Nat : InOrder(k)'
<1> SUFFICES ASSUME IInv, [Next]_vars
             PROVE  AcceptedOK' /\ \E k \in Nat : InOrder(k)'
  OBVIOUS
<1>1. PICK k \in Nat : InOrder(k)
  BY DEF IInv
<1>2. CASE UNCHANGED <<outbox, sequence, accepted, topic, flush>>
  <2>1. AcceptedOK' /\ InOrder(k)'
    BY <1>1, <1>2 DEF IInv, AcceptedOK, InOrder
  <2> QED
    BY <2>1
<1>3. CASE Pipeline
  BY <1>1, <1>2, <1>3, InsertOrder, PollInsertsNothing DEF Pipeline, publisherVars
<1>4. CASE Publisher
  <2>1. AcceptedOK'
    <3>1. sequence' = sequence /\ accepted' = accepted
      BY <1>4 DEF Publisher, envVars, FlushNext, FlushRead, FlushReadFails, PublishOK,
           PublishFails, FlushAcknowledge, Acknowledge, AcknowledgeFails, FlushHealth,
           FlushHealthFails, DrainedBuffered, DrainedFull, FailedFull, FailedBuffered,
           AckedFull, AckedBuffered, storeVars
    <3> QED
      BY <3>1 DEF IInv, AcceptedOK
  <2>2. CASE FlushAcknowledge
    <3>1. InOrder(k + 1)' /\ k + 1 \in Nat
      BY <1>1, <2>2, AcknowledgeOrder
    <3> QED
      BY <2>1, <3>1
  <2>3. CASE ~FlushAcknowledge
    BY <1>1, <1>4, <2>1, <2>3, FlushOrder DEF Publisher
  <2> QED
    BY <2>2, <2>3
<1>5. CASE Environment \/ UNCHANGED vars
  BY <1>2, <1>5
     DEF Environment, SourceNext, SourceChanges, Tick, publisherVars, storeVars, vars,
         envVars
<1>6. CASE CrashRestart
  <2>1. UNCHANGED storeVars
    BY <1>6, ReopenFile DEF CrashRestart, IInv
  <2>2. InOrder(k)'
    BY <1>1, <1>6, <2>1, OrderAtRest DEF CrashRestart, storeVars
  <2> QED
    BY <1>6, <2>1, <2>2 DEF CrashRestart, IInv, AcceptedOK, storeVars
<1> QED
  BY <1>3, <1>4, <1>5, <1>6 DEF Next

-------------------------------------------------------------------------------
(* What the poll knows of every listed alert *)

\* Both ways to write an alert's checkpoint in a cycle give it the marker of the
\* list and leave the other checkpoints alone.
LEMMA MarkEffect ==
  ASSUME IInv, NEW id \in Alerts, ClassifySeen(id) \/ DetailStored(id)
  PROVE  /\ DOMAIN checkpoints' = DOMAIN checkpoints \cup {id}
         /\ checkpoints'[id].marker = poll.markers[id]
         /\ \A x \in DOMAIN checkpoints \ {id} : checkpoints'[x] = checkpoints[x]
<1> DEFINE marker == poll.markers[id]
           hash == inflight[id]
           seen == [ReadCheckpoint(id) EXCEPT !.marker = marker, !.absentSince = 0]
           known == Observed(id, marker, poll.at)
           new == [Observed(id, marker, poll.at) EXCEPT !.pending = hash]
<1>1. ReadCheckpoint(id) \in Checkpoint
  BY ReadType DEF IInv, FileOK
<1>2. seen.marker = marker /\ known.marker = marker
  BY <1>1 DEF Checkpoint, Observed
<1>3. new.marker = marker
  BY <1>1 DEF Checkpoint, Observed
<1>4. \E c \in {seen, known, new} : PutCheckpoint(id, c)
  BY DEF ClassifySeen, DetailStored, MarkSeen, EnqueueKnown, EnqueueNew
<1> HIDE DEF marker, hash, seen, known, new
<1>5. PICK c : PutCheckpoint(id, c) /\ c.marker = marker
  BY <1>2, <1>3, <1>4
<1> QED
  BY <1>5 DEF PutCheckpoint, marker

\* A step of another actor: it keeps every marker and the poll's flag.
LEMMA AccountedByOthers ==
  ASSUME Accounted, UNCHANGED <<poll, inflight>>,
         diag'.pipelineStateOK = diag.pipelineStateOK,
         DOMAIN checkpoints' = DOMAIN checkpoints,
         \A id \in DOMAIN checkpoints : checkpoints'[id].marker = checkpoints[id].marker
  PROVE  Accounted'
BY DEF Accounted, Stored, Known, Running

\* Classification of one alert.
LEMMA ClassifyAccounted ==
  ASSUME IInv, NEW id \in Alerts,
         ClassifyTask(id) \/ ClassifySeen(id) \/ ClassifyFails(id)
  PROVE  Accounted'
<1> DEFINE q == Classified(id)
<1>1. /\ q \in PollType /\ q.unclassified = poll.unclassified \ {id}
      /\ q.pc = poll.pc /\ q.markers = poll.markers
      /\ q.new = poll.new /\ q.refresh = poll.refresh
      /\ q.stateOK = poll.stateOK /\ q.detailOK = poll.detailOK
  BY ClassifiedEffect DEF IInv
<1>2. poll.pc = "classify" /\ id \in poll.unclassified
  BY DEF ClassifyTask, ClassifySeen, ClassifyFails
<1>3. CASE ClassifyTask(id)
  <2>1. /\ \/ poll' = [q EXCEPT !.new = q.new \cup {id}]
           \/ poll' = [q EXCEPT !.refresh = q.refresh \cup {id}]
        /\ UNCHANGED <<checkpoints, diag>>
    BY <1>3 DEF ClassifyTask, storeVars
  <2> HIDE DEF q
  <2>2. /\ poll'.pc = "classify" /\ poll'.markers = poll.markers
        /\ poll'.stateOK = poll.stateOK /\ poll'.detailOK = poll.detailOK
        /\ poll'.unclassified = poll.unclassified \ {id}
        /\ poll.new \cup poll.refresh \cup {id} \subseteq poll'.new \cup poll'.refresh
    BY <1>1, <1>2, <2>1 DEF PollType
  <2> QED
    BY <1>2, <2>1, <2>2 DEF IInv, Accounted, Stored, Known
<1>4. CASE ClassifySeen(id)
  <2>1. poll' = q /\ diag' = diag
    BY <1>4 DEF ClassifySeen
  <2>2. /\ DOMAIN checkpoints' = DOMAIN checkpoints \cup {id}
        /\ checkpoints'[id].marker = poll.markers[id]
        /\ \A x \in DOMAIN checkpoints \ {id} : checkpoints'[x] = checkpoints[x]
    BY <1>4, MarkEffect
  <2> HIDE DEF q
  <2> QED
    BY <1>1, <1>2, <2>1, <2>2 DEF IInv, Accounted, Stored, Known
<1>5. CASE ClassifyFails(id)
  <2>1. /\ poll' = [q EXCEPT !.stateOK = FALSE]
        /\ diag' = SetAlertPipelineStateHealthy(diag, FALSE)
    BY <1>5 DEF ClassifyFails
  <2> HIDE DEF q
  <2>2. poll'.stateOK = FALSE
    BY <1>1, <2>1 DEF PollType
  <2>3. diag'.pipelineStateOK = FALSE
    BY <2>1 DEF IInv, FlushOK, Diagnostics, SetAlertPipelineStateHealthy
  <2> QED
    BY <2>2, <2>3 DEF Accounted
<1> QED
  BY <1>3, <1>4, <1>5

\* What is selected is to be fetched, what is not is put off.
LEMMA SelectAccounted ==
  ASSUME IInv, PollSelect
  PROVE  Accounted'
<1> DEFINE selected == SelectedNew(poll.new, poll.refresh, LastFetched)
                         \cup SelectedRefresh(poll.new, poll.refresh, LastFetched)
<1>1. /\ poll.pc = "classify" /\ poll.unclassified = {}
      /\ poll' = [poll EXCEPT !.pc = "fetch", !.todo = selected,
                              !.deferred = (poll.new \cup poll.refresh) \ selected]
      /\ UNCHANGED <<checkpoints, diag>>
  BY DEF PollSelect, storeVars
<1> HIDE DEF selected
<1>2. /\ poll'.pc = "fetch" /\ poll'.markers = poll.markers
      /\ poll'.stateOK = poll.stateOK /\ poll'.detailOK = poll.detailOK
      /\ poll.new \cup poll.refresh \subseteq poll'.deferred \cup poll'.todo
  BY <1>1 DEF IInv, PollOK, PollType
<1> QED
  BY <1>1, <1>2 DEF IInv, Accounted, Stored, Known

\* The steps of the detail workers.
LEMMA FetchAccounted ==
  ASSUME IInv, NEW id \in Alerts,
         \/ Dispatch(id) \/ DetailArrives(id) \/ DetailFails(id)
         \/ DetailStored(id) \/ DetailRefused(id)
  PROVE  Accounted'
<1>1. poll \in PollType /\ (Running # {} => poll.pc = "fetch")
  BY DEF IInv, PollOK
<1>2. CASE Dispatch(id)
  <2>1. /\ poll' = [poll EXCEPT !.todo = poll.todo \ {id}]
        /\ Running' = Running \cup {id} /\ UNCHANGED <<checkpoints, diag>>
    BY <1>2 DEF Dispatch, SetInflight, Running, storeVars
  <2>2. /\ poll'.pc = poll.pc /\ poll'.markers = poll.markers
        /\ poll'.stateOK = poll.stateOK /\ poll'.detailOK = poll.detailOK
        /\ poll'.deferred = poll.deferred /\ poll'.todo = poll.todo \ {id}
    BY <1>1, <2>1 DEF PollType
  <2>3. poll.pc = "fetch"
    BY <1>2 DEF Dispatch
  <2> QED
    BY <2>1, <2>2, <2>3 DEF IInv, Accounted, Stored, Known
<1>3. CASE DetailFails(id) \/ DetailRefused(id)
  <2>1. poll'.detailOK = FALSE
    BY <1>1, <1>3 DEF DetailFails, DetailRefused, PollType
  <2> QED
    BY <2>1 DEF Accounted
<1>4. CASE DetailArrives(id)
  <2>1. poll' = poll /\ Running' = Running /\ UNCHANGED <<checkpoints, diag>>
    BY <1>4 DEF DetailArrives, SetInflight, Running, storeVars
  <2> QED
    BY <2>1 DEF IInv, Accounted, Stored, Known
<1>5. CASE DetailStored(id)
  <2>1. poll' = poll /\ Running' = Running \ {id} /\ diag' = diag /\ id \in Running
    BY <1>5 DEF DetailStored, DropInflight, Running
  <2>2. /\ DOMAIN checkpoints' = DOMAIN checkpoints \cup {id}
        /\ checkpoints'[id].marker = poll.markers[id]
        /\ \A x \in DOMAIN checkpoints \ {id} : checkpoints'[x] = checkpoints[x]
    BY <1>5, MarkEffect
  <2>3. poll.pc = "fetch"
    BY <1>1, <2>1
  <2> QED
    BY <2>1, <2>2, <2>3 DEF IInv, Accounted, Stored, Known
<1> QED
  BY <1>2, <1>3, <1>4, <1>5

\* The reconciliation keeps the checkpoint of every listed alert.
LEMMA ReconcileAccounted ==
  ASSUME IInv, PollReconcile
  PROVE  Accounted'
<1>1. /\ poll.pc = "fetch" /\ poll.todo = {} /\ Running = {}
      /\ ReconcileListed(DOMAIN poll.markers, poll.at, poll.complete)
      /\ inflight' = inflight
  BY DEF PollReconcile, FetchDone
<1>2. poll \in PollType /\ diag \in Diagnostics
  BY DEF IInv, PollOK, FlushOK
<1>3. /\ \A id \in DOMAIN checkpoints \cap DOMAIN poll.markers : id \in DOMAIN checkpoints'
      /\ \A id \in DOMAIN checkpoints \cap DOMAIN checkpoints' :
           checkpoints'[id].marker = checkpoints[id].marker
  <2>1. CASE poll.complete
    <3>1. poll.at \in Nat
      BY <1>2 DEF PollType
    <3> QED
      BY <1>1, <2>1, <3>1, ReconcileEffect DEF IInv, ReconcileListed
  <2>2. CASE ~poll.complete
    BY <1>1, <2>2 DEF ReconcileListed
  <2> QED
    BY <2>1, <2>2
<1> DEFINE ok == /\ poll.stateOK
                 /\ ~ReconcileFull(DOMAIN poll.markers, poll.at, poll.complete)
<1>4. /\ poll' = [poll EXCEPT !.pc = "health", !.stateOK = ok]
      /\ ~ok => diag' = SetAlertPipelineStateHealthy(diag, FALSE)
      /\ ok \in BOOLEAN /\ (ok => poll.stateOK)
  BY DEF PollReconcile
<1> HIDE DEF ok
<1>5. /\ poll'.pc = "health" /\ poll'.stateOK = ok /\ poll'.markers = poll.markers
      /\ poll'.detailOK = poll.detailOK /\ poll'.deferred = poll.deferred
      /\ poll'.todo = poll.todo
  BY <1>2, <1>4 DEF PollType
<1>6. CASE ok
  BY <1>1, <1>3, <1>4, <1>5, <1>6 DEF IInv, Accounted, Stored, Known, Running
<1>7. CASE ~ok
  <2>1. diag'.pipelineStateOK = FALSE
    BY <1>2, <1>4, <1>7 DEF Diagnostics, SetAlertPipelineStateHealthy
  <2> QED
    BY <2>1, <1>5, <1>7 DEF Accounted
<1> QED
  BY <1>6, <1>7

\* The end of the cycle: a failure is written to the snapshot where it is found.
LEMMA EndAccounted ==
  ASSUME IInv, \/ PollReconcileFails \/ PollHealth \/ PollHealthFails
               \/ PollBuffered \/ PollFull \/ PollReport
  PROVE  Accounted'
<1>1. poll \in PollType /\ diag \in Diagnostics
  BY DEF IInv, PollOK, FlushOK
<1>2. CASE PollReconcileFails \/ PollHealthFails
  <2>1. poll'.stateOK = FALSE
    BY <1>1, <1>2 DEF PollReconcileFails, PollHealthFails, PollType
  <2>2. diag'.pipelineStateOK = FALSE
    BY <1>1, <1>2 DEF PollReconcileFails, PollHealthFails, Diagnostics,
         SetAlertPipelineStateHealthy
  <2> QED
    BY <2>1, <2>2 DEF Accounted
<1>3. CASE PollHealth \/ PollBuffered \/ PollFull
  <2>1. /\ poll.pc \notin {"idle", "classify"} /\ poll'.pc \notin {"idle", "classify"}
        /\ poll'.stateOK = poll.stateOK /\ poll'.detailOK = poll.detailOK
        /\ poll'.markers = poll.markers /\ poll'.deferred = poll.deferred
        /\ poll'.todo = poll.todo /\ UNCHANGED <<inflight, checkpoints>>
    BY <1>1, <1>3 DEF PollHealth, PollBuffered, PollFull, PollType, storeVars
  <2>2. diag'.pipelineStateOK = diag.pipelineStateOK
    BY <1>1, <1>3 DEF PollHealth, PollBuffered, PollFull, Diagnostics,
         SetKafkaBuffered, SetAlertStateFull
  <2> QED
    BY <2>1, <2>2 DEF IInv, Accounted, Stored, Known, Running
<1>4. CASE PollReport
  BY <1>4 DEF PollReport, Idle, Accounted
<1> QED
  BY <1>2, <1>3, <1>4

\* After every step every listed alert is accounted for.
LEMMA AccountedStep == IInv /\ [Next]_vars => Accounted'
<1> SUFFICES ASSUME IInv, [Next]_vars PROVE Accounted'
  OBVIOUS
<1>1. CASE PollListFails
  <2>1. diag'.pipelineStateOK = diag.pipelineStateOK
    BY <1>1 DEF PollListFails, IInv, FlushOK, Diagnostics, SetAlertCollectionReady
  <2> QED
    BY <1>1, <2>1, AccountedByOthers DEF PollListFails, IInv, pollVars, storeVars
<1>2. ASSUME NEW shown \in SUBSET Alerts, NEW complete \in BOOLEAN,
             PollList(shown, complete)
      PROVE  Accounted'
  BY <1>2 DEF PollList, Idle, Accounted
<1>3. CASE CycleTimeout
  <2>1. poll'.detailOK = FALSE
    BY <1>3 DEF CycleTimeout, IInv, PollOK, PollType
  <2> QED
    BY <2>1 DEF Accounted
<1>4. CASE Pipeline
  BY <1>1, <1>2, <1>3, <1>4, ClassifyAccounted, SelectAccounted, FetchAccounted,
     ReconcileAccounted, EndAccounted DEF Pipeline, PollNext
<1>5. CASE Publisher
  <2>1. /\ diag'.pipelineStateOK = diag.pipelineStateOK
        /\ UNCHANGED <<poll, inflight>>
    BY <1>5, FlushDiag DEF Publisher, pollVars
  <2>2. CASE FlushAcknowledge
    <3>1. PICK k \in Nat : InOrder(k)
      BY DEF IInv
    <3>2. Current \in DOMAIN outbox
      BY <2>2, <3>1, CurrentIsOldest DEF FlushAcknowledge
    <3>3. /\ DOMAIN checkpoints' = DOMAIN checkpoints
          /\ \A id \in DOMAIN checkpoints :
               checkpoints'[id].marker = checkpoints[id].marker
      BY <2>2, <3>2, AcknowledgeEffect DEF FlushAcknowledge, IInv
    <3> QED
      BY <2>1, <3>3, AccountedByOthers DEF IInv
  <2>3. CASE ~FlushAcknowledge
    <3>1. checkpoints' = checkpoints
      BY <1>5, <2>3
         DEF Publisher, FlushNext, FlushRead, FlushReadFails, PublishOK, PublishFails,
             AcknowledgeFails, FlushHealth, FlushHealthFails, DrainedBuffered,
             DrainedFull, FailedFull, FailedBuffered, AckedFull, AckedBuffered, storeVars
    <3> QED
      BY <2>1, <3>1, AccountedByOthers DEF IInv
  <2> QED
    BY <2>2, <2>3
<1>6. CASE Environment \/ UNCHANGED vars
  BY <1>6, AccountedByOthers
     DEF Environment, SourceNext, SourceChanges, Tick, pollVars, storeVars, vars, IInv
<1>7. CASE CrashRestart
  BY <1>7 DEF CrashRestart, Idle, Accounted
<1> QED
  BY <1>4, <1>5, <1>6, <1>7 DEF Next

-------------------------------------------------------------------------------
(* Theorems *)

\* A fresh start on an empty file satisfies the invariant.
LEMMA InitInv == Init => IInv
<1> SUFFICES ASSUME Init PROVE IInv
  OBVIOUS
<1>1. FileOK
  BY InitFile DEF Init
<1>2. SourceOK
  BY PipelineAssumption DEF Init, SourceInit, SourceOK, Present
<1>3. PollOK
  <2>1. [id \in {} |-> id] \in MarkerMaps
    BY DEF MarkerMaps
  <2> QED
    BY <2>1 DEF Init, PollInit, Idle, PollOK, PollType, Running
<1>4. FlushOK /\ FlagsAgree
  BY DEF Init, PublisherInit, Waiting, FlushOK, FlushType, FlagsAgree, NoDiagnostics,
         Diagnostics
<1>5. AcceptedOK
  BY DEF Init, StoreInit, AcceptedOK
<1>6. InOrder(0)
  BY DEF Init, StoreInit, PublisherInit, Waiting, InOrder
<1>7. Accounted
  BY DEF Init, PollInit, Idle, Accounted
<1> QED
  BY <1>1, <1>2, <1>3, <1>4, <1>5, <1>6, <1>7 DEF IInv

\* The invariant holds in every reachable state.
THEOREM Invariance == SafeSpec => []IInv
<1>1. IInv /\ [Next]_vars => IInv'
  BY FileStep, SourceStep, PollStepOK, PublisherStep, OrderStep, AccountedStep DEF IInv
<1> QED
  BY InitInv, <1>1, PTL DEF SafeSpec

\* Whatever the poll, its workers, the publisher and crashes do, the outbox is a
\* file that Open accepts, its counters are exact and its limits are kept.
THEOREM FileStaysValid == SafeSpec => []FileOK
<1>1. IInv => FileOK
  BY DEF IInv
<1> QED
  BY <1>1, Invariance, PTL

\* Acknowledge never meets a record it calls corrupt, and the publisher always
\* works on the oldest queued record, which is still there when it is confirmed.
THEOREM AcknowledgeSucceeds ==
  SafeSpec => [](flush.pc = "ack" => Current \in DOMAIN outbox /\ AckValid(Current))
<1>1. IInv => (flush.pc = "ack" => Current \in DOMAIN outbox /\ AckValid(Current))
  <2> SUFFICES ASSUME IInv, flush.pc = "ack"
               PROVE  Current \in DOMAIN outbox /\ AckValid(Current)
    OBVIOUS
  <2>1. PICK k \in Nat : InOrder(k)
    BY DEF IInv
  <2>2. Current \in DOMAIN outbox
    BY <2>1, CurrentIsOldest
  <2> QED
    BY <2>2, QueuedAreValid DEF IInv
<1> QED
  BY <1>1, Invariance, PTL

\* After a state error the publisher is not reported healthy before a good flush.
THEOREM NoEarlyRecovery == SafeSpec => []RecoveryKeepsUnready
<1>1. IInv => RecoveryKeepsUnready
  BY DEF IInv, FlagsAgree, RecoveryKeepsUnready, AlertPipelineReady
<1> QED
  BY <1>1, Invariance, PTL

\* A cycle that leaves the alert path ready has stored every listed alert that
\* it did not put off.
THEOREM CollectedWhenReady == SafeSpec => ReadyMeansCollected
<1> DEFINE Collected ==
      (poll.pc = "report" /\ poll'.pc = "idle" /\ AlertPipelineReady') =>
        \A id \in DOMAIN poll.markers \ poll.deferred :
          Known(id) /\ checkpoints[id].marker = poll.markers[id]
<1>1. IInv /\ [Next]_vars => [Collected]_vars
  <2> SUFFICES ASSUME IInv, Next, poll.pc = "report", poll'.pc = "idle",
                      AlertPipelineReady',
                      NEW id \in DOMAIN poll.markers \ poll.deferred
               PROVE  Known(id) /\ checkpoints[id].marker = poll.markers[id]
    OBVIOUS
  <2>1. poll \in PollType /\ diag \in Diagnostics /\ poll.todo = {} /\ Running = {}
    BY DEF IInv, PollOK, FlushOK
  <2>2. ~CrashRestart
    BY DEF CrashRestart, NoDiagnostics, AlertPipelineReady
  <2>3. PollReport
    BY <2>1, <2>2
       DEF Next, Pipeline, Publisher, Environment, SourceNext, SourceChanges, Tick,
           pollVars, PollNext, PollListFails, PollList, ClassifyTask, ClassifySeen,
           ClassifyFails, PollSelect, Dispatch, CycleTimeout, DetailArrives, DetailFails,
           DetailStored, DetailRefused, PollReconcile, PollReconcileFails, FetchDone,
           PollHealth, PollHealthFails, PollBuffered, PollFull
  <2>4. /\ diag'.collectionReady => poll.detailOK
        /\ diag'.pipelineStateOK =>
             diag.pipelineStateOK \/ (poll.stateOK /\ poll.detailOK)
    BY <2>1, <2>3 DEF PollReport, PollType, Diagnostics, SetAlertCollectionReady,
         SetAlertPipelineStateHealthy
  <2>5. poll.stateOK /\ poll.detailOK
    BY <2>4 DEF AlertPipelineReady, IInv, Accounted
  <2> QED
    BY <2>1, <2>5 DEF IInv, Accounted, Stored
<1> QED
  BY <1>1, Invariance, PTL DEF SafeSpec, ReadyMeansCollected

-------------------------------------------------------------------------------
(* The alert path implements Delivery *)

\* A step that leaves topic and accepted records alone is a stuttering step.
LEMMA DeliveryStutters ==
  ASSUME UNCHANGED <<topic, accepted>>
  PROVE  UNCHANGED D!deliveryVars
BY DEF D!deliveryVars, Content

\* A record that enters the queue is accepted.
LEMMA InsertDelivers ==
  ASSUME IInv, NEW k \in Nat, InOrder(k), NEW record \in Record,
         accepted' = Append(accepted, record), topic' = topic
  PROVE  D!DeliveryNext
<1>1. /\ accepted \in Seq(Record) /\ topic \in Seq(Nat) /\ Len(topic) \in Nat
      /\ Len(topic) <= Len(accepted)
      /\ \A i \in 1..Len(topic) : topic[i] = i
  BY DEF IInv, AcceptedOK, InOrder
<1>2. \A i \in 1..Len(topic) : accepted'[topic'[i]] = accepted[topic[i]]
  BY <1>1
<1>3. [i \in 1..Len(topic) |-> Content(i)]' = [i \in 1..Len(topic) |-> Content(i)]
  BY <1>2 DEF Content
<1>4. D!Accept(record)
  BY <1>3 DEF D!Accept
<1> QED
  BY <1>4 DEF D!DeliveryNext

\* A publication delivers the next accepted record, or repeats it.
LEMMA WriteDelivers ==
  ASSUME IInv, NEW k \in Nat, InOrder(k), flush.pc = "publish", Write(Current),
         accepted' = accepted
  PROVE  D!DeliveryNext \/ UNCHANGED D!deliveryVars
<1>1. Current = k + 1 /\ k + 1 <= sequence
  BY CurrentIsOldest
<1>2. \/ topic' = topic
      \/ Len(topic) = k /\ topic' = Append(topic, k + 1)
  BY <1>1, WriteEffect
<1>3. CASE topic' = topic
  BY <1>3, DeliveryStutters
<1>4. CASE Len(topic) = k /\ topic' = Append(topic, k + 1)
  <2> DEFINE log == [i \in 1..Len(topic) |-> Content(i)]
             new == [i \in 1..Len(topic') |-> accepted[topic'[i]]]
  <2>1. /\ topic \in Seq(Nat) /\ Len(topic') = k + 1
        /\ Len(accepted) = sequence
        /\ \A i \in 1..k : topic'[i] = topic[i]
        /\ topic'[k + 1] = k + 1
    BY <1>4 DEF IInv, AcceptedOK, InOrder
  <2>2. Len(log) = k
    BY <1>4
  <2>3. new = Append(log, accepted[k + 1])
    <3>1. new = [i \in 1..(k + 1) |-> IF i = k + 1 THEN accepted[k + 1] ELSE log[i]]
      BY <1>4, <2>1 DEF Content
    <3> HIDE DEF new
    <3> QED
      BY <1>4, <2>2, <3>1
  <2>4. log' = new
    BY DEF Content
  <2>5. D!Deliver
    <3> HIDE DEF log, new
    <3>1. Len(log) < Len(accepted) /\ log' = Append(log, accepted[Len(log) + 1])
      BY <1>1, <2>1, <2>2, <2>3, <2>4
    <3> QED
      BY <3>1 DEF D!Deliver, log
  <2> QED
    BY <2>5 DEF D!DeliveryNext
<1> QED
  BY <1>2, <1>3, <1>4

\* Every step of the alert path accepts a record, delivers the next one, or
\* leaves both sequences as they are.
LEMMA StepDelivers == IInv /\ [Next]_vars => D!DeliveryNext \/ UNCHANGED D!deliveryVars
<1> SUFFICES ASSUME IInv, [Next]_vars
             PROVE  D!DeliveryNext \/ UNCHANGED D!deliveryVars
  OBVIOUS
<1>1. PICK k \in Nat : InOrder(k)
  BY DEF IInv
<1>2. CASE UNCHANGED <<topic, accepted>>
  BY <1>2, DeliveryStutters
<1>3. CASE Pipeline
  <2>1. topic' = topic
    BY <1>3 DEF Pipeline, publisherVars
  <2>2. CASE accepted' = accepted
    BY <1>2, <2>1, <2>2
  <2>3. CASE accepted' # accepted
    <3>1. PICK id \in Alerts : DetailStored(id)
      BY <1>3, <2>3, PollInsertsNothing DEF Pipeline
    <3>2. accepted' = Append(accepted, [id |-> id, hash |-> inflight[id]])
      BY <2>3, <3>1 DEF DetailStored
    <3>3. [id |-> id, hash |-> inflight[id]] \in Record
      <4>1. inflight[id] \in Hashes
        BY <3>1 DEF DetailStored, IInv, PollOK
      <4> QED
        BY <4>1 DEF Record
    <3> QED
      BY <1>1, <2>1, <3>2, <3>3, InsertDelivers
  <2> QED
    BY <2>2, <2>3
<1>4. CASE Publisher
  <2>1. accepted' = accepted
    BY <1>4 DEF Publisher, envVars
  <2>2. CASE topic' = topic
    BY <1>2, <2>1, <2>2
  <2>3. CASE topic' # topic
    <3>1. flush.pc = "publish" /\ Write(Current)
      BY <1>4, <2>3
         DEF Publisher, FlushNext, FlushRead, FlushReadFails, PublishOK, PublishFails,
             FlushAcknowledge, AcknowledgeFails, FlushHealth, FlushHealthFails,
             DrainedBuffered, DrainedFull, FailedFull, FailedBuffered, AckedFull,
             AckedBuffered
    <3> QED
      BY <1>1, <2>1, <3>1, WriteDelivers
  <2> QED
    BY <2>2, <2>3
<1>5. CASE Environment \/ CrashRestart \/ UNCHANGED vars
  BY <1>2, <1>5
     DEF Environment, SourceNext, SourceChanges, Tick, CrashRestart, publisherVars,
         envVars, vars
<1> QED
  BY <1>3, <1>4, <1>5 DEF Next

\* The topic is a growing prefix of the accepted records: nothing accepted is
\* skipped, reordered or invented, across failed publishes, late confirmations and
\* restarts.
THEOREM DeliveryInOrder == SafeSpec => DeliversInOrder
<1>1. Init => D!DeliveryInit
  <2> SUFFICES ASSUME Init PROVE D!DeliveryInit
    OBVIOUS
  <2>1. accepted = <<>> /\ topic = <<>>
    BY DEF Init
  <2>2. [i \in 1..Len(topic) |-> Content(i)] = <<>>
    BY <2>1
  <2> QED
    BY <2>1, <2>2 DEF D!DeliveryInit
<1>2. IInv /\ [Next]_vars => [D!DeliveryNext]_D!deliveryVars
  BY StepDelivers
<1> QED
  BY <1>1, <1>2, Invariance, PTL DEF SafeSpec, DeliversInOrder, D!DeliverySafety
===============================================================================
