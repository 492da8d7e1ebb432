------------------------------ MODULE QueryProofs ------------------------------
(***************************************************************************)
(* Theorems about the query store and the query path, for any queries,     *)
(* facts, limits, clock readings and order of observations, and every      *)
(* interleaving of poll, workers, publisher, server and crashes.           *)
(*                                                                         *)
(* The store alone: the inductive invariant rests on one fact, that a      *)
(* query that was counted is locked by a final checkpoint, or the          *)
(* retention floor has passed the time it completed, and the floor never   *)
(* moves back.                                                             *)
(*                                                                         *)
(* The path: the counters on /metrics are read from the store outside the  *)
(* lock, by two goroutines that may report in the other order.  The        *)
(* invariant therefore compares every snapshot that is shown or held with  *)
(* the store, and all of them with each other, by revision.                *)
(***************************************************************************)
EXTENDS QueryStore, QueryPipeline, FiniteSetTheorems, NaturalsInduction, TLAPS

\* Only a final checkpoint has a terminal content, and it is that of a query
\* that was counted.
CheckpointsOK ==
  \A id \in DOMAIN checkpoints :
    /\ checkpoints[id].final <=> checkpoints[id].hash[1] \in Terminal
    /\ checkpoints[id].final =>
         checkpoints[id].time = CompletedAt[id] /\ counted[id] = 1

\* A query that was counted is not accepted again.
LockedOrExpired ==
  \A id \in Queries : counted[id] = 1 =>
    (Known(id) /\ checkpoints[id].final) \/ CompletedAt[id] < stats.floor

\* A terminal event was counted when it was queued.
QueuedCounted ==
  /\ \A s \in DOMAIN events : events[s].state \in Terminal => counted[events[s].id] = 1
  /\ \A id \in acked : counted[id] = 1

QueryInv ==
  /\ TypeOK
  /\ IsFiniteSet(ByteSet(DOMAIN events))
  /\ NeverCorrupt
  /\ CountedOnce
  /\ CountedWithEvent
  /\ CheckpointsOK
  /\ LockedOrExpired
  /\ QueuedCounted

-------------------------------------------------------------------------------
(* Lemmas about one state *)

\* The outbox is finite.
LEMMA QueueFinite ==
  ASSUME QueryStoreTypeOK
  PROVE  IsFiniteSet(DOMAIN events) /\ Cardinality(DOMAIN events) \in Nat
<1>1. sequence \in Int /\ DOMAIN events \in SUBSET (1..sequence)
  BY DEF QueryStoreTypeOK
<1>2. IsFiniteSet(1..sequence)
  BY <1>1, FS_Interval
<1> QED
  BY <1>1, <1>2, FS_Subset, FS_CardinalityType

\* What the server says of a query.
LEMMA ObservationType ==
  ASSUME NEW e \in Observation
  PROVE  /\ e \in Event
         /\ e.when <= CompletedAt[e.id]
         /\ e.state \in Terminal => e.state = Outcome[e.id] /\ e.when = CompletedAt[e.id]
<1>1. e.state \in Terminal => e.state \notin Live
  BY QueryValueAssumption
<1>2. e.id \in Queries /\ e.state \in Live \cup Terminal /\ e.observed \in Readings
      /\ e.when \in {Submitted[id] : id \in Queries} \cup {CompletedAt[id] : id \in Queries}
      /\ e = [id |-> e.id, state |-> e.state, when |-> e.when, observed |-> e.observed]
  BY DEF Observation
<1>3. IF e.state \in Live
      THEN e.when \in {Submitted[e.id], CompletedAt[e.id]}
      ELSE e.state = Outcome[e.id] /\ e.when = CompletedAt[e.id]
  BY DEF Observation
<1>4. Submitted[e.id] \in Nat /\ CompletedAt[e.id] \in Nat
      /\ Submitted[e.id] <= CompletedAt[e.id]
  BY <1>2, FactsAssumption
<1>5. e.when \in Nat /\ e.when <= CompletedAt[e.id]
  BY <1>3, <1>4
<1>6. e.observed \in Nat
  BY <1>2, FactsAssumption
<1>7. e \in Event
  BY <1>2, <1>5, <1>6 DEF Event
<1> QED
  BY <1>1, <1>3, <1>5, <1>7

\* A query whose observation is accepted was never counted.
LEMMA NotCounted ==
  ASSUME QueryInv, NEW e \in Observation, Accepted(e)
  PROVE  counted[e.id] = 0
<1>1. e \in Event /\ e.when <= CompletedAt[e.id] /\ CompletedAt[e.id] \in Nat
  BY ObservationType, FactsAssumption DEF Event
<1>2. stats.floor \in Nat /\ counted[e.id] \in Nat /\ counted[e.id] <= 1
  BY <1>1 DEF QueryInv, TypeOK, QueryStoreTypeOK, Stats, CountedOnce, Event
<1>3. ~(CompletedAt[e.id] < stats.floor)
  BY <1>1, <1>2 DEF Accepted, Expired, Event
<1>4. ~(Known(e.id) /\ checkpoints[e.id].final)
  BY DEF Accepted, Superseded
<1> QED
  BY <1>1, <1>2, <1>3, <1>4 DEF QueryInv, LockedOrExpired, Event

-------------------------------------------------------------------------------
(* What a transaction does to the events *)

\* An event that is queued adds itself and its bytes.
LEMMA Appended ==
  ASSUME QueryInv, NEW e \in Event, Queued(e), AppendEvent(e)
  PROVE  /\ sequence' = sequence + 1
         /\ sequence + 1 \notin DOMAIN events
         /\ DOMAIN events' = DOMAIN events \cup {sequence + 1}
         /\ events'[sequence + 1] = e
         /\ \A s \in DOMAIN events : events'[s] = events[s]
         /\ Cardinality(DOMAIN events)' = Cardinality(DOMAIN events) + 1
         /\ IsFiniteSet(ByteSet(DOMAIN events)')
         /\ BytesOf(DOMAIN events)' = BytesOf(DOMAIN events) + Size[e.state]
<1> DEFINE n == Size[e.state]
           s == sequence + 1
           old == ByteSet(DOMAIN events)
           added == {s} \X (1..n)
<1>1. sequence \in Nat /\ DOMAIN events \subseteq 1..sequence
  BY DEF QueryInv, TypeOK, QueryStoreTypeOK
<1>2. s \notin DOMAIN events
  BY <1>1
<1>3. /\ sequence' = s
      /\ DOMAIN events' = DOMAIN events \cup {s}
      /\ events'[s] = e
      /\ \A t \in DOMAIN events : events'[t] = events[t]
  BY <1>2 DEF AppendEvent
<1>4. ByteSet(DOMAIN events)' = old \cup added
  <2>1. ByteSet(DOMAIN events)' =
          UNION {{t} \X (1..Size[events'[t].state]) : t \in DOMAIN events \cup {s}}
    BY <1>3 DEF ByteSet
  <2> QED
    BY <2>1, <1>3 DEF ByteSet
<1>5. old \cap added = {}
  BY <1>2 DEF ByteSet
<1>6. IsFiniteSet(old) /\ Cardinality(old) \in Nat
  BY FS_CardinalityType DEF QueryInv
<1>7. n \in Nat
  BY QueryValueAssumption DEF Event
<1>8. IsFiniteSet(added) /\ Cardinality(added) = n
  <2> DEFINE S == {s}
             T == 1..n
  <2>1. IsFiniteSet(S) /\ Cardinality(S) = 1
    BY FS_Singleton
  <2>2. IsFiniteSet(T) /\ Cardinality(T) = n
    <3> HIDE DEF n
    <3> QED
      BY <1>7, FS_Interval
  <2>3. IsFiniteSet(S \X T) /\ Cardinality(S \X T) = Cardinality(S) * Cardinality(T)
    <3> HIDE DEF S, T
    <3> QED
      BY <2>1, <2>2, FS_Product
  <2>4. 1 * n = n /\ added = S \X T
    BY <1>7
  <2> HIDE DEF S, T, n, added
  <2> QED
    BY <2>1, <2>2, <2>3, <2>4
<1>9. /\ IsFiniteSet(old \cup added)
      /\ Cardinality(old \cup added) = Cardinality(old) + n
  <2>1. Cardinality(old \cap added) = 0
    BY <1>5, FS_EmptySet
  <2> HIDE DEF old, added, n
  <2>2. /\ IsFiniteSet(old \cup added)
        /\ Cardinality(old \cup added)
             = Cardinality(old) + Cardinality(added) - Cardinality(old \cap added)
    BY <1>6, <1>8, FS_Union
  <2> QED
    BY <1>6, <1>7, <1>8, <2>1, <2>2
<1>10. Cardinality(DOMAIN events)' = Cardinality(DOMAIN events) + 1
  <2>1. IsFiniteSet(DOMAIN events)
    BY QueueFinite DEF QueryInv, TypeOK
  <2> QED
    BY <2>1, <1>2, <1>3, FS_AddElement
<1>11. BytesOf(DOMAIN events)' = Cardinality(old \cup added)
       /\ BytesOf(DOMAIN events) = Cardinality(old)
  BY <1>4 DEF BytesOf
<1> QED
  BY <1>2, <1>3, <1>4, <1>9, <1>10, <1>11

\* An event that is removed takes its own bytes along.
LEMMA Removed ==
  ASSUME QueryInv, NEW s \in DOMAIN events,
         events' = [t \in DOMAIN events \ {s} |-> events[t]]
  PROVE  /\ IsFiniteSet(ByteSet(DOMAIN events)')
         /\ BytesOf(DOMAIN events)' = BytesOf(DOMAIN events) - Size[events[s].state]
         /\ BytesOf(DOMAIN events)' \in Nat
         /\ Cardinality(DOMAIN events)' = Cardinality(DOMAIN events) - 1
         /\ Cardinality(DOMAIN events)' \in Nat
         /\ Size[events[s].state] \in Nat
<1> DEFINE n == Size[events[s].state]
           left == ByteSet(DOMAIN events \ {s})
           gone == {s} \X (1..n)
<1>1. n \in Nat
  BY QueryValueAssumption DEF QueryInv, TypeOK, QueryStoreTypeOK, Event
<1>2. ByteSet(DOMAIN events)' = left
  <2>1. DOMAIN events' = DOMAIN events \ {s}
        /\ \A t \in DOMAIN events \ {s} : events'[t] = events[t]
    OBVIOUS
  <2>2. ByteSet(DOMAIN events)' =
          UNION {{t} \X (1..Size[events'[t].state]) : t \in DOMAIN events \ {s}}
    BY <2>1 DEF ByteSet
  <2> QED
    BY <2>1, <2>2 DEF ByteSet
<1>3. ByteSet(DOMAIN events) = left \cup gone
  BY DEF ByteSet
<1>4. left \cap gone = {}
  BY DEF ByteSet
<1>5. IsFiniteSet(left) /\ IsFiniteSet(gone)
  <2>1. IsFiniteSet(ByteSet(DOMAIN events))
    BY DEF QueryInv
  <2> HIDE DEF left, gone
  <2> QED
    BY <2>1, <1>3, FS_Subset
<1>6. Cardinality(gone) = n
  <2> DEFINE S == {s}
             T == 1..n
  <2>1. IsFiniteSet(S) /\ Cardinality(S) = 1
    BY FS_Singleton
  <2>2. IsFiniteSet(T) /\ Cardinality(T) = n
    <3> HIDE DEF n
    <3> QED
      BY <1>1, FS_Interval
  <2>3. Cardinality(S \X T) = Cardinality(S) * Cardinality(T)
    <3> HIDE DEF S, T
    <3> QED
      BY <2>1, <2>2, FS_Product
  <2>4. 1 * n = n /\ gone = S \X T
    BY <1>1
  <2> HIDE DEF S, T, gone, n
  <2> QED
    BY <2>1, <2>2, <2>3, <2>4
<1>7. Cardinality(left \cup gone) = Cardinality(left) + n /\ Cardinality(left) \in Nat
  <2>1. Cardinality(left \cap gone) = 0
    BY <1>4, FS_EmptySet
  <2> HIDE DEF left, gone, n
  <2>2. Cardinality(left \cup gone)
          = Cardinality(left) + Cardinality(gone) - Cardinality(left \cap gone)
    BY <1>5, FS_Union
  <2>3. Cardinality(left) \in Nat
    BY <1>5, FS_CardinalityType
  <2> QED
    BY <1>1, <1>6, <2>1, <2>2, <2>3
<1>8. /\ BytesOf(DOMAIN events)' = Cardinality(left)
      /\ BytesOf(DOMAIN events) = Cardinality(left \cup gone)
  BY <1>2, <1>3 DEF BytesOf
<1>9. /\ Cardinality(DOMAIN events)' = Cardinality(DOMAIN events) - 1
      /\ Cardinality(DOMAIN events)' \in Nat
  <2>1. IsFiniteSet(DOMAIN events)
    BY QueueFinite DEF QueryInv, TypeOK
  <2>2. DOMAIN events' = DOMAIN events \ {s}
    OBVIOUS
  <2>3. IsFiniteSet(DOMAIN events \ {s})
        /\ Cardinality(DOMAIN events \ {s}) = Cardinality(DOMAIN events) - 1
    BY <2>1, FS_RemoveElement
  <2> QED
    BY <2>2, <2>3, FS_CardinalityType
<1> HIDE DEF left, gone, n
<1>10. BytesOf(DOMAIN events)' = BytesOf(DOMAIN events) - n /\ BytesOf(DOMAIN events)' \in Nat
  BY <1>1, <1>7, <1>8
<1>11. IsFiniteSet(ByteSet(DOMAIN events)')
  BY <1>2, <1>5
<1> QED
  BY <1>1, <1>9, <1>10, <1>11 DEF n

\* Recording an accepted observation leaves the old events alone, adds at most the
\* new one, and keeps counters, limits and types.
LEMMA RecordEvents ==
  ASSUME QueryInv, NEW e \in Observation, RecordStored(e)
  PROVE  /\ sequence' \in Nat
         /\ DOMAIN events' \subseteq 1..sequence'
         /\ events' \in [DOMAIN events' -> Event]
         /\ stats' \in Stats
         /\ stats'.floor = stats.floor
         /\ stats'.completed = [t \in Terminal |->
               IF t = e.state THEN stats.completed[t] + 1 ELSE stats.completed[t]]
         /\ stats'.pending = Cardinality(DOMAIN events)'
         /\ stats'.bytes = BytesOf(DOMAIN events)'
         /\ stats'.pending <= MaxEvents /\ stats'.bytes <= MaxBytes
         /\ IsFiniteSet(ByteSet(DOMAIN events)')
         /\ DOMAIN events \subseteq DOMAIN events'
         /\ \A s \in DOMAIN events : events'[s] = events[s]
         /\ \A s \in DOMAIN events' \ DOMAIN events : events'[s] = e
         /\ Queued(e) => sequence' \in DOMAIN events' /\ events'[sequence'] = e
<1>1. e \in Event /\ Size[e.state] \in Nat
  BY ObservationType, QueryValueAssumption DEF Event
<1>2. /\ sequence \in Nat /\ DOMAIN events \subseteq 1..sequence
      /\ events \in [DOMAIN events -> Event] /\ stats \in Stats
      /\ Cardinality(DOMAIN events) <= MaxEvents /\ BytesOf(DOMAIN events) <= MaxBytes
      /\ stats.pending = Cardinality(DOMAIN events)
      /\ stats.bytes = BytesOf(DOMAIN events)
      /\ IsFiniteSet(ByteSet(DOMAIN events))
  BY DEF QueryInv, TypeOK, QueryStoreTypeOK, NeverCorrupt, StateValid, StatsValid
<1> DEFINE completed == [t \in Terminal |->
               IF t = e.state THEN stats.completed[t] + 1 ELSE stats.completed[t]]
           pending == IF Queued(e) THEN stats.pending + 1 ELSE stats.pending
           bytes == IF Queued(e) THEN stats.bytes + Size[e.state] ELSE stats.bytes
<1>3. completed \in [Terminal -> Nat] /\ pending \in Nat /\ bytes \in Nat
      /\ stats.floor \in Nat
  BY <1>1, <1>2 DEF Stats
<1>4. stats' = [completed |-> completed, pending |-> pending, bytes |-> bytes,
                floor |-> stats.floor]
  <2>1. stats' = [stats EXCEPT !.pending = pending, !.bytes = bytes,
                               !.completed = completed]
    BY DEF RecordStored
  <2> HIDE DEF completed, pending, bytes
  <2> QED
    BY <2>1, <1>2 DEF Stats
<1> HIDE DEF completed, pending, bytes
<1>5. /\ stats' \in Stats /\ stats'.floor = stats.floor
      /\ stats'.completed = completed
      /\ stats'.pending = pending /\ stats'.bytes = bytes
  BY <1>3, <1>4 DEF Stats
<1>6. AppendEvent(e) /\ Accepted(e)
  BY DEF RecordStored
<1>7. CASE Queued(e)
  <2>1. /\ sequence' = sequence + 1
        /\ DOMAIN events' = DOMAIN events \cup {sequence + 1}
        /\ events'[sequence + 1] = e
        /\ \A s \in DOMAIN events : events'[s] = events[s]
        /\ Cardinality(DOMAIN events)' = Cardinality(DOMAIN events) + 1
        /\ IsFiniteSet(ByteSet(DOMAIN events)')
        /\ BytesOf(DOMAIN events)' = BytesOf(DOMAIN events) + Size[e.state]
    BY <1>1, <1>6, <1>7, Appended
  <2>2. EventRoom(e)
    BY <1>6, <1>7 DEF Accepted, NoRoom, Queued
  <2>3. pending <= MaxEvents /\ bytes <= MaxBytes
    BY <1>1, <1>2, <1>7, <2>2, QueryOptionsAssumption DEF EventRoom, pending, bytes, Stats
  <2>4. pending = Cardinality(DOMAIN events)' /\ bytes = BytesOf(DOMAIN events)'
    BY <1>2, <1>7, <2>1 DEF pending, bytes
  <2>5. sequence' \in Nat /\ DOMAIN events' \subseteq 1..sequence'
    BY <1>2, <2>1
  <2>6. events' = [s \in DOMAIN events' |-> events'[s]]
    BY <1>6, <1>7 DEF AppendEvent
  <2>7. events' \in [DOMAIN events' -> Event]
    BY <1>1, <1>2, <2>1, <2>6
  <2> QED
    BY <1>5, <2>1, <2>3, <2>4, <2>5, <2>7 DEF completed
<1>8. CASE ~Queued(e)
  <2>1. events' = events /\ sequence' = sequence
    BY <1>6, <1>8 DEF AppendEvent
  <2>2. pending = stats.pending /\ bytes = stats.bytes
    BY <1>8 DEF pending, bytes
  <2>3. /\ Cardinality(DOMAIN events)' = Cardinality(DOMAIN events)
        /\ BytesOf(DOMAIN events)' = BytesOf(DOMAIN events)
        /\ ByteSet(DOMAIN events)' = ByteSet(DOMAIN events)
    BY <2>1 DEF BytesOf, ByteSet
  <2> QED
    BY <1>2, <1>5, <1>8, <2>1, <2>2, <2>3 DEF completed
<1> QED
  BY <1>7, <1>8

-------------------------------------------------------------------------------
(* One lemma per transaction *)

\* Recording an observation.
LEMMA RecordStep ==
  ASSUME QueryInv, NEW e \in Observation, Record(e)
  PROVE  QueryInv'
<1>1. /\ e \in Event /\ e.id \in Queries
      /\ e.when \in Nat /\ e.observed \in Nat /\ e.state \in Live \cup Terminal
      /\ e.state \in Terminal => e.state = Outcome[e.id] /\ e.when = CompletedAt[e.id]
  BY ObservationType DEF Event
<1>2. RecordStored(e) /\ Accepted(e) /\ acked' = acked
      /\ counted' = (IF e.state \in Terminal THEN [counted EXCEPT ![e.id] = @ + 1]
                     ELSE counted)
  BY DEF Record, RecordStored
<1>3. counted[e.id] = 0
  BY <1>2, NotCounted
<1>4. /\ sequence' \in Nat
      /\ DOMAIN events' \subseteq 1..sequence'
      /\ events' \in [DOMAIN events' -> Event]
      /\ stats' \in Stats
      /\ stats'.floor = stats.floor
      /\ stats'.completed = [t \in Terminal |->
            IF t = e.state THEN stats.completed[t] + 1 ELSE stats.completed[t]]
      /\ stats'.pending = Cardinality(DOMAIN events)'
      /\ stats'.bytes = BytesOf(DOMAIN events)'
      /\ stats'.pending <= MaxEvents /\ stats'.bytes <= MaxBytes
      /\ IsFiniteSet(ByteSet(DOMAIN events)')
      /\ DOMAIN events \subseteq DOMAIN events'
      /\ \A s \in DOMAIN events : events'[s] = events[s]
      /\ \A s \in DOMAIN events' \ DOMAIN events : events'[s] = e
      /\ Queued(e) => sequence' \in DOMAIN events' /\ events'[sequence'] = e
  BY <1>2, RecordEvents
<1>5. /\ counted \in [Queries -> Nat] /\ acked \subseteq Queries
      /\ DOMAIN checkpoints \subseteq Queries
      /\ checkpoints \in [DOMAIN checkpoints -> Checkpoint]
      /\ \A id \in Queries : counted[id] <= 1
  BY DEF QueryInv, TypeOK, QueryStoreTypeOK, CountedOnce
<1> DEFINE new == [final |-> e.state \in Terminal, hash |-> Hash(e),
                   lastFetched |-> e.observed, time |-> e.when]
<1>6. new \in Checkpoint /\ Hash(e) = <<e.state, e.when>>
  BY <1>1 DEF Checkpoint, Hash
<1>7. /\ DOMAIN checkpoints' = DOMAIN checkpoints \cup {e.id}
      /\ checkpoints'[e.id] = new
      /\ \A id \in DOMAIN checkpoints \ {e.id} : checkpoints'[id] = checkpoints[id]
      /\ checkpoints' \in [DOMAIN checkpoints' -> Checkpoint]
  <2>1. checkpoints' = [id \in DOMAIN checkpoints \cup {e.id} |->
                          IF id = e.id THEN new ELSE checkpoints[id]]
    BY <1>2 DEF RecordStored
  <2> HIDE DEF new
  <2> QED
    BY <2>1, <1>5, <1>6
<1>8. /\ new.final <=> e.state \in Terminal
      /\ new.hash = Hash(e) /\ new.lastFetched = e.observed /\ new.time = e.when
      /\ new.hash[1] = e.state
  <2>1. new.final = (e.state \in Terminal)
    OBVIOUS
  <2>2. new.hash = Hash(e) /\ new.lastFetched = e.observed /\ new.time = e.when
    OBVIOUS
  <2>3. Hash(e)[1] = e.state
    BY <1>6
  <2> HIDE DEF new
  <2> QED
    BY <2>1, <2>2, <2>3
<1> HIDE DEF new
<1>9. /\ counted' \in [Queries -> Nat]
      /\ counted'[e.id] = (IF e.state \in Terminal THEN 1 ELSE 0)
      /\ \A id \in Queries \ {e.id} : counted'[id] = counted[id]
  BY <1>1, <1>2, <1>3, <1>5
<1>10. Cardinality(DOMAIN checkpoints)' <= MaxCheckpoints
  <2>1. IsFiniteSet(DOMAIN checkpoints)
    BY <1>5, FactsAssumption, FS_Subset
  <2>2. Cardinality(DOMAIN checkpoints) \in Nat
    BY <2>1, FS_CardinalityType
  <2>3. Cardinality(DOMAIN checkpoints) <= MaxCheckpoints
    BY DEF QueryInv, TypeOK
  <2>4. Cardinality(DOMAIN checkpoints \cup {e.id}) =
          IF e.id \in DOMAIN checkpoints THEN Cardinality(DOMAIN checkpoints)
          ELSE Cardinality(DOMAIN checkpoints) + 1
    BY <2>1, FS_AddElement
  <2>5. e.id \in DOMAIN checkpoints \/ Cardinality(DOMAIN checkpoints) < MaxCheckpoints
    BY <1>2 DEF Accepted, NoRoom, CheckpointRoom, Known
  <2> QED
    BY <1>7, <2>2, <2>3, <2>4, <2>5, QueryOptionsAssumption
<1>11. TypeOK'
  BY <1>1, <1>2, <1>4, <1>5, <1>7, <1>9, <1>10 DEF TypeOK, QueryStoreTypeOK
<1>12. ASSUME NEW s \in DOMAIN events', events'[s].state \in Terminal
       PROVE  counted'[events'[s].id] = 1
  <2>1. CASE s \in DOMAIN events
    <3>1. counted[events[s].id] = 1 /\ events[s].id \in Queries
      BY <1>4, <1>12, <2>1 DEF QueryInv, QueuedCounted, TypeOK, QueryStoreTypeOK, Event
    <3> QED
      BY <1>3, <1>4, <1>9, <2>1, <3>1
  <2>2. CASE s \notin DOMAIN events
    BY <1>4, <1>9, <1>12, <2>2
  <2> QED
    BY <2>1, <2>2
<1>13. QueuedCounted'
  <2>1. \A id \in acked : counted[id] = 1
    BY DEF QueryInv, QueuedCounted
  <2> QED
    BY <1>2, <1>3, <1>5, <1>9, <1>12, <2>1 DEF QueuedCounted
<1>14. ASSUME NEW s \in DOMAIN events' PROVE ValidRecord(s)'
  <2>1. CASE s \in DOMAIN events
    <3>1. ValidRecord(s) /\ events[s] \in Event
      BY <2>1 DEF QueryInv, NeverCorrupt, StateValid, TypeOK, QueryStoreTypeOK
    <3>2. events[s].state \in Terminal => events[s].id # e.id
      BY <1>3, <2>1 DEF QueryInv, QueuedCounted
    <3> QED
      BY <1>4, <1>7, <2>1, <3>1, <3>2 DEF ValidRecord, Known, Hash
  <2>2. CASE s \notin DOMAIN events
    <3>1. events'[s] = e /\ s \in 1..sequence'
      BY <1>4, <2>2
    <3> QED
      BY <1>7, <1>8, <3>1 DEF ValidRecord, Known, Hash
  <2> QED
    BY <2>1, <2>2
<1>15. NeverCorrupt'
  BY <1>4, <1>14 DEF NeverCorrupt, StateValid, StatsValid
<1>16. CountedOnce'
  <2>1. \A id \in Queries : counted'[id] <= 1
    BY <1>5, <1>9
  <2>2. ASSUME NEW t \in Terminal
        PROVE  stats'.completed[t] =
                 Cardinality({id \in Queries : counted'[id] = 1 /\ Outcome[id] = t})
    <3> DEFINE Before == {id \in Queries : counted[id] = 1 /\ Outcome[id] = t}
               After == {id \in Queries : counted'[id] = 1 /\ Outcome[id] = t}
    <3>1. stats.completed[t] = Cardinality(Before)
      BY DEF QueryInv, CountedOnce
    <3>2. IsFiniteSet(Before)
      BY FactsAssumption, FS_Subset
    <3>3. CASE t = e.state
      <4>1. After = Before \cup {e.id} /\ e.id \notin Before
        BY <1>1, <1>3, <1>9, <3>3
      <4>2. Cardinality(After) = Cardinality(Before) + 1
        <5> HIDE DEF Before, After
        <5> QED
          BY <3>2, <4>1, FS_AddElement
      <4> QED
        BY <1>4, <3>1, <3>3, <4>2
    <3>4. CASE t # e.state
      <4>1. After = Before
        BY <1>1, <1>3, <1>9, <3>4
      <4> QED
        BY <1>4, <3>1, <3>4, <4>1
    <3> QED
      BY <3>3, <3>4
  <2> QED
    BY <2>1, <2>2 DEF CountedOnce
<1>17. CheckpointsOK'
  <2> SUFFICES ASSUME NEW id \in DOMAIN checkpoints'
      PROVE  /\ checkpoints'[id].final <=> checkpoints'[id].hash[1] \in Terminal
             /\ checkpoints'[id].final =>
                  checkpoints'[id].time = CompletedAt[id] /\ counted'[id] = 1
    BY DEF CheckpointsOK
  <2>1. CASE id = e.id
    BY <1>1, <1>7, <1>8, <1>9, <2>1
  <2>2. CASE id # e.id
    BY <1>5, <1>7, <1>9, <2>2 DEF QueryInv, CheckpointsOK
  <2> QED
    BY <2>1, <2>2
<1>18. LockedOrExpired'
  <2> SUFFICES ASSUME NEW id \in Queries, counted'[id] = 1
      PROVE  (Known(id)' /\ checkpoints'[id].final) \/ CompletedAt[id] < stats'.floor
    BY DEF LockedOrExpired
  <2>1. CASE id = e.id
    BY <1>7, <1>8, <1>9, <2>1 DEF Known
  <2>2. CASE id # e.id
    BY <1>4, <1>7, <1>9, <2>2 DEF QueryInv, LockedOrExpired, Known
  <2> QED
    BY <2>1, <2>2
<1>19. CountedWithEvent'
  <2> SUFFICES ASSUME Events, NEW id \in Queries
      PROVE  counted'[id] = 1 <=>
               \/ id \in acked
               \/ \E s \in DOMAIN events' :
                     events'[s].id = id /\ events'[s].state \in Terminal
    BY <1>2 DEF CountedWithEvent
  <2>1. CASE counted'[id] # 1
    <3>1. id \notin acked
      BY <1>2, <1>13, <2>1 DEF QueuedCounted
    <3> QED
      BY <1>12, <2>1, <3>1
  <2>2. CASE counted'[id] = 1 /\ id # e.id
    <3>1. \/ id \in acked
          \/ \E s \in DOMAIN events : events[s].id = id /\ events[s].state \in Terminal
      BY <1>9, <2>2 DEF QueryInv, CountedWithEvent
    <3> QED
      BY <1>4, <2>2, <3>1
  <2>3. CASE counted'[id] = 1 /\ id = e.id
    <3>1. e.state \in Terminal
      BY <1>9, <2>3
    <3>2. Changed(e)
      <4>1. Known(e.id) => ~checkpoints[e.id].final
        BY <1>2 DEF Accepted, Superseded
      <4>2. Known(e.id) => checkpoints[e.id].hash[1] \notin Terminal
        BY <4>1 DEF QueryInv, CheckpointsOK, Known
      <4> QED
        BY <3>1, <4>2 DEF Changed, Hash
    <3>3. Queued(e)
      BY <3>2 DEF Queued
    <3> QED
      BY <1>4, <2>3, <3>1, <3>3
  <2> QED
    BY <2>1, <2>2, <2>3
<1> QED
  BY <1>4, <1>11, <1>13, <1>15, <1>16, <1>17, <1>18, <1>19 DEF QueryInv

\* Pruning raises the floor and forgets the checkpoints below it.
LEMMA PruneStep ==
  ASSUME QueryInv, NEW now \in Nat, Prune(now), UNCHANGED <<counted, acked>>
  PROVE  QueryInv'
<1>1. /\ sequence \in Nat /\ DOMAIN events \subseteq 1..sequence
      /\ events \in [DOMAIN events -> Event]
      /\ DOMAIN checkpoints \subseteq Queries
      /\ checkpoints \in [DOMAIN checkpoints -> Checkpoint]
      /\ stats \in Stats /\ stats.floor \in Nat
  BY DEF QueryInv, TypeOK, QueryStoreTypeOK, Stats
<1>2. Floor(now) \in Nat /\ stats.floor <= Floor(now)
  BY <1>1, QueryOptionsAssumption DEF Floor, Later
<1>3. /\ events' = events /\ sequence' = sequence
      /\ counted' = counted /\ acked' = acked
      /\ stats' = [stats EXCEPT !.floor = Floor(now)]
  BY DEF Prune
<1>4. /\ stats' \in Stats /\ stats'.floor = Floor(now)
      /\ stats'.completed = stats.completed
      /\ stats'.pending = stats.pending /\ stats'.bytes = stats.bytes
  BY <1>1, <1>2, <1>3 DEF Stats
<1>5. /\ DOMAIN checkpoints' = {q \in DOMAIN checkpoints : checkpoints[q].time >= Floor(now)}
      /\ \A id \in DOMAIN checkpoints' : checkpoints'[id] = checkpoints[id]
      /\ checkpoints' \in [DOMAIN checkpoints' -> Checkpoint]
  BY <1>1 DEF Prune
<1>6. Cardinality(DOMAIN checkpoints') <= MaxCheckpoints
  <2>1. IsFiniteSet(DOMAIN checkpoints)
    BY <1>1, FactsAssumption, FS_Subset
  <2>2. DOMAIN checkpoints' \in SUBSET (DOMAIN checkpoints)
    BY <1>5
  <2>3. /\ IsFiniteSet(DOMAIN checkpoints')
        /\ Cardinality(DOMAIN checkpoints') <= Cardinality(DOMAIN checkpoints)
    BY <2>1, <2>2, FS_Subset
  <2>4. Cardinality(DOMAIN checkpoints) \in Nat /\ Cardinality(DOMAIN checkpoints') \in Nat
    BY <2>1, <2>3, FS_CardinalityType
  <2>5. Cardinality(DOMAIN checkpoints) <= MaxCheckpoints
    BY DEF QueryInv, TypeOK
  <2> QED
    BY <2>3, <2>4, <2>5, QueryOptionsAssumption
<1>7. ByteSet(DOMAIN events)' = ByteSet(DOMAIN events)
      /\ BytesOf(DOMAIN events)' = BytesOf(DOMAIN events)
  BY <1>3 DEF ByteSet, BytesOf
<1>8. TypeOK'
  BY <1>1, <1>3, <1>4, <1>5, <1>6, <1>7 DEF QueryInv, TypeOK, QueryStoreTypeOK
<1>9. ASSUME NEW s \in DOMAIN events' PROVE ValidRecord(s)'
  <2>1. ValidRecord(s) /\ events[s] \in Event
    BY <1>1, <1>3 DEF QueryInv, NeverCorrupt, StateValid
  <2> QED
    BY <1>1, <1>2, <1>3, <1>4, <1>5, <2>1 DEF ValidRecord, Known, Hash, Event
<1>10. NeverCorrupt'
  BY <1>3, <1>4, <1>7, <1>9 DEF QueryInv, NeverCorrupt, StateValid, StatsValid
<1>11. CheckpointsOK'
  BY <1>3, <1>5 DEF QueryInv, CheckpointsOK
<1>12. LockedOrExpired'
  <2> SUFFICES ASSUME NEW id \in Queries, counted[id] = 1
      PROVE  (Known(id)' /\ checkpoints'[id].final) \/ CompletedAt[id] < Floor(now)
    BY <1>3, <1>4 DEF LockedOrExpired
  <2>1. CompletedAt[id] \in Nat
    BY FactsAssumption
  <2>2. CASE Known(id) /\ checkpoints[id].final
    <3>1. checkpoints[id].time = CompletedAt[id]
      BY <2>2 DEF QueryInv, CheckpointsOK, Known
    <3> QED
      BY <1>2, <1>5, <2>1, <2>2, <3>1 DEF Known
  <2>3. CASE CompletedAt[id] < stats.floor
    BY <1>1, <1>2, <2>1, <2>3
  <2> QED
    BY <2>2, <2>3 DEF QueryInv, LockedOrExpired
<1>13. CountedOnce' /\ CountedWithEvent' /\ QueuedCounted'
  BY <1>3, <1>4 DEF QueryInv, CountedOnce, CountedWithEvent, QueuedCounted
<1> QED
  BY <1>7, <1>8, <1>10, <1>11, <1>12, <1>13 DEF QueryInv

\* Acknowledging an event removes it and remembers a terminal one.
LEMMA AckStep ==
  ASSUME QueryInv, NEW s \in DOMAIN events, AckOldest(s)
  PROVE  QueryInv'
<1>1. /\ sequence \in Nat /\ DOMAIN events \subseteq 1..sequence
      /\ events \in [DOMAIN events -> Event] /\ events[s] \in Event
      /\ stats \in Stats /\ acked \subseteq Queries
      /\ Cardinality(DOMAIN events) <= MaxEvents /\ BytesOf(DOMAIN events) <= MaxBytes
      /\ stats.pending = Cardinality(DOMAIN events)
      /\ stats.bytes = BytesOf(DOMAIN events)
  BY DEF QueryInv, TypeOK, QueryStoreTypeOK, NeverCorrupt, StateValid, StatsValid
<1>2. /\ events' = [t \in DOMAIN events \ {s} |-> events[t]]
      /\ stats' = [stats EXCEPT !.pending = @ - 1, !.bytes = @ - Size[events[s].state]]
      /\ checkpoints' = checkpoints /\ sequence' = sequence /\ counted' = counted
      /\ acked' = (IF events[s].state \in Terminal THEN acked \cup {events[s].id} ELSE acked)
  BY DEF AckOldest, Ack
<1>3. /\ IsFiniteSet(ByteSet(DOMAIN events)')
      /\ BytesOf(DOMAIN events)' = BytesOf(DOMAIN events) - Size[events[s].state]
      /\ BytesOf(DOMAIN events)' \in Nat
      /\ Cardinality(DOMAIN events)' = Cardinality(DOMAIN events) - 1
      /\ Cardinality(DOMAIN events)' \in Nat
      /\ Size[events[s].state] \in Nat
  BY <1>2, Removed
<1>4. stats.pending \in Nat /\ stats.bytes \in Nat
  BY <1>1 DEF Stats
<1>5. /\ stats' \in Stats /\ stats'.floor = stats.floor
      /\ stats'.completed = stats.completed
      /\ stats'.pending = Cardinality(DOMAIN events)'
      /\ stats'.bytes = BytesOf(DOMAIN events)'
  <2> DEFINE p == stats.pending - 1
             b == stats.bytes - Size[events[s].state]
  <2>1. stats' = [stats EXCEPT !.pending = p, !.bytes = b]
    BY <1>2
  <2>2. p = Cardinality(DOMAIN events)' /\ b = BytesOf(DOMAIN events)'
    BY <1>1, <1>3
  <2>3. p \in Nat /\ b \in Nat
    BY <1>3, <2>2
  <2> HIDE DEF p, b
  <2> QED
    BY <1>1, <2>1, <2>2, <2>3 DEF Stats
<1>6. /\ DOMAIN events' = DOMAIN events \ {s}
      /\ \A t \in DOMAIN events' : t \in DOMAIN events /\ events'[t] = events[t]
      /\ events' \in [DOMAIN events' -> Event]
  BY <1>1, <1>2
<1>7. /\ Cardinality(DOMAIN events)' <= MaxEvents
      /\ BytesOf(DOMAIN events)' <= MaxBytes
  BY <1>1, <1>3, <1>4, QueryOptionsAssumption
<1>8. acked' \subseteq Queries
  BY <1>1, <1>2 DEF Event
<1>9. TypeOK'
  BY <1>1, <1>2, <1>5, <1>6, <1>7, <1>8 DEF QueryInv, TypeOK, QueryStoreTypeOK
<1>10. NeverCorrupt'
  <2>1. ASSUME NEW t \in DOMAIN events' PROVE ValidRecord(t)'
    <3>1. ValidRecord(t)
      BY <1>6 DEF QueryInv, NeverCorrupt, StateValid
    <3> QED
      BY <1>2, <1>5, <1>6, <3>1 DEF ValidRecord, Known, Hash
  <2> QED
    BY <1>5, <2>1 DEF NeverCorrupt, StateValid, StatsValid
<1>11. CountedOnce' /\ CheckpointsOK' /\ LockedOrExpired'
  BY <1>2, <1>5 DEF QueryInv, CountedOnce, CheckpointsOK, LockedOrExpired, Known
<1>12. QueuedCounted'
  BY <1>2, <1>6 DEF QueryInv, QueuedCounted
<1>13. CountedWithEvent'
  <2> SUFFICES ASSUME Events, NEW id \in Queries
      PROVE  counted[id] = 1 <=>
               \/ id \in acked'
               \/ \E t \in DOMAIN events' :
                     events'[t].id = id /\ events'[t].state \in Terminal
    BY <1>2 DEF CountedWithEvent
  <2>1. CASE counted[id] # 1
    BY <1>2, <1>12, <2>1 DEF QueuedCounted
  <2>2. CASE counted[id] = 1
    <3>1. \/ id \in acked
          \/ \E t \in DOMAIN events : events[t].id = id /\ events[t].state \in Terminal
      BY <2>2 DEF QueryInv, CountedWithEvent
    <3> QED
      BY <1>2, <1>6, <2>2, <3>1
  <2> QED
    BY <2>1, <2>2
<1> QED
  BY <1>3, <1>9, <1>10, <1>11, <1>12, <1>13 DEF QueryInv

-------------------------------------------------------------------------------
(* The invariant *)

\* A new file is empty.
LEMMA QueryInitInv == QueryInit => QueryInv
<1> SUFFICES ASSUME QueryInit PROVE QueryInv
  OBVIOUS
<1>1. /\ events = [s \in {} |-> s] /\ checkpoints = [id \in {} |-> id]
      /\ stats = [completed |-> [t \in Terminal |-> 0], pending |-> 0, bytes |-> 0,
                  floor |-> 0]
      /\ sequence = 0 /\ counted = [id \in Queries |-> 0] /\ acked = {}
  BY DEF QueryInit, QueryStoreInit
<1>2. DOMAIN events = {} /\ DOMAIN checkpoints = {}
  BY <1>1
<1>3. ByteSet(DOMAIN events) = {}
  BY <1>2 DEF ByteSet
<1>4. IsFiniteSet({}) /\ Cardinality({}) = 0
  BY FS_EmptySet
<1>5. stats \in Stats /\ stats.pending = 0 /\ stats.bytes = 0
  BY <1>1 DEF Stats
<1>6. Cardinality(DOMAIN events) = 0 /\ Cardinality(DOMAIN checkpoints) = 0
      /\ BytesOf(DOMAIN events) = 0
  BY <1>2, <1>3, <1>4 DEF BytesOf
<1>7. TypeOK
  <2>1. events \in [DOMAIN events -> Event]
    BY <1>1
  <2>2. checkpoints \in [DOMAIN checkpoints -> Checkpoint]
    BY <1>1
  <2> QED
    BY <1>1, <1>2, <1>5, <1>6, <2>1, <2>2, QueryOptionsAssumption
    DEF TypeOK, QueryStoreTypeOK
<1>8. NeverCorrupt
  BY <1>2, <1>5, <1>6 DEF NeverCorrupt, StateValid, StatsValid
<1>9. CountedOnce
  <2>1. \A id \in Queries : counted[id] = 0
    BY <1>1
  <2>2. ASSUME NEW t \in Terminal
        PROVE  stats.completed[t]
                 = Cardinality({id \in Queries : counted[id] = 1 /\ Outcome[id] = t})
    <3>1. {id \in Queries : counted[id] = 1 /\ Outcome[id] = t} = {}
      BY <2>1
    <3>2. stats.completed[t] = 0
      BY <1>1
    <3> QED
      BY <3>1, <3>2, <1>4
  <2> QED
    BY <2>1, <2>2 DEF CountedOnce
<1>10. CountedWithEvent /\ CheckpointsOK /\ LockedOrExpired /\ QueuedCounted
  BY <1>1, <1>2 DEF CountedWithEvent, CheckpointsOK, LockedOrExpired, QueuedCounted
<1> QED
  BY <1>3, <1>4, <1>7, <1>8, <1>9, <1>10 DEF QueryInv

\* A transaction that changes nothing.
LEMMA UnchangedStep ==
  ASSUME QueryInv, UNCHANGED queryVars
  PROVE  QueryInv'
<1>1. /\ events' = events /\ checkpoints' = checkpoints /\ stats' = stats
      /\ sequence' = sequence /\ counted' = counted /\ acked' = acked
  BY DEF queryVars, queryStoreVars
<1> QED
  BY <1>1
  DEF QueryInv, TypeOK, QueryStoreTypeOK, ByteSet, BytesOf, NeverCorrupt, StateValid,
      StatsValid, ValidRecord, Known, CountedOnce, CountedWithEvent, CheckpointsOK,
      LockedOrExpired, QueuedCounted

LEMMA QueryNextInv ==
  ASSUME QueryInv, [QueryNext]_queryVars
  PROVE  QueryInv'
<1>1. CASE UNCHANGED queryVars
  BY <1>1, UnchangedStep
<1>2. CASE \E e \in Observation : Record(e) \/ RecordNothing(e)
  <2>1. PICK e \in Observation : Record(e) \/ RecordNothing(e)
    BY <1>2
  <2>2. CASE Record(e)
    BY <2>2, RecordStep
  <2>3. CASE RecordNothing(e)
    <3>1. UNCHANGED queryVars
      BY <2>3 DEF RecordNothing, RecordIgnored, queryVars, queryStoreVars
    <3> QED
      BY <3>1, UnchangedStep
  <2> QED
    BY <2>1, <2>2, <2>3
<1>3. CASE \E now \in Readings : PruneAt(now) \/ Restart(now)
  <2>1. PICK now \in Readings : Prune(now) /\ UNCHANGED <<counted, acked>>
    BY <1>3 DEF PruneAt, Restart, Open
  <2>2. now \in Nat
    BY FactsAssumption
  <2> QED
    BY <2>1, <2>2, PruneStep
<1>4. CASE \E s \in DOMAIN events : AckOldest(s)
  BY <1>4, AckStep
<1> QED
  BY <1>1, <1>2, <1>3, <1>4 DEF QueryNext

\* The inductive invariant holds in every state.
THEOREM QueryInvariance == QuerySpec => []QueryInv
<1>1. QueryInv /\ [QueryNext]_queryVars => QueryInv'
  BY QueryNextInv
<1> QED
  BY <1>1, QueryInitInv, PTL DEF QuerySpec

-------------------------------------------------------------------------------
(* What it gives *)

\* The file never holds more events, bytes or checkpoints than its options allow,
\* whatever is recorded: the room is checked in the transaction that uses it.
THEOREM QueryTypeCorrect == QuerySpec => []TypeOK
<1>1. QueryInv => TypeOK
  BY DEF QueryInv
<1> QED
  BY <1>1, QueryInvariance, PTL

\* Records, Ack, Stats and Open never report ErrCorrupt for a file that only the
\* store wrote: every queued terminal event inside the floor has its locked
\* checkpoint, and the counters agree with the bucket.
THEOREM QueryFileNeverCorrupt == QuerySpec => []NeverCorrupt
<1>1. QueryInv => NeverCorrupt
  BY DEF QueryInv
<1> QED
  BY <1>1, QueryInvariance, PTL

\* Record adds a query to a completed counter at most once, for every order of
\* observations by the poll and the backfill, every restart, and every clock.
THEOREM EachQueryCountedOnce == QuerySpec => []CountedOnce
<1>1. QueryInv => CountedOnce
  BY DEF QueryInv
<1> QED
  BY <1>1, QueryInvariance, PTL

\* Counter and event of a terminal query are written together: a counted query
\* has its event in the queue or it was acknowledged, and no other query has.
THEOREM CountedIffQueued == QuerySpec => []CountedWithEvent
<1>1. QueryInv => CountedWithEvent
  BY DEF QueryInv
<1> QED
  BY <1>1, QueryInvariance, PTL

\* No transaction queues an event of a query that has its terminal event.
THEOREM NothingAfterTerminal == QuerySpec => TerminalIsLast
<1> DEFINE New == \A s \in DOMAIN events' \ DOMAIN events : counted[events'[s].id] = 0
<1>1. ASSUME QueryInv, QueryNext PROVE New
  <2>1. CASE \E e \in Observation : Record(e) \/ RecordNothing(e)
    <3>1. PICK e \in Observation : Record(e) \/ RecordNothing(e)
      BY <2>1
    <3>2. CASE Record(e)
      <4>1. RecordStored(e) /\ Accepted(e)
        BY <3>2 DEF Record, RecordStored
      <4>2. counted[e.id] = 0
        BY <1>1, <4>1, NotCounted
      <4>3. \A s \in DOMAIN events' \ DOMAIN events : events'[s] = e
        BY <1>1, <4>1, RecordEvents
      <4> QED
        BY <4>2, <4>3
    <3>3. CASE RecordNothing(e)
      BY <3>3 DEF RecordNothing, RecordIgnored, queryStoreVars
    <3> QED
      BY <3>1, <3>2, <3>3
  <2>2. CASE \E now \in Readings : PruneAt(now) \/ Restart(now)
    BY <2>2 DEF PruneAt, Restart, Open, Prune
  <2>3. CASE \E s \in DOMAIN events : AckOldest(s)
    BY <2>3 DEF AckOldest, Ack
  <2> QED
    BY <1>1, <2>1, <2>2, <2>3 DEF QueryNext
<1>2. QueryInv /\ [QueryNext]_queryVars => [New]_queryVars
  BY <1>1
<1> QED
  BY <1>2, QueryInvariance, PTL DEF QuerySpec, TerminalIsLast

-------------------------------------------------------------------------------
(* The pipeline *)

Counts == [Terminal -> Nat]

SnapshotType == [ok : BOOLEAN, revision : Nat, completed : Counts]

FlagsType == [scope : BOOLEAN, overviewOK : BOOLEAN, detailOK : BOOLEAN,
              stateOK : BOOLEAN, publishOK : BOOLEAN]

PollType == [pc : {"idle", "overview", "prune", "list", "fetch", "report"},
             ok : BOOLEAN, todo : SUBSET Queries, stats : SnapshotType]

FlushType == [pc : {"idle", "publish", "ack", "stats", "report"},
              batch : SUBSET Nat, ok : BOOLEAN, stats : SnapshotType]

ServerType == [Queries -> [state : Live \cup Terminal \cup {"absent"},
                           submitted : Nat, completed : Nat]]

\* A file that Records, Ack and Stats do not call corrupt.
FileOK ==
  /\ QueryStoreTypeOK
  /\ \A s \in DOMAIN events : ValidRecord(s)
  /\ StatsValid

ServerOK == server \in ServerType /\ clock \in Nat

\* A cycle fetches listed queries, and not more than the option says.
PollOK ==
  /\ flags \in FlagsType /\ poll \in PollType /\ cursor \in Nat
  /\ poll.todo \subseteq Listed
  /\ Cardinality(poll.todo) <= MaxPerCycle

\* What the publisher works on is in the outbox; what it is about to acknowledge
\* has been published.
FlushOK ==
  /\ flush \in FlushType
  /\ flush.pc \in {"publish", "ack"} => flush.batch # {} /\ flush.batch \subseteq DOMAIN events
  /\ flush.pc = "ack" => Oldest \in published

\* No counter of a is above that of b.
Below(a, b) == \A t \in Terminal : a[t] <= b[t]

\* A snapshot is not ahead of the store; with the store's revision it has the
\* store's counters (as long as revisions are told apart).
Behind(s) ==
  s.ok =>
    /\ s.revision <= revision
    /\ Below(s.completed, stats.completed)
    /\ s.revision = revision /\ revision < MaxRevision => s.completed = stats.completed

\* Of two snapshots the one with the later revision has the higher counters.
Ordered(a, b) ==
  a.ok /\ b.ok /\ a.revision <= b.revision /\ b.revision < MaxRevision =>
    Below(a.completed, b.completed)

\* The snapshots that are shown or wait for their report.
Held == {exported, poll.stats, flush.stats}

SnapshotsOK ==
  /\ revision \in Nat /\ exported \in SnapshotType /\ exported.ok
  /\ \A a \in Held : Behind(a) /\ \A b \in Held : Ordered(a, b)

\* A part's flag is set only by a poll that collected it after its last failure.
FlagFollowsPoll ==
  /\ owed \subseteq Parts
  /\ flags.overviewOK => "overview" \notin owed
  /\ flags.detailOK => "details" \notin owed

IInv ==
  /\ FileOK
  /\ ServerOK
  /\ PollOK
  /\ FlushOK
  /\ SnapshotsOK
  /\ FlagFollowsPoll
  /\ PublishedBeforeRemoved

-------------------------------------------------------------------------------
(* A set of numbers has a least one *)

LEMMA LeastExists ==
  ASSUME NEW S \in SUBSET Nat, S # {}
  PROVE  \E s \in S : \A t \in S : s <= t
<1> DEFINE R == {ss \in Nat \X Nat : ss[1] < ss[2]}
<1>1. IsWellFoundedOn(R, Nat)
  BY NatLessThanWellFounded DEF OpToRel
<1>2. \E x \in S : \A y \in S : ~(<<y, x>> \in R)
  <2> HIDE DEF R
  <2> QED
    BY <1>1, WFMin
<1>3. PICK x \in S : \A y \in S : ~(<<y, x>> \in R)
  BY <1>2
<1>4. \A y \in S : ~(y < x)
  BY <1>3
<1> QED
  BY <1>4

-------------------------------------------------------------------------------
(* Lemmas about the list *)

\* The queries of the list are finite in number.
LEMMA ListedFinite ==
  /\ Listed \subseteq Queries /\ IsFiniteSet(Listed)
  /\ Cardinality(Listed) \in Nat
  /\ Cardinality(Listed) = 0 <=> Listed = {}
BY QueryPipelineAssumption, FS_Subset, FS_CardinalityType, FS_EmptySet DEF Listed

\* The queries are numbered from the newest without gaps: every place of the list
\* has a query.
LEMMA EveryPlace ==
  ASSUME NEW place \in 0..(Cardinality(Listed) - 1)
  PROVE  \E id \in Listed : Cardinality({other \in Listed : other > id}) = place
<1> DEFINE S == Listed
           n == Cardinality(S)
           Newer(id) == {other \in S : other > id}
           T == 0..(n - 1)
           f == [id \in S |-> Cardinality(Newer(id))]
<1>1. S \subseteq Nat /\ IsFiniteSet(S) /\ n \in Nat
  BY ListedFinite, QueryPipelineAssumption
<1>2. \A id \in S : Newer(id) \in SUBSET (S \ {id}) /\ IsFiniteSet(Newer(id))
  BY <1>1, FS_Subset
<1>3. IsFiniteSet(T) /\ Cardinality(T) = n
  <2> HIDE DEF n
  <2>1. IsFiniteSet(0..(n - 1))
        /\ Cardinality(0..(n - 1)) = IF 0 > n - 1 THEN 0 ELSE (n - 1) - 0 + 1
    BY <1>1, FS_Interval
  <2> QED
    BY <1>1, <2>1
<1>4. \A id \in S : f[id] \in T
  <2> SUFFICES ASSUME NEW id \in S PROVE Cardinality(Newer(id)) \in T
    OBVIOUS
  <2>1. IsFiniteSet(S \ {id}) /\ Cardinality(S \ {id}) = n - 1
    BY <1>1, FS_RemoveElement
  <2>2. Cardinality(Newer(id)) <= Cardinality(S \ {id})
    <3> HIDE DEF S, Newer
    <3> QED
      BY <1>2, <2>1, FS_Subset
  <2>3. Cardinality(Newer(id)) \in Nat
    BY <1>2, FS_CardinalityType
  <2> HIDE DEF Newer, n, S
  <2> QED
    BY <1>1, <2>1, <2>2, <2>3
<1>5. \A x, y \in S : x < y => f[x] # f[y]
  <2> SUFFICES ASSUME NEW x \in S, NEW y \in S, x < y
               PROVE  Cardinality(Newer(x)) # Cardinality(Newer(y))
    OBVIOUS
  <2>1. x \in Nat /\ y \in Nat /\ y \notin Newer(y) /\ y \in Newer(x)
    BY <1>1
  <2>2. Newer(y) \in SUBSET Newer(x)
    <3> SUFFICES ASSUME NEW z \in S, z > y PROVE z > x
      OBVIOUS
    <3> QED
      BY <1>1, <2>1
  <2> HIDE DEF Newer, S
  <2>3. IsFiniteSet(Newer(x))
    BY <1>2
  <2> QED
    BY <2>1, <2>2, <2>3, FS_Subset
<1>6. f \in Injection(S, T)
  <2>1. f \in [S -> T]
    BY <1>4
  <2>2. \A x, y \in S : f[x] = f[y] => x = y
    <3> HIDE DEF f
    <3> QED
      BY <1>1, <1>5
  <2> HIDE DEF f, S, T
  <2> QED
    BY <2>1, <2>2 DEF Injection, IsInjective
<1>7. f \in Surjection(S, T)
  <2> HIDE DEF f, S, T, n
  <2>1. Cardinality(S) = n
    BY DEF n
  <2> QED
    BY <1>3, <1>6, <2>1, FS_Injection
<1>8. \E id \in S : f[id] = place
  <2>1. place \in T
    OBVIOUS
  <2> HIDE DEF f, S, T
  <2> QED
    BY <1>7, <2>1 DEF Surjection
<1> QED
  BY <1>8

\* The cursor only meets listed queries.
LEMMA ItemIsListed ==
  ASSUME cursor \in Nat, Listed # {}, NEW k \in Nat
  PROVE  ItemAt(k) \in Listed
<1> DEFINE n == Cardinality(Listed)
           place == (cursor + k) % n
           P(id) == id \in Listed
                    /\ Cardinality({other \in Listed : other > id}) = place
<1>1. place \in 0..(n - 1)
  <2>1. n \in Nat /\ n # 0
    BY ListedFinite
  <2> HIDE DEF n
  <2> QED
    BY <2>1
<1>2. \E id : P(id)
  <2> HIDE DEF place
  <2> QED
    BY <1>1, EveryPlace
<1>3. P(CHOOSE id : P(id))
  BY <1>2
<1>4. ItemAt(k) = CHOOSE id : P(id)
  BY DEF ItemAt
<1> QED
  BY <1>3, <1>4

\* Examining one more item takes at most one more query.
LEMMA WantedGrows ==
  ASSUME cursor \in Nat, NEW n \in 0..Cardinality(Listed)
  PROVE  /\ Wanted(n) \subseteq Listed
         /\ IsFiniteSet(Wanted(n)) /\ Cardinality(Wanted(n)) \in Nat
         /\ n = 0 => Cardinality(Wanted(n)) = 0
         /\ n > 0 => Cardinality(Wanted(n)) <= Cardinality(Wanted(n - 1)) + 1
<1>1. Cardinality(Listed) \in Nat /\ n \in Nat /\ n <= Cardinality(Listed)
  BY ListedFinite
<1>2. ASSUME NEW m \in Nat, m <= Cardinality(Listed)
      PROVE  Wanted(m) \subseteq Listed /\ IsFiniteSet(Wanted(m))
             /\ Cardinality(Wanted(m)) \in Nat
  <2>1. Wanted(m) \subseteq Listed
    <3>1. CASE m = 0
      BY <3>1 DEF Wanted
    <3>2. CASE m # 0
      <4>1. Listed # {}
        BY <1>1, <1>2, <3>2, ListedFinite
      <4> QED
        BY <1>2, <4>1, ItemIsListed DEF Wanted
    <3> QED
      BY <3>1, <3>2
  <2> QED
    BY <2>1, ListedFinite, FS_Subset, FS_CardinalityType
<1>3. n = 0 => Cardinality(Wanted(n)) = 0
  <2>1. n = 0 => Wanted(n) = {}
    BY DEF Wanted
  <2> QED
    BY <2>1, FS_EmptySet
<1>4. ASSUME n > 0
      PROVE  Cardinality(Wanted(n)) <= Cardinality(Wanted(n - 1)) + 1
  <2> DEFINE old == Wanted(n - 1)
             item == ItemAt(n - 1)
  <2>1. 0..(n - 1) = (0..((n - 1) - 1)) \cup {n - 1}
    BY <1>1, <1>4
  <2>2. Wanted(n) \in SUBSET (old \cup {item})
    BY <2>1 DEF Wanted
  <2>3. IsFiniteSet(old) /\ Cardinality(old) \in Nat
    BY <1>1, <1>2, <1>4
  <2> HIDE DEF old, item
  <2>4. IsFiniteSet(old \cup {item})
        /\ Cardinality(old \cup {item}) <= Cardinality(old) + 1
        /\ Cardinality(old \cup {item}) \in Nat
    <3>1. IsFiniteSet(old \cup {item})
          /\ Cardinality(old \cup {item}) =
               IF item \in old THEN Cardinality(old) ELSE Cardinality(old) + 1
      BY <2>3, FS_AddElement
    <3> QED
      BY <2>3, <3>1
  <2>5. Cardinality(Wanted(n)) <= Cardinality(old \cup {item})
    BY <2>2, <2>4, FS_Subset
  <2>6. Cardinality(Wanted(n)) \in Nat
    BY <1>1, <1>2
  <2> QED
    BY <2>3, <2>4, <2>5, <2>6 DEF old
<1> QED
  BY <1>1, <1>2, <1>3, <1>4

\* The loop stops, at the end of the list or when the cycle is full.
LEMMA LoopStops ==
  ASSUME cursor \in Nat
  PROVE  /\ Examined \in 0..Cardinality(Listed)
         /\ \A m \in 0..(Examined - 1) : Cardinality(Wanted(m)) < MaxPerCycle
         /\ Cardinality(Wanted(Examined)) <= MaxPerCycle
<1> DEFINE N == Cardinality(Listed)
           W(m) == Cardinality(Wanted(m))
           Stop(n) == /\ n \in 0..N
                      /\ n = N \/ W(n) = MaxPerCycle
                      /\ \A m \in 0..(n - 1) : W(m) < MaxPerCycle
           Full(n) == n = N \/ W(n) >= MaxPerCycle
<1>1. N \in Nat /\ MaxPerCycle \in Nat \ {0}
  BY ListedFinite, QueryPipelineAssumption
<1>2. \A n \in 0..N :
        /\ W(n) \in Nat
        /\ n = 0 => W(n) = 0
        /\ n > 0 => W(n) <= W(n - 1) + 1
  BY WantedGrows
<1> HIDE DEF N, W
<1>3. ASSUME NEW n \in 0..N, \A m \in 0..(n - 1) : W(m) < MaxPerCycle
      PROVE  W(n) <= MaxPerCycle
  <2>1. CASE n = 0
    BY <1>1, <1>2, <2>1
  <2>2. CASE n > 0
    <3>1. n - 1 \in 0..(n - 1) /\ n - 1 \in 0..N
      BY <1>1, <2>2
    <3>2. W(n - 1) < MaxPerCycle /\ W(n - 1) \in Nat /\ W(n) \in Nat
          /\ W(n) <= W(n - 1) + 1
      BY <1>2, <1>3, <2>2, <3>1
    <3> QED
      BY <1>1, <3>2
  <2> QED
    BY <1>1, <2>1, <2>2
<1>4. \E n \in 0..N : Full(n) /\ \A m \in 0..(n - 1) : ~Full(m)
  <2> DEFINE F == {n \in 0..N : Full(n)}
  <2>1. F \subseteq Nat /\ F # {}
    BY <1>1
  <2>2. \E n \in F : \A m \in F : n <= m
    <3> HIDE DEF F
    <3> QED
      BY <2>1, LeastExists
  <2> QED
    BY <1>1, <2>2
<1>5. PICK n \in 0..N : Full(n) /\ \A m \in 0..(n - 1) : ~Full(m)
  BY <1>4
<1>6. \A m \in 0..(n - 1) : W(m) < MaxPerCycle
  <2> SUFFICES ASSUME NEW m \in 0..(n - 1) PROVE W(m) < MaxPerCycle
    OBVIOUS
  <2>1. m \in 0..N /\ ~(W(m) >= MaxPerCycle)
    BY <1>1, <1>5
  <2> QED
    BY <1>1, <1>2, <2>1
<1>7. Stop(n)
  <2>1. W(n) <= MaxPerCycle /\ W(n) \in Nat
    BY <1>2, <1>3, <1>6
  <2> QED
    BY <1>1, <1>5, <1>6, <2>1
<1>8. Stop(CHOOSE x : Stop(x))
  BY <1>7
<1>9. Examined = CHOOSE x : Stop(x)
  BY DEF Examined, N, W
<1> QED
  BY <1>3, <1>8, <1>9 DEF N, W

-------------------------------------------------------------------------------
(* The file *)

\* Nothing is written.
LEMMA SameFile ==
  ASSUME FileOK, UNCHANGED queryStoreVars
  PROVE  FileOK'
BY DEF FileOK, queryStoreVars, QueryStoreTypeOK, ValidRecord, Known, StatsValid

\* Pruning raises the floor and forgets the checkpoints below it; the checkpoint of
\* a queued event that the floor has not passed stays.
LEMMA PruneEffect ==
  ASSUME FileOK, NEW now \in Nat, Prune(now)
  PROVE  /\ FileOK'
         /\ events' = events /\ sequence' = sequence
         /\ stats'.completed = stats.completed
<1>1. /\ sequence \in Nat /\ DOMAIN events \subseteq 1..sequence
      /\ events \in [DOMAIN events -> Event]
      /\ DOMAIN checkpoints \subseteq Queries
      /\ checkpoints \in [DOMAIN checkpoints -> Checkpoint]
      /\ stats \in Stats /\ stats.floor \in Nat
  BY DEF FileOK, QueryStoreTypeOK, Stats
<1>2. Floor(now) \in Nat /\ stats.floor <= Floor(now)
  BY <1>1, QueryOptionsAssumption DEF Floor, Later
<1>3. /\ events' = events /\ sequence' = sequence
      /\ stats' = [stats EXCEPT !.floor = Floor(now)]
  BY DEF Prune
<1>4. /\ stats' \in Stats /\ stats'.floor = Floor(now)
      /\ stats'.completed = stats.completed /\ stats'.pending = stats.pending
  BY <1>1, <1>2, <1>3 DEF Stats
<1>5. /\ DOMAIN checkpoints' =
           {q \in DOMAIN checkpoints : checkpoints[q].time >= Floor(now)}
      /\ \A id \in DOMAIN checkpoints' : checkpoints'[id] = checkpoints[id]
      /\ checkpoints' \in [DOMAIN checkpoints' -> Checkpoint]
  BY <1>1 DEF Prune
<1>6. QueryStoreTypeOK'
  BY <1>1, <1>3, <1>4, <1>5 DEF QueryStoreTypeOK
<1>7. ASSUME NEW s \in DOMAIN events' PROVE ValidRecord(s)'
  <2>1. ValidRecord(s) /\ events[s] \in Event
    BY <1>1, <1>3 DEF FileOK
  <2> QED
    BY <1>1, <1>2, <1>3, <1>4, <1>5, <2>1 DEF ValidRecord, Known, Hash, Event
<1>8. StatsValid'
  BY <1>3, <1>4 DEF FileOK, StatsValid
<1> QED
  BY <1>3, <1>4, <1>6, <1>7, <1>8 DEF FileOK

\* Recording a detail adds at most one event, at the end, and takes no counter
\* down.  The checkpoint of a queued terminal event is locked: it is not written.
LEMMA RecordEffect ==
  ASSUME FileOK, NEW e \in Event, RecordStored(e)
  PROVE  /\ FileOK'
         /\ DOMAIN events \subseteq DOMAIN events'
         /\ sequence' = sequence
            \/ (sequence' = sequence + 1 /\ sequence + 1 \in DOMAIN events')
         /\ Below(stats.completed, stats'.completed)
<1>1. /\ sequence \in Nat /\ DOMAIN events \subseteq 1..sequence
      /\ events \in [DOMAIN events -> Event]
      /\ DOMAIN checkpoints \subseteq Queries
      /\ checkpoints \in [DOMAIN checkpoints -> Checkpoint]
      /\ stats \in Stats /\ e.id \in Queries /\ Size[e.state] \in Nat
      /\ e.state \in Live \cup Terminal /\ e.when \in Nat /\ e.observed \in Nat
  BY QueryValueAssumption DEF FileOK, QueryStoreTypeOK, Event
<1>2. Accepted(e) /\ AppendEvent(e)
  BY DEF RecordStored
<1> DEFINE completed == [t \in Terminal |->
               IF t = e.state THEN stats.completed[t] + 1 ELSE stats.completed[t]]
           pending == IF Queued(e) THEN stats.pending + 1 ELSE stats.pending
           bytes == IF Queued(e) THEN stats.bytes + Size[e.state] ELSE stats.bytes
           c == [final |-> e.state \in Terminal, hash |-> Hash(e),
                 lastFetched |-> e.observed, time |-> e.when]
<1>3. /\ completed \in [Terminal -> Nat] /\ pending \in Nat /\ bytes \in Nat
      /\ Below(stats.completed, completed)
  BY <1>1 DEF Stats, Below
<1>4. stats' = [stats EXCEPT !.pending = pending, !.bytes = bytes,
                             !.completed = completed]
  BY DEF RecordStored
<1> HIDE DEF completed, pending, bytes
<1>5. /\ stats' \in Stats /\ stats'.floor = stats.floor
      /\ stats'.completed = completed /\ stats'.pending = pending
  BY <1>1, <1>3, <1>4 DEF Stats
<1>6. c \in Checkpoint
  BY <1>1 DEF Checkpoint, Hash
<1>7. c.hash = Hash(e) /\ c.lastFetched = e.observed /\ c.time = e.when
      /\ (e.state \in Terminal => c.final)
  OBVIOUS
<1>8. /\ DOMAIN checkpoints' = DOMAIN checkpoints \cup {e.id}
      /\ checkpoints'[e.id] = c
      /\ \A id \in DOMAIN checkpoints \ {e.id} : checkpoints'[id] = checkpoints[id]
      /\ checkpoints' \in [DOMAIN checkpoints' -> Checkpoint]
  <2>1. checkpoints' = [id \in DOMAIN checkpoints \cup {e.id} |->
                          IF id = e.id THEN c ELSE checkpoints[id]]
    BY DEF RecordStored
  <2> HIDE DEF c
  <2> QED
    BY <1>1, <1>6, <2>1
<1> HIDE DEF c
<1>9. /\ sequence' \in Nat /\ DOMAIN events' \subseteq 1..sequence'
      /\ DOMAIN events \subseteq DOMAIN events'
      /\ \A s \in DOMAIN events : events'[s] = events[s]
      /\ \A s \in DOMAIN events' \ DOMAIN events : events'[s] = e
      /\ sequence' = sequence
         \/ (sequence' = sequence + 1 /\ sequence + 1 \in DOMAIN events')
      /\ pending = Cardinality(DOMAIN events')
  <2>1. stats.pending = Cardinality(DOMAIN events) /\ stats.pending \in Nat
    BY <1>1 DEF FileOK, StatsValid, Stats
  <2>2. CASE Queued(e)
    <3>1. /\ sequence' = sequence + 1 /\ sequence + 1 \notin DOMAIN events
          /\ DOMAIN events' = DOMAIN events \cup {sequence + 1}
          /\ events'[sequence + 1] = e
          /\ \A s \in DOMAIN events : events'[s] = events[s]
      BY <1>1, <1>2, <2>2 DEF AppendEvent
    <3>2. Cardinality(DOMAIN events') = Cardinality(DOMAIN events) + 1
      BY <3>1, QueueFinite, FS_AddElement DEF FileOK
    <3> QED
      BY <1>1, <2>1, <2>2, <3>1, <3>2 DEF pending
  <2>3. CASE ~Queued(e)
    BY <1>1, <1>2, <2>1, <2>3 DEF AppendEvent, pending
  <2> QED
    BY <2>2, <2>3
<1>10. events' \in [DOMAIN events' -> Event]
  <2>1. events' = [s \in DOMAIN events' |-> events'[s]]
    BY <1>1, <1>2 DEF AppendEvent
  <2> QED
    BY <1>1, <1>9, <2>1
<1>11. QueryStoreTypeOK'
  BY <1>1, <1>5, <1>8, <1>9, <1>10 DEF QueryStoreTypeOK
<1>12. ASSUME NEW s \in DOMAIN events' PROVE ValidRecord(s)'
  <2>1. CASE s \in DOMAIN events
    <3>1. ValidRecord(s) /\ events[s] \in Event
      BY <1>1, <2>1 DEF FileOK
    <3>2. ~(Known(e.id) /\ checkpoints[e.id].final)
      BY <1>2 DEF Accepted, Superseded
    <3> QED
      BY <1>1, <1>5, <1>8, <1>9, <2>1, <3>1, <3>2 DEF ValidRecord, Known, Hash
  <2>2. CASE s \notin DOMAIN events
    <3>1. events'[s] = e /\ s \in 1..sequence'
      BY <1>9, <2>2
    <3> QED
      BY <1>7, <1>8, <3>1 DEF ValidRecord, Known, Hash
  <2> QED
    BY <2>1, <2>2
<1>13. StatsValid'
  BY <1>5, <1>9 DEF StatsValid
<1> QED
  BY <1>3, <1>5, <1>9, <1>11, <1>12, <1>13 DEF FileOK

\* Acknowledging removes one event.
LEMMA AckEffect ==
  ASSUME FileOK, NEW s \in DOMAIN events, Ack(s)
  PROVE  /\ FileOK'
         /\ DOMAIN events' = DOMAIN events \ {s} /\ sequence' = sequence
         /\ stats'.completed = stats.completed
<1>1. /\ sequence \in Nat /\ DOMAIN events \subseteq 1..sequence
      /\ events \in [DOMAIN events -> Event] /\ events[s] \in Event
      /\ stats \in Stats
  BY DEF FileOK, QueryStoreTypeOK
<1> DEFINE p == stats.pending - 1
           b == stats.bytes - Size[events[s].state]
<1>2. /\ events' = [t \in DOMAIN events \ {s} |-> events[t]]
      /\ stats' = [stats EXCEPT !.pending = p, !.bytes = b]
      /\ checkpoints' = checkpoints /\ sequence' = sequence
      /\ stats.pending >= 1 /\ stats.bytes >= Size[events[s].state]
  BY DEF Ack
<1>3. p \in Nat /\ b \in Nat
  <2>1. Size[events[s].state] \in Nat
    BY <1>1, QueryValueAssumption DEF Event
  <2> QED
    BY <1>1, <1>2, <2>1 DEF Stats
<1>4. Cardinality(DOMAIN events') = p
  <2>1. DOMAIN events' = DOMAIN events \ {s}
    BY <1>2
  <2>2. IsFiniteSet(DOMAIN events) /\ Cardinality(DOMAIN events) \in Nat
    BY QueueFinite DEF FileOK
  <2>3. Cardinality(DOMAIN events \ {s}) = Cardinality(DOMAIN events) - 1
    BY <2>2, FS_RemoveElement
  <2> QED
    BY <2>1, <2>3 DEF FileOK, StatsValid
<1> HIDE DEF p, b
<1>5. /\ stats' \in Stats /\ stats'.floor = stats.floor
      /\ stats'.completed = stats.completed /\ stats'.pending = p
  BY <1>1, <1>2, <1>3 DEF Stats
<1>6. /\ DOMAIN events' = DOMAIN events \ {s}
      /\ \A t \in DOMAIN events' : events'[t] = events[t]
      /\ events' \in [DOMAIN events' -> Event]
  BY <1>1, <1>2
<1>7. QueryStoreTypeOK'
  BY <1>1, <1>2, <1>5, <1>6 DEF FileOK, QueryStoreTypeOK
<1>8. ASSUME NEW t \in DOMAIN events' PROVE ValidRecord(t)'
  <2>1. ValidRecord(t)
    BY <1>6 DEF FileOK
  <2> QED
    BY <1>2, <1>5, <1>6, <2>1 DEF ValidRecord, Known, Hash
<1> QED
  BY <1>2, <1>4, <1>5, <1>6, <1>7, <1>8 DEF FileOK, StatsValid

\* The detail of a listed query is an event.
LEMMA DetailIsEvent ==
  ASSUME ServerOK, NEW id \in Listed
  PROVE  Detail(id) \in Event
<1>1. id \in Queries /\ server[id] \in [state : Live \cup Terminal \cup {"absent"},
                                        submitted : Nat, completed : Nat]
      /\ server[id].state # "absent" /\ clock \in Nat
  BY DEF ServerOK, ServerType, Listed
<1> QED
  BY <1>1 DEF Detail, Event

\* The record the publisher works on is the first of its batch.
LEMMA OldestOfBatch ==
  ASSUME FlushOK, flush.pc \in {"publish", "ack"}
  PROVE  Oldest \in flush.batch /\ Oldest \in DOMAIN events
<1>1. flush.batch \in SUBSET Nat /\ flush.batch # {} /\ flush.batch \subseteq DOMAIN events
  BY DEF FlushOK, FlushType
<1>2. \E s \in flush.batch : \A t \in flush.batch : s <= t
  BY <1>1, LeastExists
<1> QED
  BY <1>1, <1>2 DEF Oldest

\* The steps that write to the file.
LEMMA FileSteps ==
  ASSUME IInv, [Next]_vars
  PROVE  /\ FileOK'
         /\ \/ UNCHANGED <<queryStoreVars, revision>>
            \/ /\ SaveStats
               /\ \/ DOMAIN events \subseteq DOMAIN events' /\ UNCHANGED flush
                     /\ (sequence' = sequence
                         \/ (sequence' = sequence + 1 /\ sequence + 1 \in DOMAIN events'))
                     /\ Below(stats.completed, stats'.completed)
                  \/ CrashRestart /\ UNCHANGED <<events, sequence>>
                     /\ stats'.completed = stats.completed
                  \/ FlushAck /\ DOMAIN events' = DOMAIN events \ {Oldest}
                     /\ sequence' = sequence /\ stats'.completed = stats.completed
<1> USE DEF IInv
<1>1. clock \in Nat /\ stats.completed \in Counts
  BY DEF ServerOK, FileOK, QueryStoreTypeOK, Stats, Counts
<1>2. CASE UNCHANGED <<queryStoreVars, revision>>
  BY <1>2, SameFile
<1>3. CASE PollPrune
  <2>1. Prune(clock) /\ SaveStats /\ UNCHANGED flush
    BY <1>3 DEF PollPrune
  <2>2. Below(stats.completed, stats.completed)
    BY <1>1 DEF Below, Counts
  <2> QED
    BY <1>1, <2>1, <2>2, PruneEffect
<1>4. ASSUME NEW id \in Queries, DetailRecorded(id)
      PROVE  /\ FileOK' /\ SaveStats /\ UNCHANGED flush
             /\ DOMAIN events \subseteq DOMAIN events'
             /\ sequence' = sequence
                \/ (sequence' = sequence + 1 /\ sequence + 1 \in DOMAIN events')
             /\ Below(stats.completed, stats'.completed)
  <2>1. id \in Listed /\ RecordStored(Detail(id)) /\ SaveStats /\ UNCHANGED flush
    BY <1>4 DEF DetailRecorded, DetailLeaves, PollOK
  <2> QED
    BY <2>1, DetailIsEvent, RecordEffect
<1>5. CASE FlushAck
  <2>1. Oldest \in DOMAIN events /\ Ack(Oldest) /\ SaveStats
    BY <1>5, OldestOfBatch DEF FlushAck
  <2> QED
    BY <1>5, <2>1, AckEffect
<1>6. CASE CrashRestart
  <2>1. Prune(clock) /\ SaveStats
    BY <1>6 DEF CrashRestart, Open
  <2> QED
    BY <1>1, <1>6, <2>1, PruneEffect
<1> QED
  BY <1>2, <1>3, <1>4, <1>5, <1>6
     DEF Next, PollNext, PollScopeFails, PollScope, PollOverview, PollPruneFails,
         PollListFails, PollList, PollListBreaks, PollStats, PollReport, DetailNext,
         DetailIgnored, RecordIgnored, DetailRefused, DetailFails, FlushNext, FlushRead,
         PublishOK, PublishFails, FlushAckFails, FlushStats, FlushReport,
         EnvironmentNext, Submit, Finish, Tick, vars

-------------------------------------------------------------------------------
(* The server *)

\* A query that was listed stays listed.
LEMMA ServerStep ==
  ASSUME IInv, [Next]_vars
  PROVE  ServerOK' /\ Listed \subseteq Listed'
<1>1. server \in ServerType /\ clock \in Nat
  BY DEF IInv, ServerOK
<1>2. ASSUME NEW id \in Queries, Submit(id)
      PROVE  ServerOK' /\ Listed \subseteq Listed'
  <2>1. PICK state \in Live :
          server' = [server EXCEPT ![id] = [state |-> state, submitted |-> clock,
                                            completed |-> 0]]
    BY <1>2 DEF Submit
  <2>2. clock' = clock /\ state # "absent"
    BY <1>2, QueryPipelineAssumption DEF Submit
  <2>3. server' \in ServerType
    BY <1>1, <2>1 DEF ServerType
  <2>4. Listed \subseteq Listed'
    BY <1>1, <2>1, <2>2 DEF Listed, ServerType
  <2> QED
    BY <1>1, <2>2, <2>3, <2>4 DEF ServerOK
<1>3. ASSUME NEW id \in Queries, Finish(id)
      PROVE  ServerOK' /\ Listed \subseteq Listed'
  <2>1. PICK state \in Terminal :
          server' = [server EXCEPT ![id].state = state, ![id].completed = clock]
    BY <1>3 DEF Finish
  <2>2. clock' = clock /\ state # "absent"
    BY <1>3, QueryPipelineAssumption DEF Finish
  <2>3. server' \in ServerType
    BY <1>1, <2>1 DEF ServerType
  <2>4. Listed \subseteq Listed'
    BY <1>1, <2>1, <2>2 DEF Listed, ServerType
  <2> QED
    BY <1>1, <2>2, <2>3, <2>4 DEF ServerOK
<1>4. CASE Tick
  BY <1>1, <1>4, QueryPipelineAssumption DEF Tick, ServerOK, Listed
<1>5. CASE UNCHANGED <<server, clock>>
  BY <1>1, <1>5 DEF ServerOK, Listed
<1> QED
  BY <1>2, <1>3, <1>4, <1>5
     DEF Next, PollNext, PollScopeFails, PollScope, PollOverview, PollPrune,
         PollPruneFails, PollListFails, PollList, PollListBreaks, PollStats, PollReport,
         DetailNext, DetailRecorded, DetailIgnored, DetailRefused, DetailFails,
         DetailLeaves, FlushNext, FlushRead, PublishOK, PublishFails, FlushAck,
         FlushAckFails, FlushStats, FlushReport, EnvironmentNext, CrashRestart,
         envVars, vars

-------------------------------------------------------------------------------
(* Poll *)

\* The counters of the store are a snapshot.
LEMMA SnapshotTyped ==
  ASSUME FileOK, revision \in Nat
  PROVE  Snapshot \in SnapshotType /\ NoSnapshot \in SnapshotType
BY DEF FileOK, QueryStoreTypeOK, Stats, Snapshot, NoSnapshot, SnapshotType, Counts

\* What a cycle takes from the list, after any number of examined items.
LEMMA TakenFromList ==
  ASSUME cursor \in Nat, NEW n \in 0..Examined
  PROVE  /\ Wanted(n) \subseteq Listed
         /\ IsFiniteSet(Wanted(n)) /\ Cardinality(Wanted(n)) \in Nat
         /\ Cardinality(Wanted(n)) <= MaxPerCycle
         /\ Advance(n) \in Nat
<1>1. Cardinality(Listed) \in Nat /\ (Cardinality(Listed) = 0 <=> Listed = {})
      /\ MaxPerCycle \in Nat
  BY ListedFinite, QueryPipelineAssumption
<1>2. Examined \in 0..Cardinality(Listed)
  BY LoopStops
<1>3. n \in 0..Cardinality(Listed) /\ n \in Nat
  BY <1>1, <1>2
<1>4. Wanted(n) \subseteq Listed /\ IsFiniteSet(Wanted(n))
      /\ Cardinality(Wanted(n)) \in Nat
  BY <1>3, WantedGrows
<1>5. Cardinality(Wanted(n)) <= MaxPerCycle
  <2>1. CASE n = Examined
    BY <2>1, LoopStops
  <2>2. CASE n # Examined
    <3>1. n \in 0..(Examined - 1)
      BY <1>1, <1>2, <2>2
    <3>2. Cardinality(Wanted(n)) < MaxPerCycle
      BY <3>1, LoopStops
    <3> QED
      BY <1>1, <1>4, <3>2
  <2> QED
    BY <2>1, <2>2
<1>6. Advance(n) \in Nat
  BY <1>1, <1>3 DEF Advance
<1> QED
  BY <1>4, <1>5, <1>6

\* A cycle that is idle works on nothing.
LEMMA IdlePollOK ==
  ASSUME FileOK, revision \in Nat
  PROVE  /\ IdlePoll \in PollType /\ IdlePoll.todo = {}
         /\ Cardinality({}) <= MaxPerCycle
<1>1. Cardinality({}) = 0 /\ MaxPerCycle \in Nat
  BY FS_EmptySet, QueryPipelineAssumption
<1> QED
  BY <1>1, SnapshotTyped DEF IdlePoll, PollType

\* What the poll holds.
LEMMA PollStep ==
  ASSUME IInv, [Next]_vars
  PROVE  PollOK'
<1>1. /\ flags \in FlagsType /\ poll \in PollType /\ cursor \in Nat
      /\ poll.todo \subseteq Listed /\ Cardinality(poll.todo) <= MaxPerCycle
  BY DEF IInv, PollOK
<1>2. /\ poll.ok \in BOOLEAN /\ poll.todo \subseteq Queries /\ poll.stats \in SnapshotType
      /\ FileOK /\ FlushOK /\ revision \in Nat
  BY <1>1 DEF PollType, IInv, SnapshotsOK
<1>3. Listed \subseteq Listed' /\ Listed \subseteq Queries
  BY ServerStep DEF Listed
<1>4. /\ Snapshot \in SnapshotType
      /\ IdlePoll \in PollType /\ IdlePoll.todo = {} /\ Cardinality({}) <= MaxPerCycle
  BY <1>2, SnapshotTyped, IdlePollOK
<1>5. ASSUME poll'.todo = poll.todo, poll' \in PollType, flags' \in FlagsType,
             cursor' \in Nat
      PROVE  PollOK'
  BY <1>1, <1>3, <1>5 DEF PollOK
<1>6. ASSUME poll' = IdlePoll, flags' \in FlagsType, cursor' \in Nat
      PROVE  PollOK'
  BY <1>4, <1>6 DEF PollOK
<1>7. CASE PollScopeFails
  <2>1. poll' = poll /\ cursor' = cursor /\ flags' \in FlagsType
    BY <1>1, <1>7 DEF PollScopeFails, FlagsType
  <2> QED
    BY <1>1, <1>5, <2>1
<1>8. CASE PollScope
  <2>1. cursor' = cursor /\ flags' \in FlagsType
    BY <1>1, <1>8 DEF PollScope, FlagsType
  <2>2. poll' \in PollType /\ poll'.todo = {}
    BY <1>4, <1>8 DEF PollScope, PollType
  <2> QED
    BY <1>1, <1>4, <2>1, <2>2 DEF PollOK
<1>9. ASSUME NEW ok \in BOOLEAN, PollOverview(ok) PROVE PollOK'
  <2>1. cursor' = cursor /\ flags' \in FlagsType
    BY <1>1, <1>9 DEF PollOverview, FlagsType
  <2>2. poll' \in PollType /\ poll'.todo = poll.todo
    BY <1>1, <1>9 DEF PollOverview, PollType
  <2> QED
    BY <1>1, <1>5, <2>1, <2>2
<1>10. CASE PollPrune
  <2>1. cursor' = cursor /\ flags' = flags
    BY <1>10 DEF PollPrune
  <2>2. poll' \in PollType /\ poll'.todo = poll.todo
    BY <1>1, <1>10 DEF PollPrune, PollType
  <2> QED
    BY <1>1, <1>5, <2>1, <2>2
<1>11. CASE PollPruneFails
  <2>1. cursor' = cursor /\ flags' \in FlagsType /\ poll' = IdlePoll
    BY <1>1, <1>11 DEF PollPruneFails, FlagsType
  <2> QED
    BY <1>1, <1>6, <2>1
<1>12. CASE PollListFails
  <2>1. cursor' = cursor /\ flags' = flags
    BY <1>12 DEF PollListFails
  <2>2. poll' \in PollType /\ poll'.todo = poll.todo
    BY <1>1, <1>12 DEF PollListFails, PollType
  <2> QED
    BY <1>1, <1>5, <2>1, <2>2
<1>13. ASSUME NEW n \in 0..Examined, NEW ok \in BOOLEAN,
              poll' = [poll EXCEPT !.pc = "fetch", !.todo = Wanted(n), !.ok = ok],
              cursor' = Advance(n), flags' = flags
       PROVE  PollOK'
  <2>1. /\ Wanted(n) \subseteq Listed /\ Cardinality(Wanted(n)) <= MaxPerCycle
        /\ Advance(n) \in Nat
    BY <1>1, TakenFromList
  <2>2. poll' \in PollType /\ poll'.todo = Wanted(n)
    BY <1>1, <1>3, <1>13, <2>1 DEF PollType
  <2> QED
    BY <1>1, <1>3, <1>13, <2>1, <2>2 DEF PollOK
<1>14. Examined \in Nat
  BY <1>1, LoopStops, ListedFinite
<1>15. CASE PollList
  <2>1. poll' = [poll EXCEPT !.pc = "fetch", !.todo = Wanted(Examined), !.ok = poll.ok]
    BY <1>1, <1>15 DEF PollList, PollType
  <2>2. cursor' = Advance(Examined) /\ flags' = flags /\ Examined \in 0..Examined
    BY <1>14, <1>15 DEF PollList
  <2> QED
    BY <1>2, <1>13, <2>1, <2>2
<1>16. ASSUME NEW n \in 1..Cardinality(Queries), PollListBreaks(n) PROVE PollOK'
  <2>1. /\ poll' = [poll EXCEPT !.pc = "fetch", !.todo = Wanted(n - 1), !.ok = FALSE]
        /\ cursor' = Advance(n) /\ flags' = flags /\ n \in 1..Examined
    BY <1>16 DEF PollListBreaks
  <2>2. n \in 0..Examined /\ n - 1 \in 0..Examined
    BY <1>14, <2>1
  <2>3. /\ Wanted(n - 1) \subseteq Listed /\ Cardinality(Wanted(n - 1)) <= MaxPerCycle
        /\ Advance(n) \in Nat
    BY <1>1, <2>2, TakenFromList
  <2>4. poll' \in PollType /\ poll'.todo = Wanted(n - 1)
    BY <1>1, <1>3, <2>1, <2>3 DEF PollType
  <2> QED
    BY <1>1, <1>3, <2>1, <2>3, <2>4 DEF PollOK
<1>17. ASSUME NEW id \in Queries, NEW ok \in BOOLEAN, DetailLeaves(id, ok) PROVE PollOK'
  <2>1. /\ poll' = [poll EXCEPT !.todo = @ \ {id}, !.ok = @ /\ ok]
        /\ cursor' = cursor /\ flags' = flags
    BY <1>17 DEF DetailLeaves
  <2>2. poll' \in PollType /\ poll'.todo = poll.todo \ {id}
    <3> DEFINE r == poll.ok /\ ok
    <3>1. r \in BOOLEAN
      OBVIOUS
    <3>2. poll' = [poll EXCEPT !.todo = poll.todo \ {id}, !.ok = r]
      BY <1>1, <2>1 DEF PollType
    <3> HIDE DEF r
    <3> QED
      BY <1>1, <1>2, <3>1, <3>2 DEF PollType
  <2>3. IsFiniteSet(poll.todo)
    BY <1>2, QueryPipelineAssumption, FS_Subset
  <2>4. poll.todo \ {id} \in SUBSET poll.todo
    OBVIOUS
  <2>5. /\ Cardinality(poll.todo \ {id}) <= Cardinality(poll.todo)
        /\ Cardinality(poll.todo \ {id}) \in Nat /\ Cardinality(poll.todo) \in Nat
    BY <2>3, <2>4, FS_Subset, FS_CardinalityType
  <2>6. Cardinality(poll'.todo) <= MaxPerCycle
    BY <1>1, <2>2, <2>5, QueryPipelineAssumption
  <2>7. poll'.todo \subseteq Listed'
    BY <1>1, <1>3, <2>2
  <2> QED
    BY <1>1, <2>1, <2>2, <2>6, <2>7 DEF PollOK
<1>18. CASE PollStats
  <2>1. cursor' = cursor /\ flags' = flags
    BY <1>18 DEF PollStats
  <2>2. poll' \in PollType /\ poll'.todo = poll.todo
    BY <1>1, <1>4, <1>18 DEF PollStats, PollType
  <2> QED
    BY <1>1, <1>5, <2>1, <2>2
<1>19. CASE PollReport
  <2> DEFINE a == poll.ok /\ poll.stats.ok
             b == poll.stats.ok
  <2>1. /\ flags' = [flags EXCEPT !.detailOK = a, !.stateOK = b]
        /\ cursor' = cursor /\ poll' = IdlePoll
    BY <1>19 DEF PollReport
  <2>2. a \in BOOLEAN /\ b \in BOOLEAN
    BY <1>2 DEF SnapshotType
  <2> HIDE DEF a, b
  <2>3. flags' \in FlagsType
    BY <1>1, <2>1, <2>2 DEF FlagsType
  <2> QED
    BY <1>1, <1>6, <2>1, <2>3
<1>20. CASE FlushReport
  <2> DEFINE a == flush.ok /\ flush.stats.ok
             b == flush.stats.ok
  <2>1. /\ flags' = [flags EXCEPT !.publishOK = a, !.stateOK = b]
        /\ cursor' = cursor /\ poll' = poll
    BY <1>20 DEF FlushReport
  <2>2. a \in BOOLEAN /\ b \in BOOLEAN
    BY <1>2 DEF FlushOK, FlushType, SnapshotType
  <2> HIDE DEF a, b
  <2>3. flags' \in FlagsType
    BY <1>1, <2>1, <2>2 DEF FlagsType
  <2> QED
    BY <1>1, <1>5, <2>1, <2>3
<1>21. CASE CrashRestart
  <2>1. flags' \in FlagsType /\ cursor' \in Nat /\ poll' = IdlePoll
    BY <1>21, QueryOptionsAssumption DEF CrashRestart, StartFlags, FlagsType
  <2> QED
    BY <1>6, <2>1
<1>22. CASE UNCHANGED <<flags, poll, cursor>>
  BY <1>1, <1>5, <1>22
<1> QED
  BY <1>7, <1>8, <1>9, <1>10, <1>11, <1>12, <1>15, <1>16, <1>17, <1>18, <1>19, <1>20,
     <1>21, <1>22
     DEF Next, PollNext, DetailNext, DetailRecorded, DetailIgnored, DetailRefused,
         DetailFails, FlushNext, FlushRead, PublishOK, PublishFails, FlushAck,
         FlushAckFails, FlushStats, EnvironmentNext, Submit, Finish, Tick,
         memoryVars, vars

-------------------------------------------------------------------------------
(* flush *)

\* What the publisher holds.
LEMMA FlushStep ==
  ASSUME IInv, [Next]_vars
  PROVE  FlushOK'
<1>1. /\ flush \in FlushType
      /\ flush.pc \in {"publish", "ack"} =>
           flush.batch # {} /\ flush.batch \subseteq DOMAIN events
      /\ flush.pc = "ack" => Oldest \in published
  BY DEF IInv, FlushOK
<1>2. /\ flush.batch \in SUBSET Nat /\ flush.ok \in BOOLEAN
      /\ flush.stats \in SnapshotType
      /\ FileOK /\ FlushOK /\ revision \in Nat /\ DOMAIN events \subseteq Nat
  BY <1>1 DEF FlushType, IInv, SnapshotsOK, FileOK, QueryStoreTypeOK
<1>3. Snapshot \in SnapshotType /\ NoSnapshot \in SnapshotType
  BY <1>2, SnapshotTyped
<1>4. ASSUME flush' \in FlushType, flush'.pc \notin {"publish", "ack"} PROVE FlushOK'
  BY <1>4 DEF FlushOK
<1>5. CASE UNCHANGED <<flush, published>> /\ DOMAIN events \subseteq DOMAIN events'
  BY <1>1, <1>5 DEF FlushOK, Oldest
<1>6. CASE FlushRead
  <2>1. UNCHANGED events
    BY <1>6 DEF FlushRead, queryStoreVars
  <2>2. Records(BatchLimit) \subseteq DOMAIN events
    BY DEF Records
  <2>3. flush' \in FlushType /\ flush'.pc # "ack"
    BY <1>2, <1>3, <1>6, <2>2 DEF FlushRead, IdleFlush, FlushType
  <2>4. flush'.pc = "publish" =>
          flush'.batch = Records(BatchLimit) /\ Records(BatchLimit) # {}
    BY <1>6 DEF FlushRead, IdleFlush
  <2> QED
    BY <2>1, <2>2, <2>3, <2>4 DEF FlushOK
<1>7. CASE PublishOK
  <2>1. /\ flush' = [flush EXCEPT !.pc = "ack"] /\ flush.pc = "publish"
        /\ published' = published \cup {Oldest} /\ UNCHANGED events
    BY <1>7 DEF PublishOK, queryStoreVars
  <2>2. flush' \in FlushType /\ flush'.batch = flush.batch
    BY <1>1, <2>1 DEF FlushType
  <2>3. Oldest' = Oldest
    BY <2>2 DEF Oldest
  <2> QED
    BY <1>1, <2>1, <2>2, <2>3 DEF FlushOK
<1>8. ASSUME NEW written \in BOOLEAN, PublishFails(written) PROVE FlushOK'
  <2>1. flush' \in FlushType /\ flush'.pc = "stats"
    BY <1>1, <1>8 DEF PublishFails, FlushType
  <2> QED
    BY <1>4, <2>1
<1>9. CASE FlushAck
  <2>1. /\ flush' = [flush EXCEPT !.batch = @ \ {Oldest},
                                  !.pc = IF flush.batch = {Oldest} THEN "stats"
                                                                    ELSE "publish"]
        /\ flush.pc = "ack" /\ Oldest \in DOMAIN events /\ Ack(Oldest)
    BY <1>2, <1>9, OldestOfBatch DEF FlushAck
  <2>2. DOMAIN events' = DOMAIN events \ {Oldest}
    BY <1>2, <2>1, AckEffect
  <2>3. flush' \in FlushType /\ flush'.batch = flush.batch \ {Oldest}
    BY <1>1, <1>2, <2>1 DEF FlushType
  <2>4. flush'.pc # "ack" /\ (flush'.pc = "publish" => flush.batch # {Oldest})
    BY <1>1, <2>1 DEF FlushType
  <2>5. flush.batch # {} /\ flush.batch \subseteq DOMAIN events
    BY <1>1, <2>1
  <2> QED
    BY <2>2, <2>3, <2>4, <2>5 DEF FlushOK
<1>10. CASE FlushAckFails
  <2>1. flush' \in FlushType /\ flush'.pc = "stats"
    BY <1>1, <1>10 DEF FlushAckFails, FlushType
  <2> QED
    BY <1>4, <2>1
<1>11. CASE FlushStats
  <2>1. flush' \in FlushType /\ flush'.pc = "report"
    BY <1>1, <1>3, <1>11 DEF FlushStats, FlushType
  <2> QED
    BY <1>4, <2>1
<1>12. IdleFlush \in FlushType /\ IdleFlush.pc = "idle"
  BY <1>3 DEF IdleFlush, FlushType
<1>13. CASE FlushReport \/ CrashRestart
  <2>1. flush' = IdleFlush
    BY <1>13 DEF FlushReport, CrashRestart
  <2> QED
    BY <1>4, <1>12, <2>1
<1>14. CASE PollPrune
  BY <1>5, <1>14 DEF PollPrune, Prune, envVars
<1>15. ASSUME NEW id \in Queries, DetailRecorded(id) PROVE FlushOK'
  <2>1. UNCHANGED <<flush, published>>
    BY <1>15 DEF DetailRecorded, DetailLeaves, envVars
  <2>2. id \in Listed /\ RecordStored(Detail(id))
    BY <1>15 DEF DetailRecorded, DetailLeaves, IInv, PollOK
  <2>3. DOMAIN events \subseteq DOMAIN events'
    BY <1>2, <2>2, DetailIsEvent, RecordEffect DEF IInv
  <2> QED
    BY <1>5, <2>1, <2>3
<1>16. CASE UNCHANGED <<events, flush, published>>
  BY <1>5, <1>16
<1> QED
  BY <1>6, <1>7, <1>8, <1>9, <1>10, <1>11, <1>13, <1>14, <1>15, <1>16
     DEF Next, PollNext, PollScopeFails, PollScope, PollOverview, PollPruneFails,
         PollListFails, PollList, PollListBreaks, PollStats, PollReport,
         DetailNext, DetailIgnored, DetailRefused, DetailFails, RecordIgnored,
         DetailLeaves, FlushNext, EnvironmentNext, Submit, Finish, Tick,
         queryStoreVars, memoryVars, envVars, vars

-------------------------------------------------------------------------------
(* The counters *)

\* The revision and the counters of the store only go up, and without a new
\* revision (that is told apart) no counter changes.
LEMMA StoreMoves ==
  ASSUME IInv, [Next]_vars
  PROVE  /\ revision' \in Nat /\ revision <= revision'
         /\ stats.completed \in Counts /\ stats'.completed \in Counts
         /\ Below(stats.completed, stats'.completed)
         /\ revision' = revision /\ revision < MaxRevision =>
              stats'.completed = stats.completed
<1>1. revision \in Nat /\ MaxRevision \in Nat
  BY QueryPipelineAssumption DEF IInv, SnapshotsOK
<1>2. stats.completed \in Counts /\ stats'.completed \in Counts
  BY FileSteps DEF IInv, FileOK, QueryStoreTypeOK, Stats, Counts
<1>3. Below(stats.completed, stats.completed)
  BY <1>2 DEF Below, Counts
<1>4. CASE UNCHANGED <<queryStoreVars, revision>>
  BY <1>1, <1>2, <1>3, <1>4 DEF queryStoreVars
<1>5. CASE SaveStats /\ (\/ Below(stats.completed, stats'.completed)
                         \/ stats'.completed = stats.completed)
  <2>1. revision' \in Nat /\ revision <= revision'
        /\ (revision < MaxRevision => revision' # revision)
    BY <1>1, <1>5 DEF SaveStats
  <2> QED
    BY <1>2, <1>3, <1>5, <2>1
<1> QED
  BY <1>4, <1>5, FileSteps

\* A snapshot that is held stays behind the store.
LEMMA StaysBehind ==
  ASSUME IInv, [Next]_vars, NEW s \in SnapshotType, Behind(s)
  PROVE  Behind(s)'
<1> SUFFICES ASSUME s.ok
             PROVE  /\ s.revision <= revision'
                    /\ Below(s.completed, stats'.completed)
                    /\ s.revision = revision' /\ revision' < MaxRevision =>
                         s.completed = stats'.completed
  BY DEF Behind, Below
<1>1. /\ revision' \in Nat /\ revision <= revision' /\ revision \in Nat
      /\ stats.completed \in Counts /\ stats'.completed \in Counts
      /\ s.revision \in Nat /\ s.completed \in Counts
      /\ MaxRevision \in Nat
  BY StoreMoves, QueryPipelineAssumption DEF IInv, SnapshotsOK, SnapshotType
<1>2. s.revision <= revision /\ Below(s.completed, stats.completed)
  BY DEF Behind
<1>3. s.revision <= revision'
  BY <1>1, <1>2
<1>4. Below(s.completed, stats'.completed)
  <2> SUFFICES ASSUME NEW t \in Terminal
               PROVE  s.completed[t] <= stats'.completed[t]
    BY DEF Below
  <2>1. s.completed[t] <= stats.completed[t] /\ stats.completed[t] <= stats'.completed[t]
    BY <1>2, StoreMoves DEF Below
  <2>2. s.completed[t] \in Nat /\ stats.completed[t] \in Nat /\ stats'.completed[t] \in Nat
    BY <1>1 DEF Counts
  <2> QED
    BY <2>1, <2>2
<1>5. ASSUME s.revision = revision', revision' < MaxRevision
      PROVE  s.completed = stats'.completed
  <2>1. s.revision = revision /\ revision' = revision /\ revision < MaxRevision
    BY <1>1, <1>2, <1>5
  <2> QED
    BY <2>1, StoreMoves DEF Behind
<1> QED
  BY <1>3, <1>4, <1>5

\* A snapshot taken now is not older than one that is held, and has the counters
\* of one with the same revision.
LEMMA NowIsLast ==
  ASSUME FileOK, revision \in Nat, NEW s \in SnapshotType, Behind(s)
  PROVE  /\ Ordered(s, Snapshot) /\ Ordered(Snapshot, s)
         /\ Ordered(Snapshot, Snapshot) /\ Behind(Snapshot)
<1>1. /\ Snapshot = [ok |-> TRUE, revision |-> revision, completed |-> stats.completed]
      /\ Snapshot.revision = revision /\ Snapshot.completed = stats.completed
      /\ stats.completed \in Counts /\ s.revision \in Nat
  BY DEF Snapshot, FileOK, QueryStoreTypeOK, Stats, Counts, SnapshotType
<1>2. Below(stats.completed, stats.completed)
  BY <1>1 DEF Below, Counts
<1>3. Behind(Snapshot) /\ Ordered(Snapshot, Snapshot)
  BY <1>1, <1>2 DEF Behind, Ordered
<1>4. Ordered(s, Snapshot)
  BY <1>1 DEF Behind, Ordered
<1>5. Ordered(Snapshot, s)
  <2> SUFFICES ASSUME s.ok, revision <= s.revision, s.revision < MaxRevision
               PROVE  Below(stats.completed, s.completed)
    BY <1>1 DEF Ordered
  <2>1. s.revision <= revision
    BY DEF Behind
  <2>2. s.revision = revision /\ revision < MaxRevision
    BY <1>1, <2>1
  <2>3. s.completed = stats.completed
    BY <2>2 DEF Behind
  <2> QED
    BY <1>2, <2>3
<1> QED
  BY <1>3, <1>4, <1>5

\* Where the snapshots come from: one is taken from the store, moved, or dropped, and
\* the shown one is only replaced by one that is not older.
LEMMA HeldMoves ==
  ASSUME IInv, [Next]_vars
  PROVE  \/ /\ Held' \subseteq Held \cup {Snapshot, NoSnapshot}
            /\ exported' \in {exported, poll.stats, flush.stats} /\ exported'.ok
            /\ exported' # exported => exported.revision <= exported'.revision
         \/ CrashRestart /\ exported' = Snapshot' /\ Held' = {Snapshot', NoSnapshot}
<1>1. /\ poll \in PollType /\ flush \in FlushType /\ exported \in SnapshotType
      /\ exported.ok
  BY DEF IInv, PollOK, FlushOK, SnapshotsOK
<1>2. /\ exported.revision \in Nat /\ poll.stats \in SnapshotType
      /\ flush.stats \in SnapshotType
  BY <1>1 DEF PollType, FlushType, SnapshotType
<1>3. ASSUME exported' = exported,
             poll'.stats \in {poll.stats, Snapshot, NoSnapshot},
             flush'.stats \in {flush.stats, Snapshot, NoSnapshot}
      PROVE  /\ Held' \subseteq Held \cup {Snapshot, NoSnapshot}
             /\ exported' \in {exported, poll.stats, flush.stats} /\ exported'.ok
             /\ exported' # exported => exported.revision <= exported'.revision
  BY <1>1, <1>3 DEF Held
<1>4. ASSUME NEW s \in {poll.stats, flush.stats}, Adopt(s),
             poll'.stats \in {poll.stats, NoSnapshot},
             flush'.stats \in {flush.stats, NoSnapshot}
      PROVE  /\ Held' \subseteq Held \cup {Snapshot, NoSnapshot}
             /\ exported' \in {exported, poll.stats, flush.stats} /\ exported'.ok
             /\ exported' # exported => exported.revision <= exported'.revision
  <2>1. s.revision \in Nat
    BY <1>2 DEF SnapshotType
  <2>2. exported' = exported \/ (exported' = s /\ s.ok /\ exported.revision <= s.revision)
    BY <1>2, <1>4, <2>1 DEF Adopt
  <2>3. exported' \in {exported, poll.stats, flush.stats} /\ exported'.ok
    BY <1>1, <2>2
  <2>4. exported' # exported => exported.revision <= exported'.revision
    BY <2>2
  <2> QED
    BY <1>4, <2>3, <2>4 DEF Held
<1>5. IdlePoll.stats = NoSnapshot /\ IdleFlush.stats = NoSnapshot
  BY DEF IdlePoll, IdleFlush
<1>6. CASE PollReport
  <2>1. Adopt(poll.stats) /\ poll'.stats = NoSnapshot /\ flush' = flush
    BY <1>5, <1>6 DEF PollReport
  <2> QED
    BY <1>4, <2>1
<1>7. CASE FlushReport
  <2>1. Adopt(flush.stats) /\ flush'.stats = NoSnapshot /\ poll' = poll
    BY <1>5, <1>7 DEF FlushReport
  <2> QED
    BY <1>4, <2>1
<1>8. CASE CrashRestart
  <2>1. exported' = Snapshot' /\ poll' = IdlePoll /\ flush' = IdleFlush
    BY <1>8 DEF CrashRestart, Snapshot
  <2> QED
    BY <1>5, <1>8, <2>1 DEF Held
<1>9. CASE PollNext /\ ~PollReport
  <2>1. exported' = exported /\ flush' = flush
    BY <1>9 DEF PollNext, PollScopeFails, PollScope, PollOverview, PollPrune,
                PollPruneFails, PollListFails, PollList, PollListBreaks, PollStats
  <2>2. poll'.stats \in {poll.stats, Snapshot, NoSnapshot}
    BY <1>1, <1>5, <1>9
       DEF PollNext, PollScopeFails, PollScope, PollOverview, PollPrune,
           PollPruneFails, PollListFails, PollList, PollListBreaks, PollStats, IdlePoll,
           PollType
  <2> QED
    BY <1>3, <2>1, <2>2
<1>10. CASE FlushNext /\ ~FlushReport
  <2>1. exported' = exported /\ poll' = poll
    BY <1>10 DEF FlushNext, FlushRead, PublishOK, PublishFails, FlushAck,
                 FlushAckFails, FlushStats
  <2>2. flush'.stats \in {flush.stats, Snapshot, NoSnapshot}
    BY <1>1, <1>5, <1>10 DEF FlushNext, FlushRead, PublishOK, PublishFails, FlushAck,
                 FlushAckFails, FlushStats, IdleFlush, FlushType
  <2> QED
    BY <1>3, <2>1, <2>2
<1>11. ASSUME NEW id \in Queries, DetailNext(id)
       PROVE  /\ Held' \subseteq Held \cup {Snapshot, NoSnapshot}
              /\ exported' \in {exported, poll.stats, flush.stats} /\ exported'.ok
              /\ exported' # exported => exported.revision <= exported'.revision
  <2>1. exported' = exported /\ flush' = flush /\ poll'.stats = poll.stats
    BY <1>1, <1>11 DEF DetailNext, DetailRecorded, DetailIgnored, DetailRefused,
                       DetailFails, DetailLeaves, PollType
  <2> QED
    BY <1>3, <2>1
<1>12. CASE EnvironmentNext \/ UNCHANGED vars
  BY <1>3, <1>12 DEF EnvironmentNext, Submit, Finish, Tick, memoryVars, vars
<1> QED
  BY <1>6, <1>7, <1>8, <1>9, <1>10, <1>11, <1>12 DEF Next

\* Every held snapshot stays behind the store, and any two agree on the order.
LEMMA SnapshotStep ==
  ASSUME IInv, [Next]_vars
  PROVE  SnapshotsOK'
<1>1. /\ revision \in Nat /\ exported \in SnapshotType /\ exported.ok
      /\ poll.stats \in SnapshotType /\ flush.stats \in SnapshotType /\ FileOK
      /\ \A a \in Held : Behind(a) /\ \A b \in Held : Ordered(a, b)
  BY DEF IInv, SnapshotsOK, PollOK, PollType, FlushOK, FlushType
<1>2. Snapshot \in SnapshotType /\ NoSnapshot \in SnapshotType /\ ~NoSnapshot.ok
  BY <1>1, SnapshotTyped DEF NoSnapshot
<1>3. Held \subseteq SnapshotType
  BY <1>1 DEF Held
<1>4. revision' \in Nat /\ FileOK'
  BY StoreMoves, FileSteps
<1>5. CASE /\ Held' \subseteq Held \cup {Snapshot, NoSnapshot}
           /\ exported' \in {exported, poll.stats, flush.stats} /\ exported'.ok
  <2> DEFINE Pool == Held \cup {Snapshot, NoSnapshot}
  <2>1. \A a \in Pool : Behind(a)
    <3>1. exported \in Held
      BY DEF Held
    <3>2. Behind(Snapshot)
      BY <1>1, <1>3, <3>1, NowIsLast
    <3>3. Behind(NoSnapshot)
      BY <1>2 DEF Behind
    <3> QED
      BY <1>1, <3>2, <3>3
  <2>2. \A a \in Pool : Behind(a)'
    <3> SUFFICES ASSUME NEW a \in Pool PROVE Behind(a)'
      OBVIOUS
    <3>1. a \in SnapshotType /\ Behind(a)
      BY <1>2, <1>3, <2>1
    <3> QED
      BY <3>1, StaysBehind
  <2>3. \A a, b \in Pool : Ordered(a, b)
    <3> SUFFICES ASSUME NEW a \in Pool, NEW b \in Pool PROVE Ordered(a, b)
      OBVIOUS
    <3>1. CASE a = NoSnapshot \/ b = NoSnapshot
      BY <1>2, <3>1 DEF Ordered
    <3>2. CASE a \in Held /\ b \in Held
      BY <1>1, <3>2
    <3>3. CASE a \in Held /\ b = Snapshot
      BY <1>1, <1>3, <3>3, NowIsLast
    <3>4. CASE a = Snapshot /\ b \in Held
      BY <1>1, <1>3, <3>4, NowIsLast
    <3>5. CASE a = Snapshot /\ b = Snapshot
      <4>1. exported \in Held
        BY DEF Held
      <4> QED
        BY <1>1, <1>3, <3>5, <4>1, NowIsLast
    <3> QED
      BY <3>1, <3>2, <3>3, <3>4, <3>5
  <2>4. \A a \in Held' : Behind(a)' /\ \A b \in Held' : Ordered(a, b)
    <3> HIDE DEF Pool
    <3>1. Held' \subseteq Pool
      BY <1>5 DEF Pool
    <3> QED
      BY <2>2, <2>3, <3>1
  <2>5. exported' \in SnapshotType
    BY <1>1, <1>5
  <2> QED
    BY <1>4, <1>5, <2>4, <2>5 DEF SnapshotsOK, Ordered, Below
<1>6. CASE exported' = Snapshot' /\ Held' = {Snapshot', NoSnapshot}
  <2>0. PICK S : S = Snapshot'
    OBVIOUS
  <2>1. S = [ok |-> TRUE, revision |-> revision', completed |-> stats'.completed]
    BY <2>0 DEF Snapshot
  <2>2. stats'.completed \in Counts
    BY StoreMoves
  <2>3. S \in SnapshotType /\ S.ok
    BY <1>4, <2>1, <2>2 DEF SnapshotType
  <2>4. Below(stats'.completed, stats'.completed)
    BY <2>2 DEF Below, Counts
  <2>5. Behind(S)' /\ Ordered(S, S)
    BY <1>4, <2>1, <2>4 DEF Behind, Ordered, Below
  <2>6. \A a \in {S, NoSnapshot} : Behind(a)' /\ \A b \in {S, NoSnapshot} : Ordered(a, b)
    BY <1>2, <2>5 DEF Behind, Ordered
  <2>7. exported' \in SnapshotType /\ exported'.ok
    BY <1>6, <2>0, <2>3
  <2> QED
    BY <1>4, <1>6, <2>0, <2>6, <2>7 DEF SnapshotsOK, Ordered, Below
<1> QED
  BY <1>5, <1>6, HeldMoves

-------------------------------------------------------------------------------
(* Readiness and the outbox *)

\* The flag of each part is written together with the result of its collection.
LEMMA FlagStep ==
  ASSUME IInv, [Next]_vars
  PROVE  FlagFollowsPoll'
<1> USE DEF FlagFollowsPoll, Parts
<1>1. flags \in FlagsType /\ FlagFollowsPoll
  BY DEF IInv, PollOK
<1>2. CASE PollScopeFails
  <2>1. flags'.overviewOK = FALSE /\ flags'.detailOK = FALSE /\ owed' = Parts
    BY <1>1, <1>2 DEF PollScopeFails, FlagsType
  <2> QED
    BY <2>1
<1>3. CASE PollPruneFails
  <2>1. /\ flags'.overviewOK = flags.overviewOK /\ flags'.detailOK = FALSE
        /\ owed' = owed \cup {"details"}
    BY <1>1, <1>3 DEF PollPruneFails, FlagsType
  <2> QED
    BY <1>1, <2>1
<1>4. ASSUME NEW ok \in BOOLEAN, PollOverview(ok)
      PROVE  FlagFollowsPoll'
  <2>1. /\ flags'.overviewOK = ok /\ flags'.detailOK = flags.detailOK
        /\ owed' = IF ok THEN owed \ {"overview"} ELSE owed \cup {"overview"}
    BY <1>1, <1>4 DEF PollOverview, FlagsType
  <2> QED
    BY <1>1, <2>1
<1>5. CASE PollReport
  <2> DEFINE r == poll.ok /\ poll.stats.ok
  <2>1. /\ flags' = [flags EXCEPT !.detailOK = r, !.stateOK = poll.stats.ok]
        /\ owed' = IF r THEN owed \ {"details"} ELSE owed \cup {"details"}
    BY <1>5 DEF PollReport
  <2> HIDE DEF r
  <2>2. flags'.detailOK = r /\ flags'.overviewOK = flags.overviewOK
    BY <1>1, <2>1 DEF FlagsType
  <2> QED
    BY <1>1, <2>1, <2>2
<1>6. CASE PollScope \/ FlushReport
  <2>1. /\ flags'.overviewOK = flags.overviewOK /\ flags'.detailOK = flags.detailOK
        /\ owed' = owed
    BY <1>1, <1>6 DEF PollScope, FlushReport, FlagsType
  <2> QED
    BY <1>1, <2>1
<1>7. CASE CrashRestart
  BY <1>7 DEF CrashRestart, StartFlags
<1>8. CASE UNCHANGED <<flags, owed>>
  BY <1>1, <1>8
<1> QED
  BY <1>2, <1>3, <1>4, <1>5, <1>6, <1>7, <1>8
     DEF Next, PollNext, PollPrune, PollListFails, PollList, PollListBreaks, PollStats,
         DetailNext, DetailRecorded, DetailIgnored, DetailRefused, DetailFails,
         DetailLeaves, FlushNext, FlushRead, PublishOK, PublishFails, FlushAck,
         FlushAckFails, FlushStats, EnvironmentNext, Submit, Finish, Tick,
         memoryVars, vars

\* What was published stays published.
LEMMA PublishedGrows ==
  ASSUME [Next]_vars
  PROVE  published \subseteq published'
BY DEF Next, PollNext, PollScopeFails, PollScope, PollOverview, PollPrune, PollPruneFails,
       PollListFails, PollList, PollListBreaks, PollStats, PollReport, DetailNext,
       DetailRecorded, DetailIgnored, DetailRefused, DetailFails, DetailLeaves,
       FlushNext, FlushRead, PublishOK, PublishFails, FlushAck, FlushAckFails,
       FlushStats, FlushReport, EnvironmentNext, Submit, Finish, Tick, CrashRestart,
       envVars, vars

\* Only the acknowledgement removes an event, after it was published.
LEMMA PublishedStep ==
  ASSUME IInv, [Next]_vars
  PROVE  PublishedBeforeRemoved'
<1>1. /\ sequence \in Nat /\ PublishedBeforeRemoved /\ published \subseteq published'
      /\ flush.pc = "ack" => Oldest \in published
  BY PublishedGrows DEF IInv, FileOK, QueryStoreTypeOK, FlushOK
<1>2. CASE UNCHANGED queryStoreVars
  BY <1>1, <1>2 DEF queryStoreVars, PublishedBeforeRemoved
<1>3. CASE /\ DOMAIN events \subseteq DOMAIN events'
           /\ sequence' = sequence
              \/ (sequence' = sequence + 1 /\ sequence + 1 \in DOMAIN events')
  BY <1>1, <1>3 DEF PublishedBeforeRemoved
<1>4. CASE UNCHANGED <<events, sequence>>
  BY <1>1, <1>4 DEF PublishedBeforeRemoved
<1>5. CASE /\ FlushAck /\ DOMAIN events' = DOMAIN events \ {Oldest}
           /\ sequence' = sequence
  BY <1>1, <1>5 DEF FlushAck, PublishedBeforeRemoved
<1> QED
  BY <1>2, <1>3, <1>4, <1>5, FileSteps

-------------------------------------------------------------------------------
(* Theorems *)

LEMMA InitInv == Init => IInv
<1> SUFFICES ASSUME Init PROVE IInv
  OBVIOUS
<1> USE DEF Init, QueryStoreInit
<1>1. DOMAIN events = {} /\ Cardinality({}) = 0
  BY FS_EmptySet
<1>2. FileOK
  <2>1. stats \in Stats /\ stats.pending = 0
    BY DEF Stats
  <2>2. QueryStoreTypeOK
    BY <1>1, <2>1 DEF QueryStoreTypeOK
  <2> QED
    BY <1>1, <2>1, <2>2 DEF FileOK, StatsValid
<1>3. ServerOK
  BY DEF ServerOK, ServerType
<1>4. revision \in Nat /\ Snapshot \in SnapshotType /\ NoSnapshot \in SnapshotType
      /\ exported = Snapshot /\ Snapshot.ok /\ ~NoSnapshot.ok
  BY <1>2, SnapshotTyped DEF Snapshot, NoSnapshot
<1>5. PollOK
  <2>1. flags \in FlagsType
    BY QueryOptionsAssumption DEF StartFlags, FlagsType
  <2> QED
    BY <1>2, <1>4, <2>1, IdlePollOK DEF PollOK
<1>6. FlushOK
  BY <1>4 DEF FlushOK, FlushType, IdleFlush
<1>7. SnapshotsOK
  <2>1. Held = {Snapshot, NoSnapshot}
    BY <1>4 DEF Held, IdlePoll, IdleFlush
  <2>2. Behind(NoSnapshot)
    BY <1>4 DEF Behind
  <2>3. Behind(Snapshot) /\ Ordered(Snapshot, Snapshot)
    BY <1>2, <1>4, <2>2, NowIsLast
  <2>4. Ordered(Snapshot, NoSnapshot) /\ Ordered(NoSnapshot, Snapshot)
        /\ Ordered(NoSnapshot, NoSnapshot)
    BY <1>4 DEF Ordered
  <2>5. \A a \in Held : Behind(a) /\ \A b \in Held : Ordered(a, b)
    BY <2>1, <2>2, <2>3, <2>4
  <2> QED
    BY <1>4, <2>5 DEF SnapshotsOK
<1>8. FlagFollowsPoll /\ PublishedBeforeRemoved
  BY DEF FlagFollowsPoll, Parts, StartFlags, PublishedBeforeRemoved
<1> QED
  BY <1>2, <1>3, <1>5, <1>6, <1>7, <1>8 DEF IInv

LEMMA NextInv ==
  ASSUME IInv, [Next]_vars
  PROVE  IInv'
BY FileSteps, ServerStep, PollStep, FlushStep, SnapshotStep, FlagStep, PublishedStep
   DEF IInv

\* The inductive invariant holds in every behaviour of the query path, whatever the
\* store, the network and the scheduler do.
THEOREM Invariance == SafeSpec => []IInv
<1>1. Init => IInv
  BY InitInv
<1>2. IInv /\ [Next]_vars => IInv'
  BY NextInv
<1> QED
  BY <1>1, <1>2, PTL DEF SafeSpec

\* Records, Ack and Stats never call the file corrupt: every queued event keeps its
\* checkpoint, and the pending counter is the number of queued events.
THEOREM FileStaysValid ==
  SafeSpec => []((\A s \in DOMAIN events : ValidRecord(s)) /\ StatsValid)
<1>1. IInv => (\A s \in DOMAIN events : ValidRecord(s)) /\ StatsValid
  BY DEF IInv, FileOK
<1> QED
  BY <1>1, Invariance, PTL

\* A cycle never asks for more details than the option allows, and only for queries of
\* the list: the round-robin search stops when the cycle is full (Poll, the loop over
\* the cursor).
THEOREM CycleBounded ==
  SafeSpec => [](poll.todo \subseteq Listed /\ Cardinality(poll.todo) <= MaxPerCycle)
<1>1. IInv => poll.todo \subseteq Listed /\ Cardinality(poll.todo) <= MaxPerCycle
  BY DEF IInv, PollOK
<1> QED
  BY <1>1, Invariance, PTL

\* Once the overview or the details of a poll have failed, the query path is not ready
\* before a later poll has collected that part, whatever the publisher reports in between.
THEOREM NoEarlyRecovery == SafeSpec => []FailedPollUnready
<1>1. IInv => FailedPollUnready
  BY DEF IInv, FlagFollowsPoll, Parts, FailedPollUnready, Ready
<1> QED
  BY <1>1, Invariance, PTL

\* An event leaves the store only after Kafka has it (flush: publish, then Ack).
THEOREM PublishedFirst == SafeSpec => []PublishedBeforeRemoved
<1>1. IInv => PublishedBeforeRemoved
  BY DEF IInv
<1> QED
  BY <1>1, Invariance, PTL

\* The record that is acknowledged is still queued, is valid and was published: a
\* batch read before other transactions and used after them is not stale.
THEOREM BatchNotStale ==
  SafeSpec => [](flush.pc = "ack" =>
                   Oldest \in DOMAIN events /\ ValidRecord(Oldest)
                   /\ Oldest \in published)
<1>1. IInv => (flush.pc = "ack" => Oldest \in DOMAIN events /\ ValidRecord(Oldest)
                                   /\ Oldest \in published)
  BY OldestOfBatch DEF IInv, FileOK, FlushOK
<1> QED
  BY <1>1, Invariance, PTL

\* The counters on /metrics never go back, although two goroutines read the store
\* outside the lock and may report in the other order, and across restarts.
THEOREM CountersMonotone == SafeSpec => CountersNeverGoBack
<1> DEFINE NotBack == exported'.revision < MaxRevision =>
                        \A t \in Terminal : exported'.completed[t] >= exported.completed[t]
<1>1. ASSUME IInv, [Next]_vars PROVE NotBack
  <2> SUFFICES ASSUME exported'.revision < MaxRevision, NEW t \in Terminal
               PROVE  exported'.completed[t] >= exported.completed[t]
    OBVIOUS
  <2>1. /\ exported \in SnapshotType /\ exported.ok /\ exported \in Held
        /\ \A a \in Held : Behind(a) /\ \A b \in Held : Ordered(a, b)
    BY <1>1 DEF IInv, SnapshotsOK, Held
  <2>2. exported' \in SnapshotType
    BY <1>1, SnapshotStep DEF SnapshotsOK
  <2>3. exported.completed[t] \in Nat /\ exported'.completed[t] \in Nat
    BY <2>1, <2>2 DEF SnapshotType, Counts
  <2>4. CASE exported' = exported
    BY <2>3, <2>4
  <2>5. CASE /\ exported' \in {exported, poll.stats, flush.stats} /\ exported'.ok
             /\ exported.revision <= exported'.revision
    <3>1. exported' \in Held
      BY <2>5 DEF Held
    <3>2. Ordered(exported, exported')
      BY <2>1, <3>1
    <3>3. Below(exported.completed, exported'.completed)
      BY <2>1, <2>5, <3>2 DEF Ordered
    <3> QED
      BY <2>3, <3>3 DEF Below
  <2>6. CASE exported' = Snapshot'
    <3>1. PICK s : s = exported
      OBVIOUS
    <3>2. Behind(s)'
      BY <1>1, <2>1, <3>1, StaysBehind
    <3>3. Below(s.completed, stats'.completed)
      BY <2>1, <3>1, <3>2 DEF Behind, Below
    <3>4. exported'.completed = stats'.completed
      BY <2>6 DEF Snapshot
    <3> QED
      BY <2>3, <3>1, <3>3, <3>4 DEF Below
  <2> QED
    BY <1>1, <2>4, <2>5, <2>6, HeldMoves
<1>2. IInv /\ [Next]_vars => [NotBack]_vars
  <2> HIDE DEF NotBack
  <2> QED
    BY <1>1
<1> QED
  BY <1>2, Invariance, PTL DEF SafeSpec, CountersNeverGoBack
===============================================================================
