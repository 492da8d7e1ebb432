------------------------------ MODULE OutboxLemmas ------------------------------
(***************************************************************************)
(* Lemmas about the file that the alert outbox and the log store share.    *)
(*                                                                         *)
(* FileOK says what a file must satisfy for the store to work as it        *)
(* should; each transaction of module Outbox preserves it, whoever calls   *)
(* it.  The proofs about the store on its own and about the two delivery   *)
(* paths rest on these lemmas.                                             *)
(***************************************************************************)
EXTENDS Outbox, FiniteSetTheorems, TLAPS

FiniteBuckets ==
  /\ IsFiniteSet(DOMAIN checkpoints)
  /\ IsFiniteSet(ByteSet(DOMAIN outbox))

HasNewest ==
  \A id \in Alerts : QueuedOf(id) # {} =>
    \E s \in QueuedOf(id) : \A t \in QueuedOf(id) : t <= s

FileOK ==
  /\ StoreTypeOK
  /\ FiniteBuckets
  /\ HasNewest
  /\ StateValid
  /\ MetaExact
  /\ WithinLimits

-------------------------------------------------------------------------------
(* Lemmas about one state *)

\* The outbox bucket is finite.
LEMMA QueueFinite ==
  ASSUME StoreTypeOK
  PROVE  IsFiniteSet(DOMAIN outbox)
<1>1. sequence \in Int /\ DOMAIN outbox \in SUBSET (1..sequence)
  BY DEF StoreTypeOK
<1>2. IsFiniteSet(1..sequence)
  BY <1>1, FS_Interval
<1> QED
  BY <1>1, <1>2, FS_Subset

\* Greatest picks a greatest element if there is one.
LEMMA GreatestExists ==
  ASSUME NEW S, \E s \in S : \A t \in S : t <= s
  PROVE  Greatest(S) \in S /\ \A t \in S : t <= Greatest(S)
BY DEF Greatest

\* A greatest element of a set of integers is the one Greatest picks.
LEMMA GreatestIs ==
  ASSUME NEW S \in SUBSET Int, NEW m \in S, \A t \in S : t <= m
  PROVE  Greatest(S) = m
<1>1. Greatest(S) \in S /\ \A t \in S : t <= Greatest(S)
  BY GreatestExists
<1>2. Greatest(S) <= m /\ m <= Greatest(S)
  BY <1>1
<1>3. Greatest(S) \in Int /\ m \in Int
  BY <1>1
<1> QED
  BY <1>2, <1>3

\* Records(1) holds the oldest record only.
LEMMA OldestFirst ==
  ASSUME StoreTypeOK, NEW s \in Records(1)
  PROVE  s \in DOMAIN outbox /\ \A t \in DOMAIN outbox : s <= t
<1> DEFINE older == {t \in DOMAIN outbox : t < s}
<1>1. s \in DOMAIN outbox /\ Cardinality(older) < 1
  BY DEF Records
<1>2. IsFiniteSet(older)
  BY QueueFinite, FS_Subset
<1>3. Cardinality(older) \in Nat
  BY <1>2, FS_CardinalityType
<1>4. older = {}
  BY <1>1, <1>2, <1>3, FS_EmptySet
<1> QED
  BY <1>1, <1>4 DEF StoreTypeOK

\* The oldest record of a batch of queued records.
LEMMA LeastOf ==
  ASSUME NEW a \in Int, NEW b \in Int, a <= b
  PROVE  (CHOOSE s \in a..b : \A t \in a..b : s <= t) = a
<1> DEFINE P(s) == s \in a..b /\ \A t \in a..b : s <= t
<1>1. P(a) /\ \A s : P(s) => s = a
  OBVIOUS
<1>2. P(CHOOSE s : P(s))
  BY <1>1
<1>3. (CHOOSE s : P(s)) = (CHOOSE s \in a..b : \A t \in a..b : s <= t)
  OBVIOUS
<1> QED
  BY <1>1, <1>2, <1>3

\* A batch of an interval of records is an interval that begins with it.
LEMMA BatchOfInterval ==
  ASSUME NEW k \in Nat, NEW n \in Nat, NEW limit \in Nat \ {0},
         DOMAIN outbox = (k + 1)..n, Records(limit) # {}
  PROVE  \E m \in (k + 1)..n : Records(limit) = (k + 1)..m
<1> DEFINE Older(s) == {t \in DOMAIN outbox : t < s}
<1>1. ASSUME NEW s \in (k + 1)..n
      PROVE  Cardinality(Older(s)) = s - (k + 1)
  <2> DEFINE a == k + 1
             b == s - 1
  <2>1. Older(s) = a..b
    BY <1>1
  <2>2. a \in Int /\ b \in Int
    BY <1>1
  <2>3. Cardinality(a..b) = IF a > b THEN 0 ELSE b - a + 1
    <3> HIDE DEF a, b
    <3> QED
      BY <2>2, FS_Interval
  <2> HIDE DEF Older
  <2> QED
    BY <2>1, <2>3, <1>1
<1>2. Records(limit) = {s \in (k + 1)..n : s - (k + 1) < limit}
  BY <1>1 DEF Records
<1> DEFINE m == IF k + limit <= n THEN k + limit ELSE n
<1>3. m \in (k + 1)..n
  BY <1>2
<1>4. Records(limit) = (k + 1)..m
  BY <1>2
<1> HIDE DEF m
<1> QED
  BY <1>3, <1>4

\* A checkpoint read from the bucket, or the zero checkpoint, has its type.
LEMMA ReadType ==
  ASSUME StoreTypeOK, NEW id \in Alerts
  PROVE  ReadCheckpoint(id) \in Checkpoint
BY DEF StoreTypeOK, ReadCheckpoint, Known, Checkpoint

\* Observed changes neither hash of the checkpoint.
LEMMA ObservedType ==
  ASSUME StoreTypeOK, NEW id \in Alerts,
         NEW marker \in Markers \cup {NoMarker}, NEW at \in Nat
  PROVE  /\ Observed(id, marker, at) \in Checkpoint
         /\ Observed(id, marker, at).pending = ReadCheckpoint(id).pending
         /\ Observed(id, marker, at).delivered = ReadCheckpoint(id).delivered
BY ReadType DEF Observed, Checkpoint

-------------------------------------------------------------------------------
(* Lemmas about one write *)

\* A checkpoint with nothing pending has no queued record.
LEMMA NothingPending ==
  ASSUME FileOK, NEW id \in DOMAIN checkpoints, checkpoints[id].pending = NoHash
  PROVE  QueuedOf(id) = {}
<1>1. StoreTypeOK /\ id \in Alerts /\ NewestHash(id) = NoHash
  BY DEF FileOK, StoreTypeOK, StateValid
<1>2. SUFFICES ASSUME QueuedOf(id) # {} PROVE FALSE
  OBVIOUS
<1>3. Newest(id) \in DOMAIN outbox
  BY <1>1, <1>2, GreatestExists DEF FileOK, HasNewest, Newest, QueuedOf
<1>4. NewestHash(id) \in Hashes
  BY <1>1, <1>2, <1>3 DEF NewestHash, StoreTypeOK, Record
<1> QED
  BY <1>1, <1>4, ValueAssumption

-------------------------------------------------------------------------------
(* Lemmas about one write *)

\* What putCheckpoint does to the bucket.
LEMMA PutEffect ==
  ASSUME StoreTypeOK, NEW id \in Alerts, NEW c \in Checkpoint,
         PutCheckpoint(id, c)
  PROVE  /\ DOMAIN checkpoints' = DOMAIN checkpoints \cup {id}
         /\ DOMAIN checkpoints' \subseteq Alerts
         /\ checkpoints'[id] = c
         /\ \A x \in DOMAIN checkpoints \ {id} : checkpoints'[x] = checkpoints[x]
         /\ checkpoints' \in [DOMAIN checkpoints' -> Checkpoint]
BY DEF PutCheckpoint, StoreTypeOK

\* A write that found room keeps the bucket within its limit.
LEMMA PutFits ==
  ASSUME StoreTypeOK, FiniteBuckets, WithinLimits,
         NEW id \in Alerts, CheckpointRoom(id),
         DOMAIN checkpoints' = DOMAIN checkpoints \cup {id}
  PROVE  /\ IsFiniteSet(DOMAIN checkpoints')
         /\ Cardinality(DOMAIN checkpoints') <= MaxCheckpoints
<1>1. /\ IsFiniteSet(DOMAIN checkpoints)
      /\ Cardinality(DOMAIN checkpoints) \in Nat
      /\ Cardinality(DOMAIN checkpoints) <= MaxCheckpoints
  BY FS_CardinalityType DEF FiniteBuckets, WithinLimits
<1>2. /\ IsFiniteSet(DOMAIN checkpoints \cup {id})
      /\ Cardinality(DOMAIN checkpoints \cup {id}) =
           IF id \in DOMAIN checkpoints THEN Cardinality(DOMAIN checkpoints)
           ELSE Cardinality(DOMAIN checkpoints) + 1
  BY <1>1, FS_AddElement
<1> QED
  BY <1>1, <1>2, OptionsAssumption DEF CheckpointRoom, Known

\* What depends on the outbox bucket alone does not change when it does not.
LEMMA QueueSame ==
  ASSUME outbox' = outbox
  PROVE  /\ \A id : QueuedOf(id)' = QueuedOf(id)
         /\ \A id : NewestHash(id)' = NewestHash(id)
         /\ ByteSet(DOMAIN outbox)' = ByteSet(DOMAIN outbox)
         /\ BytesOf(DOMAIN outbox)' = BytesOf(DOMAIN outbox)
<1>1. \A id : QueuedOf(id)' = QueuedOf(id)
  BY DEF QueuedOf
<1>2. \A id : NewestHash(id)' = NewestHash(id)
  BY DEF QueuedOf, NewestHash, Newest
<1>3. ByteSet(DOMAIN outbox)' = ByteSet(DOMAIN outbox)
  BY DEF ByteSet
<1> QED
  BY <1>1, <1>2, <1>3 DEF BytesOf

\* The parts of the invariant that only the outbox bucket and meta decide.
LEMMA QueuePartsSame ==
  ASSUME FileOK, outbox' = outbox, meta' = meta, sequence' = sequence
  PROVE  /\ HasNewest'
         /\ MetaExact'
         /\ IsFiniteSet(ByteSet(DOMAIN outbox)')
         /\ (Cardinality(DOMAIN outbox) <= MaxEvents)'
         /\ (BytesOf(DOMAIN outbox) <= MaxBytes)'
<1>1. HasNewest'
  BY QueueSame DEF FileOK, HasNewest
<1>2. MetaExact'
  BY QueueSame DEF FileOK, MetaExact
<1>3. IsFiniteSet(ByteSet(DOMAIN outbox)')
  BY QueueSame DEF FileOK, FiniteBuckets
<1> QED
  BY <1>1, <1>2, <1>3, QueueSame DEF FileOK, WithinLimits

-------------------------------------------------------------------------------
(* The queue after an insertion and after a removal *)

\* A new record is the newest of its alert and touches no other alert.
LEMMA InsertQueue ==
  ASSUME FileOK, NEW id \in Alerts, NEW hash \in Hashes,
         sequence' = sequence + 1,
         outbox' = [s \in DOMAIN outbox \cup {sequence'} |->
                      IF s = sequence' THEN [id |-> id, hash |-> hash]
                                       ELSE outbox[s]]
  PROVE  /\ sequence + 1 \notin DOMAIN outbox
         /\ QueuedOf(id)' = QueuedOf(id) \cup {sequence + 1}
         /\ NewestHash(id)' = hash
         /\ \A x \in Alerts \ {id} : /\ QueuedOf(x)' = QueuedOf(x)
                                     /\ NewestHash(x)' = NewestHash(x)
<1>1. sequence \in Nat /\ DOMAIN outbox \subseteq 1..sequence
  BY DEF FileOK, StoreTypeOK
<1>2. sequence + 1 \notin DOMAIN outbox
  BY <1>1
<1>3. QueuedOf(id)' = QueuedOf(id) \cup {sequence + 1}
  BY <1>2 DEF QueuedOf
<1>4. \A x \in Alerts \ {id} : QueuedOf(x)' = QueuedOf(x)
  BY <1>2 DEF QueuedOf
<1>5. NewestHash(id)' = hash
  <2>1. QueuedOf(id)' \in SUBSET Int /\ \A t \in QueuedOf(id)' : t <= sequence + 1
    BY <1>1, <1>3 DEF QueuedOf
  <2>2. Newest(id)' = sequence + 1
    BY <2>1, <1>3, GreatestIs DEF Newest
  <2> QED
    BY <2>2, <1>3 DEF NewestHash
<1>6. ASSUME NEW x \in Alerts \ {id}
      PROVE  NewestHash(x)' = NewestHash(x)
  <2>1. CASE QueuedOf(x) = {}
    BY <2>1, <1>4 DEF NewestHash
  <2>2. CASE QueuedOf(x) # {}
    <3>1. Newest(x)' = Newest(x)
      BY <1>4 DEF Newest
    <3>2. Newest(x) \in QueuedOf(x)
      BY <2>2, GreatestExists DEF FileOK, HasNewest, Newest
    <3>3. outbox'[Newest(x)] = outbox[Newest(x)]
      BY <3>2, <1>2 DEF QueuedOf
    <3> QED
      BY <2>2, <3>1, <3>3, <1>4 DEF NewestHash
  <2> QED
    BY <2>1, <2>2
<1> QED
  BY <1>2, <1>3, <1>4, <1>5, <1>6

\* A new record adds its own bytes to the bucket.
LEMMA InsertBytes ==
  ASSUME FileOK, NEW id \in Alerts, NEW hash \in Hashes,
         sequence' = sequence + 1,
         outbox' = [s \in DOMAIN outbox \cup {sequence'} |->
                      IF s = sequence' THEN [id |-> id, hash |-> hash]
                                       ELSE outbox[s]]
  PROVE  /\ IsFiniteSet(ByteSet(DOMAIN outbox)')
         /\ BytesOf(DOMAIN outbox)' = BytesOf(DOMAIN outbox) + Size[hash]
         /\ Cardinality(DOMAIN outbox)' = Cardinality(DOMAIN outbox) + 1
<1> DEFINE s == sequence + 1
           old == ByteSet(DOMAIN outbox)
           added == {s} \X (1..Size[hash])
<1>1. s \notin DOMAIN outbox
  BY InsertQueue
<1>2. ByteSet(DOMAIN outbox)' = old \cup added
  <2>1. /\ outbox'[s].hash = hash
        /\ \A t \in DOMAIN outbox : outbox'[t].hash = outbox[t].hash
        /\ DOMAIN outbox' = DOMAIN outbox \cup {s}
    BY <1>1
  <2>2. ByteSet(DOMAIN outbox)' =
          UNION {{t} \X (1..Size[outbox'[t].hash]) : t \in DOMAIN outbox \cup {s}}
    BY <2>1 DEF ByteSet
  <2> QED
    BY <2>1, <2>2 DEF ByteSet
<1>3. old \cap added = {}
  BY <1>1 DEF ByteSet
<1>4. IsFiniteSet(old)
  BY DEF FileOK, FiniteBuckets
<1>5. IsFiniteSet(added) /\ Cardinality(added) = Size[hash]
  <2>1. Size[hash] \in Nat \ {0}
    BY ValueAssumption
  <2>2. IsFiniteSet(1..Size[hash]) /\ Cardinality(1..Size[hash]) = Size[hash]
    BY <2>1, FS_Interval
  <2>3. IsFiniteSet({s}) /\ Cardinality({s}) = 1
    BY FS_Singleton
  <2> DEFINE S == {s}
             T == 1..Size[hash]
  <2>4. IsFiniteSet(S) /\ IsFiniteSet(T) /\ Cardinality(S) = 1 /\ Cardinality(T) = Size[hash]
    BY <2>2, <2>3
  <2>5. added = S \X T
    OBVIOUS
  <2>6. IsFiniteSet(S \X T) /\ Cardinality(S \X T) = Cardinality(S) * Cardinality(T)
    <3> HIDE DEF S, T
    <3> QED
      BY <2>4, FS_Product
  <2>7. 1 * Size[hash] = Size[hash]
    BY <2>1
  <2> HIDE DEF S, T, added
  <2> QED
    BY <2>4, <2>5, <2>6, <2>7
<1>6. /\ IsFiniteSet(old \cup added)
      /\ Cardinality(old \cup added)
           = Cardinality(old) + Cardinality(added) - Cardinality(old \cap added)
  BY <1>4, <1>5, FS_Union
<1>7. Cardinality(old \cap added) = 0 /\ Cardinality(old) \in Nat
  BY <1>3, <1>4, FS_EmptySet, FS_CardinalityType
<1>8. Size[hash] \in Nat
  BY ValueAssumption
<1>9. Cardinality(DOMAIN outbox)' = Cardinality(DOMAIN outbox) + 1
  <2>1. IsFiniteSet(DOMAIN outbox)
    BY QueueFinite DEF FileOK
  <2>2. DOMAIN outbox' = DOMAIN outbox \cup {s}
    BY <1>1
  <2> QED
    BY <2>1, <2>2, <1>1, FS_AddElement
<1>10. BytesOf(DOMAIN outbox)' = Cardinality(old \cup added)
  BY <1>2 DEF BytesOf
<1>11. Cardinality(old \cup added) = Cardinality(old) + Size[hash]
  <2> HIDE DEF old, added
  <2> QED
    BY <1>5, <1>6, <1>7, <1>8
<1>12. IsFiniteSet(ByteSet(DOMAIN outbox)')
  BY <1>2, <1>6
<1> QED
  BY <1>9, <1>10, <1>11, <1>12 DEF BytesOf

\* Removing the oldest record leaves a newer one of its alert the newest, or
\* leaves the alert with none.
LEMMA RemoveQueue ==
  ASSUME FileOK, NEW s \in DOMAIN outbox, \A t \in DOMAIN outbox : s <= t,
         NEW id \in Alerts, outbox[s].id = id,
         outbox' = [t \in DOMAIN outbox \ {s} |-> outbox[t]]
  PROVE  /\ s \in DOMAIN outbox
         /\ outbox[s].hash \in Hashes
         /\ \A x \in Alerts : QueuedOf(x)' = QueuedOf(x) \ {s}
         /\ \A x \in Alerts \ {id} :
              QueuedOf(x)' = QueuedOf(x) /\ NewestHash(x)' = NewestHash(x)
         /\ s \in QueuedOf(id)
         /\ s = Newest(id) => /\ QueuedOf(id)' = {}
                              /\ NewestHash(id) = outbox[s].hash
         /\ s # Newest(id) => /\ QueuedOf(id)' # {}
                              /\ NewestHash(id)' = NewestHash(id)
<1>1. /\ s \in DOMAIN outbox /\ \A t \in DOMAIN outbox : s <= t
      /\ outbox[s].hash \in Hashes
  BY DEF FileOK, StoreTypeOK, Record
<1>2. DOMAIN outbox \subseteq Nat
  BY DEF FileOK, StoreTypeOK
<1>3. \A x \in Alerts : QueuedOf(x)' = QueuedOf(x) \ {s}
  BY DEF QueuedOf
<1>4. ASSUME NEW x \in Alerts \ {id}
      PROVE  QueuedOf(x)' = QueuedOf(x) /\ NewestHash(x)' = NewestHash(x)
  <2>1. QueuedOf(x)' = QueuedOf(x)
    BY <1>3 DEF QueuedOf
  <2>2. CASE QueuedOf(x) = {}
    BY <2>1, <2>2 DEF NewestHash
  <2>3. CASE QueuedOf(x) # {}
    <3>1. Newest(x) \in QueuedOf(x) /\ Newest(x)' = Newest(x)
      BY <2>1, <2>3, GreatestExists DEF FileOK, HasNewest, Newest
    <3>2. outbox'[Newest(x)] = outbox[Newest(x)]
      BY <3>1, <2>1 DEF QueuedOf
    <3> QED
      BY <2>1, <2>3, <3>1, <3>2 DEF NewestHash
  <2> QED
    BY <2>1, <2>2, <2>3
<1>5. s \in QueuedOf(id)
  BY <1>1 DEF QueuedOf
<1>6. /\ Newest(id) \in QueuedOf(id)
      /\ \A t \in QueuedOf(id) : t <= Newest(id)
  BY <1>1, <1>5, GreatestExists DEF FileOK, HasNewest, Newest
<1>7. ASSUME s = Newest(id)
      PROVE  QueuedOf(id)' = {} /\ NewestHash(id) = outbox[s].hash
  <2>1. \A t \in QueuedOf(id) : t = s
    BY <1>1, <1>2, <1>6, <1>7 DEF QueuedOf
  <2>2. QueuedOf(id)' = {}
    BY <2>1, <1>1, <1>3
  <2> QED
    BY <2>2, <1>5, <1>7 DEF NewestHash
<1>8. ASSUME s # Newest(id)
      PROVE  QueuedOf(id)' # {} /\ NewestHash(id)' = NewestHash(id)
  <2>1. Newest(id) \in QueuedOf(id)' /\ \A t \in QueuedOf(id)' : t <= Newest(id)
    BY <1>1, <1>3, <1>6, <1>8
  <2>2. QueuedOf(id)' \in SUBSET Int
    BY <1>1, <1>2, <1>3 DEF QueuedOf
  <2>3. Greatest(QueuedOf(id)') = Newest(id)
    BY <2>1, <2>2, GreatestIs
  <2>4. outbox'[Newest(id)] = outbox[Newest(id)]
    BY <1>6, <1>8 DEF QueuedOf
  <2>5. NewestHash(id)' = outbox'[Greatest(QueuedOf(id)')].hash
    BY <2>1 DEF NewestHash, Newest
  <2> QED
    BY <2>1, <2>3, <2>4, <2>5, <1>5 DEF NewestHash
<1> QED
  BY <1>1, <1>3, <1>4, <1>5, <1>7, <1>8

\* Removing a record takes its own bytes out of the bucket.
LEMMA RemoveBytes ==
  ASSUME FileOK, NEW s \in DOMAIN outbox,
         outbox' = [t \in DOMAIN outbox \ {s} |-> outbox[t]]
  PROVE  /\ IsFiniteSet(ByteSet(DOMAIN outbox)')
         /\ BytesOf(DOMAIN outbox)' = BytesOf(DOMAIN outbox) - Size[outbox[s].hash]
         /\ BytesOf(DOMAIN outbox)' \in Nat
         /\ Cardinality(DOMAIN outbox)' = Cardinality(DOMAIN outbox) - 1
         /\ Cardinality(DOMAIN outbox)' \in Nat
<1> DEFINE hash == outbox[s].hash
           n == Size[outbox[s].hash]
           left == ByteSet(DOMAIN outbox \ {s})
           gone == {s} \X (1..n)
<1>1. n \in Nat
  BY ValueAssumption DEF FileOK, StoreTypeOK, Record
<1>2. ByteSet(DOMAIN outbox)' = left
  <2>1. DOMAIN outbox' = DOMAIN outbox \ {s} /\ \A t \in DOMAIN outbox \ {s} :
          outbox'[t].hash = outbox[t].hash
    OBVIOUS
  <2>2. ByteSet(DOMAIN outbox)' =
          UNION {{t} \X (1..Size[outbox'[t].hash]) : t \in DOMAIN outbox \ {s}}
    BY <2>1 DEF ByteSet
  <2> QED
    BY <2>1, <2>2 DEF ByteSet
<1>3. ByteSet(DOMAIN outbox) = left \cup gone
  BY DEF ByteSet
<1>4. left \cap gone = {}
  BY DEF ByteSet
<1>5. IsFiniteSet(left) /\ IsFiniteSet(gone)
  <2>1. IsFiniteSet(ByteSet(DOMAIN outbox))
    BY DEF FileOK, FiniteBuckets
  <2> HIDE DEF left, gone
  <2> QED
    BY <2>1, <1>3, FS_Subset
<1>6. Cardinality(gone) = n
  <2> DEFINE S == {s}
             T == 1..n
  <2>1. IsFiniteSet(S) /\ Cardinality(S) = 1
    BY FS_Singleton
  <2>2. IsFiniteSet(T) /\ Cardinality(T) = n
    <3> HIDE DEF n
    <3> QED
      BY <1>1, FS_Interval
  <2>3. Cardinality(S \X T) = Cardinality(S) * Cardinality(T)
    <3> HIDE DEF S, T
    <3> QED
      BY <2>1, <2>2, FS_Product
  <2>4. 1 * n = n /\ gone = S \X T
    BY <1>1
  <2> HIDE DEF S, T, gone, n
  <2> QED
    BY <2>1, <2>2, <2>3, <2>4
<1>7. Cardinality(left \cup gone) = Cardinality(left) + n
  <2>1. Cardinality(left \cap gone) = 0
    BY <1>4, FS_EmptySet
  <2>2. Cardinality(left \cup gone)
          = Cardinality(left) + Cardinality(gone) - Cardinality(left \cap gone)
    <3> HIDE DEF left, gone
    <3> QED
      BY <1>5, FS_Union
  <2>3. Cardinality(left) \in Nat
    BY <1>5, FS_CardinalityType
  <2> HIDE DEF left, gone, n
  <2> QED
    BY <1>1, <1>6, <2>1, <2>2, <2>3
<1>8. Cardinality(left) \in Nat
  BY <1>5, FS_CardinalityType
<1>9. /\ BytesOf(DOMAIN outbox)' = Cardinality(left)
      /\ BytesOf(DOMAIN outbox) = Cardinality(left \cup gone)
  BY <1>2, <1>3 DEF BytesOf
<1>10. /\ Cardinality(DOMAIN outbox)' = Cardinality(DOMAIN outbox) - 1
       /\ Cardinality(DOMAIN outbox)' \in Nat
  <2>1. IsFiniteSet(DOMAIN outbox)
    BY QueueFinite DEF FileOK
  <2>2. DOMAIN outbox' = DOMAIN outbox \ {s}
    OBVIOUS
  <2>3. IsFiniteSet(DOMAIN outbox \ {s})
    BY <2>1, FS_RemoveElement
  <2>4. Cardinality(DOMAIN outbox \ {s}) = Cardinality(DOMAIN outbox) - 1
    BY <2>1, FS_RemoveElement
  <2> QED
    BY <2>2, <2>3, <2>4, FS_CardinalityType
<1>11. IsFiniteSet(ByteSet(DOMAIN outbox)')
  BY <1>2, <1>5
<1> HIDE DEF left, gone, n
<1>12. BytesOf(DOMAIN outbox)' = BytesOf(DOMAIN outbox) - n /\ BytesOf(DOMAIN outbox)' \in Nat
  BY <1>1, <1>7, <1>8, <1>9
<1> QED
  BY <1>10, <1>11, <1>12 DEF n

-------------------------------------------------------------------------------
(* One lemma per transaction *)

\* An empty file is one.
LEMMA InitFile ==
  ASSUME StoreInit
  PROVE  FileOK
<1> USE DEF StoreInit
<1>1. DOMAIN outbox = {} /\ DOMAIN checkpoints = {}
  OBVIOUS
<1>2. \A id : QueuedOf(id) = {}
  BY <1>1 DEF QueuedOf
<1>3. StoreTypeOK
  BY <1>1 DEF StoreTypeOK
<1>4. ByteSet(DOMAIN outbox) = {}
  BY <1>1 DEF ByteSet
<1>5. FiniteBuckets
  BY <1>1, <1>4, FS_EmptySet DEF FiniteBuckets
<1>6. HasNewest /\ StateValid
  BY <1>1, <1>2 DEF HasNewest, StateValid
<1>7. MetaExact /\ WithinLimits
  <2>1. Cardinality({}) = 0
    BY FS_EmptySet
  <2>2. /\ Cardinality(DOMAIN outbox) = 0 /\ Cardinality(DOMAIN checkpoints) = 0
        /\ BytesOf(DOMAIN outbox) = 0
    BY <1>1, <1>4, <2>1 DEF BytesOf
  <2> QED
    BY <2>2, OptionsAssumption DEF MetaExact, WithinLimits
<1> QED
  BY <1>3, <1>5, <1>6, <1>7 DEF FileOK

\* A step that writes nothing.
LEMMA SameFile ==
  ASSUME FileOK, UNCHANGED storeVars
  PROVE  FileOK'
BY QueueSame DEF storeVars, FileOK, StoreTypeOK, FiniteBuckets, HasNewest,
   StateValid, Known, MetaExact, WithinLimits

\* A write of one checkpoint that keeps its pending hash.
LEMMA CheckpointFile ==
  ASSUME FileOK, NEW id \in Alerts, NEW c \in Checkpoint,
         CheckpointRoom(id), PutCheckpoint(id, c),
         c.pending = ReadCheckpoint(id).pending,
         UNCHANGED <<outbox, meta, sequence>>
  PROVE  FileOK'
<1> USE DEF FileOK
<1>2. /\ DOMAIN checkpoints' = DOMAIN checkpoints \cup {id}
      /\ DOMAIN checkpoints' \subseteq Alerts
      /\ checkpoints'[id] = c
      /\ \A x \in DOMAIN checkpoints \ {id} : checkpoints'[x] = checkpoints[x]
      /\ checkpoints' \in [DOMAIN checkpoints' -> Checkpoint]
  BY PutEffect
<1>3. /\ IsFiniteSet(DOMAIN checkpoints')
      /\ Cardinality(DOMAIN checkpoints') <= MaxCheckpoints
  BY <1>2, PutFits
<1>4. StoreTypeOK'
  BY <1>2 DEF StoreTypeOK
<1>5. FiniteBuckets' /\ HasNewest' /\ MetaExact' /\ WithinLimits'
  BY <1>3, QueuePartsSame DEF FiniteBuckets, WithinLimits
<1>6. \A x \in DOMAIN checkpoints' : checkpoints'[x].pending = NewestHash(x)'
  <2>1. \A x \in DOMAIN checkpoints : checkpoints'[x].pending = NewestHash(x)
    BY <1>2 DEF StateValid, ReadCheckpoint, Known
  <2>2. id \notin DOMAIN checkpoints => QueuedOf(id) = {}
    BY DEF StateValid, QueuedOf, Known
  <2>3. id \notin DOMAIN checkpoints => c.pending = NewestHash(id)
    BY <2>2 DEF ReadCheckpoint, Known, NewestHash
  <2> QED
    BY <1>2, <2>1, <2>3, QueueSame
<1>7. StateValid'
  BY <1>2, <1>6 DEF StateValid, Known
<1> QED
  BY <1>4, <1>5, <1>7

\* Enqueue of content the checkpoint already knows.
LEMMA EnqueueKnownFile ==
  ASSUME FileOK, NEW id \in Alerts, NEW hash \in Hashes,
         NEW marker \in Markers \cup {NoMarker}, NEW at \in Nat,
         EnqueueKnown(id, hash, marker, at)
  PROVE  FileOK'
<1>1. StoreTypeOK
  BY DEF FileOK
<1>2. /\ Observed(id, marker, at) \in Checkpoint
      /\ Observed(id, marker, at).pending = ReadCheckpoint(id).pending
  BY <1>1, ObservedType
<1> QED
  BY <1>2, CheckpointFile DEF EnqueueKnown

\* MarkSeen.
LEMMA MarkSeenFile ==
  ASSUME FileOK, NEW id \in Alerts, NEW marker \in Markers \cup {NoMarker},
         MarkSeen(id, marker)
  PROVE  FileOK'
<1> DEFINE c == [ReadCheckpoint(id) EXCEPT !.marker = marker, !.absentSince = 0]
<1>1. c \in Checkpoint /\ c.pending = ReadCheckpoint(id).pending
  BY ReadType DEF FileOK, Checkpoint
<1>2. /\ CheckpointRoom(id) /\ PutCheckpoint(id, c)
      /\ UNCHANGED <<outbox, meta, sequence>>
  BY DEF MarkSeen
<1> HIDE DEF c
<1> QED
  BY <1>1, <1>2, CheckpointFile

\* Enqueue of new content.
LEMMA EnqueueNewFile ==
  ASSUME FileOK, NEW id \in Alerts, NEW hash \in Hashes,
         NEW marker \in Markers \cup {NoMarker}, NEW at \in Nat,
         EnqueueNew(id, hash, marker, at)
  PROVE  FileOK'
<1> DEFINE c == [Observed(id, marker, at) EXCEPT !.pending = hash]
<1>1. StoreTypeOK
  BY DEF FileOK
<1>2. c \in Checkpoint /\ c.pending = hash
  BY <1>1, ObservedType DEF Checkpoint
<1>3. /\ CheckpointRoom(id) /\ EventRoom(hash) /\ PutCheckpoint(id, c)
      /\ sequence' = sequence + 1
      /\ outbox' = [s \in DOMAIN outbox \cup {sequence'} |->
                      IF s = sequence' THEN [id |-> id, hash |-> hash]
                                       ELSE outbox[s]]
      /\ meta' = [count |-> meta.count + 1, bytes |-> meta.bytes + Size[hash]]
  BY DEF EnqueueNew
<1> HIDE DEF c
<1>4. /\ DOMAIN checkpoints' = DOMAIN checkpoints \cup {id}
      /\ DOMAIN checkpoints' \subseteq Alerts
      /\ checkpoints'[id] = c
      /\ \A x \in DOMAIN checkpoints \ {id} : checkpoints'[x] = checkpoints[x]
      /\ checkpoints' \in [DOMAIN checkpoints' -> Checkpoint]
  BY <1>1, <1>2, <1>3, PutEffect
<1>5. /\ sequence + 1 \notin DOMAIN outbox
      /\ QueuedOf(id)' = QueuedOf(id) \cup {sequence + 1}
      /\ NewestHash(id)' = hash
      /\ \A x \in Alerts \ {id} : /\ QueuedOf(x)' = QueuedOf(x)
                                  /\ NewestHash(x)' = NewestHash(x)
  BY <1>3, InsertQueue
<1>6. /\ IsFiniteSet(ByteSet(DOMAIN outbox)')
      /\ BytesOf(DOMAIN outbox)' = BytesOf(DOMAIN outbox) + Size[hash]
      /\ Cardinality(DOMAIN outbox)' = Cardinality(DOMAIN outbox) + 1
  BY <1>3, InsertBytes
<1>7. Size[hash] \in Nat /\ meta.count \in Nat /\ meta.bytes \in Nat
  BY <1>1, ValueAssumption DEF StoreTypeOK
<1>8. StoreTypeOK'
  <2>1. sequence' \in Nat /\ DOMAIN outbox' \subseteq 1..sequence'
    BY <1>1, <1>3 DEF StoreTypeOK
  <2>2. outbox' \in [DOMAIN outbox' -> Record]
    BY <1>1, <1>3, <1>5 DEF StoreTypeOK, Record
  <2>3. meta' \in [count : Nat, bytes : Nat]
    BY <1>3, <1>7
  <2> QED
    BY <2>1, <2>2, <2>3, <1>4 DEF StoreTypeOK
<1>9. FiniteBuckets'
  BY <1>1, <1>3, <1>4, <1>6, PutFits DEF FileOK, FiniteBuckets
<1>10. HasNewest'
  <2>1. \A t \in QueuedOf(id)' : t <= sequence + 1
    BY <1>1, <1>5 DEF StoreTypeOK, QueuedOf
  <2> QED
    BY <2>1, <1>5 DEF FileOK, HasNewest
<1>11. StateValid'
  <2>1. \A x \in DOMAIN checkpoints' : checkpoints'[x].pending = NewestHash(x)'
    BY <1>2, <1>4, <1>5 DEF FileOK, StateValid
  <2>2. \A s \in DOMAIN outbox' : s > 0 /\ outbox'[s].id \in DOMAIN checkpoints'
    BY <1>1, <1>3, <1>4, <1>5 DEF FileOK, StateValid, Known, StoreTypeOK
  <2> QED
    BY <2>1, <2>2 DEF StateValid, Known
<1>12. MetaExact'
  BY <1>3, <1>6 DEF FileOK, MetaExact
<1>13. WithinLimits'
  <2>1. Cardinality(DOMAIN checkpoints)' <= MaxCheckpoints
    BY <1>1, <1>3, <1>4, PutFits DEF FileOK
  <2>2. /\ Cardinality(DOMAIN outbox)' <= MaxEvents
        /\ BytesOf(DOMAIN outbox)' <= MaxBytes
    BY <1>3, <1>6, <1>7, OptionsAssumption DEF FileOK, MetaExact, EventRoom
  <2> QED
    BY <2>1, <2>2 DEF WithinLimits
<1> QED
  BY <1>8, <1>9, <1>10, <1>11, <1>12, <1>13 DEF FileOK

\* What Acknowledge of a queued record does to the checkpoints.
LEMMA AcknowledgeEffect ==
  ASSUME FileOK, NEW s \in DOMAIN outbox, Acknowledge(s)
  PROVE  /\ DOMAIN checkpoints' = DOMAIN checkpoints
         /\ outbox[s].id \in DOMAIN checkpoints
         /\ checkpoints' \in [DOMAIN checkpoints' -> Checkpoint]
         /\ \A x \in DOMAIN checkpoints :
              /\ checkpoints'[x].marker = checkpoints[x].marker
              /\ checkpoints'[x].lastFetched = checkpoints[x].lastFetched
              /\ checkpoints'[x].absentSince = checkpoints[x].absentSince
         /\ \A x \in DOMAIN checkpoints \ {outbox[s].id} :
              checkpoints'[x] = checkpoints[x]
         /\ checkpoints'[outbox[s].id].delivered = outbox[s].hash
         /\ checkpoints'[outbox[s].id].pending =
              IF s = Newest(outbox[s].id) THEN NoHash
              ELSE checkpoints[outbox[s].id].pending
<1> DEFINE id == outbox[s].id
           c == [checkpoints[id] EXCEPT
                   !.delivered = outbox[s].hash,
                   !.pending = IF s = Newest(id) THEN NoHash ELSE @]
<1>1. StoreTypeOK /\ id \in Alerts /\ outbox[s].hash \in Hashes
  BY DEF FileOK, StoreTypeOK, Record
<1>2. PutCheckpoint(id, c)
  BY DEF Acknowledge
<1>3. id \in DOMAIN checkpoints /\ checkpoints[id] \in Checkpoint
  BY <1>1 DEF FileOK, StateValid, Known, StoreTypeOK
<1>4. /\ c \in Checkpoint /\ c.delivered = outbox[s].hash
      /\ c.pending = IF s = Newest(id) THEN NoHash ELSE checkpoints[id].pending
      /\ c.marker = checkpoints[id].marker
      /\ c.lastFetched = checkpoints[id].lastFetched
      /\ c.absentSince = checkpoints[id].absentSince
  BY <1>1, <1>3 DEF Checkpoint
<1> HIDE DEF c
<1>5. /\ DOMAIN checkpoints' = DOMAIN checkpoints \cup {id}
      /\ checkpoints'[id] = c
      /\ \A x \in DOMAIN checkpoints \ {id} : checkpoints'[x] = checkpoints[x]
      /\ checkpoints' \in [DOMAIN checkpoints' -> Checkpoint]
  BY <1>1, <1>2, <1>4, PutEffect
<1> QED
  BY <1>3, <1>4, <1>5

\* Acknowledge of the oldest record.
LEMMA AcknowledgeFile ==
  ASSUME FileOK, NEW s \in DOMAIN outbox, \A t \in DOMAIN outbox : s <= t,
         Acknowledge(s)
  PROVE  FileOK'
<1>1. StoreTypeOK
  BY DEF FileOK
<1>2. PICK id \in Alerts : id = outbox[s].id
  BY <1>1 DEF StoreTypeOK, Record
<1>3. PICK hash \in Hashes : hash = outbox[s].hash
  BY <1>1 DEF StoreTypeOK, Record
<1>4. /\ outbox' = [t \in DOMAIN outbox \ {s} |-> outbox[t]]
      /\ meta' = [count |-> Minus(meta.count, 1),
                  bytes |-> Minus(meta.bytes, Size[hash])]
      /\ UNCHANGED sequence
  BY <1>2, <1>3 DEF Acknowledge
<1>5. /\ DOMAIN checkpoints' = DOMAIN checkpoints
      /\ id \in DOMAIN checkpoints
      /\ checkpoints' \in [DOMAIN checkpoints' -> Checkpoint]
      /\ \A x \in DOMAIN checkpoints \ {id} : checkpoints'[x] = checkpoints[x]
      /\ checkpoints'[id].pending =
           IF s = Newest(id) THEN NoHash ELSE checkpoints[id].pending
  BY <1>2, AcknowledgeEffect
<1>8. /\ \A x \in Alerts : QueuedOf(x)' = QueuedOf(x) \ {s}
      /\ \A x \in Alerts \ {id} :
           QueuedOf(x)' = QueuedOf(x) /\ NewestHash(x)' = NewestHash(x)
      /\ s \in QueuedOf(id)
      /\ s = Newest(id) => QueuedOf(id)' = {} /\ NewestHash(id) = hash
      /\ s # Newest(id) => /\ QueuedOf(id)' # {}
                           /\ NewestHash(id)' = NewestHash(id)
  BY <1>1, <1>2, <1>3, <1>4, RemoveQueue
<1>9. /\ IsFiniteSet(ByteSet(DOMAIN outbox)')
      /\ BytesOf(DOMAIN outbox)' = BytesOf(DOMAIN outbox) - Size[hash]
      /\ BytesOf(DOMAIN outbox)' \in Nat
      /\ Cardinality(DOMAIN outbox)' = Cardinality(DOMAIN outbox) - 1
      /\ Cardinality(DOMAIN outbox)' \in Nat
  BY <1>3, <1>4, RemoveBytes
<1>10. /\ Size[hash] \in Nat /\ meta.count \in Nat /\ meta.bytes \in Nat
       /\ meta.count = Cardinality(DOMAIN outbox)
       /\ meta.bytes = BytesOf(DOMAIN outbox)
  BY <1>1, ValueAssumption DEF FileOK, MetaExact, StoreTypeOK
<1>11. MetaExact' /\ meta' \in [count : Nat, bytes : Nat]
  <2>1. /\ Minus(meta.count, 1) = Cardinality(DOMAIN outbox)'
        /\ Minus(meta.bytes, Size[hash]) = BytesOf(DOMAIN outbox)'
    BY <1>9, <1>10 DEF Minus
  <2> QED
    BY <2>1, <1>4, <1>9 DEF MetaExact
<1>12. StoreTypeOK'
  <2>1. DOMAIN outbox' \subseteq 1..sequence' /\ outbox' \in [DOMAIN outbox' -> Record]
    BY <1>1, <1>4 DEF StoreTypeOK
  <2> QED
    BY <2>1, <1>1, <1>4, <1>5, <1>11 DEF StoreTypeOK
<1>13. FiniteBuckets'
  BY <1>5, <1>9 DEF FileOK, FiniteBuckets
<1>14. HasNewest'
  <2>1. ASSUME s # Newest(id)
        PROVE  \E m \in QueuedOf(id)' : \A t \in QueuedOf(id)' : t <= m
    <3>1. /\ Newest(id) \in QueuedOf(id)
          /\ \A t \in QueuedOf(id) : t <= Newest(id)
      BY <1>8, GreatestExists DEF FileOK, HasNewest, Newest
    <3> QED
      BY <3>1, <2>1, <1>8
  <2> QED
    BY <2>1, <1>8 DEF FileOK, HasNewest
<1>15. StateValid'
  <2>1. checkpoints'[id].pending = NewestHash(id)'
    <3>1. CASE s = Newest(id)
      BY <3>1, <1>5, <1>8 DEF NewestHash
    <3>2. CASE s # Newest(id)
      BY <3>2, <1>5, <1>8 DEF FileOK, StateValid
    <3> QED
      BY <3>1, <3>2
  <2>2. \A x \in DOMAIN checkpoints' : checkpoints'[x].pending = NewestHash(x)'
    BY <2>1, <1>1, <1>5, <1>8 DEF FileOK, StateValid, StoreTypeOK
  <2>3. \A t \in DOMAIN outbox' : t > 0 /\ outbox'[t].id \in DOMAIN checkpoints'
    BY <1>4, <1>5 DEF FileOK, StateValid, Known
  <2> QED
    BY <2>2, <2>3 DEF StateValid, Known
<1>16. WithinLimits'
  BY <1>5, <1>9, <1>10, OptionsAssumption DEF FileOK, WithinLimits
<1> QED
  BY <1>11, <1>12, <1>13, <1>14, <1>15, <1>16 DEF FileOK

\* What the reconciliation with a complete list does to the checkpoints.
LEMMA ReconcileEffect ==
  ASSUME FileOK, NEW listed, NEW now \in Nat,
         checkpoints' = [id \in Retained(listed, now) |-> MarkAbsent(id, listed, now)]
  PROVE  /\ DOMAIN checkpoints' \subseteq DOMAIN checkpoints
         /\ checkpoints' \in [DOMAIN checkpoints' -> Checkpoint]
         /\ \A id \in DOMAIN checkpoints' :
              /\ checkpoints'[id].pending = checkpoints[id].pending
              /\ checkpoints'[id].delivered = checkpoints[id].delivered
              /\ checkpoints'[id].marker = checkpoints[id].marker
              /\ checkpoints'[id].lastFetched = checkpoints[id].lastFetched
              /\ checkpoints'[id].absentSince \in {checkpoints[id].absentSince, now}
         /\ \A id \in DOMAIN checkpoints \ DOMAIN checkpoints' :
              /\ id \notin listed
              /\ checkpoints[id].pending = NoHash
              /\ checkpoints[id].absentSince \in 1..(now - 1)
              /\ QueuedOf(id) = {}
<1>1. \A id \in DOMAIN checkpoints :
        /\ MarkAbsent(id, listed, now) \in Checkpoint
        /\ MarkAbsent(id, listed, now).pending = checkpoints[id].pending
        /\ MarkAbsent(id, listed, now).delivered = checkpoints[id].delivered
        /\ MarkAbsent(id, listed, now).marker = checkpoints[id].marker
        /\ MarkAbsent(id, listed, now).lastFetched = checkpoints[id].lastFetched
        /\ MarkAbsent(id, listed, now).absentSince \in {checkpoints[id].absentSince, now}
  BY DEF FileOK, StoreTypeOK, MarkAbsent, Checkpoint
<1>2. /\ DOMAIN checkpoints' = Retained(listed, now)
      /\ Retained(listed, now) \subseteq DOMAIN checkpoints
      /\ \A id \in DOMAIN checkpoints' :
           checkpoints'[id] = MarkAbsent(id, listed, now)
  BY DEF Retained
<1>3. \A id \in DOMAIN checkpoints \ DOMAIN checkpoints' :
        id \notin listed /\ checkpoints[id].pending = NoHash
  BY <1>2 DEF Retained, Expired
<1>4. \A id \in DOMAIN checkpoints \ DOMAIN checkpoints' : QueuedOf(id) = {}
  BY <1>3, NothingPending
<1>5. checkpoints' \in [DOMAIN checkpoints' -> Checkpoint]
  BY <1>1, <1>2
<1>6. \A id \in DOMAIN checkpoints \ DOMAIN checkpoints' :
        checkpoints[id].absentSince \in 1..(now - 1)
  <2> SUFFICES ASSUME NEW id \in DOMAIN checkpoints \ DOMAIN checkpoints'
               PROVE  checkpoints[id].absentSince \in 1..(now - 1)
    OBVIOUS
  <2>1. checkpoints[id] \in Checkpoint /\ Retention \in Nat \ {0}
    BY OptionsAssumption DEF FileOK, StoreTypeOK
  <2>2. MarkAbsent(id, listed, now).absentSince =
          IF checkpoints[id].absentSince = 0 THEN now ELSE checkpoints[id].absentSince
    BY <1>2, <1>3, <2>1 DEF MarkAbsent, Checkpoint
  <2>3. now - MarkAbsent(id, listed, now).absentSince >= Retention
    BY <1>2 DEF Retained, Expired
  <2> QED
    BY <2>1, <2>2, <2>3 DEF Checkpoint
<1> QED
  BY <1>1, <1>2, <1>3, <1>4, <1>5, <1>6

\* A reconciliation that commits.
LEMMA ReconcileCompleteFile ==
  ASSUME FileOK, NEW listed, NEW now \in Nat,
         checkpoints' = [id \in Retained(listed, now) |-> MarkAbsent(id, listed, now)],
         UNCHANGED <<outbox, meta, sequence>>
  PROVE  FileOK'
<1>1. /\ DOMAIN checkpoints' \subseteq DOMAIN checkpoints
      /\ checkpoints' \in [DOMAIN checkpoints' -> Checkpoint]
      /\ \A id \in DOMAIN checkpoints' :
           checkpoints'[id].pending = checkpoints[id].pending
      /\ \A id \in DOMAIN checkpoints \ DOMAIN checkpoints' : QueuedOf(id) = {}
  BY ReconcileEffect
<1>2. StoreTypeOK'
  BY <1>1 DEF FileOK, StoreTypeOK
<1>3. /\ IsFiniteSet(DOMAIN checkpoints')
      /\ Cardinality(DOMAIN checkpoints') <= MaxCheckpoints
  <2>1. IsFiniteSet(DOMAIN checkpoints) /\ DOMAIN checkpoints' \in SUBSET DOMAIN checkpoints
    BY <1>1 DEF FileOK, FiniteBuckets
  <2>2. /\ IsFiniteSet(DOMAIN checkpoints')
        /\ Cardinality(DOMAIN checkpoints') <= Cardinality(DOMAIN checkpoints)
    BY <2>1, FS_Subset
  <2>3. Cardinality(DOMAIN checkpoints') \in Nat /\ Cardinality(DOMAIN checkpoints) \in Nat
    BY <2>1, <2>2, FS_CardinalityType
  <2> QED
    BY <2>2, <2>3, OptionsAssumption DEF FileOK, WithinLimits
<1>4. FiniteBuckets' /\ HasNewest' /\ MetaExact' /\ WithinLimits'
  BY <1>3, QueuePartsSame DEF FiniteBuckets, WithinLimits
<1>5. StateValid'
  <2>1. \A id \in DOMAIN checkpoints' : checkpoints'[id].pending = NewestHash(id)'
    BY <1>1, QueueSame DEF FileOK, StateValid
  <2>2. \A s \in DOMAIN outbox : s > 0 /\ outbox[s].id \in DOMAIN checkpoints'
    BY <1>1 DEF FileOK, StateValid, Known, QueuedOf
  <2> QED
    BY <2>1, <2>2 DEF StateValid, Known
<1> QED
  BY <1>2, <1>4, <1>5 DEF FileOK

\* ReconcileListed, of a complete list or not.
LEMMA ReconcileFile ==
  ASSUME FileOK, NEW listed, NEW now \in Nat, NEW complete \in BOOLEAN,
         ReconcileListed(listed, now, complete)
  PROVE  FileOK'
<1>1. CASE complete
  BY <1>1, ReconcileCompleteFile DEF ReconcileListed
<1>2. CASE ~complete
  BY <1>2, SameFile DEF ReconcileListed, storeVars
<1> QED
  BY <1>1, <1>2

\* Open of the file: the counters it computes are the ones it finds.
LEMMA ReopenFile ==
  ASSUME FileOK, Reopen
  PROVE  FileOK' /\ UNCHANGED storeVars
<1>1. meta' = [count |-> meta.count, bytes |-> meta.bytes]
  BY DEF Reopen, FileOK, MetaExact
<1>2. meta' = meta
  BY <1>1 DEF FileOK, StoreTypeOK
<1>3. UNCHANGED storeVars
  BY <1>2 DEF Reopen, storeVars
<1> QED
  BY <1>3, SameFile

\* In such a file nothing that Acknowledge calls corrupt is queued.
LEMMA QueuedAreValid ==
  ASSUME FileOK, NEW s \in DOMAIN outbox
  PROVE  /\ AckValid(s)
         /\ Size[outbox[s].hash] <= meta.bytes
<1> DEFINE n == Size[outbox[s].hash]
           T == 1..n
           gone == {s} \X T
<1>1. AckValid(s)
  BY DEF FileOK, AckValid, StateValid, Known
<1>2. n \in Nat /\ meta.bytes \in Nat
  BY ValueAssumption DEF FileOK, StoreTypeOK, Record
<1>3. gone \in SUBSET ByteSet(DOMAIN outbox)
  BY DEF ByteSet
<1>4. IsFiniteSet(ByteSet(DOMAIN outbox))
  BY DEF FileOK, FiniteBuckets
<1>5. IsFiniteSet(gone) /\ Cardinality(gone) <= BytesOf(DOMAIN outbox)
  <2> HIDE DEF gone
  <2> QED
    BY <1>3, <1>4, FS_Subset DEF BytesOf
<1>6. Cardinality(gone) = n
  <2> DEFINE S == {s}
  <2>1. IsFiniteSet(S) /\ Cardinality(S) = 1
    BY FS_Singleton
  <2>2. IsFiniteSet(T) /\ Cardinality(T) = n
    <3> HIDE DEF n
    <3> QED
      BY <1>2, FS_Interval
  <2>3. Cardinality(S \X T) = Cardinality(S) * Cardinality(T)
    <3> HIDE DEF S, T
    <3> QED
      BY <2>1, <2>2, FS_Product
  <2>4. 1 * n = n /\ gone = S \X T
    BY <1>2
  <2> HIDE DEF S, T, gone, n
  <2> QED
    BY <2>1, <2>2, <2>3, <2>4
<1> HIDE DEF gone
<1> QED
  BY <1>1, <1>5, <1>6 DEF FileOK, MetaExact
===============================================================================
