--------------------------- MODULE LogDeliveryProofs ---------------------------
(***************************************************************************)
(* Theorems about the serviceability log path as a whole, for every number *)
(* of logs, contents, versions, workers and crashes, every limit and every *)
(* interleaving of the live poll, the history backfill, the publisher and  *)
(* the server.                                                             *)
(*                                                                         *)
(* Beside one part per module the inductive invariant says                 *)
(*                                                                         *)
(*   InOrder     the topic and the queue are two neighbouring intervals of *)
(*               the accepted records;                                     *)
(*   Accounted   what the poll has still to do for each log of its list;   *)
(*   Truthful    which content each marker and each answer under way       *)
(*               stands for;                                               *)
(*   Upward      which versions can still be accepted after those that     *)
(*               were, also for a log whose checkpoint was forgotten.      *)
(***************************************************************************)
EXTENDS LogDelivery, OutboxLemmas

\* The marker every listed log had in the list.
MarkerMaps == UNION {[S -> Markers \cup {NoMarker}] : S \in SUBSET Logs}

\* A detail carries the time of its version, or none.
Answer == {a \in [hash : Hashes, ver : Markers, marker : Markers \cup {NoMarker}] :
             a.marker \in {a.ver, NoMarker}}

\* The logs whose details, and whose list entries too, always had a usable updatedOn.
Dated == {id \in Logs : source[id].dated}

Timed == {id \in Dated : source[id].marked}

SourceType ==
  [hash : Hashes \cup {NoHash}, ver : 0..MaxVersion, listed : Markers \cup {NoMarker},
   marker : Markers \cup {NoMarker}, old : Hashes \cup {NoHash},
   oldMarker : Markers \cup {NoMarker}, marked : BOOLEAN, dated : BOOLEAN]

\* What the server has of a log.
EntryOK(s) ==
  /\ s \in SourceType
  /\ s.hash # NoHash =>
       /\ s.ver \in Markers
       /\ s.listed \in {s.ver, NoMarker} /\ s.marker \in {s.ver, NoMarker}
       /\ s.marked => s.listed = s.ver
       /\ s.dated => s.marker = s.ver
  /\ s.old # NoHash =>
       /\ s.hash # NoHash /\ s.ver - 1 \in Markers
       /\ s.oldMarker \in {s.ver - 1, NoMarker}
       /\ s.dated => s.oldMarker = s.ver - 1

SourceOK ==
  /\ options \in [backfill : BOOLEAN]
  /\ source \in [Logs -> SourceType]
  /\ \A id \in Logs : EntryOK(source[id])
  /\ now \in Nat \ {0}
  /\ upsets \in 0..MaxUpsets

PollType ==
  [pc : {"idle", "classify", "fetch", "report"}, at : Nat, markers : MarkerMaps,
   complete : BOOLEAN, enough : BOOLEAN, unclassified : SUBSET Logs,
   seen : SUBSET Logs, new : SUBSET Logs, refresh : SUBSET Logs,
   fetched : [Logs -> Nat], todo : SUBSET Logs, deferred : SUBSET Logs,
   answered : SUBSET Logs, stateOK : BOOLEAN, detailOK : BOOLEAN]

\* The clock stands still while a cycle or a request of the backfill is under way.
PollOK ==
  /\ poll \in PollType
  /\ poll.pc # "idle" => poll.at = now
  /\ inflight \in [Running -> Answer \cup {Requested}]
  /\ poll.unclassified \cup poll.new \cup poll.refresh \cup poll.todo \cup Running
       \subseteq DOMAIN poll.markers
  /\ poll.seen \subseteq poll.unclassified
  /\ poll.todo \cap Running = {}
  /\ poll.pc # "classify" => poll.unclassified = {}
  /\ poll.pc # "fetch" => poll.todo = {} /\ Running = {}
  /\ \A id \in DOMAIN poll.markers : source[id].marked => poll.markers[id] # NoMarker

BackfillType ==
  [pc : {"idle", "requested", "record"}, id : Nat, when : Nat,
   answer : Answer \cup {Requested}]

BackfillOK ==
  /\ backfill \in BackfillType
  /\ backfill.pc # "idle" => backfill.id \in Logs
  /\ backfill.pc = "requested" => backfill.when \in Markers
  /\ backfill.pc = "record" =>
       backfill.answer \in Answer /\ backfill.answer.marker = backfill.answer.ver

FlushType == [pc : {"idle", "publish", "ack"}, batch : SUBSET Nat]

FlushOK ==
  /\ flush \in FlushType
  /\ recovery \in BOOLEAN
  /\ diag \in LogDiagnosticsType

\* Every checkpoint was written by Enqueue first, with the time of the fetch.
Fetched == \A id \in DOMAIN checkpoints : checkpoints[id].lastFetched > 0

\* As long as the cycle has not failed, every listed log is waiting for its
\* classification or its detail, was put off, or is collected.
Accounted ==
  /\ poll.pc = "classify" /\ poll.stateOK /\ poll.detailOK =>
       \A id \in DOMAIN poll.markers :
         \/ id \in poll.unclassified \cup poll.new \cup poll.refresh
         \/ Collected(id)
  /\ poll.pc \notin {"idle", "classify"} /\ poll.stateOK /\ poll.detailOK =>
       \A id \in DOMAIN poll.markers :
         id \in poll.deferred \cup poll.todo \cup Running \/ Collected(id)

\* The records 1..k are acknowledged, the others are queued; the topic shows the
\* acknowledged ones and at most the next; a flush works on the oldest queued
\* records.
InOrder(k) ==
  /\ k \in 0..sequence
  /\ DOMAIN outbox = (k + 1)..sequence
  /\ topic \in Seq(Nat)
  /\ Len(topic) \in {k, k + 1} /\ Len(topic) <= sequence
  /\ \A i \in 1..Len(topic) : topic[i] = i
  /\ flush.pc \in {"publish", "ack"} =>
       \E m \in (k + 1)..sequence : flush.batch = (k + 1)..m
  /\ flush.pc = "ack" => Len(topic) = k + 1

Accepted == [id : Logs, hash : Hashes, ver : Markers]

\* Every sequence the outbox bucket gave out is that of an accepted record.
AcceptedOK ==
  /\ accepted \in Seq(Accepted)
  /\ Len(accepted) = sequence

-------------------------------------------------------------------------------
(* What markers and answers stand for *)

\* An answer is never ahead of the server, carries its time if the details of the
\* log do, and the current version is answered with the current content.
Genuine(answer, current) ==
  /\ answer.ver <= current.ver
  /\ current.dated => answer.marker = answer.ver
  /\ current.hash # NoHash /\ answer.ver = current.ver => answer.hash = current.hash

\* The content a checkpoint was written for last.
Latest(checkpoint) ==
  IF checkpoint.pending # NoHash THEN checkpoint.pending ELSE checkpoint.delivered

\* The record of the log that was accepted last has the content.
LastIs(records, id, hash) ==
  \E i \in 1..Len(records) :
    /\ records[i].id = id /\ records[i].hash = hash
    /\ \A j \in (i + 1)..Len(records) : records[j].id # id

AnswersGenuine ==
  /\ \A id \in Running : inflight[id] # Requested => Genuine(inflight[id], source[id])
  /\ backfill.pc = "record" => Genuine(backfill.answer, source[backfill.id])

SeenIsKnown == \A id \in poll.seen : Known(id) /\ UpToDate(id)

Truthful ==
  \A id \in DOMAIN checkpoints :
    /\ Latest(checkpoints[id]) # NoHash =>
         LastIs(accepted, id, Latest(checkpoints[id]))
    /\ id \in Timed => checkpoints[id].marker # NoMarker
    /\ id \in Dated /\ checkpoints[id].marker # NoMarker =>
         /\ checkpoints[id].marker <= source[id].ver
         /\ id \in Present /\ checkpoints[id].marker = source[id].ver =>
              LastIs(accepted, id, source[id].hash)

-------------------------------------------------------------------------------
(* Which versions can still be accepted *)

\* No version above v of the log is among the records.
UpTo(records, id, v) ==
  \A i \in 1..Len(records) : records[i].id = id => records[i].ver <= v

\* The log was missing from a complete list before the clock last moved, and was
\* not seen since.
LongAbsent(id) == checkpoints[id].absentSince \in 1..(now - 1)

\* The cycle under way will forget the log if it has been absent for too long.
Unlisted(id) == poll.pc # "idle" /\ poll.complete /\ id \notin DOMAIN poll.markers

\* The backfill records no version below this one.
BackfillFloor ==
  IF backfill.pc = "record" THEN backfill.answer.ver ELSE backfill.when

\* Once the log is forgotten nothing guards it against an old version but the
\* order of events: it was gone from the server, so that whatever it answers
\* since, and whatever is under way, is newer.
Upward ==
  \A id \in Timed :
    /\ UpTo(accepted, id, source[id].ver)
    /\ Known(id) => UpTo(accepted, id, checkpoints[id].marker)
    /\ (~Known(id) \/ (Unlisted(id) /\ LongAbsent(id))) /\ source[id].old # NoHash =>
         UpTo(accepted, id, source[id].ver - 1)
    /\ ~Known(id) /\ id \in Running /\ inflight[id] # Requested =>
         UpTo(accepted, id, inflight[id].ver)
    /\ (~Known(id) \/ LongAbsent(id)) /\ backfill.pc # "idle" /\ backfill.id = id =>
         UpTo(accepted, id, BackfillFloor)

IInv ==
  /\ FileOK
  /\ SourceOK
  /\ PollOK
  /\ BackfillOK
  /\ FlushOK
  /\ AcceptedOK
  /\ \E k \in Nat : InOrder(k)
  /\ Fetched
  /\ Accounted
  /\ AnswersGenuine
  /\ SeenIsKnown
  /\ Truthful
  /\ Upward
  /\ NeverSetBack

-------------------------------------------------------------------------------
(* Lemmas about sequences of accepted records *)

\* A record appended to the sequence keeps a bound that it satisfies itself.
LEMMA UpToAppend ==
  ASSUME NEW records \in Seq(Accepted), NEW record \in Accepted, NEW id, NEW v,
         UpTo(records, id, v), record.id = id => record.ver <= v
  PROVE  UpTo(Append(records, record), id, v)
BY DEF UpTo

\* A greater bound.
LEMMA UpToMore ==
  ASSUME NEW records \in Seq(Accepted), NEW id, NEW v \in Int, NEW w \in Int,
         UpTo(records, id, v), v <= w
  PROVE  UpTo(records, id, w)
<1>1. \A i \in 1..Len(records) : records[i] \in Accepted
  OBVIOUS
<1>2. \A record \in Accepted : record.ver \in Int
  BY LogPipelineAssumption DEF Accepted
<1>3. \A i \in 1..Len(records) : records[i].ver \in Int
  BY <1>1, <1>2
<1> QED
  BY <1>3 DEF UpTo

\* The appended record is the last one of its log; other logs keep theirs.
LEMMA LastIsAppend ==
  ASSUME NEW records \in Seq(Accepted), NEW record \in Accepted, NEW id, NEW hash
  PROVE  /\ LastIs(Append(records, record), record.id, record.hash)
         /\ record.id # id /\ LastIs(records, id, hash) =>
              LastIs(Append(records, record), id, hash)
<1> DEFINE new == Append(records, record)
           n == Len(records) + 1
<1>1. /\ Len(records) \in Nat /\ Len(new) = n
      /\ new[n] = record /\ \A i \in 1..Len(records) : new[i] = records[i]
  OBVIOUS
<1> HIDE DEF new
<1>2. LastIs(new, record.id, record.hash)
  BY <1>1 DEF LastIs
<1>3. ASSUME record.id # id, LastIs(records, id, hash)
      PROVE  LastIs(new, id, hash)
  BY <1>1, <1>3 DEF LastIs
<1> QED
  BY <1>2, <1>3 DEF new

\* The last record of a log is the one LastAccepted finds.
LEMMA LastIsAccepted ==
  ASSUME AcceptedOK, NEW id, NEW hash, LastIs(accepted, id, hash)
  PROVE  LastAccepted(id) = hash
<1> DEFINE at == {i \in 1..Len(accepted) : accepted[i].id = id}
           P(m, x) == x \in at /\ \A t \in at : x >= t
<1>1. PICK m \in 1..Len(accepted) :
        /\ accepted[m].id = id /\ accepted[m].hash = hash
        /\ \A j \in (m + 1)..Len(accepted) : accepted[j].id # id
  BY DEF LastIs
<1>2. m \in at /\ \A t \in at : m >= t
  BY <1>1
<1>3. \A x \in at : (\A t \in at : x >= t) => x = m
  BY <1>2
<1>4. Max(at) = m
  <2> HIDE DEF at
  <2> QED
    BY <1>2, <1>3 DEF Max
<1> QED
  BY <1>1, <1>2, <1>4 DEF LastAccepted

-------------------------------------------------------------------------------
(* Lemmas about what the writers do to the file *)

\* Both writers call Enqueue with an answer for the log, and for a log whose details
\* are dated under the version of that answer.
Recordable(id, answer, marker) ==
  /\ id \in Logs /\ answer \in Answer /\ marker \in Markers \cup {NoMarker}
  /\ Genuine(answer, source[id])
  /\ id \in Dated => marker = answer.ver
  /\ id \in Timed /\ ~Known(id) => UpTo(accepted, id, answer.ver)

\* The record of an answer.
RecordOf(id, answer) == [id |-> id, hash |-> answer.hash, ver |-> answer.ver]

\* A worker of the poll calls Enqueue that way.
LEMMA DetailRecordable ==
  ASSUME IInv, NEW id \in Running, inflight[id] # Requested
  PROVE  /\ Recordable(id, inflight[id], DetailMarker(id))
         /\ poll.pc = "fetch" /\ poll.at = now
<1> USE DEF IInv
<1>1. id \in Logs /\ id \in DOMAIN poll.markers /\ inflight[id] \in Answer
  BY DEF PollOK, PollType, MarkerMaps
<1>2. poll.markers[id] \in Markers \cup {NoMarker}
  BY <1>1 DEF PollOK, PollType, MarkerMaps
<1>3. /\ inflight[id].ver \in Markers /\ NoMarker \notin Markers
      /\ inflight[id].marker \in {inflight[id].ver, NoMarker}
  BY <1>1, ValueAssumption DEF Answer
<1>4. /\ DetailMarker(id) \in Markers \cup {NoMarker}
      /\ id \in Dated => DetailMarker(id) = inflight[id].ver
  BY <1>2, <1>3 DEF DetailMarker, AnswersGenuine, Genuine, Dated
<1> QED
  BY <1>1, <1>4 DEF Recordable, AnswersGenuine, Upward, PollOK

\* The backfill does too: an answer that predates its list is refused before.
LEMMA BackfillRecordable ==
  ASSUME IInv, backfill.pc = "record"
  PROVE  /\ Recordable(backfill.id, backfill.answer, backfill.answer.marker)
         /\ backfill.answer.marker \in Markers
<1> USE DEF IInv
<1>1. /\ backfill.id \in Logs /\ backfill.answer \in Answer
      /\ backfill.answer.marker = backfill.answer.ver
  BY DEF BackfillOK
<1>2. backfill.answer.marker \in Markers
  BY <1>1 DEF Answer
<1>3. backfill.id \in Timed /\ ~Known(backfill.id) =>
        UpTo(accepted, backfill.id, backfill.answer.ver)
  BY DEF Upward, BackfillFloor
<1> QED
  BY <1>1, <1>2, <1>3 DEF Recordable, AnswersGenuine

\* What a call of Enqueue that does not fail does to checkpoints and queue.
LEMMA EnqueueEffect ==
  ASSUME FileOK, SourceOK, NEW id, NEW answer, NEW marker,
         Recordable(id, answer, marker), Enqueued(id, answer, marker, now)
  PROVE  /\ DOMAIN checkpoints' = DOMAIN checkpoints \cup {id}
         /\ \A x \in DOMAIN checkpoints \ {id} : checkpoints'[x] = checkpoints[x]
         /\ \/ Known(id) /\ UNCHANGED <<outbox, checkpoints, sequence, accepted>>
            \/ /\ ~Outdated(id, marker)
               /\ checkpoints'[id].marker = marker
               /\ checkpoints'[id].lastFetched = now
               /\ checkpoints'[id].absentSince = 0
               /\ Latest(checkpoints'[id]) = answer.hash
               /\ \/ /\ Latest(ReadCheckpoint(id)) = answer.hash
                     /\ UNCHANGED <<outbox, sequence, accepted>>
                  \/ /\ sequence' = sequence + 1
                     /\ DOMAIN outbox' = DOMAIN outbox \cup {sequence + 1}
                     /\ accepted' = Append(accepted, RecordOf(id, answer))
<1> DEFINE old == ReadCheckpoint(id)
<1>1. /\ id \in Logs /\ answer.hash \in Hashes /\ marker \in Markers \cup {NoMarker}
      /\ now \in Nat /\ answer.hash # NoHash
  BY ValueAssumption DEF Recordable, Answer, SourceOK
<1>2. StoreTypeOK /\ old \in Checkpoint
  BY <1>1, ReadType DEF FileOK, Logs
<1>3. CASE LogEnqueueOutdated(id, marker) /\ UNCHANGED accepted
  <2>1. Known(id)
    BY <1>3, <1>1 DEF LogEnqueueOutdated, Outdated, OlderMarker, ReadCheckpoint
  <2> QED
    BY <1>3, <2>1 DEF LogEnqueueOutdated, storeVars, Known
<1>4. CASE LogEnqueueKnown(id, answer.hash, marker, now) /\ UNCHANGED accepted
  <2> DEFINE c == Observed(id, marker, now)
  <2>1. /\ c \in Checkpoint /\ c.pending = old.pending /\ c.delivered = old.delivered
        /\ c.marker = marker /\ c.lastFetched = now /\ c.absentSince = 0
    BY <1>1, <1>2 DEF Observed, Checkpoint
  <2>2. /\ ~Outdated(id, marker) /\ PutCheckpoint(id, c)
        /\ \/ old.pending = answer.hash
           \/ old.pending = NoHash /\ old.delivered = answer.hash
        /\ UNCHANGED <<outbox, sequence, accepted>>
    BY <1>4 DEF LogEnqueueKnown, EnqueueKnown, Unchanged
  <2> HIDE DEF c, old
  <2>3. /\ DOMAIN checkpoints' = DOMAIN checkpoints \cup {id} /\ checkpoints'[id] = c
        /\ \A x \in DOMAIN checkpoints \ {id} : checkpoints'[x] = checkpoints[x]
    BY <1>1, <1>2, <2>1, <2>2, PutEffect DEF Logs
  <2>4. Latest(old) = answer.hash /\ Latest(c) = answer.hash
    BY <1>1, <2>1, <2>2 DEF Latest
  <2> QED
    BY <2>1, <2>2, <2>3, <2>4 DEF old
<1>5. CASE /\ LogEnqueueNew(id, answer.hash, marker, now)
           /\ accepted' = Append(accepted, RecordOf(id, answer))
  <2> DEFINE o == Observed(id, marker, now)
             c == [o EXCEPT !.pending = answer.hash]
  <2>1. /\ o \in Checkpoint
        /\ o.marker = marker /\ o.lastFetched = now /\ o.absentSince = 0
    BY <1>1, <1>2 DEF Observed, Checkpoint
  <2>2. /\ ~Outdated(id, marker) /\ PutCheckpoint(id, c)
        /\ sequence' = sequence + 1
        /\ DOMAIN outbox' = DOMAIN outbox \cup {sequence + 1}
    BY <1>5 DEF LogEnqueueNew, EnqueueNew
  <2> HIDE DEF o
  <2>3. /\ c \in Checkpoint /\ c.pending = answer.hash
        /\ c.marker = marker /\ c.lastFetched = now /\ c.absentSince = 0
    BY <1>1, <2>1 DEF Checkpoint
  <2> HIDE DEF c
  <2>4. /\ DOMAIN checkpoints' = DOMAIN checkpoints \cup {id} /\ checkpoints'[id] = c
        /\ \A x \in DOMAIN checkpoints \ {id} : checkpoints'[x] = checkpoints[x]
    BY <1>1, <1>2, <2>2, <2>3, PutEffect DEF Logs
  <2>5. Latest(c) = answer.hash
    BY <1>1, <2>3 DEF Latest
  <2> QED
    BY <1>5, <2>2, <2>3, <2>4, <2>5
<1> QED
  BY <1>3, <1>4, <1>5 DEF Enqueued, RecordOf

\* It leaves a valid file.
LEMMA EnqueueFile ==
  ASSUME FileOK, SourceOK, NEW id, NEW answer, NEW marker,
         Recordable(id, answer, marker), Enqueued(id, answer, marker, now)
  PROVE  FileOK'
<1>1. /\ id \in Alerts /\ answer.hash \in Hashes /\ marker \in Markers \cup {NoMarker}
      /\ now \in Nat
  BY DEF Recordable, Answer, SourceOK, Logs
<1>2. CASE LogEnqueueOutdated(id, marker)
  BY <1>2, SameFile DEF LogEnqueueOutdated
<1>3. CASE LogEnqueueKnown(id, answer.hash, marker, now)
  BY <1>1, <1>3, EnqueueKnownFile DEF LogEnqueueKnown
<1>4. CASE LogEnqueueNew(id, answer.hash, marker, now)
  BY <1>1, <1>4, EnqueueNewFile DEF LogEnqueueNew
<1> QED
  BY <1>2, <1>3, <1>4 DEF Enqueued

\* A log is marked as seen only while its checkpoint has at least the marker of
\* the list: its absence is taken back, and the marker if the list has none.
LEMMA SeenEffect ==
  ASSUME IInv, NEW id \in Logs, ClassifySeen(id)
  PROVE  /\ DOMAIN checkpoints' = DOMAIN checkpoints /\ Known(id)
         /\ \A x \in DOMAIN checkpoints \ {id} : checkpoints'[x] = checkpoints[x]
         /\ checkpoints'[id].lastFetched = checkpoints[id].lastFetched
         /\ checkpoints'[id].absentSince = 0
         /\ Latest(checkpoints'[id]) = Latest(checkpoints[id])
         /\ checkpoints'[id].marker \in {checkpoints[id].marker, NoMarker}
         /\ poll.markers[id] # NoMarker =>
              checkpoints'[id].marker = checkpoints[id].marker
         /\ id \in Timed => checkpoints'[id].marker = checkpoints[id].marker
         /\ UNCHANGED <<outbox, meta, sequence>>
         /\ FileOK'
<1> USE DEF IInv
<1> DEFINE marker == poll.markers[id]
           old == checkpoints[id]
           c == [ReadCheckpoint(id) EXCEPT
                   !.marker = IF Outdated(id, marker) THEN @ ELSE marker,
                   !.absentSince = 0]
<1>1. /\ poll.pc = "classify" /\ id \in poll.seen /\ id \in DOMAIN poll.markers
      /\ Known(id)
      /\ marker # NoMarker => old.marker # NoMarker /\ marker <= old.marker
      /\ id \in Timed => marker # NoMarker
  BY DEF ClassifySeen, PollOK, PollType, SeenIsKnown, UpToDate, Timed
<1>2. marker \in Markers \cup {NoMarker} /\ old \in Checkpoint /\ StoreTypeOK
  BY <1>1 DEF PollOK, PollType, MarkerMaps, FileOK, StoreTypeOK, Known
<1>3. /\ CheckpointRoom(id) /\ PutCheckpoint(id, c)
      /\ UNCHANGED <<outbox, meta, sequence>>
  BY DEF ClassifySeen, LogMarkSeen
<1>4. c = [old EXCEPT !.marker = IF Outdated(id, marker) THEN @ ELSE marker,
                      !.absentSince = 0]
  BY <1>1 DEF ReadCheckpoint
<1>5. ~Outdated(id, marker) /\ marker # NoMarker => marker = old.marker
  <2>1. old.marker \in Markers \cup {NoMarker}
    BY <1>2 DEF Checkpoint
  <2> QED
    BY <1>1, <1>2, <2>1, LogPipelineAssumption, ValueAssumption
       DEF Outdated, OlderMarker, ReadCheckpoint
<1> HIDE DEF marker
<1>6. /\ c \in Checkpoint /\ c.pending = old.pending /\ c.delivered = old.delivered
      /\ c.lastFetched = old.lastFetched /\ c.absentSince = 0
      /\ c.marker \in {old.marker, NoMarker}
      /\ marker # NoMarker => c.marker = old.marker
  <2> HIDE DEF old, c
  <2> QED
    BY <1>2, <1>4, <1>5 DEF Checkpoint
<1> HIDE DEF c
<1>7. /\ DOMAIN checkpoints' = DOMAIN checkpoints \cup {id} /\ checkpoints'[id] = c
      /\ \A x \in DOMAIN checkpoints \ {id} : checkpoints'[x] = checkpoints[x]
  BY <1>2, <1>3, <1>6, PutEffect DEF Logs
<1>8. FileOK'
  <2>1. c.pending = ReadCheckpoint(id).pending
    BY <1>1, <1>6 DEF ReadCheckpoint
  <2> QED
    BY <1>3, <1>6, <2>1, CheckpointFile DEF Logs
<1> QED
  BY <1>1, <1>3, <1>6, <1>7, <1>8 DEF Known, Latest, marker

-------------------------------------------------------------------------------
(* The file stays valid *)

\* The record a flush publishes and acknowledges is the oldest in the queue.
LEMMA NextIsOldest ==
  ASSUME IInv, NEW k \in Nat, InOrder(k), flush.pc \in {"publish", "ack"}
  PROVE  /\ NextRecord = k + 1 /\ k + 1 <= sequence
         /\ k + 1 \in DOMAIN outbox
         /\ \A t \in DOMAIN outbox : k + 1 <= t
<1>1. sequence \in Nat
  BY DEF IInv, FileOK, StoreTypeOK
<1>2. PICK m \in (k + 1)..sequence : flush.batch = (k + 1)..m
  BY DEF InOrder
<1>3. NextRecord = k + 1
  BY <1>2, LeastOf DEF NextRecord
<1> QED
  BY <1>1, <1>2, <1>3 DEF InOrder

\* What an acknowledgement by the publisher does to the file.
LEMMA AckEffect ==
  ASSUME IInv, flush.pc = "ack", LogAcknowledge(NextRecord)
  PROVE  /\ FileOK'
         /\ DOMAIN checkpoints' = DOMAIN checkpoints
         /\ \A id \in DOMAIN checkpoints :
              /\ checkpoints'[id].marker = checkpoints[id].marker
              /\ checkpoints'[id].lastFetched = checkpoints[id].lastFetched
              /\ checkpoints'[id].absentSince = checkpoints[id].absentSince
              /\ Latest(checkpoints'[id]) = Latest(checkpoints[id])
         /\ NextRecord \in DOMAIN outbox
         /\ DOMAIN outbox' = DOMAIN outbox \ {NextRecord}
         /\ sequence' = sequence
<1> DEFINE s == NextRecord
           id == outbox[s].id
<1>1. FileOK
  BY DEF IInv
<1>2. s \in DOMAIN outbox /\ \A t \in DOMAIN outbox : s <= t
  <2>1. PICK k \in Nat : InOrder(k)
    BY DEF IInv
  <2> QED
    BY <2>1, NextIsOldest
<1>3. Acknowledge(s)
  BY DEF LogAcknowledge
<1> HIDE DEF s
<1>4. FileOK'
  BY <1>1, <1>2, <1>3, AcknowledgeFile
<1>5. /\ DOMAIN checkpoints' = DOMAIN checkpoints /\ id \in DOMAIN checkpoints
      /\ \A x \in DOMAIN checkpoints :
           /\ checkpoints'[x].marker = checkpoints[x].marker
           /\ checkpoints'[x].lastFetched = checkpoints[x].lastFetched
           /\ checkpoints'[x].absentSince = checkpoints[x].absentSince
      /\ \A x \in DOMAIN checkpoints \ {id} : checkpoints'[x] = checkpoints[x]
      /\ checkpoints'[id].delivered = outbox[s].hash
      /\ checkpoints'[id].pending = IF s = Newest(id) THEN NoHash
                                    ELSE checkpoints[id].pending
  BY <1>1, <1>2, <1>3, AcknowledgeEffect
<1>6. s \in QueuedOf(id) /\ outbox[s].hash # NoHash
      /\ checkpoints[id].pending = outbox[Newest(id)].hash
  BY <1>1, <1>2, <1>5, ValueAssumption
     DEF FileOK, StoreTypeOK, Record, QueuedOf, StateValid, NewestHash
<1>7. checkpoints[id].pending # NoHash
  <2>1. id \in Alerts
    BY <1>1, <1>2 DEF FileOK, StoreTypeOK, Record
  <2>2. Newest(id) \in QueuedOf(id)
    BY <1>1, <1>6, <2>1, GreatestExists DEF FileOK, HasNewest, Newest
  <2>3. outbox[Newest(id)].hash \in Hashes
    BY <1>1, <2>2 DEF FileOK, StoreTypeOK, Record, QueuedOf
  <2> QED
    BY <1>6, <2>3, ValueAssumption
<1>8. Latest(checkpoints'[id]) = Latest(checkpoints[id])
  BY <1>5, <1>6, <1>7 DEF Latest
<1>9. DOMAIN outbox' = DOMAIN outbox \ {s} /\ sequence' = sequence
  BY <1>2, <1>3 DEF Acknowledge
<1> QED
  BY <1>2, <1>4, <1>5, <1>8, <1>9 DEF s

\* The steps that write to the file, or accept a record.
LEMMA StoreSteps ==
  ASSUME IInv, [Next]_vars
  PROVE  \/ UNCHANGED <<outbox, checkpoints, meta, sequence, accepted>>
         \/ /\ UNCHANGED <<publisherVars, envVars>>
            /\ \/ \E id \in Logs : DetailStored(id) \/ ClassifySeen(id)
               \/ BackfillStored \/ PollReconcile
         \/ Publisher /\ flush.pc = "ack" /\ LogAcknowledge(NextRecord)
<1>1. CASE Writers
  <2>1. UNCHANGED publisherVars
    BY <1>1 DEF Writers
  <2>2. CASE PollNext
    BY <2>1, <2>2
       DEF PollNext, PollListFails, PollList, Classify, ClassifySeen, ClassifyFails,
           PollSelect, Dispatch, CycleTimeout, DetailArrives, DetailFails,
           DetailStored, DetailRefused, NotEnqueued, LogEnqueueFull, EnqueueFull,
           StoreFails, PollReconcile, PollReconcileFails, PollReport,
           PollHealthFails, storeVars
  <2>3. CASE BackfillNext
    BY <2>1, <2>3
       DEF BackfillNext, BackfillTake, BackfillDetail, BackfillDetailFails,
           BackfillStored, BackfillRefused, NotEnqueued, LogEnqueueFull, EnqueueFull,
           StoreFails, storeVars
  <2> QED
    BY <1>1, <2>2, <2>3 DEF Writers
<1>2. CASE Publisher
  BY <1>2
     DEF Publisher, FlushNext, FlushRead, FlushDrained, PublishOK, PublishFails,
         FlushAcknowledge, FlushStateFails, StoreFails, storeVars
<1>3. CASE Environment
  BY <1>3 DEF Environment, SourceNext, SourceUpdates, SourceRemoves, Tick, storeVars
<1>4. CASE CrashRestart
  <2>1. Reopen
    BY <1>4 DEF CrashRestart, LogReopen, LogStateValid, Reopen, StateValid
  <2> QED
    BY <1>4, <2>1, ReopenFile DEF CrashRestart, IInv, storeVars
<1> QED
  BY <1>1, <1>2, <1>3, <1>4 DEF Next, vars, storeVars

\* Every step leaves a valid file: none makes one that the store calls corrupt.
LEMMA FileStep == IInv /\ [Next]_vars => FileOK'
<1> SUFFICES ASSUME IInv, [Next]_vars PROVE FileOK'
  OBVIOUS
<1>1. CASE UNCHANGED <<outbox, checkpoints, meta, sequence>>
  BY <1>1, SameFile DEF IInv, storeVars
<1>2. ASSUME NEW id \in Logs, DetailStored(id)
      PROVE  FileOK'
  BY <1>2, DetailRecordable, EnqueueFile DEF DetailStored, IInv
<1>3. CASE BackfillStored
  BY <1>3, BackfillRecordable, EnqueueFile DEF BackfillStored, IInv
<1>4. CASE PollReconcile
  <2>1. CASE poll.complete
    BY <1>4, <2>1, ReconcileCompleteFile
       DEF PollReconcile, LogReconcile, IInv, PollOK, PollType
  <2>2. CASE ~poll.complete
    BY <1>1, <1>4, <2>2 DEF PollReconcile, storeVars
  <2> QED
    BY <2>1, <2>2
<1> QED
  BY <1>1, <1>2, <1>3, <1>4, StoreSteps, SeenEffect, AckEffect

-------------------------------------------------------------------------------
(* The topic and the queue *)

\* Publishing the next record adds it to the topic, or finds it there.
LEMMA WriteEffect ==
  ASSUME NEW k \in Nat, InOrder(k), WriteTopic(k + 1)
  PROVE  /\ topic' \in Seq(Nat)
         /\ Len(topic') = k + 1
         /\ \A i \in 1..Len(topic') : topic'[i] = i
         /\ \/ topic' = topic
            \/ Len(topic) = k /\ topic' = Append(topic, k + 1)
<1>1. /\ topic \in Seq(Nat) /\ Len(topic) \in Nat /\ Len(topic) \in {k, k + 1}
      /\ \A i \in 1..Len(topic) : topic[i] = i
  BY DEF InOrder
<1>2. CASE Len(topic) = k + 1
  <2>1. topic # <<>> /\ topic[Len(topic)] = k + 1
    BY <1>1, <1>2
  <2>2. topic' = topic
    BY <2>1 DEF WriteTopic
  <2> QED
    BY <2>2, <1>1, <1>2
<1>3. CASE Len(topic) = k
  <2>1. ~(topic # <<>> /\ topic[Len(topic)] = k + 1)
    BY <1>1, <1>3
  <2>2. topic' = Append(topic, k + 1)
    BY <2>1 DEF WriteTopic
  <2>3. topic' \in Seq(Nat) /\ Len(topic') = k + 1
    BY <2>2, <1>1, <1>3
  <2>4. \A i \in 1..Len(topic') : topic'[i] = i
    BY <2>2, <2>3, <1>1, <1>3
  <2> QED
    BY <2>2, <2>3, <2>4, <1>3
<1> QED
  BY <1>1, <1>2, <1>3

\* The file does not change, and the flush begins again.
LEMMA OrderAtRest ==
  ASSUME NEW k \in Nat, InOrder(k), UNCHANGED <<outbox, sequence, topic>>,
         flush' = NoFlush
  PROVE  InOrder(k)'
BY DEF InOrder, NoFlush

\* A record of either writer goes to the end of the queue.
LEMMA EnqueueOrder ==
  ASSUME IInv, NEW k \in Nat, InOrder(k), NEW id, NEW answer, NEW marker,
         Recordable(id, answer, marker), Enqueued(id, answer, marker, now),
         UNCHANGED <<flush, topic>>
  PROVE  AcceptedOK' /\ InOrder(k)'
<1>1. sequence \in Nat /\ RecordOf(id, answer) \in Accepted
  BY DEF IInv, FileOK, StoreTypeOK, Recordable, Answer, RecordOf, Accepted
<1>2. CASE UNCHANGED <<outbox, sequence, accepted>>
  BY <1>2 DEF IInv, AcceptedOK, InOrder
<1>3. CASE /\ sequence' = sequence + 1
           /\ DOMAIN outbox' = DOMAIN outbox \cup {sequence + 1}
           /\ accepted' = Append(accepted, RecordOf(id, answer))
  <2>1. AcceptedOK'
    BY <1>1, <1>3 DEF IInv, AcceptedOK
  <2>2. DOMAIN outbox' = (k + 1)..sequence'
    BY <1>1, <1>3 DEF InOrder
  <2>3. (k + 1)..sequence \subseteq (k + 1)..sequence'
    BY <1>1, <1>3
  <2> QED
    BY <1>1, <1>3, <2>1, <2>2, <2>3 DEF InOrder
<1> QED
  BY <1>2, <1>3, EnqueueEffect DEF IInv

\* A publication, confirmed or not.
LEMMA PublishOrder ==
  ASSUME IInv, NEW k \in Nat, InOrder(k),
         PublishOK \/ \E written \in BOOLEAN : PublishFails(written)
  PROVE  InOrder(k)'
<1>1. flush.pc = "publish" /\ UNCHANGED <<outbox, sequence>>
  BY DEF PublishOK, PublishFails, storeVars
<1>2. NextRecord = k + 1 /\ k + 1 <= sequence
  BY <1>1, NextIsOldest
<1>3. sequence \in Nat
  BY DEF IInv, FileOK, StoreTypeOK
<1>4. WriteTopic(NextRecord) =>
        /\ topic' \in Seq(Nat) /\ Len(topic') = k + 1
        /\ \A i \in 1..Len(topic') : topic'[i] = i
  BY <1>2, WriteEffect
<1>5. CASE PublishOK
  <2>1. flush'.pc = "ack" /\ flush'.batch = flush.batch
    BY <1>5 DEF PublishOK, IInv, FlushOK, FlushType
  <2> QED
    BY <1>1, <1>2, <1>3, <1>4, <1>5, <2>1 DEF PublishOK, InOrder
<1>6. ASSUME NEW written \in BOOLEAN, PublishFails(written)
      PROVE  InOrder(k)'
  <2>1. flush'.pc = "idle"
    BY <1>6 DEF PublishFails, NoFlush
  <2>2. CASE WriteTopic(NextRecord)
    BY <1>1, <1>2, <1>3, <1>4, <2>1, <2>2 DEF InOrder
  <2>3. CASE topic' = topic
    BY <1>1, <2>1, <2>3 DEF InOrder
  <2> QED
    BY <1>6, <2>2, <2>3 DEF PublishFails
<1> QED
  BY <1>5, <1>6

\* The acknowledgement of record k + 1, counted by the publisher or not.
LEMMA AcknowledgeOrder ==
  ASSUME IInv, NEW k \in Nat, InOrder(k), Publisher, flush.pc = "ack",
         LogAcknowledge(NextRecord)
  PROVE  InOrder(k + 1)'
<1>1. NextRecord = k + 1 /\ k + 1 <= sequence /\ sequence \in Nat
  BY NextIsOldest DEF IInv, FileOK, StoreTypeOK
<1>2. DOMAIN outbox' = (k + 2)..sequence /\ sequence' = sequence
  BY <1>1, AckEffect DEF InOrder
<1>3. topic' = topic
  BY DEF Publisher, FlushNext, FlushRead, FlushDrained, PublishOK, PublishFails,
         FlushAcknowledge, FlushStateFails, StoreFails
<1>4. Len(topic) = k + 1
  BY DEF InOrder
<1>5. PICK m \in (k + 1)..sequence : flush.batch = (k + 1)..m
  BY DEF InOrder
<1>6. \/ flush' = NoFlush
      \/ /\ flush' = [pc |-> "publish", batch |-> flush.batch \ {NextRecord}]
         /\ flush.batch # {NextRecord}
  BY DEF Publisher, FlushNext, FlushRead, FlushDrained, PublishOK, PublishFails,
         FlushAcknowledge, FlushStateFails, FlushGood
<1>7. CASE flush' = NoFlush
  BY <1>1, <1>2, <1>3, <1>4, <1>7 DEF InOrder, NoFlush
<1>8. CASE /\ flush' = [pc |-> "publish", batch |-> flush.batch \ {NextRecord}]
           /\ flush.batch # {NextRecord}
  <2>1. flush'.pc = "publish" /\ flush'.batch = (k + 2)..m /\ m \in (k + 2)..sequence
    BY <1>1, <1>5, <1>8
  <2> QED
    BY <1>1, <1>2, <1>3, <1>4, <2>1 DEF InOrder
<1> QED
  BY <1>6, <1>7, <1>8

\* The other steps of the flush.
LEMMA FlushOrder ==
  ASSUME IInv, NEW k \in Nat, InOrder(k), Publisher,
         ~(flush.pc = "ack" /\ LogAcknowledge(NextRecord))
  PROVE  InOrder(k)'
<1>1. sequence \in Nat
  BY DEF IInv, FileOK, StoreTypeOK
<1>2. CASE FlushRead
  <2>1. /\ UNCHANGED <<outbox, sequence, topic>>
        /\ flush'.pc = "publish" /\ flush'.batch = LogRecords(BatchLimit)
        /\ LogRecords(BatchLimit) # {}
    BY <1>2 DEF FlushRead, storeVars
  <2>2. \E m \in (k + 1)..sequence : LogRecords(BatchLimit) = (k + 1)..m
    <3>1. DOMAIN outbox = (k + 1)..sequence
      BY DEF InOrder
    <3>2. Records(BatchLimit) # {}
      BY <2>1 DEF LogRecords
    <3>3. BatchLimit \in Nat \ {0}
      BY LogPublisherAssumption
    <3>4. \E m \in (k + 1)..sequence : Records(BatchLimit) = (k + 1)..m
      BY <1>1, <3>1, <3>2, <3>3, BatchOfInterval
    <3> QED
      BY <3>4 DEF LogRecords
  <2> QED
    BY <2>1, <2>2 DEF InOrder
<1>3. CASE (FlushDrained \/ FlushStateFails) /\ topic' = topic
  BY <1>3, OrderAtRest
     DEF FlushDrained, FlushStateFails, FlushGood, StoreFails, storeVars
<1>4. CASE FlushStateFails /\ flush.pc = "publish" /\ WriteTopic(NextRecord)
  <2>1. NextRecord = k + 1 /\ k + 1 <= sequence
    BY <1>4, NextIsOldest
  <2>2. UNCHANGED <<outbox, sequence>> /\ flush'.pc = "idle"
    BY <1>4 DEF FlushStateFails, StoreFails, NoFlush, storeVars
  <2>3. /\ topic' \in Seq(Nat) /\ Len(topic') = k + 1
        /\ \A i \in 1..Len(topic') : topic'[i] = i
    BY <1>4, <2>1, WriteEffect
  <2> QED
    BY <1>1, <2>1, <2>2, <2>3 DEF InOrder
<1>5. FlushDrained \/ FlushStateFails =>
        topic' = topic \/ (FlushStateFails /\ flush.pc = "publish" /\ WriteTopic(NextRecord))
  BY DEF FlushDrained, FlushStateFails
<1> QED
  BY <1>2, <1>3, <1>4, <1>5, PublishOrder DEF Publisher, FlushNext, FlushAcknowledge

\* After every step topic and queue are intervals of the accepted records.
LEMMA OrderStep ==
  IInv /\ [Next]_vars => AcceptedOK' /\ \E k \in Nat : InOrder(k)'
<1> SUFFICES ASSUME IInv, [Next]_vars
             PROVE  AcceptedOK' /\ \E k \in Nat : InOrder(k)'
  OBVIOUS
<1>1. PICK k \in Nat : InOrder(k)
  BY DEF IInv
<1>2. CASE Publisher
  <2>1. accepted' = accepted /\ sequence' = sequence
    <3>1. CASE UNCHANGED storeVars
      BY <1>2, <3>1 DEF Publisher, storeVars
    <3>2. CASE flush.pc = "ack" /\ LogAcknowledge(NextRecord)
      BY <1>2, <3>2, AckEffect DEF Publisher
    <3> QED
      BY <1>2, <3>1, <3>2
         DEF Publisher, FlushNext, FlushRead, FlushDrained, PublishOK, PublishFails,
             FlushAcknowledge, FlushStateFails, StoreFails
  <2> QED
    BY <1>1, <1>2, <2>1, AcknowledgeOrder, FlushOrder DEF IInv, AcceptedOK
<1>3. CASE UNCHANGED <<outbox, sequence, accepted, publisherVars>>
  BY <1>1, <1>3 DEF IInv, AcceptedOK, InOrder, publisherVars
<1>4. ASSUME NEW id \in Logs, DetailStored(id), UNCHANGED publisherVars
      PROVE  AcceptedOK' /\ InOrder(k)'
  BY <1>1, <1>4, DetailRecordable, EnqueueOrder DEF DetailStored, publisherVars
<1>5. CASE BackfillStored /\ UNCHANGED publisherVars
  BY <1>1, <1>5, BackfillRecordable, EnqueueOrder DEF BackfillStored, publisherVars
<1>6. CASE CrashRestart
  <2>1. UNCHANGED <<outbox, sequence, accepted, topic>> /\ flush' = NoFlush
    BY <1>6 DEF CrashRestart, LogReopen
  <2> QED
    BY <1>1, <2>1, OrderAtRest DEF IInv, AcceptedOK
<1>7. CASE Writers
  <2>1. CASE PollReconcile \/ \E id \in Logs : ClassifySeen(id)
    BY <1>3, <1>7, <2>1
       DEF Writers, PollReconcile, LogReconcile, ClassifySeen, LogMarkSeen, storeVars
  <2>2. CASE UNCHANGED <<outbox, checkpoints, meta, sequence, accepted>>
    BY <1>3, <1>7, <2>2 DEF Writers
  <2> QED
    BY <1>2, <1>4, <1>5, <1>7, <2>1, <2>2, StoreSteps DEF Writers
<1>8. CASE Environment \/ UNCHANGED vars
  BY <1>3, <1>8
     DEF Environment, SourceNext, SourceUpdates, SourceRemoves, Tick, vars, storeVars
<1> QED
  BY <1>1, <1>2, <1>4, <1>5, <1>6, <1>7, <1>8 DEF Next

-------------------------------------------------------------------------------
(* Server, clock and the local states *)

\* The server only changes through its own steps; a version that is still
\* answered beside the current one is its predecessor.
LEMMA SourceStep == IInv /\ [Next]_vars => SourceOK'
<1> SUFFICES ASSUME IInv, [Next]_vars PROVE SourceOK'
  OBVIOUS
<1> USE DEF IInv
<1>1. upsets' \in 0..MaxUpsets
  <2>1. upsets \in 0..MaxUpsets /\ MaxUpsets \in Nat
    BY LogPipelineAssumption DEF SourceOK
  <2>2. ASSUME NEW id \in Updatable, NEW hash \in Hashes, NEW marked \in BOOLEAN,
               NEW dated \in BOOLEAN, SourceUpdates(id, hash, marked, dated)
        PROVE  upsets' \in 0..MaxUpsets
    <3>1. Missing(marked) \in {0, 1} /\ Missing(dated) \in {0, 1}
      BY DEF Missing
    <3> QED
      BY <2>1, <2>2, <3>1 DEF SourceUpdates
  <2>3. \/ upsets' = upsets \/ (upsets < MaxUpsets /\ upsets' = upsets + 1)
        \/ \E id \in Updatable, hash \in Hashes, marked, dated \in BOOLEAN :
             SourceUpdates(id, hash, marked, dated)
    BY DEF Next, Writers, Publisher, Environment, SourceNext,
           SourceRemoves, Tick, CrashRestart, FlushNext, FlushRead, FlushDrained,
           PublishOK, PublishFails, FlushAcknowledge, FlushStateFails, PollNext,
           PollListFails, PollList, Classify, ClassifySeen, ClassifyFails, PollSelect,
           Dispatch, CycleTimeout, DetailArrives, DetailFails, DetailStored,
           DetailRefused, NotEnqueued, StoreFails, PollReconcile, PollReconcileFails,
           PollReport, PollHealthFails, BackfillNext, BackfillTake, BackfillDetail,
           BackfillDetailFails, BackfillStored, BackfillRefused, vars
  <2> QED
    BY <2>1, <2>2, <2>3
<1>2. CASE UNCHANGED envVars
  BY <1>1, <1>2 DEF SourceOK, envVars
<1>3. ASSUME NEW id \in Updatable, NEW hash \in Hashes, NEW marked \in BOOLEAN,
             NEW dated \in BOOLEAN, SourceUpdates(id, hash, marked, dated)
      PROVE  SourceOK'
  <2> DEFINE s == source[id]
             new == [hash |-> hash, ver |-> s.ver + 1,
                     listed |-> UsableMarker(s.ver + 1, marked),
                     marker |-> UsableMarker(s.ver + 1, dated),
                     old |-> s.hash, oldMarker |-> s.marker,
                     marked |-> s.marked /\ marked, dated |-> s.dated /\ dated]
  <2>1. /\ id \in Logs /\ EntryOK(s) /\ s.ver < MaxVersion
        /\ MaxVersion \in Nat /\ Markers = 1..MaxVersion
        /\ NoHash \notin Hashes
    BY LogPipelineAssumption, ValueAssumption DEF Updatable, SourceOK
  <2>2. source' = [source EXCEPT ![id] = new] /\ UNCHANGED <<options, now>>
    BY <1>3 DEF SourceUpdates
  <2> HIDE DEF s
  <2>3. EntryOK(new)
    <3>1. s.ver + 1 \in Markers /\ s.ver \in Nat /\ s.ver + 1 - 1 = s.ver
      BY <2>1 DEF EntryOK, SourceType
    <3>2. /\ UsableMarker(s.ver + 1, marked) \in Markers \cup {NoMarker}
          /\ UsableMarker(s.ver + 1, dated) \in Markers \cup {NoMarker}
      BY <3>1 DEF UsableMarker
    <3>3. s.ver + 1 \in 0..MaxVersion
      BY <2>1, <3>1
    <3>4. new \in SourceType
      BY <2>1, <3>2, <3>3 DEF EntryOK, SourceType
    <3>5. /\ new.hash = hash /\ new.ver = s.ver + 1 /\ new.old = s.hash
          /\ new.listed = UsableMarker(s.ver + 1, marked)
          /\ new.marker = UsableMarker(s.ver + 1, dated)
          /\ new.oldMarker = s.marker
      OBVIOUS
    <3>6. (new.marked => marked) /\ (new.dated => dated /\ s.dated)
      OBVIOUS
    <3> HIDE DEF new
    <3>7. /\ new.ver \in Markers /\ new.ver - 1 = s.ver
          /\ new.listed \in {new.ver, NoMarker} /\ new.marker \in {new.ver, NoMarker}
          /\ new.marked => new.listed = new.ver
          /\ new.dated => new.marker = new.ver
      BY <3>1, <3>5, <3>6 DEF UsableMarker
    <3>8. ASSUME s.hash # NoHash
          PROVE  /\ s.ver \in Markers
                 /\ s.marker \in {s.ver, NoMarker}
                 /\ s.dated => s.marker = s.ver
      BY <2>1, <3>8 DEF EntryOK
    <3>9. new.hash # NoHash
      BY <2>1, <3>5
    <3>10. ASSUME s.hash # NoHash
           PROVE  /\ new.ver - 1 \in Markers
                  /\ new.oldMarker \in {new.ver - 1, NoMarker}
      BY <3>5, <3>7, <3>8, <3>10
    <3>11. ASSUME s.hash # NoHash, new.dated
           PROVE  new.oldMarker = new.ver - 1
      BY <3>5, <3>6, <3>7, <3>8, <3>11
    <3> QED
      BY <3>4, <3>5, <3>7, <3>9, <3>10, <3>11, Zenon DEF EntryOK
  <2> HIDE DEF new
  <2>4. /\ source' \in [Logs -> SourceType]
        /\ source'[id] = new /\ \A x \in Logs \ {id} : source'[x] = source[x]
    BY <2>1, <2>2, <2>3 DEF SourceOK, EntryOK
  <2> QED
    BY <1>1, <2>2, <2>3, <2>4 DEF SourceOK
<1>4. ASSUME NEW id \in Logs, SourceRemoves(id)
      PROVE  SourceOK'
  <2> DEFINE s == source[id]
             new == [NeverLogged EXCEPT !.ver = s.ver, !.marked = s.marked,
                                        !.dated = s.dated]
  <2>1. EntryOK(s) /\ source' = [source EXCEPT ![id] = new] /\ UNCHANGED <<options, now>>
    BY <1>4 DEF SourceRemoves, SourceOK
  <2> HIDE DEF s
  <2>2. EntryOK(new)
    BY <2>1 DEF EntryOK, SourceType, NeverLogged
  <2> HIDE DEF new
  <2>3. /\ source' \in [Logs -> SourceType]
        /\ source'[id] = new /\ \A x \in Logs \ {id} : source'[x] = source[x]
    BY <2>1, <2>2 DEF SourceOK, EntryOK
  <2> QED
    BY <1>1, <2>1, <2>2, <2>3 DEF SourceOK
<1>5. CASE Tick
  <2>1. now' \in Nat \ {0}
    BY <1>5, OptionsAssumption DEF Tick, SourceOK
  <2> QED
    BY <1>1, <1>5, <2>1 DEF Tick, SourceOK
<1> QED
  BY <1>2, <1>3, <1>4, <1>5, StoreSteps
     DEF Next, Writers, Publisher, Environment, SourceNext, CrashRestart, vars,
         PollNext, PollListFails, PollList, Classify, ClassifySeen, ClassifyFails,
         PollSelect, Dispatch, CycleTimeout, DetailArrives, DetailFails, DetailStored,
         DetailRefused, PollReconcile, PollReconcileFails, PollReport,
         PollHealthFails, BackfillNext, BackfillTake, BackfillDetail,
         BackfillDetailFails, BackfillStored, BackfillRefused

\* The server moves to the next version of a log or loses it; nothing else moves
\* with it, and a log that once lacked a usable updatedOn stays one.
LEMMA SourceEffect ==
  ASSUME IInv, [Next]_vars
  PROVE  /\ \A id \in Logs :
              /\ source'[id].dated => source[id].dated
              /\ source'[id].marked => source[id].marked
              /\ \/ source'[id] = source[id]
                 \/ /\ source'[id].ver = source[id].ver + 1
                    /\ source'[id].old = source[id].hash
                 \/ /\ source'[id].ver = source[id].ver
                    /\ source'[id].hash = NoHash /\ source'[id].old = NoHash
         /\ \/ source' = source
            \/ UNCHANGED <<checkpoints, accepted, poll, inflight, backfill, now>>
         /\ \/ now' = now
            \/ /\ UNCHANGED <<source, checkpoints, accepted>>
               /\ poll.pc = "idle" /\ poll'.pc = "idle" /\ Running' = {}
               /\ backfill'.pc = "idle"
<1>1. source \in [Logs -> SourceType]
  BY DEF IInv, SourceOK
<1>2. ASSUME NEW id \in Updatable, NEW hash \in Hashes, NEW marked \in BOOLEAN,
             NEW dated \in BOOLEAN, SourceUpdates(id, hash, marked, dated)
      PROVE  /\ UNCHANGED <<checkpoints, accepted, poll, inflight, backfill, now>>
             /\ source'[id].ver = source[id].ver + 1
             /\ source'[id].old = source[id].hash
             /\ source'[id].dated => source[id].dated
             /\ source'[id].marked => source[id].marked
             /\ \A x \in Logs \ {id} : source'[x] = source[x]
  BY <1>1, <1>2 DEF Updatable, SourceUpdates, storeVars, pollVars
<1>3. ASSUME NEW id \in Logs, SourceRemoves(id)
      PROVE  /\ UNCHANGED <<checkpoints, accepted, poll, inflight, backfill, now>>
             /\ source'[id].ver = source[id].ver
             /\ source'[id].hash = NoHash /\ source'[id].old = NoHash
             /\ source'[id].dated = source[id].dated
             /\ source'[id].marked = source[id].marked
             /\ \A x \in Logs \ {id} : source'[x] = source[x]
  BY <1>1, <1>3 DEF SourceRemoves, NeverLogged, storeVars, pollVars
<1>4. CASE Tick
  <2>1. /\ UNCHANGED <<checkpoints, accepted, poll, inflight, backfill, source>>
        /\ poll.pc = "idle" /\ backfill.pc = "idle"
    BY <1>4 DEF Tick, NoPoll, NoBackfill, storeVars, pollVars
  <2>2. Running' = {}
    BY <2>1 DEF IInv, PollOK, Running
  <2> QED
    BY <2>1, <2>2
<1>5. CASE UNCHANGED envVars
  BY <1>5 DEF envVars
<1>6. CASE Writers
  BY <1>5, <1>6, StoreSteps
     DEF Writers, PollNext, PollListFails, PollList, Classify, ClassifySeen,
         ClassifyFails, PollSelect, Dispatch, CycleTimeout, DetailArrives, DetailFails,
         DetailStored, DetailRefused, PollReconcile, PollReconcileFails, PollReport,
         PollHealthFails, BackfillNext, BackfillTake, BackfillDetail,
         BackfillDetailFails, BackfillStored, BackfillRefused
<1>7. CASE Environment
  <2>1. ASSUME NEW id \in Updatable, NEW hash \in Hashes, NEW marked \in BOOLEAN,
               NEW dated \in BOOLEAN, SourceUpdates(id, hash, marked, dated)
        PROVE  /\ UNCHANGED <<checkpoints, accepted, poll, inflight, backfill, now>>
               /\ \A x \in Logs :
                    /\ source'[x].dated => source[x].dated
                    /\ source'[x].marked => source[x].marked
                    /\ \/ source'[x] = source[x]
                       \/ /\ source'[x].ver = source[x].ver + 1
                          /\ source'[x].old = source[x].hash
    BY <1>2, <2>1
  <2>2. CASE \E id \in Logs : SourceRemoves(id)
    BY <1>3, <2>2
  <2> QED
    BY <1>4, <1>7, <2>1, <2>2 DEF Environment, SourceNext
<1> QED
  BY <1>5, <1>6, <1>7 DEF Next, Publisher, CrashRestart, vars

\* Every answer is one of a version the server had.
LEMMA AnswersType ==
  ASSUME IInv, NEW id \in Present, NEW answer \in Answers(id)
  PROVE  /\ id \in Logs /\ answer \in Answer
         /\ answer.ver \in {source[id].ver, source[id].ver - 1}
         /\ answer.ver = source[id].ver => answer.hash = source[id].hash
         /\ answer.ver # source[id].ver =>
              source[id].old # NoHash /\ answer.ver = source[id].ver - 1
         /\ source[id].dated => answer.marker = answer.ver
<1> DEFINE s == source[id]
<1>1. id \in Logs /\ s.hash # NoHash /\ EntryOK(s)
  BY DEF IInv, SourceOK, Present
<1>2. s.ver \in Int
  BY <1>1, LogPipelineAssumption DEF EntryOK
<1>3. \/ answer = [hash |-> s.hash, ver |-> s.ver, marker |-> s.marker]
      \/ /\ s.old # NoHash
         /\ answer = [hash |-> s.old, ver |-> s.ver - 1, marker |-> s.oldMarker]
  BY DEF Answers
<1> HIDE DEF s
<1> QED
  BY <1>1, <1>2, <1>3 DEF EntryOK, SourceType, Answer, s

\* A new cycle begins with the markers of its list.
LEMMA ListPoll ==
  ASSUME IInv, NEW shown \in SUBSET Present, NEW wellFormed \in BOOLEAN,
         NEW threshold \in BOOLEAN, PollList(shown, wellFormed, threshold)
  PROVE  /\ PollOK'
         /\ shown \subseteq Present
         /\ poll'.pc = "classify" /\ DOMAIN poll'.markers = shown
         /\ poll'.unclassified = shown /\ poll'.seen = {}
         /\ poll'.complete => shown = Present
         /\ poll'.answered = {}
<1> DEFINE m == [id \in shown |-> source[id].listed]
           complete == wellFormed /\ shown = Present
           enough == wellFormed /\ (shown = Present \/ (options.backfill /\ threshold))
<1>1. /\ shown \subseteq Present
      /\ poll' = [NoPoll EXCEPT !.pc = "classify", !.at = now, !.markers = m,
                                !.complete = complete, !.enough = enough,
                                !.unclassified = shown]
      /\ inflight' = inflight /\ source' = source /\ now' = now
  BY DEF PollList, envVars
<1>2. /\ m \in [shown -> Markers \cup {NoMarker}]
      /\ \A id \in shown : source[id].marked => m[id] # NoMarker
  <2>1. \A id \in shown : EntryOK(source[id]) /\ source[id].hash # NoHash
    BY DEF Present, IInv, SourceOK
  <2> QED
    BY <2>1, ValueAssumption DEF EntryOK, SourceType
<1>3. m \in MarkerMaps /\ shown \subseteq Logs
  BY <1>2 DEF MarkerMaps, Present
<1>4. /\ Running = {} /\ now \in Nat
      /\ complete \in BOOLEAN /\ enough \in BOOLEAN
  BY DEF PollList, IInv, PollOK, SourceOK
<1>5. complete => shown = Present
  OBVIOUS
<1> HIDE DEF m, complete, enough
<1>6. /\ poll'.pc = "classify" /\ poll'.markers = m /\ poll'.unclassified = shown
      /\ poll'.seen = {} /\ poll'.complete = complete /\ poll'.at = now
      /\ poll'.new = {} /\ poll'.refresh = {} /\ poll'.todo = {}
      /\ poll'.answered = {} /\ poll' \in PollType
  BY <1>1, <1>3, <1>4 DEF NoPoll, PollType
<1>7. PollOK'
  BY <1>1, <1>2, <1>4, <1>6 DEF IInv, PollOK, Running
<1> QED
  BY <1>1, <1>2, <1>5, <1>6, <1>7

\* What the classification of a log leaves of the poll's state.
LEMMA ClassifiedEffect ==
  ASSUME PollOK, NEW id
  PROVE  LET q == Classified(id)
         IN  /\ q \in PollType /\ q.unclassified = poll.unclassified \ {id}
             /\ q.pc = poll.pc /\ q.markers = poll.markers /\ q.at = poll.at
             /\ q.new = poll.new /\ q.refresh = poll.refresh /\ q.seen = poll.seen
             /\ q.todo = poll.todo /\ q.deferred = poll.deferred
             /\ q.stateOK = poll.stateOK /\ q.detailOK = poll.detailOK
             /\ q.complete = poll.complete /\ q.answered = poll.answered
BY DEF PollOK, PollType, Classified

\* A task keeps the rest of it too.
LEMMA TaskEffect ==
  ASSUME PollOK, FileOK, NEW id \in Logs
  PROVE  LET q == Task(id)
         IN  /\ q \in PollType /\ q.unclassified = poll.unclassified \ {id}
             /\ q.pc = poll.pc /\ q.markers = poll.markers /\ q.at = poll.at
             /\ q.new = poll.new /\ q.refresh = poll.refresh /\ q.seen = poll.seen
             /\ q.todo = poll.todo /\ q.deferred = poll.deferred
             /\ q.stateOK = poll.stateOK /\ q.detailOK = poll.detailOK
             /\ q.complete = poll.complete /\ q.answered = poll.answered
<1> DEFINE q == Classified(id)
           n == ReadCheckpoint(id).lastFetched
<1>1. n \in Nat
  BY ReadType DEF FileOK, Logs, Checkpoint
<1>2. /\ q \in PollType /\ q.unclassified = poll.unclassified \ {id}
      /\ q.pc = poll.pc /\ q.markers = poll.markers /\ q.at = poll.at
      /\ q.new = poll.new /\ q.refresh = poll.refresh /\ q.seen = poll.seen
      /\ q.todo = poll.todo /\ q.deferred = poll.deferred
      /\ q.stateOK = poll.stateOK /\ q.detailOK = poll.detailOK
      /\ q.complete = poll.complete /\ q.answered = poll.answered
  BY ClassifiedEffect
<1>3. Task(id) = [q EXCEPT !.fetched = [q.fetched EXCEPT ![id] = n]]
  BY DEF Task
<1> HIDE DEF q, n
<1>4. [q.fetched EXCEPT ![id] = n] \in [Logs -> Nat]
  BY <1>1, <1>2 DEF PollType
<1> QED
  BY <1>2, <1>3, <1>4 DEF PollType

\* What a classification does: a detail is wanted, the log is only to be marked
\* as seen, or it is skipped.
LEMMA ClassifyEffect ==
  ASSUME IInv, NEW id \in Logs, Classify(id) \/ ClassifySeen(id) \/ ClassifyFails(id)
  PROVE  /\ poll' \in PollType /\ poll.pc = "classify" /\ poll'.pc = "classify"
         /\ id \in poll.unclassified
         /\ poll'.at = poll.at /\ poll'.markers = poll.markers
         /\ poll'.complete = poll.complete /\ poll'.todo = poll.todo
         /\ poll'.detailOK = poll.detailOK /\ poll'.answered = poll.answered
         /\ UNCHANGED <<inflight, source, now>>
         /\ \/ /\ IsNew(id) \/ IsDue(id)
               /\ poll'.unclassified = poll.unclassified \ {id}
               /\ poll'.seen = {} /\ poll'.stateOK = poll.stateOK
               /\ \/ poll'.new = poll.new \cup {id} /\ poll'.refresh = poll.refresh
                  \/ poll'.new = poll.new /\ poll'.refresh = poll.refresh \cup {id}
            \/ /\ ~IsNew(id) /\ ~IsDue(id) /\ Classify(id)
               /\ poll'.unclassified = poll.unclassified /\ poll'.seen = {id}
               /\ poll'.new = poll.new /\ poll'.refresh = poll.refresh
               /\ poll'.stateOK = poll.stateOK
            \/ /\ poll'.unclassified = poll.unclassified \ {id} /\ poll'.seen = {}
               /\ poll'.new = poll.new /\ poll'.refresh = poll.refresh
               /\ \/ id \in poll.seen /\ poll'.stateOK = poll.stateOK /\ ClassifySeen(id)
                  \/ poll'.stateOK = FALSE
<1> DEFINE q == Classified(id)
           t == Task(id)
<1>1. /\ q \in PollType /\ q.unclassified = poll.unclassified \ {id}
      /\ q.pc = poll.pc /\ q.markers = poll.markers /\ q.at = poll.at
      /\ q.new = poll.new /\ q.refresh = poll.refresh /\ q.seen = poll.seen
      /\ q.todo = poll.todo /\ q.stateOK = poll.stateOK
      /\ q.detailOK = poll.detailOK /\ q.complete = poll.complete
      /\ q.answered = poll.answered
  BY ClassifiedEffect DEF IInv
<1>2. /\ t \in PollType /\ t.unclassified = poll.unclassified \ {id}
      /\ t.pc = poll.pc /\ t.markers = poll.markers /\ t.at = poll.at
      /\ t.new = poll.new /\ t.refresh = poll.refresh /\ t.seen = poll.seen
      /\ t.todo = poll.todo /\ t.stateOK = poll.stateOK
      /\ t.detailOK = poll.detailOK /\ t.complete = poll.complete
      /\ t.answered = poll.answered
  BY TaskEffect DEF IInv
<1>3. /\ poll.pc = "classify" /\ id \in poll.unclassified
      /\ UNCHANGED <<inflight, source, now>>
  BY DEF Classify, ClassifySeen, ClassifyFails, envVars, IInv, PollOK
<1>4. poll \in PollType
  BY DEF IInv, PollOK
<1>5. CASE Classify(id)
  <2> poll.seen = {}
    BY <1>5 DEF Classify
  <2>1. CASE IsNew(id)
    <3>0. ~IsDue(id)
      BY <2>1 DEF IsDue, IsNew, LogIsDue
    <3>1. poll' = [t EXCEPT !.new = t.new \cup {id}]
      BY <1>5, <2>1, <3>0 DEF Classify
    <3> HIDE DEF t
    <3> QED
      BY <1>2, <1>3, <2>1, <3>1 DEF PollType
  <2>2. CASE ~IsNew(id) /\ IsDue(id)
    <3>1. poll' = [t EXCEPT !.refresh = t.refresh \cup {id}]
      BY <1>5, <2>2 DEF Classify
    <3> HIDE DEF t
    <3> QED
      BY <1>2, <1>3, <2>2, <3>1 DEF PollType
  <2>3. CASE ~IsNew(id) /\ ~IsDue(id)
    <3>1. poll' = [poll EXCEPT !.seen = {id}]
      BY <1>5, <2>3 DEF Classify
    <3> QED
      BY <1>3, <1>4, <1>5, <2>3, <3>1 DEF PollType
  <2> QED
    BY <2>1, <2>2, <2>3
<1>6. CASE ClassifySeen(id)
  <2>1. poll' = [q EXCEPT !.seen = {}] /\ id \in poll.seen
    BY <1>6 DEF ClassifySeen
  <2> HIDE DEF q
  <2> QED
    BY <1>1, <1>3, <1>6, <2>1 DEF PollType
<1>7. CASE ClassifyFails(id)
  <2>1. poll' = [q EXCEPT !.stateOK = FALSE, !.seen = {}]
    BY <1>7 DEF ClassifyFails
  <2> HIDE DEF q
  <2> QED
    BY <1>1, <1>3, <2>1 DEF PollType
<1> QED
  BY <1>5, <1>6, <1>7

\* The selected details are some of those that are wanted.
LEMMA SelectEffect ==
  ASSUME IInv, PollSelect
  PROVE  /\ PollOK'
         /\ poll.pc = "classify" /\ poll.unclassified = {} /\ poll'.pc = "fetch"
         /\ poll'.todo \cup poll'.deferred = poll.new \cup poll.refresh
         /\ poll'.markers = poll.markers /\ poll'.complete = poll.complete
         /\ poll'.seen = {} /\ poll'.at = poll.at
         /\ poll'.stateOK = poll.stateOK /\ poll'.detailOK = poll.detailOK
         /\ inflight' = inflight
<1> DEFINE selected == SelectedNew(poll.new, poll.refresh, poll.fetched)
                         \cup SelectedRefresh(poll.new, poll.refresh, poll.fetched)
<1>1. selected \subseteq poll.new \cup poll.refresh
  BY DEF SelectedNew, SelectedRefresh, First
<1>2. /\ poll.pc = "classify" /\ poll.unclassified = {}
      /\ poll' = [poll EXCEPT !.pc = "fetch", !.todo = selected, !.new = {},
                              !.refresh = {}, !.fetched = NoPoll.fetched,
                              !.deferred = (poll.new \cup poll.refresh) \ selected]
      /\ UNCHANGED <<inflight, source, now>>
  BY DEF PollSelect, envVars
<1>3. poll \in PollType /\ NoPoll.fetched \in [Logs -> Nat]
  BY DEF IInv, PollOK, NoPoll
<1> HIDE DEF selected
<1>4. /\ poll' \in PollType /\ poll'.pc = "fetch" /\ poll'.todo = selected
      /\ poll'.new = {} /\ poll'.refresh = {} /\ poll'.at = poll.at
      /\ poll'.deferred = (poll.new \cup poll.refresh) \ selected
      /\ poll'.markers = poll.markers /\ poll'.complete = poll.complete
      /\ poll'.unclassified = {} /\ poll'.seen = poll.seen
      /\ poll'.stateOK = poll.stateOK /\ poll'.detailOK = poll.detailOK
  BY <1>1, <1>2, <1>3 DEF PollType
<1> QED
  BY <1>1, <1>2, <1>4 DEF IInv, PollOK, Running

\* Tasks in the hands of a worker are listed logs of the cycle that runs, and the
\* clock does not move while it does.
LEMMA PollStep == IInv /\ [Next]_vars => PollOK'
<1> SUFFICES ASSUME IInv, [Next]_vars PROVE PollOK'
  OBVIOUS
<1> USE DEF IInv
<1>1. CASE UNCHANGED <<poll, inflight, now>>
  <2>1. ASSUME NEW id \in DOMAIN poll.markers, source'[id].marked
        PROVE  poll.markers[id] # NoMarker
    <3>1. id \in Logs
      BY DEF PollOK, PollType, MarkerMaps
    <3> QED
      BY <2>1, <3>1, SourceEffect DEF PollOK
  <2> QED
    BY <1>1, <2>1 DEF PollOK, Running
<1>2. ASSUME NEW id \in Logs, Classify(id) \/ ClassifySeen(id) \/ ClassifyFails(id)
      PROVE  PollOK'
  <2>1. poll.pc = "classify" /\ poll.todo = {} /\ Running = {}
    BY <1>2, ClassifyEffect DEF PollOK
  <2>2. /\ poll'.unclassified \subseteq poll.unclassified
        /\ poll'.new \cup poll'.refresh \subseteq poll.new \cup poll.refresh \cup {id}
        /\ poll'.seen \subseteq poll'.unclassified
        /\ id \in poll.unclassified
    BY <1>2, ClassifyEffect
  <2>3. /\ poll' \in PollType /\ poll'.pc = "classify" /\ poll'.at = poll.at
        /\ poll'.markers = poll.markers /\ poll'.todo = poll.todo
        /\ UNCHANGED <<inflight, source, now>>
    BY <1>2, ClassifyEffect
  <2>4. Running' = {}
    BY <2>1, <2>3 DEF Running
  <2> QED
    BY <2>1, <2>2, <2>3, <2>4 DEF PollOK
<1>3. ASSUME NEW id \in Logs, Dispatch(id)
      PROVE  PollOK'
  <2>1. /\ poll.pc = "fetch" /\ id \in poll.todo
        /\ inflight' = [x \in Running \cup {id} |-> IF x = id THEN Requested
                                                              ELSE inflight[x]]
        /\ poll' = [poll EXCEPT !.todo = poll.todo \ {id}]
        /\ UNCHANGED <<source, now>>
    BY <1>3 DEF Dispatch, envVars
  <2>2. Running' = Running \cup {id} /\ inflight' \in [Running' -> Answer \cup {Requested}]
    BY <2>1 DEF Running, PollOK
  <2> QED
    BY <2>1, <2>2 DEF PollOK, PollType
<1>4. CASE CycleTimeout
  BY <1>4 DEF CycleTimeout, PollOK, PollType, Running, envVars
<1>5. ASSUME NEW id \in Present, NEW answer \in Answers(id), DetailArrives(id, answer)
      PROVE  PollOK'
  <2>1. answer \in Answer
    BY AnswersType
  <2> QED
    BY <1>5, <2>1 DEF DetailArrives, PollOK, PollType, Running, envVars
<1>6. ASSUME NEW id \in Logs, DetailFails(id) \/ DetailRefused(id) \/ DetailStored(id)
      PROVE  PollOK'
  <2>1. /\ inflight' = [x \in Running \ {id} |-> inflight[x]]
        /\ \/ poll' = [poll EXCEPT !.detailOK = FALSE]
           \/ poll' = [poll EXCEPT !.detailOK = FALSE, !.stateOK = FALSE]
           \/ poll' = [poll EXCEPT !.answered = poll.answered \cup {id}]
        /\ UNCHANGED <<source, now>>
    BY <1>6 DEF DetailFails, DetailRefused, DetailStored, DropInflight, envVars
  <2>2. Running' = Running \ {id} /\ inflight' \in [Running' -> Answer \cup {Requested}]
    <3>1. inflight \in [Running -> Answer \cup {Requested}]
      BY DEF PollOK
    <3> QED
      BY <2>1, <3>1 DEF Running
  <2>3. /\ poll' \in PollType /\ poll'.pc = poll.pc /\ poll'.at = poll.at
        /\ poll'.markers = poll.markers /\ poll'.unclassified = poll.unclassified
        /\ poll'.new = poll.new /\ poll'.refresh = poll.refresh
        /\ poll'.seen = poll.seen /\ poll'.todo = poll.todo
    <3>1. poll \in PollType
      BY DEF PollOK
    <3>2. CASE poll' = [poll EXCEPT !.detailOK = FALSE]
      BY <3>1, <3>2 DEF PollType
    <3>3. CASE poll' = [poll EXCEPT !.detailOK = FALSE, !.stateOK = FALSE]
      BY <3>1, <3>3 DEF PollType
    <3>4. CASE poll' = [poll EXCEPT !.answered = poll.answered \cup {id}]
      BY <1>6, <3>1, <3>4 DEF PollType
    <3> QED
      BY <2>1, <3>2, <3>3, <3>4
  <2>4. inflight' \in [Running' -> Answer \cup {Requested}]
    BY <2>2
  <2>5. poll.pc # "fetch" => Running' = {}
    BY <2>2 DEF PollOK
  <2> HIDE DEF IInv
  <2>6. PollOK
    BY DEF IInv
  <2> QED
    BY <2>1, <2>2, <2>3, <2>4, <2>5, <2>6 DEF PollOK
<1>7. CASE PollReconcile \/ PollReconcileFails
  <2>1. /\ poll.pc = "fetch" /\ poll.todo = {} /\ Running = {} /\ poll \in PollType
        /\ \E ok \in BOOLEAN : poll' = [poll EXCEPT !.pc = "report", !.stateOK = ok]
        /\ UNCHANGED <<inflight, source, now>>
    BY <1>7 DEF PollReconcile, PollReconcileFails, FetchDone, PollOK, envVars
  <2>2. /\ poll' \in PollType /\ poll'.pc = "report" /\ poll'.at = poll.at
        /\ poll'.markers = poll.markers /\ poll'.unclassified = poll.unclassified
        /\ poll'.new = poll.new /\ poll'.refresh = poll.refresh
        /\ poll'.seen = poll.seen /\ poll'.todo = poll.todo
    BY <2>1 DEF PollType
  <2> QED
    BY <2>1, <2>2 DEF PollOK, Running
<1>8. ASSUME poll' = NoPoll, Running' = {},
             inflight' \in [Running' -> Answer \cup {Requested}]
      PROVE  PollOK'
  <2>1. [id \in {} |-> id] \in MarkerMaps
    BY DEF MarkerMaps
  <2>2. NoPoll \in PollType /\ DOMAIN NoPoll.markers = {}
    BY <2>1 DEF NoPoll, PollType
  <2> QED
    BY <1>8, <2>2 DEF NoPoll, PollOK, Running
<1>9. CASE PollReport \/ PollHealthFails
  BY <1>8, <1>9 DEF PollReport, PollHealthFails, PollOK, Running
<1>10. CASE CrashRestart
  BY <1>8, <1>10 DEF CrashRestart, Running
<1>11. CASE Tick
  BY <1>11 DEF Tick, NoPoll, PollOK, Running, pollVars
<1>12. CASE Writers
  <2>1. CASE PollNext
    BY <1>1, <1>2, <1>3, <1>4, <1>5, <1>6, <1>7, <1>9, <2>1, ListPoll, SelectEffect
       DEF PollNext, PollListFails, pollVars, envVars
  <2>2. CASE BackfillNext
    BY <1>1, <2>2
       DEF BackfillNext, BackfillTake, BackfillDetail, BackfillDetailFails,
           BackfillStored, BackfillRefused, pollVars, envVars
  <2> QED
    BY <1>12, <2>1, <2>2 DEF Writers
<1>13. CASE Publisher \/ Environment \/ UNCHANGED vars
  BY <1>1, <1>11, <1>13
     DEF Publisher, Environment, SourceNext, SourceUpdates, SourceRemoves, pollVars,
         envVars, vars
<1> QED
  BY <1>10, <1>12, <1>13 DEF Next

\* The backfill records an answer that is not older than the list it works on.
LEMMA BackfillStep == IInv /\ [Next]_vars => BackfillOK'
<1> SUFFICES ASSUME IInv, [Next]_vars PROVE BackfillOK'
  OBVIOUS
<1> USE DEF IInv
<1>1. CASE UNCHANGED backfill
  BY <1>1 DEF BackfillOK
<1>2. CASE backfill' = NoBackfill
  BY <1>2 DEF BackfillOK, BackfillType, NoBackfill
<1>3. ASSUME NEW id \in Logs, BackfillTake(id)
      PROVE  BackfillOK'
  <2>1. /\ backfill' = [NoBackfill EXCEPT !.pc = "requested", !.id = id,
                                          !.when = source[id].listed]
        /\ id \in Present /\ source[id].listed # NoMarker
    BY <1>3 DEF BackfillTake
  <2>2. id \in Logs /\ source[id].listed \in Markers
    BY <2>1 DEF Present, SourceOK, SourceType
  <2>3. id \in Nat /\ source[id].listed \in Nat
    BY <2>2, LogPipelineAssumption
  <2>4. /\ backfill' \in BackfillType /\ backfill'.pc = "requested"
        /\ backfill'.id = id /\ backfill'.when = source[id].listed
    BY <2>1, <2>3 DEF BackfillType, NoBackfill
  <2> QED
    BY <2>2, <2>4 DEF BackfillOK
<1>4. ASSUME NEW answer \in Answers(backfill.id), backfill.id \in Present,
             BackfillDetail(answer)
      PROVE  BackfillOK'
  <2>1. answer \in Answer
    BY <1>4, AnswersType
  <2>2. CASE answer.marker = NoMarker \/ answer.ver < backfill.when
    BY <1>2, <1>4, <2>2 DEF BackfillDetail
  <2>3. CASE ~(answer.marker = NoMarker \/ answer.ver < backfill.when)
    <3>1. /\ backfill' = [NoBackfill EXCEPT !.pc = "record", !.id = backfill.id,
                                            !.answer = answer]
          /\ backfill.pc = "requested"
      BY <1>4, <2>3 DEF BackfillDetail
    <3>2. answer.marker = answer.ver /\ backfill.id \in Logs /\ backfill.id \in Nat
      BY <2>1, <2>3, <3>1, LogPipelineAssumption DEF Answer, BackfillOK
    <3>3. /\ backfill' \in BackfillType /\ backfill'.pc = "record"
          /\ backfill'.id = backfill.id /\ backfill'.answer = answer
      BY <2>1, <3>1, <3>2 DEF BackfillType, NoBackfill
    <3> QED
      BY <2>1, <3>2, <3>3 DEF BackfillOK
  <2> QED
    BY <2>2, <2>3
<1>5. CASE Writers
  <2>1. CASE PollNext
    BY <1>1, <2>1
       DEF PollNext, PollListFails, PollList, Classify, ClassifySeen, ClassifyFails,
           PollSelect, Dispatch, CycleTimeout, DetailArrives, DetailFails,
           DetailStored, DetailRefused, PollReconcile, PollReconcileFails, PollReport,
           PollHealthFails, envVars
  <2>2. CASE BackfillNext
    BY <1>2, <1>3, <1>4, <2>2
       DEF BackfillNext, BackfillDetailFails, BackfillStored, BackfillRefused
  <2> QED
    BY <1>5, <2>1, <2>2 DEF Writers
<1> QED
  BY <1>1, <1>2, <1>5
     DEF Next, Publisher, Environment, SourceNext, SourceUpdates, SourceRemoves, Tick,
         CrashRestart, envVars, vars

\* A flag of the snapshot is only set to a Boolean.
LEMMA SetFlags ==
  ASSUME NEW d \in LogDiagnosticsType
  PROVE  /\ SetLogStateFull(d, LogFull) \in LogDiagnosticsType
         /\ SetLogStateFull(d, LogFull') \in LogDiagnosticsType
         /\ SetLogStateFull(d, FALSE) \in LogDiagnosticsType
         /\ SetLogPublisherStateHealthy(d, TRUE) \in LogDiagnosticsType
         /\ SetLogPublisherStateHealthy(d, FALSE) \in LogDiagnosticsType
         /\ SetLogPipelineStateHealthy(d, TRUE) \in LogDiagnosticsType
         /\ SetLogPipelineStateHealthy(d, FALSE) \in LogDiagnosticsType
         /\ SetLogCollectionReady(d, FALSE) \in LogDiagnosticsType
         /\ SetLogCollectionReady(d, TRUE) \in LogDiagnosticsType
<1>1. LogFull \in BOOLEAN /\ LogFull' \in BOOLEAN
  BY DEF LogFull, Full
<1>2. \A b \in BOOLEAN :
        /\ [d EXCEPT !.stateFull = b] \in LogDiagnosticsType
        /\ [d EXCEPT !.publisherStateOK = b] \in LogDiagnosticsType
        /\ [d EXCEPT !.pipelineStateOK = b] \in LogDiagnosticsType
        /\ [d EXCEPT !.collectionReady = b] \in LogDiagnosticsType
  BY DEF LogDiagnosticsType
<1> HIDE DEF LogFull, LogDiagnosticsType
<1> QED
  BY <1>1, <1>2 DEF SetLogStateFull, SetLogPublisherStateHealthy,
     SetLogPipelineStateHealthy, SetLogCollectionReady

\* Flush and the snapshot keep their types.
LEMMA FlushStep == IInv /\ [Next]_vars => FlushOK'
<1> SUFFICES ASSUME IInv, [Next]_vars PROVE FlushOK'
  OBVIOUS
<1> USE DEF IInv
<1>1. diag \in LogDiagnosticsType /\ flush \in FlushType /\ recovery \in BOOLEAN
  BY DEF FlushOK
<1>2. NoFlush \in FlushType /\ NoLogDiagnostics \in LogDiagnosticsType
  BY DEF NoFlush, FlushType, NoLogDiagnostics, LogDiagnosticsType
<1>3. diag' \in LogDiagnosticsType
  <2>1. CASE diag' = diag \/ diag' = NoLogDiagnostics
    BY <1>1, <1>2, <2>1
  <2>2. CASE PollListFails \/ PollReconcile \/ PollReconcileFails
             \/ \E id \in Logs : ClassifyFails(id)
    BY <1>1, <2>2, SetFlags
       DEF PollListFails, PollReconcile, PollReconcileFails, ClassifyFails
  <2>3. CASE PollReport
    <3> DEFINE d == SetLogStateFull(diag, LogFull)
               ready == poll.enough /\ poll.detailOK /\ poll.stateOK
               e == SetLogCollectionReady(d, ready)
    <3>1. d \in LogDiagnosticsType
      BY <1>1, SetFlags
    <3>2. ready \in BOOLEAN
      OBVIOUS
    <3>3. e \in LogDiagnosticsType
      <4> HIDE DEF d, ready
      <4> QED
        BY <3>1, <3>2 DEF SetLogCollectionReady, LogDiagnosticsType
    <3>4. diag' = e \/ diag' = SetLogPipelineStateHealthy(e, TRUE)
      BY <2>3 DEF PollReport
    <3> HIDE DEF e
    <3> QED
      BY <3>3, <3>4, SetFlags
  <2>4. CASE PollHealthFails
    BY <1>1, <2>4, SetFlags DEF PollHealthFails
  <2>5. CASE FlushNext
    BY <1>1, <2>5, SetFlags
       DEF FlushNext, FlushRead, FlushDrained, FlushGood, PublishOK, PublishFails,
           FlushAcknowledge, FlushStateFails
  <2> QED
    BY <2>1, <2>2, <2>3, <2>4, <2>5
       DEF Next, Writers, Publisher, Environment, SourceNext, SourceUpdates,
           SourceRemoves, Tick, CrashRestart, PollNext, PollList, Classify,
           ClassifySeen, PollSelect, Dispatch, CycleTimeout, DetailArrives,
           DetailFails, DetailStored, DetailRefused, BackfillNext, BackfillTake,
           BackfillDetail, BackfillDetailFails, BackfillStored, BackfillRefused, vars
<1>4. flush' \in FlushType /\ recovery' \in BOOLEAN
  <2>1. CASE FlushRead
    <3>1. LogRecords(BatchLimit) \in SUBSET Nat
      BY DEF LogRecords, Records, FileOK, StoreTypeOK
    <3> QED
      BY <1>1, <2>1, <3>1 DEF FlushRead, FlushType
  <2>2. CASE PublishOK
    BY <1>1, <2>2 DEF PublishOK, FlushType
  <2>3. CASE FlushAcknowledge
    <3>1. [pc |-> "publish", batch |-> flush.batch \ {NextRecord}] \in FlushType
      BY <1>1 DEF FlushType
    <3> QED
      BY <1>1, <1>2, <2>3, <3>1 DEF FlushAcknowledge, FlushGood
  <2> QED
    BY <1>1, <1>2, <2>1, <2>2, <2>3
       DEF Next, Writers, Publisher, Environment, CrashRestart, FlushNext,
           FlushDrained, FlushGood, PublishFails, FlushStateFails, publisherVars, vars
<1> QED
  BY <1>3, <1>4 DEF FlushOK

-------------------------------------------------------------------------------
(* The checkpoints and the poll's account of its list *)

\* What the reconciliation does to the checkpoints: listed logs keep theirs, and a
\* log is forgotten only after a long absence.
LEMMA ReconcileSteps ==
  ASSUME IInv, PollReconcile
  PROVE  /\ DOMAIN checkpoints' \subseteq DOMAIN checkpoints
         /\ DOMAIN checkpoints \cap DOMAIN poll.markers \subseteq DOMAIN checkpoints'
         /\ \A id \in DOMAIN checkpoints' :
              /\ checkpoints'[id].marker = checkpoints[id].marker
              /\ checkpoints'[id].lastFetched = checkpoints[id].lastFetched
              /\ checkpoints'[id].absentSince \in {checkpoints[id].absentSince, now}
              /\ Latest(checkpoints'[id]) = Latest(checkpoints[id])
         /\ \A id \in DOMAIN checkpoints \ DOMAIN checkpoints' :
              Unlisted(id) /\ LongAbsent(id)
         /\ Running = {} /\ poll.todo = {} /\ poll.pc = "fetch"
         /\ poll' \in PollType /\ poll'.pc = "report"
         /\ poll'.markers = poll.markers /\ poll'.complete = poll.complete
         /\ poll'.deferred = poll.deferred /\ poll'.todo = {}
         /\ poll'.unclassified = {} /\ poll'.seen = {}
         /\ poll'.at = poll.at /\ poll'.answered = poll.answered
         /\ poll'.stateOK => poll.stateOK
         /\ poll'.detailOK = poll.detailOK
         /\ UNCHANGED <<inflight, source, now, backfill, accepted>>
<1> USE DEF IInv
<1>1. /\ Running = {} /\ poll.todo = {} /\ poll.pc = "fetch"
      /\ UNCHANGED <<inflight, source, now, backfill, accepted>>
  BY DEF PollReconcile, FetchDone, envVars
<1>2. poll \in PollType /\ poll.at = now /\ now \in Nat
  BY <1>1 DEF PollOK, SourceOK
<1>3. /\ DOMAIN checkpoints' \subseteq DOMAIN checkpoints
      /\ DOMAIN checkpoints \cap DOMAIN poll.markers \subseteq DOMAIN checkpoints'
      /\ \A id \in DOMAIN checkpoints' :
           /\ checkpoints'[id].marker = checkpoints[id].marker
           /\ checkpoints'[id].lastFetched = checkpoints[id].lastFetched
           /\ checkpoints'[id].absentSince \in {checkpoints[id].absentSince, now}
           /\ Latest(checkpoints'[id]) = Latest(checkpoints[id])
      /\ \A id \in DOMAIN checkpoints \ DOMAIN checkpoints' :
           Unlisted(id) /\ LongAbsent(id)
  <2>1. CASE poll.complete
    <3>1. checkpoints' = [id \in Retained(DOMAIN poll.markers, now) |->
                            MarkAbsent(id, DOMAIN poll.markers, now)]
      BY <1>2, <2>1 DEF PollReconcile, LogReconcile
    <3> QED
      BY <1>1, <1>2, <2>1, <3>1, ReconcileEffect DEF Latest, Unlisted, LongAbsent
  <2>2. CASE ~poll.complete
    BY <2>2 DEF PollReconcile, storeVars
  <2> QED
    BY <2>1, <2>2
<1> DEFINE ok == poll.stateOK /\ ~(poll.complete /\ LogReconcileFull)
<1>4. /\ poll' = [poll EXCEPT !.pc = "report", !.stateOK = ok]
      /\ ok \in BOOLEAN /\ (ok => poll.stateOK)
  BY DEF PollReconcile
<1> HIDE DEF ok
<1>5. /\ poll' \in PollType /\ poll'.pc = "report" /\ poll'.stateOK = ok
      /\ poll'.markers = poll.markers /\ poll'.complete = poll.complete
      /\ poll'.deferred = poll.deferred /\ poll'.todo = poll.todo
      /\ poll'.unclassified = poll.unclassified /\ poll'.seen = poll.seen
      /\ poll'.at = poll.at /\ poll'.answered = poll.answered
      /\ poll'.detailOK = poll.detailOK
  BY <1>2, <1>4 DEF PollType
<1>6. poll.unclassified = {} /\ poll.seen = {}
  BY <1>1 DEF PollOK
<1> QED
  BY <1>1, <1>3, <1>4, <1>5, <1>6

\* A step that does not forget a log keeps it fetched; new checkpoints are.
LEMMA FetchedStep == IInv /\ [Next]_vars => Fetched'
<1> SUFFICES ASSUME IInv, [Next]_vars PROVE Fetched'
  OBVIOUS
<1> USE DEF IInv, Fetched
<1>1. now \in Nat \ {0} /\ FileOK /\ SourceOK
  BY DEF SourceOK
<1>2. ASSUME NEW id, NEW answer, NEW marker, Recordable(id, answer, marker),
             Enqueued(id, answer, marker, now)
      PROVE  Fetched'
  <2>1. /\ DOMAIN checkpoints' = DOMAIN checkpoints \cup {id}
        /\ \A x \in DOMAIN checkpoints \ {id} : checkpoints'[x] = checkpoints[x]
        /\ \/ Known(id) /\ checkpoints' = checkpoints
           \/ checkpoints'[id].lastFetched = now
    BY <1>1, <1>2, EnqueueEffect
  <2> QED
    BY <1>1, <2>1 DEF Known
<1>3. CASE UNCHANGED checkpoints
  BY <1>3
<1>4. ASSUME NEW id \in Logs, DetailStored(id)
      PROVE  Fetched'
  BY <1>2, <1>4, DetailRecordable DEF DetailStored
<1>5. CASE BackfillStored
  BY <1>2, <1>5, BackfillRecordable DEF BackfillStored
<1>6. ASSUME NEW id \in Logs, ClassifySeen(id)
      PROVE  Fetched'
  BY <1>6, SeenEffect DEF Known
<1>7. CASE PollReconcile
  BY <1>7, ReconcileSteps
<1>8. CASE flush.pc = "ack" /\ LogAcknowledge(NextRecord)
  BY <1>8, AckEffect
<1> QED
  BY <1>3, <1>4, <1>5, <1>6, <1>7, <1>8, StoreSteps

\* Only the reconciliation forgets a log.
LEMMA KnownStays ==
  ASSUME IInv, [Next]_vars, ~PollReconcile
  PROVE  DOMAIN checkpoints \subseteq DOMAIN checkpoints'
<1>1. ASSUME NEW id \in Logs, DetailStored(id)
      PROVE  DOMAIN checkpoints \subseteq DOMAIN checkpoints'
  BY <1>1, DetailRecordable, EnqueueEffect DEF DetailStored, IInv
<1>2. CASE BackfillStored
  BY <1>2, BackfillRecordable, EnqueueEffect DEF BackfillStored, IInv
<1> QED
  BY <1>1, <1>2, StoreSteps, SeenEffect, AckEffect

\* What Enqueue leaves in the file: nothing, or the marker and the time it was given.
LEMMA EnqueueWrites ==
  ASSUME IInv, NEW id, NEW answer, NEW marker,
         Recordable(id, answer, marker), Enqueued(id, answer, marker, now)
  PROVE  \/ checkpoints' = checkpoints
         \/ /\ ~Outdated(id, marker)
            /\ checkpoints'[id].marker = marker
            /\ checkpoints'[id].lastFetched = now
  BY EnqueueEffect DEF IInv

\* What is up to date stays so in its cycle: the other writer only writes what is
\* newer, and just now.
LEMMA UpToDateStays ==
  ASSUME IInv, [Next]_vars, NEW id \in DOMAIN poll.markers, Known(id), UpToDate(id),
         ~(id \in Running /\ DetailStored(id)),
         poll.pc # "idle", poll'.markers = poll.markers, poll'.at = poll.at
  PROVE  id \in DOMAIN checkpoints' /\ UpToDate(id)'
<1> USE DEF IInv
<1> DEFINE m == poll.markers[id]
           old == checkpoints[id]
<1>1. /\ id \in Logs /\ m \in Markers \cup {NoMarker} /\ id \in DOMAIN checkpoints
      /\ old \in Checkpoint /\ poll.at = now /\ now \in Nat \ {0}
      /\ FileOK /\ SourceOK /\ Markers \subseteq Nat /\ NoMarker \notin Markers
  BY LogPipelineAssumption, ValueAssumption
     DEF PollOK, PollType, MarkerMaps, SourceOK, FileOK, StoreTypeOK, Known
<1>2. ASSUME id \in DOMAIN checkpoints', checkpoints'[id].marker = old.marker,
             checkpoints'[id].lastFetched = old.lastFetched
      PROVE  UpToDate(id)'
  BY <1>2 DEF UpToDate
<1>3. ASSUME NEW x \in Logs, DetailStored(x)
      PROVE  id \in DOMAIN checkpoints' /\ UpToDate(id)'
  <2>1. x # id
    BY <1>3 DEF DetailStored
  <2>2. /\ Recordable(x, inflight[x], DetailMarker(x))
        /\ Enqueued(x, inflight[x], DetailMarker(x), now)
    BY <1>3, DetailRecordable DEF DetailStored
  <2>3. /\ DOMAIN checkpoints' = DOMAIN checkpoints \cup {x}
        /\ \A y \in DOMAIN checkpoints \ {x} : checkpoints'[y] = checkpoints[y]
    BY <1>1, <2>2, EnqueueEffect
  <2> QED
    BY <1>1, <1>2, <2>1, <2>3
<1>4. ASSUME NEW x, NEW answer, NEW marker \in Markers, Recordable(x, answer, marker),
             Enqueued(x, answer, marker, now)
      PROVE  id \in DOMAIN checkpoints' /\ UpToDate(id)'
  <2>1. /\ DOMAIN checkpoints' = DOMAIN checkpoints \cup {x}
        /\ \A y \in DOMAIN checkpoints \ {x} : checkpoints'[y] = checkpoints[y]
        /\ \/ checkpoints' = checkpoints
           \/ /\ ~Outdated(x, marker)
              /\ checkpoints'[x].marker = marker
              /\ checkpoints'[x].lastFetched = now
    <3> HIDE DEF IInv, m, old
    <3>1. FileOK /\ SourceOK
      BY <1>1
    <3>2. /\ DOMAIN checkpoints' = DOMAIN checkpoints \cup {x}
          /\ \A y \in DOMAIN checkpoints \ {x} : checkpoints'[y] = checkpoints[y]
      BY <1>4, <3>1, EnqueueEffect
    <3>3. \/ checkpoints' = checkpoints
          \/ /\ ~Outdated(x, marker)
             /\ checkpoints'[x].marker = marker
             /\ checkpoints'[x].lastFetched = now
      BY <1>4, EnqueueWrites
    <3> QED
      BY <3>2, <3>3
  <2>2. CASE checkpoints'[id] = old
    BY <1>1, <1>2, <2>1, <2>2
  <2>3. CASE /\ ~Outdated(id, marker)
             /\ checkpoints'[id].marker = marker
             /\ checkpoints'[id].lastFetched = now
    <3>1. old.marker # NoMarker => old.marker <= marker
      <4>1. old.marker \in Markers \cup {NoMarker} /\ ReadCheckpoint(id) = old
        BY <1>1 DEF Checkpoint, ReadCheckpoint, Known
      <4>2. \A a, b \in Markers : ~(a < b) => b <= a
        BY <1>1
      <4>3. old.marker # NoMarker => ~(marker < old.marker)
        BY <1>1, <2>3, <4>1 DEF Outdated, OlderMarker
      <4> QED
        BY <4>1, <4>2, <4>3
    <3>2. m # NoMarker => m <= marker
      <4>1. m # NoMarker => old.marker # NoMarker /\ m <= old.marker
        BY DEF UpToDate
      <4>2. old.marker \in Markers \cup {NoMarker}
        BY <1>1 DEF Checkpoint
      <4>3. \A a, b, c \in Markers : a <= b /\ b <= c => a <= c
        BY <1>1
      <4> HIDE DEF m, old
      <4> QED
        BY <1>1, <3>1, <4>1, <4>2, <4>3
    <3>3. now - now < RefreshInterval /\ now > 0
      BY <1>1, LogPipelineAssumption
    <3> QED
      BY <1>1, <2>1, <2>3, <3>2, <3>3 DEF UpToDate
  <2> QED
    BY <1>1, <2>1, <2>2, <2>3
<1>5. ASSUME NEW x \in Logs, ClassifySeen(x)
      PROVE  id \in DOMAIN checkpoints' /\ UpToDate(id)'
  <2>1. CASE x # id
    BY <1>1, <1>2, <1>5, <2>1, SeenEffect
  <2>2. CASE x = id
    <3>1. /\ id \in DOMAIN checkpoints' /\ checkpoints'[id].lastFetched = old.lastFetched
          /\ m # NoMarker => checkpoints'[id].marker = old.marker
      BY <1>1, <1>5, <2>2, SeenEffect
    <3> QED
      BY <3>1 DEF UpToDate
  <2> QED
    BY <2>1, <2>2
<1>6. CASE PollReconcile
  BY <1>1, <1>2, <1>6, ReconcileSteps
<1>7. CASE flush.pc = "ack" /\ LogAcknowledge(NextRecord)
  BY <1>1, <1>2, <1>7, AckEffect
<1>8. CASE checkpoints' = checkpoints
  BY <1>1, <1>2, <1>8
<1>9. CASE BackfillStored
  BY <1>4, <1>9, BackfillRecordable DEF BackfillStored
<1> QED
  BY <1>3, <1>5, <1>6, <1>7, <1>8, <1>9, StoreSteps

\* So does what is collected.
LEMMA CollectedStays ==
  ASSUME IInv, [Next]_vars, NEW id \in DOMAIN poll.markers, Collected(id),
         ~(id \in Running /\ DetailStored(id)), poll.pc # "idle",
         poll'.markers = poll.markers, poll'.at = poll.at,
         poll.answered \subseteq poll'.answered
  PROVE  Collected(id)'
<1>1. id \in DOMAIN checkpoints'
  BY KnownStays, ReconcileSteps DEF Collected, Known
<1> QED
  BY <1>1, UpToDateStays DEF Collected, Known

\* Steps that keep the poll's local state.
LEMMA AccountedByOthers ==
  ASSUME IInv, [Next]_vars, UNCHANGED <<poll, inflight>>
  PROVE  Accounted'
<1>1. ~\E id \in Running : DetailStored(id)
  <2> SUFFICES ASSUME NEW id \in Running, DetailStored(id) PROVE FALSE
    OBVIOUS
  <2>1. Running' = Running \ {id}
    BY DEF DetailStored, DropInflight, Running
  <2> QED
    BY <2>1 DEF Running
<1>2. ASSUME NEW id \in DOMAIN poll.markers, poll.pc # "idle", Collected(id)
      PROVE  Collected(id)'
  BY <1>1, <1>2, CollectedStays
<1>3. Running' = Running
  BY DEF Running
<1> QED
  BY <1>2, <1>3 DEF IInv, Accounted

\* A step of the poll moves a log of its list from one place to the next, stores
\* it, or notes the failure.
LEMMA AccountedByPoll ==
  ASSUME IInv, [Next]_vars, PollNext
  PROVE  Accounted'
<1> USE DEF IInv
<1>1. poll \in PollType
  BY DEF PollOK
<1>2. ASSUME NEW id \in Logs, Classify(id) \/ ClassifySeen(id) \/ ClassifyFails(id)
      PROVE  Accounted'
  <2>1. /\ poll.pc = "classify" /\ poll'.pc = "classify" /\ poll'.at = poll.at
        /\ poll'.markers = poll.markers /\ poll'.detailOK = poll.detailOK
        /\ poll'.answered = poll.answered /\ Running = {}
    BY <1>1, <1>2, ClassifyEffect DEF PollOK
  <2>2. poll'.stateOK =>
          /\ poll.stateOK
          /\ \A x \in poll.unclassified \cup poll.new \cup poll.refresh :
               \/ x \in poll'.unclassified \cup poll'.new \cup poll'.refresh
               \/ x \in DOMAIN poll.markers /\ Collected(x)
    BY <1>2, ClassifyEffect DEF SeenIsKnown, Collected, PollOK
  <2>3. ASSUME NEW x \in DOMAIN poll.markers, Collected(x)
        PROVE  Collected(x)'
    BY <2>1, <2>3, CollectedStays
  <2> QED
    BY <2>1, <2>2, <2>3 DEF Accounted
<1>3. CASE PollSelect
  <2>1. /\ poll.pc = "classify" /\ poll'.pc = "fetch" /\ Running' = Running
        /\ poll'.answered = poll.answered
    BY <1>1, <1>3, SelectEffect DEF PollSelect, Running, PollType
  <2>2. ASSUME NEW x \in DOMAIN poll.markers, Collected(x)
        PROVE  Collected(x)'
    BY <1>3, <2>1, <2>2, SelectEffect, CollectedStays DEF PollOK
  <2> QED
    BY <1>3, <2>1, <2>2, SelectEffect DEF Accounted
<1>4. ASSUME NEW id \in Logs, Dispatch(id)
      PROVE  Accounted'
  <2>1. /\ poll.pc = "fetch" /\ poll'.pc = "fetch" /\ poll'.todo = poll.todo \ {id}
        /\ Running' = Running \cup {id} /\ poll'.markers = poll.markers
        /\ poll'.stateOK = poll.stateOK /\ poll'.detailOK = poll.detailOK
        /\ poll'.deferred = poll.deferred /\ checkpoints' = checkpoints
        /\ poll'.answered = poll.answered /\ poll'.at = poll.at
    BY <1>1, <1>4 DEF Dispatch, PollType, Running, storeVars
  <2> QED
    BY <2>1 DEF Accounted, Collected, UpToDate, Known
<1>5. ASSUME NEW id \in Logs, DetailFails(id) \/ DetailRefused(id)
      PROVE  Accounted'
  <2>1. poll'.detailOK = FALSE
    BY <1>1, <1>5 DEF DetailFails, DetailRefused, PollType
  <2> QED
    BY <2>1 DEF Accounted
<1>6. ASSUME NEW id \in Present, NEW answer \in Answers(id), DetailArrives(id, answer)
      PROVE  Accounted'
  <2>1. Running' = Running /\ poll' = poll /\ checkpoints' = checkpoints
    BY <1>6 DEF DetailArrives, Running, PollOK, storeVars
  <2> QED
    BY <2>1 DEF Accounted, Collected, UpToDate, Known
<1>7. ASSUME NEW id \in Logs, DetailStored(id)
      PROVE  Accounted'
  <2>1. /\ Running' = Running \ {id} /\ poll.pc = "fetch"
        /\ poll' = [poll EXCEPT !.answered = poll.answered \cup {id}]
        /\ id \in DOMAIN checkpoints'
    BY <1>7, DetailRecordable, EnqueueEffect DEF DetailStored, DropInflight, Running
  <2>2. /\ poll'.pc = "fetch" /\ poll'.markers = poll.markers /\ poll'.at = poll.at
        /\ poll'.deferred = poll.deferred /\ poll'.todo = poll.todo
        /\ poll'.stateOK = poll.stateOK /\ poll'.detailOK = poll.detailOK
        /\ poll'.answered = poll.answered \cup {id}
    BY <1>1, <2>1 DEF PollType
  <2>3. Collected(id)'
    BY <2>1, <2>2 DEF Collected, Known
  <2>4. ASSUME NEW x \in DOMAIN poll.markers \ {id}, Collected(x)
        PROVE  Collected(x)'
    <3>1. ~(x \in Running /\ DetailStored(x))
      <4> SUFFICES ASSUME x \in Running, DetailStored(x) PROVE FALSE
        OBVIOUS
      <4>1. Running' = Running \ {x}
        BY DEF DetailStored, DropInflight, Running
      <4> QED
        BY <2>1, <4>1
    <3> QED
      BY <2>1, <2>2, <2>4, <3>1, CollectedStays
  <2> QED
    BY <2>1, <2>2, <2>3, <2>4 DEF Accounted
<1>8. CASE PollReconcile
  <2>1. Running' = {} /\ Running = {}
    BY <1>8, ReconcileSteps DEF Running
  <2>2. ASSUME NEW x \in DOMAIN poll.markers, Collected(x)
        PROVE  Collected(x)'
    BY <1>8, <2>1, <2>2, ReconcileSteps, CollectedStays
  <2> QED
    BY <1>8, <2>1, <2>2, ReconcileSteps DEF Accounted
<1>9. CASE CycleTimeout \/ PollReconcileFails
  <2>1. poll'.detailOK = FALSE \/ poll'.stateOK = FALSE
    BY <1>1, <1>9 DEF CycleTimeout, PollReconcileFails, PollType
  <2> QED
    BY <2>1 DEF Accounted
<1>10. CASE PollReport \/ PollHealthFails
  <2>1. poll' = NoPoll
    BY <1>10 DEF PollReport, PollHealthFails
  <2>2. poll'.pc = "idle"
    BY <2>1 DEF NoPoll
  <2> QED
    BY <2>2 DEF Accounted
<1>11. ASSUME NEW shown \in SUBSET Present, NEW wellFormed \in BOOLEAN,
              NEW threshold \in BOOLEAN, PollList(shown, wellFormed, threshold)
       PROVE  Accounted'
  BY <1>11, ListPoll DEF Accounted
<1>12. CASE PollListFails
  BY <1>12, AccountedByOthers DEF PollListFails, pollVars
<1> QED
  BY <1>2, <1>3, <1>4, <1>5, <1>6, <1>7, <1>8, <1>9, <1>10, <1>11, <1>12 DEF PollNext

\* After every step every listed log is accounted for.
LEMMA AccountedStep == IInv /\ [Next]_vars => Accounted'
<1> SUFFICES ASSUME IInv, [Next]_vars PROVE Accounted'
  OBVIOUS
<1>1. CASE PollNext
  BY <1>1, AccountedByPoll
<1>2. CASE UNCHANGED <<poll, inflight>>
  BY <1>2, AccountedByOthers
<1>3. CASE CrashRestart
  BY <1>3 DEF CrashRestart, NoPoll, Accounted
<1> QED
  BY <1>1, <1>2, <1>3
     DEF Next, Writers, BackfillNext, BackfillTake, BackfillDetail,
         BackfillDetailFails, BackfillStored, BackfillRefused, Publisher, Environment,
         SourceNext, SourceUpdates, SourceRemoves, Tick, pollVars, vars

-------------------------------------------------------------------------------
(* What a step may do to the answers under way and the poll *)

\* An answer under way was under way before, or is one the server gives now.
LEMMA InflightEffect ==
  ASSUME IInv, [Next]_vars, NEW id \in Running', inflight'[id] # Requested
  PROVE  \/ id \in Running /\ inflight'[id] = inflight[id]
         \/ /\ id \in Present /\ inflight'[id] \in Answers(id)
            /\ UNCHANGED <<source, checkpoints, accepted>>
<1>1. CASE inflight' = inflight
  BY <1>1 DEF Running
<1>2. CASE \E x \in Logs : Dispatch(x)
  BY <1>2 DEF Dispatch, Running
<1>3. ASSUME NEW x \in Present, NEW answer \in Answers(x), DetailArrives(x, answer)
      PROVE  \/ id \in Running /\ inflight'[id] = inflight[id]
             \/ /\ id \in Present /\ inflight'[id] \in Answers(id)
                /\ UNCHANGED <<source, checkpoints, accepted>>
  <2>1. /\ inflight' = [inflight EXCEPT ![x] = answer]
        /\ UNCHANGED <<source, checkpoints, accepted>>
    BY <1>3 DEF DetailArrives, envVars, storeVars
  <2> QED
    BY <1>3, <2>1 DEF Running
<1>4. CASE \E x \in Logs : DetailFails(x) \/ DetailStored(x) \/ DetailRefused(x)
  BY <1>4 DEF DetailFails, DetailStored, DetailRefused, DropInflight, Running
<1>5. CASE CrashRestart
  BY <1>5 DEF CrashRestart, Running
<1> QED
  BY <1>1, <1>2, <1>3, <1>4, <1>5
     DEF Next, Writers, PollNext, PollListFails, PollList, Classify, ClassifySeen,
         ClassifyFails, PollSelect, CycleTimeout, PollReconcile, PollReconcileFails,
         PollReport, PollHealthFails, BackfillNext, BackfillTake, BackfillDetail,
         BackfillDetailFails, BackfillStored, BackfillRefused, Publisher, Environment,
         SourceNext, SourceUpdates, SourceRemoves, Tick, pollVars, vars

\* The backfill keeps its item, takes a listed one, or gets its answer.
LEMMA BackfillEffect ==
  ASSUME IInv, [Next]_vars, backfill'.pc # "idle"
  PROVE  \/ backfill' = backfill
         \/ /\ UNCHANGED <<source, checkpoints, accepted>>
            /\ \/ /\ backfill'.pc = "requested" /\ backfill'.id \in Present
                  /\ backfill'.when = source[backfill'.id].listed
               \/ /\ backfill.pc = "requested" /\ backfill'.pc = "record"
                  /\ backfill'.id = backfill.id /\ backfill.id \in Present
                  /\ backfill'.answer \in Answers(backfill.id)
                  /\ backfill.when <= backfill'.answer.ver
<1>1. backfill' # NoBackfill
  BY DEF NoBackfill
<1>2. ASSUME NEW id \in Logs, BackfillTake(id)
      PROVE  /\ UNCHANGED <<source, checkpoints, accepted>>
             /\ backfill'.pc = "requested" /\ backfill'.id \in Present
             /\ backfill'.when = source[backfill'.id].listed
  BY <1>2 DEF BackfillTake, NoBackfill, envVars, storeVars
<1>3. ASSUME NEW answer \in Answers(backfill.id), backfill.id \in Present,
             BackfillDetail(answer)
      PROVE  /\ UNCHANGED <<source, checkpoints, accepted>>
             /\ backfill.pc = "requested" /\ backfill'.pc = "record"
             /\ backfill'.id = backfill.id
             /\ backfill'.answer \in Answers(backfill.id)
             /\ backfill.when <= backfill'.answer.ver
  <2>1. /\ backfill.pc = "requested" /\ ~(answer.ver < backfill.when)
        /\ backfill' = [NoBackfill EXCEPT !.pc = "record", !.id = backfill.id,
                                          !.answer = answer]
        /\ UNCHANGED <<source, checkpoints, accepted>>
    BY <1>1, <1>3 DEF BackfillDetail, envVars, storeVars
  <2>2. /\ backfill'.pc = "record" /\ backfill'.id = backfill.id
        /\ backfill'.answer = answer
    BY <2>1 DEF NoBackfill
  <2>3. answer.ver \in Int /\ backfill.when \in Int
    BY <1>3, <2>1, AnswersType, LogPipelineAssumption DEF IInv, BackfillOK, Answer
  <2> QED
    BY <2>1, <2>2, <2>3
<1> QED
  BY <1>1, <1>2, <1>3
     DEF Next, Writers, PollNext, PollListFails, PollList, Classify, ClassifySeen,
         ClassifyFails, PollSelect, Dispatch, CycleTimeout, DetailArrives, DetailFails,
         DetailStored, DetailRefused, PollReconcile, PollReconcileFails, PollReport,
         PollHealthFails, BackfillNext, BackfillDetailFails, BackfillStored,
         BackfillRefused, Publisher, Environment, SourceNext, SourceUpdates,
         SourceRemoves, Tick, CrashRestart, vars

\* A cycle keeps its list; only a new complete list names logs as missing, and
\* those are not there.
LEMMA ListEffect ==
  ASSUME IInv, [Next]_vars, NEW id \in Logs, Unlisted(id)'
  PROVE  Unlisted(id) \/ source[id].old = NoHash
<1>1. poll \in PollType
  BY DEF IInv, PollOK
<1>2. ASSUME NEW shown \in SUBSET Present, NEW wellFormed \in BOOLEAN,
             NEW threshold \in BOOLEAN, PollList(shown, wellFormed, threshold)
      PROVE  source[id].old = NoHash
  <2>1. poll'.complete /\ id \notin DOMAIN poll'.markers
    BY DEF Unlisted
  <2>2. id \notin Present
    BY <1>2, <2>1, ListPoll
  <2> QED
    BY <2>2 DEF IInv, SourceOK, EntryOK, Present
<1>3. CASE /\ poll.pc # "idle"
           /\ poll'.complete = poll.complete /\ poll'.markers = poll.markers
  BY <1>3 DEF Unlisted
<1>4. poll'.pc # "idle" /\ poll' # NoPoll
  BY DEF Unlisted, NoPoll
<1>5. CASE poll' = poll
  BY <1>5 DEF Unlisted
<1>6. CASE \E x \in Logs : Classify(x) \/ ClassifySeen(x) \/ ClassifyFails(x)
  BY <1>3, <1>6, ClassifyEffect
<1>7. CASE \/ PollSelect \/ CycleTimeout \/ PollReconcile \/ PollReconcileFails
           \/ \E x \in Logs : Dispatch(x)
  <2>1. poll.pc # "idle"
    BY <1>7 DEF PollSelect, CycleTimeout, PollReconcile, PollReconcileFails,
                FetchDone, Dispatch
  <2>2. poll'.complete = poll.complete /\ poll'.markers = poll.markers
    BY <1>1, <1>7, SelectEffect, ReconcileSteps
       DEF CycleTimeout, PollReconcileFails, Dispatch, PollType
  <2> QED
    BY <1>3, <2>1, <2>2
<1>8. CASE \E x \in Logs : DetailFails(x) \/ DetailStored(x) \/ DetailRefused(x)
  <2>1. poll.pc # "idle"
    BY <1>8 DEF DetailFails, DetailStored, DetailRefused, IInv, PollOK
  <2>2. poll'.complete = poll.complete /\ poll'.markers = poll.markers
    BY <1>1, <1>8 DEF DetailFails, DetailStored, DetailRefused, PollType
  <2> QED
    BY <1>3, <2>1, <2>2
<1> QED
  BY <1>2, <1>4, <1>5, <1>6, <1>7, <1>8
     DEF Next, Writers, PollNext, PollListFails, DetailArrives,
         PollReport, PollHealthFails, BackfillNext, BackfillTake, BackfillDetail,
         BackfillDetailFails, BackfillStored, BackfillRefused, Publisher, Environment,
         SourceNext, SourceUpdates, SourceRemoves, Tick, CrashRestart, pollVars, vars

-------------------------------------------------------------------------------
(* Answers, markers and contents *)

\* What is under way stands for a version the server had, also after it moved on.
LEMMA GenuineStep == IInv /\ [Next]_vars => AnswersGenuine'
<1> SUFFICES ASSUME IInv, [Next]_vars PROVE AnswersGenuine'
  OBVIOUS
<1>1. ASSUME NEW id \in Logs, NEW answer \in Answer, Genuine(answer, source[id])
      PROVE  Genuine(answer, source'[id])
  <2>1. answer.ver \in Int /\ source[id].ver \in Int /\ source'[id].ver \in Int
    BY LogPipelineAssumption, SourceStep DEF IInv, SourceOK, SourceType, Answer
  <2> QED
    BY <1>1, <2>1, SourceEffect DEF Genuine
<1>2. ASSUME NEW id \in Present, NEW answer \in Answers(id), source' = source
      PROVE  Genuine(answer, source'[id])
  <2>1. source[id].ver \in Int
    BY LogPipelineAssumption DEF IInv, SourceOK, SourceType, Present
  <2> QED
    BY <1>2, <2>1, AnswersType DEF Genuine
<1>3. ASSUME NEW id \in Running', inflight'[id] # Requested
      PROVE  Genuine(inflight'[id], source'[id])
  <2>1. CASE id \in Running /\ inflight'[id] = inflight[id]
    BY <1>1, <1>3, <2>1, DetailRecordable DEF Recordable
  <2> QED
    BY <1>2, <1>3, <2>1, InflightEffect
<1>4. ASSUME backfill'.pc = "record"
      PROVE  Genuine(backfill'.answer, source'[backfill'.id])
  <2>1. CASE backfill' = backfill
    BY <1>1, <1>4, <2>1, BackfillRecordable DEF Recordable
  <2> QED
    BY <1>2, <1>4, <2>1, BackfillEffect
<1> QED
  BY <1>3, <1>4 DEF AnswersGenuine, Running

\* The bound of what was accepted for a log rises to the version of its record.
LEMMA RecordedUpTo ==
  ASSUME IInv, NEW id \in Timed, NEW answer, NEW marker,
         Recordable(id, answer, marker), ~Outdated(id, marker)
  PROVE  UpTo(accepted, id, answer.ver)
<1>1. answer.ver \in Markers /\ marker = answer.ver
  BY DEF Recordable, Answer, Timed
<1>2. CASE Known(id)
  <2>1. /\ checkpoints[id].marker \in Markers
        /\ UpTo(accepted, id, checkpoints[id].marker)
    BY <1>2 DEF IInv, Truthful, Upward, Known, FileOK, StoreTypeOK, Checkpoint
  <2>2. checkpoints[id].marker <= answer.ver
    BY <1>1, <1>2, <2>1, LogPipelineAssumption, ValueAssumption
       DEF Outdated, OlderMarker, ReadCheckpoint
  <2>3. checkpoints[id].marker \in Int /\ answer.ver \in Int
    BY <1>1, <2>1, LogPipelineAssumption
  <2> QED
    BY <2>1, <2>2, <2>3, UpToMore DEF IInv, AcceptedOK
<1>3. CASE ~Known(id)
  BY <1>3 DEF Recordable
<1> QED
  BY <1>2, <1>3

\* A log to be marked as seen keeps a checkpoint that is up to date.
LEMMA SeenStep == IInv /\ [Next]_vars => SeenIsKnown'
<1> SUFFICES ASSUME IInv, [Next]_vars PROVE SeenIsKnown'
  OBVIOUS
<1> USE DEF IInv
<1>1. ASSUME NEW id \in poll.seen, poll' = poll
      PROVE  id \in DOMAIN checkpoints' /\ UpToDate(id)'
  <2>1. /\ id \in DOMAIN poll.markers /\ id \notin Running /\ poll.pc # "idle"
        /\ Known(id) /\ UpToDate(id)
    BY <1>1 DEF PollOK, SeenIsKnown
  <2> QED
    BY <1>1, <2>1, UpToDateStays
<1>2. CASE poll'.seen = {}
  BY <1>2 DEF SeenIsKnown
<1>3. CASE UNCHANGED poll
  BY <1>1, <1>3 DEF SeenIsKnown, Known
<1>4. ASSUME NEW id \in Logs, Classify(id), poll'.seen = {id}, ~IsNew(id), ~IsDue(id)
      PROVE  SeenIsKnown'
  <2>1. /\ id \in DOMAIN poll.markers /\ id \in DOMAIN checkpoints
        /\ poll.markers[id] # NoMarker => poll.markers[id] = checkpoints[id].marker
        /\ checkpoints[id].lastFetched # 0
        /\ ~(poll.at - checkpoints[id].lastFetched >= RefreshInterval)
    BY <1>4 DEF Classify, PollOK, IsNew, LogIsNew, IsDue, LogIsDue, Known
  <2>2. /\ checkpoints' = checkpoints /\ poll'.markers = poll.markers
        /\ poll'.at = poll.at
    BY <1>4, ClassifyEffect DEF Classify, storeVars
  <2>3. /\ poll.markers[id] \in Markers \cup {NoMarker}
        /\ poll.at \in Nat /\ checkpoints[id].lastFetched \in Nat
    BY <2>1 DEF PollOK, PollType, MarkerMaps, FileOK, StoreTypeOK, Checkpoint
  <2>4. UpToDate(id)
    BY <2>1, <2>3, LogPipelineAssumption DEF UpToDate
  <2> QED
    BY <1>4, <2>1, <2>2, <2>4 DEF SeenIsKnown, Known, UpToDate
<1>5. poll \in PollType /\ (poll.pc # "classify" => poll.seen = {})
  BY DEF PollOK
<1>6. ASSUME NEW id \in Logs, Classify(id) \/ ClassifySeen(id) \/ ClassifyFails(id)
      PROVE  SeenIsKnown'
  BY <1>2, <1>4, <1>6, ClassifyEffect
<1>7. CASE PollSelect \/ PollReconcile
  BY <1>2, <1>7, SelectEffect, ReconcileSteps
<1>8. CASE \/ CycleTimeout \/ PollReconcileFails \/ PollReport \/ PollHealthFails
           \/ CrashRestart
           \/ \E id \in Logs : \/ Dispatch(id) \/ DetailFails(id)
                              \/ DetailStored(id) \/ DetailRefused(id)
  <2>1. poll'.seen = poll.seen \/ poll' = NoPoll
    BY <1>5, <1>8
       DEF CycleTimeout, PollReconcileFails, PollReport, PollHealthFails, CrashRestart,
           Dispatch, DetailFails, DetailStored, DetailRefused, PollType
  <2>2. poll.pc # "classify" \/ CrashRestart
    BY <1>8
       DEF CycleTimeout, PollReconcileFails, FetchDone, PollReport, PollHealthFails,
           Dispatch, DetailFails, DetailStored, DetailRefused, PollOK
  <2> QED
    BY <1>2, <1>5, <2>1, <2>2 DEF NoPoll, CrashRestart
<1>9. ASSUME NEW shown \in SUBSET Present, NEW wellFormed \in BOOLEAN,
             NEW threshold \in BOOLEAN, PollList(shown, wellFormed, threshold)
      PROVE  SeenIsKnown'
  BY <1>2, <1>9, ListPoll
<1> QED
  BY <1>3, <1>6, <1>7, <1>8, <1>9
     DEF Next, Writers, PollNext, PollListFails, DetailArrives,
         BackfillNext, BackfillTake, BackfillDetail, BackfillDetailFails,
         BackfillStored, BackfillRefused, Publisher, Environment, SourceNext,
         SourceUpdates, SourceRemoves, Tick, pollVars, vars

\* A write of either writer keeps every marker truthful.
LEMMA EnqueueTruthful ==
  ASSUME IInv, NEW id, NEW answer, NEW marker, Recordable(id, answer, marker),
         Enqueued(id, answer, marker, now), source' = source
  PROVE  Truthful'
<1> USE DEF IInv
<1>1. /\ DOMAIN checkpoints' = DOMAIN checkpoints \cup {id}
      /\ \A x \in DOMAIN checkpoints \ {id} : checkpoints'[x] = checkpoints[x]
      /\ \/ Known(id) /\ UNCHANGED <<outbox, checkpoints, sequence, accepted>>
         \/ /\ checkpoints'[id].marker = marker
            /\ Latest(checkpoints'[id]) = answer.hash
            /\ \/ /\ Latest(ReadCheckpoint(id)) = answer.hash
                  /\ UNCHANGED <<outbox, sequence, accepted>>
               \/ accepted' = Append(accepted, RecordOf(id, answer))
  BY EnqueueEffect
<1>2. /\ accepted \in Seq(Accepted) /\ RecordOf(id, answer) \in Accepted
      /\ RecordOf(id, answer).id = id /\ RecordOf(id, answer).hash = answer.hash
  BY DEF AcceptedOK, Recordable, Answer, RecordOf, Accepted
<1>3. CASE Known(id) /\ UNCHANGED <<checkpoints, accepted>>
  BY <1>3 DEF Truthful, Present, Dated, Timed
<1>4. ASSUME /\ checkpoints'[id].marker = marker
             /\ Latest(checkpoints'[id]) = answer.hash
             /\ LastIs(accepted', id, answer.hash)
             /\ \A x \in DOMAIN checkpoints \ {id} : \A hash :
                  LastIs(accepted, x, hash) => LastIs(accepted', x, hash)
      PROVE  Truthful'
  <2>1. ASSUME NEW x \in DOMAIN checkpoints \ {id}
        PROVE  /\ Latest(checkpoints'[x]) # NoHash =>
                    LastIs(accepted', x, Latest(checkpoints'[x]))
               /\ x \in Timed => checkpoints'[x].marker # NoMarker
               /\ x \in Dated /\ checkpoints'[x].marker # NoMarker =>
                    /\ checkpoints'[x].marker <= source[x].ver
                    /\ x \in Present /\ checkpoints'[x].marker = source[x].ver =>
                         LastIs(accepted', x, source[x].hash)
    BY <1>1, <1>4, <2>1 DEF Truthful
  <2>2. id \in Dated => /\ marker = answer.ver /\ marker \in Markers
                        /\ marker # NoMarker
                        /\ marker <= source[id].ver
                        /\ id \in Present /\ marker = source[id].ver =>
                             answer.hash = source[id].hash
    BY ValueAssumption DEF Recordable, Answer, Genuine, Present
  <2>3. Timed' = Timed /\ Dated' = Dated /\ Present' = Present /\ Timed \subseteq Dated
    BY DEF Timed, Dated, Present
  <2> QED
    BY <1>1, <1>4, <2>1, <2>2, <2>3 DEF Truthful
<1>5. CASE /\ checkpoints'[id].marker = marker
           /\ Latest(checkpoints'[id]) = answer.hash
           /\ Latest(ReadCheckpoint(id)) = answer.hash /\ accepted' = accepted
  <2>1. answer.hash # NoHash
    BY ValueAssumption DEF Recordable, Answer
  <2>2. id \in DOMAIN checkpoints /\ ReadCheckpoint(id) = checkpoints[id]
    BY <1>5, <2>1 DEF ReadCheckpoint, Latest, Known
  <2> QED
    BY <1>4, <1>5, <2>1, <2>2 DEF Truthful
<1>6. CASE /\ checkpoints'[id].marker = marker
           /\ Latest(checkpoints'[id]) = answer.hash
           /\ accepted' = Append(accepted, RecordOf(id, answer))
  BY <1>2, <1>4, <1>6, LastIsAppend
<1> QED
  BY <1>1, <1>3, <1>5, <1>6

\* So does every step that writes no record and no marker.
LEMMA TruthfulStays ==
  ASSUME IInv, [Next]_vars, accepted' = accepted,
         DOMAIN checkpoints' \subseteq DOMAIN checkpoints,
         \A id \in DOMAIN checkpoints' :
           /\ Latest(checkpoints'[id]) = Latest(checkpoints[id])
           /\ checkpoints'[id].marker \in {checkpoints[id].marker, NoMarker}
           /\ id \in Timed => checkpoints'[id].marker = checkpoints[id].marker
  PROVE  Truthful'
<1>1. Dated' \subseteq Dated /\ Timed' \subseteq Timed
  BY SourceEffect DEF Dated, Timed
<1>2. ASSUME NEW id \in DOMAIN checkpoints'
      PROVE  /\ Latest(checkpoints'[id]) # NoHash =>
                  LastIs(accepted', id, Latest(checkpoints'[id]))
             /\ id \in Timed' => checkpoints'[id].marker # NoMarker
  BY <1>1 DEF IInv, Truthful
<1>3. ASSUME NEW id \in DOMAIN checkpoints', id \in Dated,
             checkpoints'[id].marker # NoMarker
      PROVE  /\ checkpoints'[id].marker <= source'[id].ver
             /\ id \in Present' /\ checkpoints'[id].marker = source'[id].ver =>
                  LastIs(accepted', id, source'[id].hash)
  <2>1. /\ id \in Logs /\ id \in DOMAIN checkpoints
        /\ checkpoints'[id].marker = checkpoints[id].marker
    BY <1>3 DEF Dated
  <2>2. /\ checkpoints[id].marker \in Markers /\ source[id].ver \in Int
        /\ checkpoints[id].marker <= source[id].ver
        /\ id \in Present /\ checkpoints[id].marker = source[id].ver =>
             LastIs(accepted, id, source[id].hash)
    BY <1>3, <2>1, LogPipelineAssumption
       DEF IInv, Truthful, SourceOK, SourceType, FileOK, StoreTypeOK, Checkpoint
  <2>3. \/ source'[id] = source[id]
        \/ source'[id].ver = source[id].ver + 1
        \/ source'[id].ver = source[id].ver /\ source'[id].hash = NoHash
    BY <2>1, SourceEffect
  <2> QED
    BY <2>1, <2>2, <2>3, LogPipelineAssumption DEF Present
<1> QED
  BY <1>1, <1>2, <1>3 DEF Truthful

\* After every step a checkpoint with the server's version has its content.
LEMMA TruthfulStep == IInv /\ [Next]_vars => Truthful'
<1> SUFFICES ASSUME IInv, [Next]_vars PROVE Truthful'
  OBVIOUS
<1>1. CASE UNCHANGED <<checkpoints, accepted>>
  BY <1>1, TruthfulStays
<1>2. ASSUME NEW id \in Logs, DetailStored(id), UNCHANGED envVars
      PROVE  Truthful'
  BY <1>2, DetailRecordable, EnqueueTruthful DEF DetailStored, envVars
<1>3. CASE BackfillStored /\ UNCHANGED envVars
  BY <1>3, BackfillRecordable, EnqueueTruthful DEF BackfillStored, envVars
<1>4. ASSUME NEW id \in Logs, ClassifySeen(id)
      PROVE  Truthful'
  BY <1>4, SeenEffect, TruthfulStays DEF ClassifySeen
<1>5. CASE PollReconcile
  BY <1>5, ReconcileSteps, TruthfulStays
<1>6. CASE Publisher /\ flush.pc = "ack" /\ LogAcknowledge(NextRecord)
  <2>1. accepted' = accepted
    BY <1>6 DEF Publisher
  <2> QED
    BY <1>6, <2>1, AckEffect, TruthfulStays
<1> QED
  BY <1>1, <1>2, <1>3, <1>4, <1>5, <1>6, StoreSteps


-------------------------------------------------------------------------------
(* Versions do not go back *)

\* What a step may do to the checkpoint of a log with a usable updatedOn: keep
\* what it claims,
ClaimKept(id) ==
  /\ id \in DOMAIN checkpoints' <=> Known(id)
  /\ Known(id) =>
       /\ checkpoints'[id].marker = checkpoints[id].marker
       /\ checkpoints'[id].absentSince \in {checkpoints[id].absentSince, 0, now}
  /\ \A v : UpTo(accepted, id, v) => UpTo(accepted', id, v)

\* write it for an answer, which bounds what was accepted,
ClaimWritten(id) ==
  /\ id \in DOMAIN checkpoints' /\ checkpoints'[id].absentSince = 0
  /\ source' = source
  /\ UpTo(accepted', id, checkpoints'[id].marker)
  /\ UpTo(accepted', id, source[id].ver)

\* or forget it, when the log was not seen for long and no detail is under way.
ClaimForgotten(id) ==
  /\ id \notin DOMAIN checkpoints'
  /\ Unlisted(id) /\ LongAbsent(id) /\ Running' = {}
  /\ UNCHANGED <<accepted, source, backfill>>

\* A call of Enqueue keeps the checkpoints of the other logs, and writes one under
\* the version of its answer.
LEMMA EnqueueClaim ==
  ASSUME IInv, NEW id \in Timed,
         NEW x, NEW answer, NEW marker, Recordable(x, answer, marker),
         Enqueued(x, answer, marker, now), source' = source
  PROVE  ClaimKept(id) \/ ClaimWritten(id)
<1>1. /\ DOMAIN checkpoints' = DOMAIN checkpoints \cup {x}
      /\ \A y \in DOMAIN checkpoints \ {x} : checkpoints'[y] = checkpoints[y]
      /\ \/ Known(x) /\ UNCHANGED <<checkpoints, accepted>>
         \/ /\ ~Outdated(x, marker)
            /\ checkpoints'[x].marker = marker
            /\ checkpoints'[x].absentSince = 0
            /\ accepted' \in {accepted, Append(accepted, RecordOf(x, answer))}
  BY EnqueueEffect DEF IInv
<1>2. /\ accepted \in Seq(Accepted) /\ RecordOf(x, answer) \in Accepted
      /\ RecordOf(x, answer).id = x /\ RecordOf(x, answer).ver = answer.ver
  BY DEF IInv, AcceptedOK, Recordable, Answer, RecordOf, Accepted
<1>3. CASE Known(x) /\ UNCHANGED <<checkpoints, accepted>>
  BY <1>3 DEF ClaimKept, Known
<1>4. CASE x # id /\ accepted' \in {accepted, Append(accepted, RecordOf(x, answer))}
  <2>1. \A v : UpTo(accepted, id, v) => UpTo(accepted', id, v)
    BY <1>2, <1>4, UpToAppend
  <2> QED
    BY <1>1, <1>4, <2>1 DEF ClaimKept, Known
<1>5. CASE /\ x = id /\ ~Outdated(id, marker)
           /\ checkpoints'[id].marker = marker /\ checkpoints'[id].absentSince = 0
           /\ accepted' \in {accepted, Append(accepted, RecordOf(id, answer))}
  <2>1. /\ marker = answer.ver /\ answer.ver \in Int /\ answer.ver <= source[id].ver
    BY <1>5, LogPipelineAssumption DEF Recordable, Genuine, Answer, Timed
  <2>2. UpTo(accepted, id, answer.ver)
    BY <1>5, RecordedUpTo
  <2>3. UpTo(accepted, id, source[id].ver) /\ source[id].ver \in Int
    BY LogPipelineAssumption DEF IInv, Upward, SourceOK, SourceType, Timed, Dated
  <2>4. UpTo(accepted', id, answer.ver) /\ UpTo(accepted', id, source[id].ver)
    <3>1. CASE accepted' = accepted
      BY <2>2, <2>3, <3>1
    <3>2. CASE accepted' = Append(accepted, RecordOf(id, answer))
      <4>1. answer.ver <= answer.ver
        BY <2>1
      <4> QED
        BY <1>2, <1>5, <2>1, <2>2, <2>3, <3>2, <4>1, UpToAppend
    <3> QED
      BY <1>5, <3>1, <3>2
  <2> QED
    BY <1>1, <1>5, <2>1, <2>4 DEF ClaimWritten
<1> QED
  BY <1>1, <1>3, <1>4, <1>5

\* Every step does one of the three.
LEMMA ClaimStep ==
  ASSUME IInv, [Next]_vars, NEW id \in Timed
  PROVE  ClaimKept(id) \/ ClaimWritten(id) \/ ClaimForgotten(id)
<1>1. CASE UNCHANGED <<checkpoints, accepted>>
  BY <1>1 DEF ClaimKept, Known
<1>2. ASSUME NEW x \in Logs, DetailStored(x)
      PROVE  ClaimKept(id) \/ ClaimWritten(id)
  BY <1>2, DetailRecordable, EnqueueClaim DEF DetailStored, envVars
<1>3. CASE BackfillStored
  BY <1>3, BackfillRecordable, EnqueueClaim DEF BackfillStored, envVars
<1>4. ASSUME NEW x \in Logs, ClassifySeen(x)
      PROVE  ClaimKept(id)
  BY <1>4, SeenEffect DEF ClassifySeen, ClaimKept, Known
<1>5. CASE PollReconcile
  BY <1>5, ReconcileSteps DEF ClaimKept, ClaimForgotten, Known, Running
<1>6. CASE Publisher /\ flush.pc = "ack" /\ LogAcknowledge(NextRecord)
  <2>1. accepted' = accepted
    BY <1>6 DEF Publisher
  <2> QED
    BY <1>6, <2>1, AckEffect DEF ClaimKept, Known
<1> QED
  BY <1>1, <1>2, <1>3, <1>4, <1>5, <1>6, StoreSteps

\* The facts a step is judged by: the clock moves only at rest, and what is new
\* is not older than what the server has.
LEMMA UpwardStep == IInv /\ [Next]_vars => Upward'
<1> SUFFICES ASSUME IInv, [Next]_vars PROVE Upward'
  OBVIOUS
<1> USE DEF IInv
<1>1. Timed' \subseteq Timed /\ Timed \subseteq Logs
  BY SourceEffect DEF Timed, Dated
<1> SUFFICES ASSUME NEW id \in Timed
             PROVE  /\ UpTo(accepted', id, source'[id].ver)
                    /\ id \in DOMAIN checkpoints' =>
                         UpTo(accepted', id, checkpoints'[id].marker)
                    /\ /\ id \notin DOMAIN checkpoints'
                          \/ (Unlisted(id)' /\ LongAbsent(id)')
                       /\ source'[id].old # NoHash
                       => UpTo(accepted', id, source'[id].ver - 1)
                    /\ /\ id \notin DOMAIN checkpoints' /\ id \in Running'
                       /\ inflight'[id] # Requested
                       => UpTo(accepted', id, inflight'[id].ver)
                    /\ /\ id \notin DOMAIN checkpoints' \/ LongAbsent(id)'
                       /\ backfill'.pc # "idle" /\ backfill'.id = id
                       => UpTo(accepted', id, BackfillFloor')
  BY <1>1 DEF Upward, Known
<1>2. /\ id \in Logs /\ source[id].ver \in Int /\ now \in Nat \ {0}
      /\ accepted \in Seq(Accepted)
  <2>1. id \in Logs
    BY <1>1
  <2> QED
    BY <2>1, LogPipelineAssumption DEF SourceOK, SourceType, AcceptedOK
<1>3. UpTo(accepted, id, source[id].ver)
  BY DEF Upward
<1>4. CASE ClaimKept(id)
  <2>1. Known(id) => id \in DOMAIN checkpoints'
    BY <1>4 DEF ClaimKept
  <2>2. UpTo(accepted, id, source'[id].ver)
    BY <1>2, <1>3, SourceEffect, UpToMore
  <2>3. now' = now /\ LongAbsent(id)' => LongAbsent(id) \/ ~Known(id)
    BY <1>2, <1>4 DEF ClaimKept, LongAbsent
  <2>4. now' = now \/ (~Unlisted(id)' /\ Running' = {} /\ backfill'.pc = "idle")
    BY SourceEffect DEF Unlisted
  <2>5. ASSUME id \notin DOMAIN checkpoints' \/ (Unlisted(id)' /\ LongAbsent(id)'),
               source'[id].old # NoHash
        PROVE  UpTo(accepted, id, source'[id].ver - 1)
    <3>1. CASE source'[id] = source[id]
      BY <1>2, <2>1, <2>3, <2>4, <2>5, <3>1, ListEffect DEF Upward
    <3>2. CASE source'[id].ver = source[id].ver + 1
      BY <1>2, <1>3, <3>2
    <3> QED
      BY <1>2, <2>5, <3>1, <3>2, SourceEffect
  <2>6. ASSUME id \notin DOMAIN checkpoints', id \in Running',
               inflight'[id] # Requested
        PROVE  UpTo(accepted, id, inflight'[id].ver)
    <3>1. CASE id \in Running /\ inflight'[id] = inflight[id]
      BY <2>1, <2>6, <3>1 DEF Upward
    <3>2. CASE id \in Present /\ inflight'[id] \in Answers(id)
      BY <1>3, <2>1, <2>6, <3>2, AnswersType DEF Upward
    <3> QED
      BY <2>6, <3>1, <3>2, InflightEffect
  <2>7. ASSUME id \notin DOMAIN checkpoints' \/ LongAbsent(id)',
               backfill'.pc # "idle", backfill'.id = id
        PROVE  UpTo(accepted, id, BackfillFloor')
    <3>1. ~Known(id) \/ LongAbsent(id)
      BY <2>1, <2>3, <2>4, <2>7
    <3>2. CASE backfill' = backfill
      BY <2>7, <3>1, <3>2 DEF Upward, BackfillFloor
    <3>3. CASE /\ backfill'.pc = "requested" /\ id \in Present
               /\ backfill'.when = source[id].listed
      <4>1. backfill'.when = source[id].ver
        BY <1>2, <3>3 DEF SourceOK, EntryOK, Present, Timed, Dated
      <4> QED
        BY <1>3, <3>3, <4>1 DEF BackfillFloor
    <3>4. CASE /\ backfill.pc = "requested" /\ backfill'.pc = "record"
               /\ backfill'.id = backfill.id /\ backfill.id \in Present
               /\ backfill'.answer \in Answers(backfill.id)
               /\ backfill.when <= backfill'.answer.ver
      <4>1. UpTo(accepted, id, backfill.when)
        BY <2>7, <3>1, <3>4 DEF Upward, BackfillFloor
      <4>2. backfill.when \in Int /\ backfill'.answer.ver \in Int
        BY <3>4, AnswersType, LogPipelineAssumption DEF BackfillOK, Answer
      <4> QED
        BY <1>2, <3>4, <4>1, <4>2, UpToMore DEF BackfillFloor
    <3> QED
      BY <2>7, <3>2, <3>3, <3>4, BackfillEffect
  <2> QED
    BY <1>4, <2>2, <2>5, <2>6, <2>7 DEF ClaimKept, Upward
<1>5. CASE ClaimWritten(id)
  <2>1. ~LongAbsent(id)'
    BY <1>5 DEF ClaimWritten, LongAbsent
  <2> QED
    BY <1>5, <2>1 DEF ClaimWritten
<1>6. CASE ClaimForgotten(id)
  BY <1>6 DEF ClaimForgotten, Upward, BackfillFloor
<1> QED
  BY <1>4, <1>5, <1>6, ClaimStep

\* A record that is accepted is not older than those of its log before it.
LEMMA SetBackStep == IInv /\ [Next]_vars => NeverSetBack'
<1> SUFFICES ASSUME IInv, [Next]_vars PROVE NeverSetBack'
  OBVIOUS
<1>1. Timed' \subseteq Timed
  BY SourceEffect DEF Timed, Dated
<1>2. CASE accepted' = accepted
  <2>1. \A i \in 1..Len(accepted) : accepted[i].id \in Logs
    <3>1. \A i \in 1..Len(accepted) : accepted[i] \in Accepted
      BY DEF IInv, AcceptedOK
    <3> QED
      BY <3>1 DEF Accepted
  <2> QED
    BY <1>2, <2>1, SourceEffect DEF IInv, NeverSetBack
<1>3. ASSUME NEW x, NEW answer, NEW marker, Recordable(x, answer, marker),
             Enqueued(x, answer, marker, now)
      PROVE  NeverSetBack'
  <2> DEFINE record == RecordOf(x, answer)
             n == Len(accepted) + 1
  <2>1. \/ accepted' = accepted
        \/ ~Outdated(x, marker) /\ accepted' = Append(accepted, record)
    BY <1>3, EnqueueEffect DEF IInv
  <2>2. /\ accepted \in Seq(Accepted)
        /\ record.id = x /\ record.ver = answer.ver
    BY DEF IInv, AcceptedOK, RecordOf
  <2>3. CASE ~Outdated(x, marker) /\ accepted' = Append(accepted, record)
    <3>1. x \in Timed => UpTo(accepted, x, answer.ver)
      BY <1>3, <2>3, RecordedUpTo
    <3>2. /\ Len(accepted) \in Nat /\ Len(accepted') = n
          /\ accepted'[n] = record
          /\ \A i \in 1..Len(accepted) : accepted'[i] = accepted[i]
      <4> HIDE DEF record
      <4> QED
        BY <2>2, <2>3
    <3> HIDE DEF record
    <3>3. ASSUME NEW i \in 1..n, NEW j \in 1..n, i < j,
                 accepted'[i].id = accepted'[j].id, accepted'[i].id \in Timed
          PROVE  accepted'[i].ver <= accepted'[j].ver
      <4>1. CASE j = n
        BY <2>2, <3>1, <3>2, <3>3, <4>1 DEF UpTo
      <4>2. CASE j < n
        BY <3>2, <3>3, <4>2 DEF IInv, NeverSetBack, Timed, Dated
      <4> QED
        BY <3>2, <4>1, <4>2
    <3>4. \A i \in 1..n : accepted'[i].id \in Logs
      <4>1. \A i \in 1..Len(accepted) : accepted[i] \in Accepted
        BY <2>2
      <4>2. \A i \in 1..Len(accepted) : accepted[i].id \in Logs
        BY <4>1 DEF Accepted
      <4>3. x \in Logs
        BY <1>3 DEF Recordable
      <4> QED
        BY <2>2, <3>2, <4>2, <4>3
    <3> QED
      BY <1>1, <3>2, <3>3, <3>4 DEF NeverSetBack, Timed, Dated
  <2> QED
    BY <1>2, <2>1, <2>3
<1>4. ASSUME NEW id \in Logs, DetailStored(id)
      PROVE  NeverSetBack'
  BY <1>3, <1>4, DetailRecordable DEF DetailStored
<1>5. CASE BackfillStored
  BY <1>3, <1>5, BackfillRecordable DEF BackfillStored
<1>6. CASE PollReconcile \/ \E id \in Logs : ClassifySeen(id)
  BY <1>2, <1>6 DEF PollReconcile, ClassifySeen
<1> QED
  BY <1>2, <1>4, <1>5, <1>6, StoreSteps DEF Publisher

-------------------------------------------------------------------------------
(* Theorems *)

\* A fresh start on an empty file satisfies the invariant.
LEMMA InitInv == Init => IInv
<1> SUFFICES ASSUME Init PROVE IInv
  OBVIOUS
<1>1. FileOK
  BY InitFile DEF Init
<1>2. /\ options \in [backfill : BOOLEAN]
      /\ source = [id \in Logs |-> NeverLogged]
      /\ now = 1 /\ upsets = 0 /\ accepted = <<>>
      /\ poll = NoPoll /\ inflight = [id \in {} |-> id] /\ backfill = NoBackfill
      /\ flush = NoFlush /\ recovery = FALSE /\ topic = <<>>
      /\ diag = NoLogDiagnostics
      /\ DOMAIN outbox = {} /\ DOMAIN checkpoints = {} /\ sequence = 0
  BY DEF Init, StoreInit, LogPipelineInit, LogPublisherInit
<1>3. SourceOK /\ Present = {}
  <2>1. EntryOK(NeverLogged)
    <3>1. 0 \in 0..MaxVersion
      BY LogPipelineAssumption
    <3>2. /\ NeverLogged \in SourceType
          /\ NeverLogged.hash = NoHash /\ NeverLogged.old = NoHash
      BY <3>1 DEF SourceType, NeverLogged
    <3> HIDE DEF NeverLogged
    <3> QED
      BY <3>2 DEF EntryOK
  <2>2. /\ source \in [Logs -> SourceType]
        /\ \A id \in Logs : EntryOK(source[id]) /\ source[id].hash = NoHash
    <3>1. NeverLogged \in SourceType /\ NeverLogged.hash = NoHash
      BY <2>1 DEF EntryOK, NeverLogged
    <3> QED
      BY <1>2, <2>1, <3>1
  <2> QED
    BY <1>2, <2>2, LogPipelineAssumption DEF SourceOK, Present
<1>4. PollOK /\ Running = {}
  <2>1. [id \in {} |-> id] \in MarkerMaps
    BY DEF MarkerMaps
  <2>2. poll \in PollType
    BY <1>2, <2>1 DEF NoPoll, PollType
  <2> QED
    BY <1>2, <2>2 DEF NoPoll, PollOK, Running
<1>5. BackfillOK /\ FlushOK
  BY <1>2 DEF NoBackfill, BackfillOK, BackfillType, NoFlush, FlushOK, FlushType,
              NoLogDiagnostics, LogDiagnosticsType
<1>6. AcceptedOK /\ InOrder(0)
  BY <1>2 DEF AcceptedOK, InOrder, NoFlush
<1>7. Fetched /\ Accounted /\ AnswersGenuine /\ SeenIsKnown /\ Truthful
  BY <1>2, <1>4 DEF Fetched, Accounted, AnswersGenuine, SeenIsKnown, Truthful,
                    NoPoll, NoBackfill
<1>8. Upward /\ NeverSetBack
  BY <1>2 DEF Upward, UpTo, NeverSetBack, Known
<1> QED
  BY <1>1, <1>3, <1>4, <1>5, <1>6, <1>7, <1>8 DEF IInv

\* The invariant holds in every reachable state.
THEOREM Invariance == Spec => []IInv
<1>1. IInv /\ [Next]_vars => IInv'
  BY FileStep, SourceStep, PollStep, BackfillStep, FlushStep, OrderStep, FetchedStep,
     AccountedStep, GenuineStep, SeenStep, TruthfulStep, UpwardStep, SetBackStep
     DEF IInv
<1> QED
  BY InitInv, <1>1, PTL DEF Spec

\* Every variable has its type, and whatever the two writers, the publisher and
\* crashes do, the file keeps its limits and is one that Open accepts.
THEOREM TypeCorrect == Spec => []TypeOK
<1>1. IInv => TypeOK
  <2> SUFFICES ASSUME IInv PROVE TypeOK
    OBVIOUS
  <2>1. StoreTypeOK /\ StateValid /\ WithinLimits
    BY DEF IInv, FileOK
  <2>2. topic \in Seq(1..sequence)
    <3>1. PICK k \in Nat : InOrder(k)
      BY DEF IInv
    <3>2. /\ topic \in Seq(Nat) /\ Len(topic) \in Nat /\ Len(topic) <= sequence
          /\ \A i \in 1..Len(topic) : topic[i] = i
      BY <3>1 DEF InOrder
    <3>3. sequence \in Nat
      BY <2>1 DEF StoreTypeOK
    <3>4. topic = [i \in 1..Len(topic) |-> i]
      BY <3>2
    <3>5. [i \in 1..Len(topic) |-> i] \in Seq(1..sequence)
      <4>1. \A i \in 1..Len(topic) : i \in 1..sequence
        BY <3>2, <3>3
      <4> QED
        BY <3>2, <4>1
    <3> QED
      BY <3>4, <3>5
  <2>3. LogStateValid
    BY <2>1 DEF StateValid, LogStateValid
  <2> QED
    BY <2>1, <2>2, <2>3 DEF TypeOK, IInv, FlushOK, SourceOK, PollOK
<1> QED
  BY <1>1, Invariance, PTL

\* With two writers, answers that are one version late and logs that are
\* forgotten and come back, no older version of a log whose list entries and details
\* carry a usable updatedOn is accepted after a newer one.
THEOREM VersionsNeverGoBack == Spec => []NeverSetBack
<1>1. IInv => NeverSetBack
  BY DEF IInv
<1> QED
  BY <1>1, Invariance, PTL

\* A checkpoint that carries the server's version of a log whose details carry a
\* usable updatedOn stands for its content, so that the poll leaves alone no log of
\* this kind that has something new.
THEOREM MarkersAreTrue == Spec => []MarkersTellTheTruth
<1>1. IInv => MarkersTellTheTruth
  <2> SUFFICES ASSUME IInv, NEW id \in Present, source[id].dated, Known(id),
                      checkpoints[id].marker = source[id].ver
               PROVE  LastAccepted(id) = source[id].hash
    BY DEF MarkersTellTheTruth
  <2>1. id \in Dated /\ source[id].ver \in Markers /\ source[id].ver # NoMarker
    BY ValueAssumption DEF Dated, Present, IInv, SourceOK, EntryOK
  <2> QED
    BY <2>1, LastIsAccepted DEF IInv, Truthful, Known
<1> QED
  BY <1>1, Invariance, PTL

\* The publisher never meets a record it would call corrupt: the one it published
\* is still the oldest when it is acknowledged, and the counters cover it.
THEOREM AcknowledgeSucceeds ==
  Spec => [](flush.pc = "ack" =>
               NextRecord \in DOMAIN outbox /\ LogAckValid(NextRecord))
<1>1. IInv => (flush.pc = "ack" =>
                 NextRecord \in DOMAIN outbox /\ LogAckValid(NextRecord))
  <2> SUFFICES ASSUME IInv, flush.pc = "ack"
               PROVE  NextRecord \in DOMAIN outbox /\ LogAckValid(NextRecord)
    OBVIOUS
  <2>1. PICK k \in Nat : InOrder(k)
    BY DEF IInv
  <2>2. NextRecord \in DOMAIN outbox
    BY <2>1, NextIsOldest
  <2> QED
    BY <2>2, QueuedAreValid DEF IInv, LogAckValid
<1> QED
  BY <1>1, Invariance, PTL

\* A cycle that leaves the log path ready took the detail of every listed log that
\* it did not put off, or found it up to date, whatever the backfill did beside it.
THEOREM CollectedWhenReady == Spec => ReadyMeansCollected
<1> DEFINE Step ==
      (poll.pc = "report" /\ poll'.pc = "idle" /\ LogPipelineReady') =>
        \A id \in DOMAIN poll.markers \ poll.deferred : Collected(id)
<1>1. IInv /\ [Next]_vars => [Step]_vars
  <2> SUFFICES ASSUME IInv, Next, poll.pc = "report", poll'.pc = "idle",
                      LogPipelineReady',
                      NEW id \in DOMAIN poll.markers \ poll.deferred
               PROVE  Collected(id)
    OBVIOUS
  <2>1. poll \in PollType /\ diag \in LogDiagnosticsType
        /\ poll.todo = {} /\ Running = {}
    BY DEF IInv, PollOK, FlushOK
  <2>2. ~CrashRestart
    BY DEF CrashRestart, NoLogDiagnostics, LogPipelineReady
  <2>3. PollReport \/ PollHealthFails
    <3>1. poll' # poll
      OBVIOUS
    <3>2. ~UNCHANGED pollVars
      BY <3>1 DEF pollVars
    <3> QED
      BY <2>1, <2>2, <3>1, <3>2, SelectEffect, ReconcileSteps
         DEF Next, Writers, Publisher, Environment, SourceNext, SourceUpdates,
             SourceRemoves, Tick, BackfillNext, BackfillTake, BackfillDetail,
             BackfillDetailFails, BackfillStored, BackfillRefused, PollNext,
             PollListFails, PollList, Classify, ClassifySeen, ClassifyFails, PollSelect,
             Dispatch, CycleTimeout, DetailArrives, DetailFails, DetailStored,
             DetailRefused, PollReconcile, PollReconcileFails, FetchDone
  <2>4. CASE PollReport
    <3> DEFINE ready == poll.enough /\ poll.detailOK /\ poll.stateOK
    <3>1. diag'.collectionReady = ready
      BY <2>1, <2>4
         DEF PollReport, PollType, LogDiagnosticsType, SetLogCollectionReady,
             SetLogStateFull, SetLogPipelineStateHealthy
    <3>2. poll.stateOK /\ poll.detailOK
      BY <3>1 DEF LogPipelineReady
    <3> QED
      BY <2>1, <3>2 DEF IInv, Accounted
  <2>5. CASE PollHealthFails
    BY <2>1, <2>5
       DEF PollHealthFails, LogDiagnosticsType, SetLogCollectionReady,
           SetLogStateFull, SetLogPipelineStateHealthy, LogPipelineReady
  <2> QED
    BY <2>3, <2>4, <2>5
<1> QED
  BY <1>1, Invariance, PTL DEF Spec, ReadyMeansCollected

-------------------------------------------------------------------------------
(* The log path implements Delivery *)

\* A step that leaves topic and accepted records alone is a stuttering step.
LEMMA DeliveryStutters ==
  ASSUME UNCHANGED <<topic, accepted>>
  PROVE  UNCHANGED D!deliveryVars
BY DEF D!deliveryVars, Content

\* A record of either writer that enters the queue is accepted.
LEMMA InsertDelivers ==
  ASSUME IInv, NEW k \in Nat, InOrder(k), NEW record \in Accepted,
         accepted' = Append(accepted, record), topic' = topic
  PROVE  D!DeliveryNext
<1>1. /\ accepted \in Seq(Accepted) /\ topic \in Seq(Nat) /\ Len(topic) \in Nat
      /\ Len(topic) <= Len(accepted)
      /\ \A i \in 1..Len(topic) : topic[i] = i
  BY DEF IInv, AcceptedOK, InOrder
<1>2. \A i \in 1..Len(topic) : accepted'[topic'[i]] = accepted[topic[i]]
  BY <1>1
<1>3. [i \in 1..Len(topic) |-> Content(i)]' = [i \in 1..Len(topic) |-> Content(i)]
  BY <1>2 DEF Content
<1>4. D!Accept(record)
  BY <1>3 DEF D!Accept
<1> QED
  BY <1>4 DEF D!DeliveryNext, Accepted

\* A publication delivers the next accepted record, or repeats it.
LEMMA WriteDelivers ==
  ASSUME IInv, NEW k \in Nat, InOrder(k), flush.pc = "publish",
         WriteTopic(NextRecord), accepted' = accepted
  PROVE  D!DeliveryNext \/ UNCHANGED D!deliveryVars
<1>1. NextRecord = k + 1 /\ k + 1 <= sequence
  BY NextIsOldest
<1>2. \/ topic' = topic
      \/ Len(topic) = k /\ topic' = Append(topic, k + 1)
  BY <1>1, WriteEffect
<1>3. CASE topic' = topic
  BY <1>3, DeliveryStutters
<1>4. CASE Len(topic) = k /\ topic' = Append(topic, k + 1)
  <2> DEFINE log == [i \in 1..Len(topic) |-> Content(i)]
             new == [i \in 1..Len(topic') |-> accepted[topic'[i]]]
  <2>1. /\ topic \in Seq(Nat) /\ Len(topic') = k + 1
        /\ Len(accepted) = sequence
        /\ \A i \in 1..k : topic'[i] = topic[i]
        /\ topic'[k + 1] = k + 1
    BY <1>4 DEF IInv, AcceptedOK, InOrder
  <2>2. Len(log) = k
    BY <1>4
  <2>3. new = Append(log, accepted[k + 1])
    <3>1. new = [i \in 1..(k + 1) |-> IF i = k + 1 THEN accepted[k + 1] ELSE log[i]]
      BY <1>4, <2>1 DEF Content
    <3> HIDE DEF new
    <3> QED
      BY <1>4, <2>2, <3>1
  <2>4. log' = new
    BY DEF Content
  <2>5. D!Deliver
    <3> HIDE DEF log, new
    <3>1. Len(log) < Len(accepted) /\ log' = Append(log, accepted[Len(log) + 1])
      BY <1>1, <2>1, <2>2, <2>3, <2>4
    <3> QED
      BY <3>1 DEF D!Deliver, log
  <2> QED
    BY <2>5 DEF D!DeliveryNext
<1> QED
  BY <1>2, <1>3, <1>4

\* Every step of the log path accepts a record, delivers the next one, or leaves
\* both sequences as they are.
LEMMA StepDelivers == IInv /\ [Next]_vars => D!DeliveryNext \/ UNCHANGED D!deliveryVars
<1> SUFFICES ASSUME IInv, [Next]_vars
             PROVE  D!DeliveryNext \/ UNCHANGED D!deliveryVars
  OBVIOUS
<1>1. PICK k \in Nat : InOrder(k)
  BY DEF IInv
<1>2. CASE UNCHANGED <<topic, accepted>>
  BY <1>2, DeliveryStutters
<1>3. ASSUME NEW id, NEW answer, NEW marker, Recordable(id, answer, marker),
             Enqueued(id, answer, marker, now), topic' = topic
      PROVE  D!DeliveryNext \/ UNCHANGED D!deliveryVars
  <2>1. RecordOf(id, answer) \in Accepted
    BY <1>3 DEF Recordable, Answer, RecordOf, Accepted
  <2>2. accepted' \in {accepted, Append(accepted, RecordOf(id, answer))}
    BY <1>3, EnqueueEffect DEF IInv
  <2> QED
    BY <1>1, <1>2, <1>3, <2>1, <2>2, InsertDelivers
<1>4. CASE Writers
  <2>1. topic' = topic
    BY <1>4 DEF Writers, publisherVars
  <2>2. CASE PollReconcile \/ \E id \in Logs : ClassifySeen(id)
    BY <1>2, <2>1, <2>2 DEF PollReconcile, ClassifySeen
  <2>3. ASSUME NEW id \in Logs, DetailStored(id)
        PROVE  D!DeliveryNext \/ UNCHANGED D!deliveryVars
    BY <1>3, <2>1, <2>3, DetailRecordable DEF DetailStored
  <2>4. CASE BackfillStored
    BY <1>3, <2>1, <2>4, BackfillRecordable DEF BackfillStored
  <2>5. CASE Publisher
    BY <1>2, <2>1, <2>5 DEF Publisher
  <2> QED
    BY <1>2, <2>1, <2>2, <2>3, <2>4, <2>5, StoreSteps
<1>5. CASE Publisher
  <2>1. accepted' = accepted
    BY <1>5 DEF Publisher
  <2>2. topic' = topic \/ (flush.pc = "publish" /\ WriteTopic(NextRecord))
    BY <1>5
       DEF Publisher, FlushNext, FlushRead, FlushDrained, PublishOK, PublishFails,
           FlushAcknowledge, FlushStateFails
  <2> QED
    BY <1>1, <1>2, <2>1, <2>2, WriteDelivers
<1>6. CASE Environment \/ CrashRestart \/ UNCHANGED vars
  BY <1>2, <1>6
     DEF Environment, SourceNext, SourceUpdates, SourceRemoves, Tick, CrashRestart,
         publisherVars, vars
<1> QED
  BY <1>4, <1>5, <1>6 DEF Next

\* With two writers too, the topic is a growing prefix of the accepted records.
THEOREM DeliveryInOrder == Spec => DeliversInOrder
<1>1. Init => D!DeliveryInit
  <2> SUFFICES ASSUME Init PROVE D!DeliveryInit
    OBVIOUS
  <2>1. accepted = <<>> /\ topic = <<>>
    BY DEF Init, LogPipelineInit, LogPublisherInit
  <2>2. [i \in 1..Len(topic) |-> Content(i)] = <<>>
    BY <2>1
  <2> QED
    BY <2>1, <2>2 DEF D!DeliveryInit
<1>2. IInv /\ [Next]_vars => [D!DeliveryNext]_D!deliveryVars
  BY StepDelivers
<1> QED
  BY <1>1, <1>2, Invariance, PTL DEF Spec, DeliversInOrder, D!DeliverySafety
===============================================================================
