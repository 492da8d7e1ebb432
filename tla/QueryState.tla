------------------------------ MODULE QueryState ------------------------------
(***************************************************************************)
(* The durable query store (internal/querystate): one bbolt file with the  *)
(* outbox of query events, one checkpoint per query inside the retention,  *)
(* and the persisted counters.  Every operation is one transaction.        *)
(*                                                                         *)
(* An event is a query id, a state, the time that decides about retention  *)
(* (completed_at, or submitted_at without it) and observed_at, the time    *)
(* the detail request was started.  A member of Live stands for one        *)
(* content of a query that is not terminal.  The content hash leaves       *)
(* observed_at out.  The histograms are updated together with the counters *)
(* of completed queries and are represented by them.  Stats.Revision counts *)
(* the writes and is kept by QueryPipeline, which reads it.                *)
(***************************************************************************)
EXTENDS Integers, FiniteSets

CONSTANTS
  Queries,         \* query ids
  Live, Terminal,  \* states that are not terminal, and the terminal ones
  Size,            \* encoded size of an event, by its state
  MaxEvents, MaxBytes, MaxCheckpoints, Retention, Events   \* Options

ASSUME QueryOptionsAssumption ==
  /\ MaxEvents \in Nat \ {0} /\ MaxBytes \in Nat \ {0}
  /\ MaxCheckpoints \in Nat \ {0} /\ Retention \in Nat \ {0}
  /\ Events \in BOOLEAN

ASSUME QueryValueAssumption ==
  /\ Live \cap Terminal = {}
  /\ Size \in [Live \cup Terminal -> Nat \ {0}]
  /\ IsFiniteSet(Terminal)

VARIABLES events, checkpoints, stats, sequence

queryStoreVars == <<events, checkpoints, stats, sequence>>

Event == [id : Queries, state : Live \cup Terminal, when : Nat, observed : Nat]

Hash(e) == <<e.state, e.when>>

Checkpoint == [final : BOOLEAN, hash : (Live \cup Terminal) \X Nat,
               lastFetched : Nat, time : Nat]

Stats == [completed : [Terminal -> Nat], pending : Nat, bytes : Nat, floor : Nat]

Known(id) == id \in DOMAIN checkpoints

\* Fetch(id)
Fetch(id) == Known(id) /\ checkpoints[id].final

\* The bytes of a set of events, each named by its key and position.
ByteSet(seqs) == UNION {{s} \X (1..Size[events[s].state]) : s \in seqs}

BytesOf(seqs) == Cardinality(ByteSet(seqs))

-------------------------------------------------------------------------------
(* Prune *)

Later(a, b) == IF a < b THEN b ELSE a

\* Variant: the floor follows a clock that was set back.
FloorFollowsClock(now) == Later(now - Retention, 0)

\* The floor never moves back, whatever the clock does.
Floor(now) == Later(now - Retention, stats.floor)

Prune(now) ==
  /\ stats' = [stats EXCEPT !.floor = Floor(now)]
  /\ checkpoints' = [id \in {q \in DOMAIN checkpoints :
                               checkpoints[q].time >= Floor(now)}
                       |-> checkpoints[id]]
  /\ UNCHANGED <<events, sequence>>

-------------------------------------------------------------------------------
(* Record *)

\* ErrExpired
Expired(e) == e.when < stats.floor

\* Variant: a final checkpoint is not locked.
SupersededByTime(e) == Known(e.id) /\ e.observed < checkpoints[e.id].lastFetched

\* A final query is locked; an older observation changes nothing.
Superseded(e) ==
  /\ Known(e.id)
  /\ checkpoints[e.id].final \/ e.observed < checkpoints[e.id].lastFetched

CheckpointRoom(e) ==
  Known(e.id) \/ Cardinality(DOMAIN checkpoints) < MaxCheckpoints

\* Variant: only the time is compared.
ChangedIfTimeDiffers(e) == Known(e.id) => checkpoints[e.id].time # e.when

Changed(e) == Known(e.id) => checkpoints[e.id].hash # Hash(e)

\* Variant: the event itself is not counted.
EventRoomBefore(e) == stats.pending < MaxEvents /\ stats.bytes <= MaxBytes

EventRoom(e) ==
  stats.pending < MaxEvents /\ Size[e.state] <= MaxBytes - stats.bytes

\* ErrFull
NoRoom(e) == ~CheckpointRoom(e) \/ (Changed(e) /\ Events /\ ~EventRoom(e))

Dropped(e) == ~Expired(e) /\ Superseded(e)

Refused(e) == ~Expired(e) /\ ~Superseded(e) /\ NoRoom(e)

Accepted(e) == ~Expired(e) /\ ~Superseded(e) /\ ~NoRoom(e)

Queued(e) == Changed(e) /\ Events

AppendEvent(e) ==
  IF Queued(e)
  THEN /\ sequence' = sequence + 1
       /\ events' = [s \in DOMAIN events \cup {sequence'} |->
                       IF s = sequence' THEN e ELSE events[s]]
  ELSE UNCHANGED <<events, sequence>>

\* Event, counters and checkpoint in one transaction.
RecordStored(e) ==
  /\ Accepted(e)
  /\ AppendEvent(e)
  /\ checkpoints' = [id \in DOMAIN checkpoints \cup {e.id} |->
                       IF id = e.id
                       THEN [final |-> e.state \in Terminal, hash |-> Hash(e),
                             lastFetched |-> e.observed, time |-> e.when]
                       ELSE checkpoints[id]]
  /\ stats' = [stats EXCEPT
                 !.pending = IF Queued(e) THEN @ + 1 ELSE @,
                 !.bytes = IF Queued(e) THEN @ + Size[e.state] ELSE @,
                 !.completed = [t \in Terminal |->
                                  IF t = e.state THEN @[t] + 1 ELSE @[t]]]

\* ErrExpired, a superseded observation and ErrFull leave the file as it is.
RecordIgnored(e) ==
  /\ Expired(e) \/ Dropped(e) \/ Refused(e)
  /\ UNCHANGED queryStoreVars

-------------------------------------------------------------------------------
(* Records, Ack and Open *)

\* validateRecord: a terminal event inside the floor has its locked checkpoint.
ValidRecord(s) ==
  LET e == events[s]
  IN  /\ s \in 1..sequence
      /\ (e.state \in Terminal /\ e.when >= stats.floor) =>
           /\ Known(e.id)
           /\ checkpoints[e.id].final
           /\ checkpoints[e.id].hash = Hash(e)
           /\ checkpoints[e.id].time = e.when
           /\ checkpoints[e.id].lastFetched = e.observed

\* Records(limit): the first limit events in key order.
Records(limit) ==
  {s \in DOMAIN events : Cardinality({t \in DOMAIN events : t < s}) < limit}

RecordsValid(limit) == \A s \in Records(limit) : ValidRecord(s)

\* Variant: the counters are not taken down.
AckKeepsCounters(s) ==
  /\ s \in DOMAIN events
  /\ events' = [t \in DOMAIN events \ {s} |-> events[t]]
  /\ UNCHANGED <<checkpoints, stats, sequence>>

\* Ack of a key that is gone is not an error.
Ack(s) ==
  IF s \notin DOMAIN events
  THEN UNCHANGED queryStoreVars
  ELSE /\ ValidRecord(s)
       /\ stats.pending >= 1 /\ stats.bytes >= Size[events[s].state]
       /\ events' = [t \in DOMAIN events \ {s} |-> events[t]]
       /\ stats' = [stats EXCEPT !.pending = @ - 1,
                                 !.bytes = @ - Size[events[s].state]]
       /\ UNCHANGED <<checkpoints, sequence>>

\* The check of Stats().
StatsValid == stats.pending = Cardinality(DOMAIN events)

\* validate
StateValid ==
  /\ \A s \in DOMAIN events : ValidRecord(s)
  /\ StatsValid
  /\ stats.bytes = BytesOf(DOMAIN events)

\* Open of an existing file: validate, then prune.
Open(now) == StateValid /\ Prune(now)

QueryStoreInit ==
  /\ events = [s \in {} |-> s]
  /\ checkpoints = [id \in {} |-> id]
  /\ stats = [completed |-> [t \in Terminal |-> 0], pending |-> 0, bytes |-> 0,
              floor |-> 0]
  /\ sequence = 0

QueryStoreTypeOK ==
  /\ sequence \in Nat
  /\ DOMAIN events \subseteq 1..sequence
  /\ events \in [DOMAIN events -> Event]
  /\ DOMAIN checkpoints \subseteq Queries
  /\ checkpoints \in [DOMAIN checkpoints -> Checkpoint]
  /\ stats \in Stats
===============================================================================
