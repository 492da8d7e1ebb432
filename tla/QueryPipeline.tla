----------------------------- MODULE QueryPipeline -----------------------------
(***************************************************************************)
(* The query path (internal/queries/pipeline.go): the poll cycle and the   *)
(* event publisher, two goroutines over one query store, and a process     *)
(* that can stop at any step.                                              *)
(*                                                                         *)
(* The server lists its queries newest first; ids are numbers in the order *)
(* of submission.  The workers of a cycle fetch different queries and meet *)
(* only in the store, so a detail request and its Record are one step and  *)
(* the workers' orders are the orders of these steps; answers that cross   *)
(* those of the history backfill are in QueryStore.  Freshness of the      *)
(* sample and of the detail cycle is left out of Ready.                    *)
(***************************************************************************)
EXTENDS QueryState

CONSTANTS
  MaxPerCycle, BatchLimit,  \* options
  StoreFaults,     \* TRUE if a bbolt transaction may fail with an I/O error
  Times,           \* clock readings
  MaxRevision,     \* bound: revisions that are told apart
  MaxCrashes       \* bound: restarts

ASSUME QueryPipelineAssumption ==
  /\ Queries \subseteq Nat /\ IsFiniteSet(Queries)
  /\ "absent" \notin Live \cup Terminal
  /\ MaxPerCycle \in Nat \ {0} /\ BatchLimit \in Nat \ {0}
  /\ StoreFaults \in BOOLEAN
  /\ Times \subseteq Nat \ {0} /\ 1 \in Times /\ MaxRevision \in Nat /\ MaxCrashes \in Nat

VARIABLES
  server, clock,   \* the environment
  revision,        \* Stats.Revision
  flags,           \* Pipeline.scope, overviewOK, detailOK, stateOK, publishOK
  exported,        \* Pipeline.stats, what /metrics shows
  cursor,          \* Pipeline.cursor
  poll,            \* the local state of Poll
  flush,           \* the local state of flush
  published,       \* history: keys that Kafka has confirmed or stored
  owed,            \* history: the parts of a poll that failed and have not succeeded since
  crashes

memoryVars == <<flags, exported, cursor, poll, flush, owed>>
envVars == <<server, clock, published, crashes>>
vars == <<queryStoreVars, revision, memoryVars, envVars>>

\* A poll collects the overview and the details.
Parts == {"overview", "details"}

NoSnapshot == [ok |-> FALSE, revision |-> 0,
               completed |-> [t \in Terminal |-> 0]]

IdlePoll == [pc |-> "idle", ok |-> TRUE, todo |-> {}, stats |-> NoSnapshot]

IdleFlush == [pc |-> "idle", batch |-> {}, ok |-> TRUE, stats |-> NoSnapshot]

\* What Stats() returns.
Snapshot == [ok |-> TRUE, revision |-> revision,
             completed |-> stats.completed]

StartFlags == [scope |-> FALSE, overviewOK |-> FALSE, detailOK |-> FALSE,
               stateOK |-> TRUE, publishOK |-> ~Events]

Ready == /\ flags.scope /\ flags.overviewOK /\ flags.detailOK /\ flags.stateOK
         /\ Events => flags.publishOK

\* saveStats: every transaction that writes counts one revision.
SaveStats == revision' = IF revision < MaxRevision THEN revision + 1 ELSE revision

Init ==
  /\ QueryStoreInit
  /\ revision = 1
  /\ server = [id \in Queries |-> [state |-> "absent", submitted |-> 0, completed |-> 0]]
  /\ clock = 1
  /\ flags = StartFlags
  /\ exported = Snapshot
  /\ cursor = 0
  /\ poll = IdlePoll /\ flush = IdleFlush
  /\ published = {} /\ owed = Parts /\ crashes = 0

-------------------------------------------------------------------------------
(* Environment *)

Listed == {id \in Queries : server[id].state # "absent"}

Submit(id) ==
  /\ id \notin Listed /\ \A other \in Listed : other < id
  /\ \E state \in Live :
       server' = [server EXCEPT ![id] = [state |-> state, submitted |-> clock,
                                         completed |-> 0]]
  /\ UNCHANGED <<queryStoreVars, revision, memoryVars, clock, published, crashes>>

Finish(id) ==
  /\ server[id].state \in Live
  /\ \E state \in Terminal :
       server' = [server EXCEPT ![id].state = state, ![id].completed = clock]
  /\ UNCHANGED <<queryStoreVars, revision, memoryVars, clock, published, crashes>>

Tick ==
  /\ \E t \in Times : t > clock /\ clock' = t
  /\ UNCHANGED <<queryStoreVars, revision, memoryVars, server, published, crashes>>

-------------------------------------------------------------------------------
(* Poll *)

PollScopeFails ==
  /\ poll.pc = "idle"
  /\ flags' = [flags EXCEPT !.scope = FALSE, !.overviewOK = FALSE, !.detailOK = FALSE]
  /\ owed' = Parts
  /\ UNCHANGED <<queryStoreVars, revision, exported, cursor, poll, flush,
                 envVars>>

PollScope ==
  /\ poll.pc = "idle"
  /\ flags' = [flags EXCEPT !.scope = TRUE]
  /\ poll' = [IdlePoll EXCEPT !.pc = "overview"]
  /\ UNCHANGED <<queryStoreVars, revision, exported, cursor, flush, owed,
                 envVars>>

PollOverview(ok) ==
  /\ poll.pc = "overview"
  /\ flags' = [flags EXCEPT !.overviewOK = ok]
  /\ owed' = IF ok THEN owed \ {"overview"} ELSE owed \cup {"overview"}
  /\ poll' = [poll EXCEPT !.pc = "prune"]
  /\ UNCHANGED <<queryStoreVars, revision, exported, cursor, flush, envVars>>

PollPrune ==
  /\ poll.pc = "prune"
  /\ Prune(clock) /\ SaveStats
  /\ poll' = [poll EXCEPT !.pc = "list"]
  /\ UNCHANGED <<flags, exported, cursor, flush, owed, envVars>>

\* Variant: only the state flag is taken down.
PollPruneFailsHalf ==
  /\ StoreFaults /\ poll.pc = "prune"
  /\ flags' = [flags EXCEPT !.stateOK = FALSE]
  /\ poll' = IdlePoll /\ owed' = owed \cup {"details"}
  /\ UNCHANGED <<queryStoreVars, revision, exported, cursor, flush, envVars>>

PollPruneFails ==
  /\ StoreFaults
  /\ poll.pc = "prune"
  /\ flags' = [flags EXCEPT !.stateOK = FALSE, !.detailOK = FALSE]
  /\ poll' = IdlePoll
  /\ owed' = owed \cup {"details"}
  /\ UNCHANGED <<queryStoreVars, revision, exported, cursor, flush, envVars>>

PollListFails ==
  /\ poll.pc = "list"
  /\ poll' = [poll EXCEPT !.pc = "fetch", !.ok = FALSE]
  /\ UNCHANGED <<queryStoreVars, revision, flags, exported, cursor, flush,
                 owed, envVars>>

\* items[(cursor + k) % len(items)]
ItemAt(k) ==
  CHOOSE id \in Listed : Cardinality({other \in Listed : other > id})
                           = (cursor + k) % Cardinality(Listed)

\* The ids taken after n items were examined.
Wanted(n) == {id \in {ItemAt(k) : k \in 0..(n - 1)} : ~Fetch(id)}

\* The loop stops when the cycle is full or the list is through.
Examined ==
  CHOOSE n \in 0..Cardinality(Listed) :
    /\ n = Cardinality(Listed) \/ Cardinality(Wanted(n)) = MaxPerCycle
    /\ \A m \in 0..(n - 1) : Cardinality(Wanted(m)) < MaxPerCycle

\* Variant: every cycle starts at the newest query.
AdvanceNothing(n) == 0

Advance(n) == IF Listed = {} THEN cursor ELSE (cursor + n) % Cardinality(Listed)

\* Fetch reads the checkpoints one by one; a record that commits in between can
\* only make a query final, and its detail is then dropped by Record.
PollList ==
  /\ poll.pc = "list"
  /\ poll' = [poll EXCEPT !.pc = "fetch", !.todo = Wanted(Examined)]
  /\ cursor' = Advance(Examined)
  /\ UNCHANGED <<queryStoreVars, revision, flags, exported, flush, owed,
                 envVars>>

\* Fetch fails on the n-th item: the ids before it are still collected.
PollListBreaks(n) ==
  /\ StoreFaults
  /\ poll.pc = "list" /\ n \in 1..Examined
  /\ poll' = [poll EXCEPT !.pc = "fetch", !.todo = Wanted(n - 1), !.ok = FALSE]
  /\ cursor' = Advance(n)
  /\ UNCHANGED <<queryStoreVars, revision, flags, exported, flush, owed,
                 envVars>>

-------------------------------------------------------------------------------
(* A worker: FetchDetail and Record of one query *)

Detail(id) ==
  LET q == server[id]
  IN  [id |-> id, state |-> q.state, observed |-> clock,
       when |-> IF q.state \in Terminal THEN q.completed ELSE q.submitted]

\* The cycle is done with one query.
DetailLeaves(id, ok) ==
  /\ poll.pc = "fetch" /\ id \in poll.todo
  /\ poll' = [poll EXCEPT !.todo = @ \ {id}, !.ok = @ /\ ok]
  /\ UNCHANGED <<flags, exported, cursor, flush, owed, envVars>>

DetailRecorded(id) ==
  DetailLeaves(id, TRUE) /\ RecordStored(Detail(id)) /\ SaveStats

\* ErrExpired and a query that is final by now are no failure of the cycle.
DetailIgnored(id) ==
  /\ DetailLeaves(id, TRUE)
  /\ ~Refused(Detail(id)) /\ RecordIgnored(Detail(id))
  /\ UNCHANGED revision

\* ErrFull, or an I/O error.
DetailRefused(id) ==
  /\ DetailLeaves(id, FALSE)
  /\ Refused(Detail(id)) \/ StoreFaults
  /\ UNCHANGED <<queryStoreVars, revision>>

\* The server does not answer in time, or not with a valid detail.
DetailFails(id) == DetailLeaves(id, FALSE) /\ UNCHANGED <<queryStoreVars, revision>>

-------------------------------------------------------------------------------
(* The end of a cycle: read the counters, then publish them under the lock *)

FetchDone == poll.pc = "fetch" /\ poll.todo = {}

PollStats ==
  /\ FetchDone
  /\ \/ StatsValid /\ poll' = [poll EXCEPT !.pc = "report", !.stats = Snapshot]
     \/ (StoreFaults \/ ~StatsValid) /\ poll' = [poll EXCEPT !.pc = "report"]
  /\ UNCHANGED <<queryStoreVars, revision, flags, exported, cursor, flush,
                 owed, envVars>>

\* Variant: the counters are adopted in any order.
AdoptAlways(s) == exported' = IF s.ok THEN s ELSE exported

\* Only counters that are not older than the ones shown are adopted.
Adopt(s) ==
  exported' = IF s.ok /\ s.revision >= exported.revision THEN s ELSE exported

PollReport ==
  /\ poll.pc = "report"
  /\ flags' = [flags EXCEPT !.detailOK = poll.ok /\ poll.stats.ok,
                            !.stateOK = poll.stats.ok]
  /\ Adopt(poll.stats)
  /\ owed' = IF poll.ok /\ poll.stats.ok THEN owed \ {"details"}
                                         ELSE owed \cup {"details"}
  /\ poll' = IdlePoll
  /\ UNCHANGED <<queryStoreVars, revision, cursor, flush, envVars>>

-------------------------------------------------------------------------------
(* flush *)

Oldest == CHOOSE s \in flush.batch : \A t \in flush.batch : s <= t

FlushRead ==
  /\ Events /\ flush.pc = "idle"
  /\ \/ RecordsValid(BatchLimit)
        /\ flush' = [IdleFlush EXCEPT !.batch = Records(BatchLimit),
                       !.pc = IF Records(BatchLimit) = {} THEN "stats" ELSE "publish"]
     \/ (StoreFaults \/ ~RecordsValid(BatchLimit))
        /\ flush' = [IdleFlush EXCEPT !.pc = "stats", !.ok = FALSE]
  /\ UNCHANGED <<queryStoreVars, revision, flags, exported, cursor, poll,
                 owed, envVars>>

PublishOK ==
  /\ flush.pc = "publish"
  /\ published' = published \cup {Oldest}
  /\ flush' = [flush EXCEPT !.pc = "ack"]
  /\ UNCHANGED <<queryStoreVars, revision, flags, exported, cursor, poll,
                 owed, server, clock, crashes>>

\* Variant: a failed publish is acknowledged.
PublishFailsAcked(written) ==
  /\ flush.pc = "publish"
  /\ published' = IF written THEN published \cup {Oldest} ELSE published
  /\ flush' = [flush EXCEPT !.pc = "ack"]
  /\ UNCHANGED <<queryStoreVars, revision, flags, exported, cursor, poll,
                 owed, server, clock, crashes>>

\* A publish that fails may have been stored all the same.
PublishFails(written) ==
  /\ flush.pc = "publish"
  /\ published' = IF written THEN published \cup {Oldest} ELSE published
  /\ flush' = [flush EXCEPT !.pc = "stats", !.ok = FALSE]
  /\ UNCHANGED <<queryStoreVars, revision, flags, exported, cursor, poll,
                 owed, server, clock, crashes>>

FlushAck ==
  /\ flush.pc = "ack"
  /\ Ack(Oldest) /\ SaveStats
  /\ flush' = [flush EXCEPT !.batch = @ \ {Oldest},
                            !.pc = IF flush.batch = {Oldest} THEN "stats"
                                                              ELSE "publish"]
  /\ UNCHANGED <<flags, exported, cursor, poll, owed, envVars>>

FlushAckFails ==
  /\ flush.pc = "ack"
  /\ StoreFaults \/ ~ValidRecord(Oldest)
  /\ flush' = [flush EXCEPT !.pc = "stats", !.ok = FALSE]
  /\ UNCHANGED <<queryStoreVars, revision, flags, exported, cursor, poll,
                 owed, envVars>>

FlushStats ==
  /\ flush.pc = "stats"
  /\ \/ StatsValid /\ flush' = [flush EXCEPT !.pc = "report", !.stats = Snapshot]
     \/ (StoreFaults \/ ~StatsValid) /\ flush' = [flush EXCEPT !.pc = "report"]
  /\ UNCHANGED <<queryStoreVars, revision, flags, exported, cursor, poll,
                 owed, envVars>>

FlushReport ==
  /\ flush.pc = "report"
  /\ flags' = [flags EXCEPT !.publishOK = flush.ok /\ flush.stats.ok,
                            !.stateOK = flush.stats.ok]
  /\ Adopt(flush.stats)
  /\ flush' = IdleFlush
  /\ UNCHANGED <<queryStoreVars, revision, cursor, poll, owed, envVars>>

-------------------------------------------------------------------------------
(* The process *)

\* Everything in memory is lost; Open validates and prunes, New reads Stats.
CrashRestart ==
  /\ crashes < MaxCrashes
  /\ crashes' = crashes + 1
  /\ Open(clock) /\ SaveStats
  /\ flags' = StartFlags
  /\ exported' = [ok |-> TRUE, revision |-> revision',
                  completed |-> stats'.completed]
  /\ cursor' = 0
  /\ poll' = IdlePoll /\ flush' = IdleFlush
  /\ owed' = Parts
  /\ UNCHANGED <<server, clock, published>>

PollNext ==
  \/ PollScopeFails \/ PollScope \/ \E ok \in BOOLEAN : PollOverview(ok)
  \/ PollPrune \/ PollPruneFails
  \/ PollListFails \/ PollList \/ \E n \in 1..Cardinality(Queries) : PollListBreaks(n)
  \/ PollStats \/ PollReport

DetailNext(id) ==
  DetailRecorded(id) \/ DetailIgnored(id) \/ DetailRefused(id) \/ DetailFails(id)

FlushNext ==
  \/ FlushRead \/ PublishOK \/ \E written \in BOOLEAN : PublishFails(written)
  \/ FlushAck \/ FlushAckFails \/ FlushStats \/ FlushReport

EnvironmentNext == (\E id \in Queries : Submit(id) \/ Finish(id)) \/ Tick

Next ==
  \/ PollNext \/ (\E id \in Queries : DetailNext(id)) \/ FlushNext
  \/ EnvironmentNext \/ CrashRestart

SafeSpec == Init /\ [][Next]_vars

\* The goroutines are scheduled.  The poll and the publisher start again with
\* every tick; the server and Kafka answer correctly again and again.
Fairness ==
  /\ WF_vars(PollNext) /\ WF_vars(FlushNext)
  /\ SF_vars(PollScope) /\ SF_vars(PollList)
  /\ SF_vars(PublishOK)
  /\ \A id \in Queries :
       WF_vars(DetailNext(id)) /\ SF_vars(DetailRecorded(id) \/ DetailIgnored(id))

Spec == SafeSpec /\ Fairness

-------------------------------------------------------------------------------
(* Properties *)

\* The counters on /metrics never go back: the poll and the publisher read the
\* store outside the lock and may report in the other order, and a restart
\* continues with what was committed.  (Revisions beyond MaxRevision are not
\* told apart by the model.)
CountersNeverGoBack ==
  [][exported'.revision < MaxRevision =>
       \A t \in Terminal : exported'.completed[t] >= exported.completed[t]]_vars

\* Once the overview or the details of a poll have failed, the query path is not ready
\* before a later poll has collected that part, whatever the publisher writes to the
\* shared flags in between.  (Each part has its own poll: with good details of the
\* cycle before, the overview alone makes the path ready in the middle of a cycle.)
FailedPollUnready == owed # {} => ~Ready

\* An event leaves the store only after Kafka has it.
PublishedBeforeRemoved ==
  \A s \in 1..sequence : s \in DOMAIN events \/ s \in published

\* Every query that finishes is counted in the end, or has passed the retention:
\* the cursor reaches it although others keep running and keep being fetched,
\* and although the outbox was full or an answer came late.
EveryFinishIsCounted ==
  \A id \in Queries :
    server[id].state \in Terminal ~>
      (Fetch(id) \/ server[id].completed < stats.floor)
===============================================================================
