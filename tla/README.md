# Dell DDAE metrics exporter: specification and proofs

The exporter polls a Dell DDAE appliance, keeps what it must not lose in bbolt
files, publishes events to Kafka and shows gauges and readiness over HTTP. The
modules here model its state-keeping core: the alert path and the serviceability
log path (poll, queue, publisher), the query path (poll, query store, publisher,
web session), the history backfill, the DDAE client's token, and the life of the
process. TLC checks small instances; TLAPS proves every safety property that the
passing runs check for every instance.

## 1. Inventory

| Component (source) | State | Operations | Hard behaviour | Correct when |
|---|---|---|---|---|
| Alert outbox (`internal/outbox`) | records by sequence, a checkpoint per alert, counters, limits | Enqueue, MarkSeen, Acknowledge, ReconcileListed, Health, Open | two clients, de-duplication against delivered and pending content, limits, deletion after retention, restart | never calls itself corrupt, counters exact, no change hidden |
| Alert pipeline (`internal/alerts`) | waiting order and refresh turn; one cycle's tasks | poll: list, classify, select, fetch, reconcile, report | workers and deadline, stale details, starvation, partial failure | a ready pipeline has collected its list, nobody starves |
| Alert publisher (`internal/kafka`) | recovery latch | flush: read, publish, acknowledge, report | crash between confirmation and acknowledgement, uncertain publish, shared gauges | order kept, nothing lost, errors not hidden |
| Snapshot (`internal/snapshot`) | readiness flags, gauges, collector results | setters, view | written by several goroutines from old readings | gauges and readiness converge |
| Serviceability log store (`internal/logstate`) | as the outbox; markers are ordered | as the outbox | two writers, older details, a full report from a stale count | a log is never set back, a checkpoint never claims a version it has not stored |
| Serviceability log pipeline and publisher (`internal/serviceability`, `internal/logpublisher`) | as the alert path | as the alert path | truncated lists beside a backfill, answers that are one version old | as the alert path |
| Query store (`internal/querystate`) | events, checkpoints, completed counters, retention floor | Record, Ack, Prune, Fetch, Records, Stats, Open | answers out of order from two clients, clock set back, full outbox | each query counted once, with its event |
| Query pipeline (`internal/queries`) | cursor, flags, exported counters | Poll, flush | poll and flush report concurrently | counters never go back, failures visible, every finish counted |
| Query client session (`internal/queryclient`) | cookie jar, generation, mutex | get, authenticate | concurrent 401s, a login that fails after its cookie, a mutex held over requests | logins only for expired sessions |
| History backfill (`internal/historyscan`, `historystate`) | durable windows, page, pending items, last completed time | Poll: open window, list, split, batch, acknowledge | crash between two transactions, items created during the walk, budgets, expiry | nothing in the walked interval skipped, the walk ends |
| DDAE client and token (`internal/ddae`) | token, generation, refresh under way | get, request, getJSONRawPath | single flight, followers, rejected generation, retries beside the repetition after 401 | renewals justified, no rejected token repeated, every call ends |
| Process (`internal/app`, `cmd/ddae-exporter`) | what is open, which workers run | New, Run | failure at any stage, workers that outlive the grace period, a call waiting for a mutex | nothing left open, nothing closed under a worker, Run returns |
| Collectors (`internal/collector`) | last result per collector | scheduled cycles | freshness by time | not modelled |
| Configuration, event encoding, metrics, server, logging, tooling | none of their own | | | not modelled |

How they interact: each path has a poll goroutine and a publisher goroutine over
one bbolt file; every operation on a file is one transaction. The backfill
records into the query store and the log store beside the polls and keeps its
own file. Pipelines and publishers write flags and gauges into the snapshot (or,
for queries, into fields under a mutex); the HTTP server reads them. The DDAE
paths share one client and its token; the queries have a client with a web
session of its own. All goroutines are started by `App.Run` and stop with its
context, or with the process.

`PROJECT.json` lists the hazards of this code with the properties that cover them.

## 2. Modules

| Module | Models | Notes |
|---|---|---|
| `Outbox` | `outbox.Store`: one operator per transaction | operators only, shared by the next rows |
| `OutboxStore`, `MCOutboxStore` | the store under any interleaving of its clients | history: last observed and last acknowledged content |
| `OutboxLemmas` | lemmas about the transactions of `Outbox` | used by the proofs of the store and of both delivery paths |
| `FairSelection` | `selectFair`, the same function in both pipelines | sorted slices become ranks |
| `DetailTurns` | cycle after cycle of `selectFair` against any alert list | |
| `DetailTurnsProofs` | theorems about `DetailTurns` | section 5 |
| `AlertDiagnostics` | the alert setters of the snapshot | |
| `AlertPipeline` | `poll` and `fetchDetails`, one action per step that another goroutine can see | extends `Outbox`, instantiates `FairSelection` |
| `KafkaPublisher` | `flush` | the topic is external |
| `AlertDelivery`, `MCAlertDelivery` | server, pipeline, publisher, store, crash | refines `Delivery` |
| `AlertProofs` | theorems about `OutboxStore` and `AlertDelivery` | section 5 |
| `Delivery` | abstract: the topic is a growing prefix of what was accepted | |
| `AlertRetention`, `MCAlertRetention` | `AlertDelivery` with the time each alert was last listed | for the documented retention |
| `QueryState` | `querystate.Store`: one operator per transaction | |
| `QueryStore`, `MCQueryStore` | the store under any interleaving of poll, publisher, backfill and restart | history: how often each query was counted |
| `QueryPipeline`, `MCQueryPipeline` | `Poll` and `flush` of the query path, crash | |
| `QueryProofs` | theorems about `QueryStore` and `QueryPipeline` | section 5 |
| `HistoryScan` | the backfill's `cycle` over its durable progress | |
| `HistoryScanProofs` | theorems about `HistoryScan` | section 5 |
| `LogState` | `logstate.Store`: one operator per transaction | extends `Outbox`, which has the same file layout |
| `LogDiagnostics` | the log setters of the snapshot | |
| `LogPipeline` | the log path's `poll` and `fetchDetails`, and a backfill worker's `Record` | extends `LogState`, instantiates `FairSelection` |
| `LogPublisher` | `flush` of the log path | |
| `LogDelivery`, `MCLogDelivery` | server, poll, backfill, publisher, store, crash | refines `Delivery` |
| `LogDeliveryProofs` | theorems about `LogDelivery` | section 5 |
| `TokenManager` | `tokenManager.get` and the calls of the DDAE client | |
| `TokenManagerProofs` | theorems about `TokenManager` | section 5 |
| `QuerySession` | `queryclient.Client.get` and `authenticate` | operators; run as a part of `Lifecycle` |
| `Lifecycle`, `MCLifecycle` | `app.New`, `App.Run`, the workers, the query calls | extends `QuerySession` |
| `LifecycleProofs` | theorems about `Lifecycle` and the logins of `QuerySession` | section 5 |

The correspondence of definitions and source lines is the `map` of
`PROJECT.json`. Conventions: an operator named like a function models it; a
definition whose comment begins with `Variant:` is a plausible bug used to test
that a property can fail, and no specification uses it. A transaction is one
step. A goroutine's step runs from one shared access (store, server, topic,
flags) to the next. Reading a value and using it later are separate steps
wherever another goroutine may act in between.

Data that is abstracted: an alert's content is a member of `Hashes`, an encoded
size is a number per content, an observation of a query is its state and the
time that decides about retention, `updatedOn` is a marker. JSON, hashing, TLS,
URL handling, file permissions, schema migration and log lines are left out.
bbolt is taken as a store with serialisable, durable, atomic transactions.

Choices that are not obvious:

* *Alert pipeline.* A worker requests a detail, receives a content that may be
  old by the time it is stored, and enqueues it; the deadline may drop tasks and
  fail requests under way at any time. The poll reads `Health` in one step and
  writes the gauges in others, as does the publisher.
* *Publisher.* A failed publish may or may not have reached the topic. `topic`
  is the sequence in which Kafka first stored or repeated records; refining
  `Delivery` maps an immediate repetition to a stuttering step.
* *Query store.* What the server will say about a query is fixed per instance
  (submission, completion, outcome); an observation may carry the time
  `completed_at` although its state is not terminal, as decoding allows.
* *Query pipeline.* The workers of a cycle fetch different queries and meet only
  in the store, so a request and its `Record` are one step. Answers that cross
  those of the backfill are covered in `QueryStore`. The revision of the
  counters saturates at `MaxRevision`. `owed` remembers the parts of a poll,
  overview and details, that failed and have not succeeded since.
* *Backfill.* Time is counted in ticks, `Second` per second, so that an item can
  be created in a second that was already listed. The recorded items are a set.
  The retention floor of the event store may be older than the retention says
  (the foreground poll moves it), so `RecordOK` is always possible and
  `RecordExpired` only beyond the retention. A sweep after a long pause starts
  after what was walked and leaves a gap; `since` then starts again, as the recovery is bounded
  by its lookback.
* *Log path.* A log has a version (`updatedOn`) and a content. A detail request
  may be answered with the version before the current one, at any time until it
  is stored. The list entry of a version and its detail may each lack a usable
  `updatedOn`, independently of the other; each one that does counts as an upset.
  A detail without one is stored under the list's marker (`DetailMarker`), also an
  old one: the false claim this makes lasts until the next refresh, and
  `MarkersTellTheTruth` is about logs whose details are dated. `options` fixes per
  behaviour whether the backfill is enabled. The marker of a checkpoint is
  compared only when both are usable (`OlderMarker`). `LogReconcileFull` is the
  count before the deletions of its transaction: bbolt's `Bucket.Stats` walks
  committed pages. Enqueue and MarkSeen of a new log read the same statistics,
  but have deleted nothing before. A clock step of the whole retention happens
  only between cycles, as a cycle is far shorter.
* *Token.* The token is its generation. The server rejects exactly what it has
  revoked; a token whose `refreshAt` has passed is `due`, at any time, which
  covers any `expires_in`. `gets` and `posts` count the requests that did not
  end the call.
* *Session.* A cookie is the number of the session the server opened. The request
  takes the cookie from the jar when it is sent, later than it reads the
  generation. The mutex is held during the whole login and waited for without
  a context, so `ReadGeneration` and `Authenticate` need `holder = NoCaller`.
* *Process.* A stage of `New` is one step. `Stages` lists what `New` does in its
  order; `Plan` has those of them that the configuration asks for and that are left. `Uses` says on which resources a
  worker works. A worker stops some time after the cancellation, or never; the
  query worker only when its calls have ended. `GraceOver` is the select's choice
  when both channels are ready, too: a `Shutdown` that uses up the grace period
  can make `Run` return without closing although all workers have stopped.

## 3. Runs

| Run | Instance | Question |
|---|---|---|
| `outbox_store` | 3 alerts, 2 contents, 3 records, 5 bytes, 2 checkpoints, clock readings in any order, 4 inserts, symmetric | Is the file valid, are the counters exact and the limits kept, does the topic end with the last observation, and is nothing unchanged sent again, under any interleaving? |
| `detail_turns` | 3 ids, limits 1 and 2, any classes and fetch times in every cycle | Does anybody starve, is a slot wasted? The state is finite without a bound. |
| `alert_delivery_faults` | two instances in one (`TwoAlertsOrOne`): 2 alerts and 2 workers; or 1 alert that changes, with failing transactions and publishes, 1 crash | Order and completeness on the topic; is a failure ever hidden, an uncollected list reported as collected? |
| `alert_delivery_liveness` | 1 alert, 2 changes, room for 1 record and 1 checkpoint, 1 crash | Is everything accepted delivered, does the topic converge to the server, do the gauges converge? |
| `alert_retention` | 1 alert | Violation: see Findings. |
| `query_store` | 2 queries (one longer than the retention), clock readings in any order, 4 inserts, limits of 2 events and 3 bytes | Is each query counted once and with its event, is the terminal event the last, is the file valid and within its limits? |
| `query_pipeline` | 1 query, failing transactions, expiry, 1 crash, 6 revisions | Do counters go back, is the path ever ready, in mid-cycle too, while a failed overview or failed details have not been collected again, is an event removed unpublished? |
| `query_pipeline_liveness` | 2 queries, 1 detail per cycle, room for 1 event | Is every finished query counted in the end? |
| `history_scan` | 2 items, pages of 2, 2 workers, 1 page and 2 details per cycle, lookbacks of 2 and 3 seconds, an overlap that is not a full second, failing requests and transactions, 1 crash with another lookback | Is an item of the walked interval ever skipped, is a failed one forgotten, does a walk end? |
| `log_delivery` | 1 log with 2 versions, backfill enabled, room for 2 records, 1 upset (failing transaction, expiry, crash, or a list entry or detail without a usable `updatedOn`), contents symmetric | Can poll and backfill set a log back or hide a change, is the order kept, is an uncollected list reported as collected? |
| `token_manager` | 2 callers, 1 retry, 2 upsets (revoked or due tokens) | Are renewals shared and justified, is a rejected token repeated, are requests bounded, does every call end? |
| `process` | all parts with 1 query caller, queries alone with 2, the other parts on their own; 2 sessions, 1 retry | Is anything left open after a failed start, closed under a worker or a call; does `Run` return; are logins needed? |

Types are checked where a bug of the code could break them (a queue beyond its
limit, a checkpoint that does not match its queue). In the proofs a type is the
first part of every inductive invariant.

Bounds: `MaxSequence`, `MaxVersion`, `MaxTime` and `Times`, `MaxCrashes`,
`MaxRevision`, `MaxUpsets`, `MaxSessions` bound the instances. They are above
what the interesting cases need: de-duplication needs three contents in a row
(A, B, A: three inserts, in `outbox_store`), the limits are below the number of
inserts, expiry needs one clock reading beyond the retention, reordered reports
need two revisions between them, a page split needs more items than are left of
a page after a failure, an item behind the list request needs half a second, a
sweep that starts after what was walked needs a pause of three ticks after the
first walk (`history_scan` has four clock readings), and a log that is set back needs two versions and two writers, and one that overtakes another needs room for two records. One upset leaves out the meeting of two: an undated log beside a crash or an expiry is only in the proofs.
`Explored` is a CONSTRAINT of `log_delivery`. It leaves out the disabled backfill,
whose behaviours are among those of an idle one, and, once a list entry or a detail
was undated or the retention has passed, a publisher in the middle of a poll cycle;
the proofs have both. One crash reaches every
step in which a crash can fall; a second one starts from a file that a first one
could also have left. `TwoAlertsOrOne` is a CONSTRAINT: its two cases together
are the states explored, and what lies outside (two alerts, several changes and
faults at once) is not.
Two sessions and two callers are enough for a login that finds a session another
call has just opened, and for one whose session dies again.

`DetailTurns` states the bound of the waiting time itself: fewer cycles than ids
with two slots or more; with one slot twice as many, counted from the cycle in which
the id last fell back from new to refresh. The instance shows that both are enough.

Fairness: the goroutines are scheduled (weak fairness of the program's steps).
Tickers start cycles for ever, so what can fail is retried for ever, and the good
answer of a server, broker or store that is possible again and again is given in
the end (strong fairness). Nothing is assumed of the order of goroutines, of
crashes, or of failures in between. In `alert_delivery_liveness` the alerts stop
changing because their number of changes is bounded; in
`query_pipeline_liveness` so do arrivals. (With arrivals in lockstep with the
cursor, each cycle could meet the same running query again; the property is
stated for a list that stops growing.) `history_scan` lets the clock run to its
bound and then lets cycles repeat; of the items of a batch, some one is dispatched,
recorded and acknowledged when that is possible again and again, not each. `token_manager` assumes that goroutines run
and that requests end, as `requestTimeout` makes them; no caller's context has to
end. `process` assumes the main goroutine and the clock, nothing of workers, so
`RunReturns` holds also for workers that hang. It is checked without the
deadlock check, because the process really ends.

## 4. Findings

`alert_retention`: SPECIFICATION.md:545 says that a checkpoint's last hash is
kept for the retention *after an alert disappears*. `ReconcileListed`
(`internal/outbox/store.go:362-373`) counts from `AbsentSince`, which is not
cleared when the alert is listed again but its detail is not stored in that
cycle. The alert's next disappearance then deletes the checkpoint at once. The
consequence is a repeated event of unchanged content when the alert returns;
nothing is lost (`ConsumerConverges` holds all the same).

Two more places where the code keeps less than the documents say were met on the
way. They bound what the properties above can claim, and have no run of their own:

* SPECIFICATION.md:470 says that no listed id may starve. With
  one detail per cycle the slot alternates between new and refresh. An id whose
  list entry has a usable new `updatedOn` in each refresh turn and none in each new
  turn (`alerts/pipeline.go:124-137`), while others wait in both classes, is never
  attempted. `BoundedWaiting` counts
  from its last fall back to refresh; with two slots or more no id starves.
* SPECIFICATION.md:3593 asks that an older detail does not overwrite a newer
  checkpoint and that no order is made up for one without a source time. A
  detail without `updatedOn` is stored under the list's marker
  (`serviceability/pipeline.go:339-344`); an old one hides the change from the polls
  until the next refresh.

## 5. Proofs

Every theorem holds for all values of the constants that satisfy the named
assumptions of the modules it extends: limits, budgets, retention and sizes are
positive, the values that stand for "none" are no values, and the configuration is
one that the program accepts. The bounds of the instances (`MaxSequence`,
`MaxVersion`, `MaxTime`, `MaxRevision`, `MaxUpsets`, `MaxCrashes`) may be any
numbers, so a theorem loses no behaviour to them. `PROJECT.json` lists the
theorems with the properties they state. Each component has an inductive
invariant that is proved first (`Init => IInv`, one lemma per kind of step, and
temporal logic), and the rest is derived from it. A store and its path share a
proof module; the store's specification is `OutboxSpec` or `QuerySpec`, with its
invariant `OutboxInv` or `QueryInv`.

### The alert outbox: `OutboxLemmas`, `AlertProofs`

Of `OutboxStore!OutboxSpec`: `TypeCorrect`, `StoreNeverCorrupt`, `CountersExact`,
`LimitsHold`, `ConsumerHasLatest` (each `OutboxSpec => []...`) and
`EventsAreChanges` (`NoRepeatedEvent`, an action property). The properties are not inductive.
`FileOK`, in `OutboxLemmas`, has what they rest on:

* `FiniteBuckets` and `HasNewest`: the buckets are finite and an alert with
  queued records has a newest one (`GreatestExists`), so that byte counts are
  cardinalities of finite sets and "the newest record" is defined;
* `StateValid`: the file passes the store's own validation. In particular the
  pending hash of a checkpoint is that of the newest queued record of its alert,
  or none, and a queued record has a checkpoint;
* `MetaExact` and `WithinLimits`: counters and limits.

Each transaction keeps `FileOK`, whoever calls it (`EnqueueNewFile`,
`AcknowledgeFile`, `ReconcileFile` and their neighbours); the proofs of both
delivery paths use the same lemmas. They follow from what one insert or one
removal of the oldest record changes (`InsertQueue`, `InsertBytes`,
`RemoveQueue`, `RemoveBytes`) and from what writing one checkpoint changes
(`PutEffect`, `CheckpointFile`). `OutboxInv` adds `DeliveredIsAcked`: the
delivered hash of a checkpoint is the content last acknowledged. `Enqueue` drops
an observation that equals the delivered hash, so `ConsumerConverges` depends on
it. `EventsAreChanges` needs the converse for alerts that were fetched
(`FetchedIsAcked`): a drained checkpoint has the content acknowledged last, and not
an older one or none. A checkpoint that `MarkSeen` alone made does not, as the one
before it may have been deleted after the retention.

### The alert path: `AlertProofs`

Of `AlertDelivery!SafeSpec`: `FileStaysValid`, `AcknowledgeSucceeds` (the record
a flush acknowledges is still the oldest and valid), `NoEarlyRecovery`
(`RecoveryKeepsUnready`), `CollectedWhenReady` (`ReadyMeansCollected`) and
`DeliveryInOrder`: every step is a step of `Delivery` or a stutter. Beside a part
for each module's variables, `IInv` relates them:

* `InOrder(k)`: records 1..k are acknowledged, the others queued, and the topic
  shows the first k or k + 1. A crash between the broker's confirmation and the
  acknowledgement leaves k + 1; the next flush repeats just that record, which is
  why the refinement holds;
* `Accounted`: while the cycle has not failed, every listed alert waits for its
  classification or its detail, was put off, or is stored, and a failure that the
  poll has noticed is in its flags or already in the snapshot. Ready flags at the end
  of the cycle then mean that nothing is left but what was put off;
* `FlagsAgree`: the recovery latch and the publisher's flag in the snapshot.

### The log path: `LogDeliveryProofs`

Of `LogDelivery!Spec`: `TypeCorrect` (types, a valid file and its limits),
`VersionsNeverGoBack` (`NeverSetBack`), `MarkersAreTrue` (`MarkersTellTheTruth`),
`AcknowledgeSucceeds`, `CollectedWhenReady` and `DeliveryInOrder`, with poll and
backfill writing the same file. `InOrder` is as above. In `Accounted`, a log is
collected when Enqueue took its detail in this cycle or when it is up to date
(`UpToDate`: as new as the list says and not due). What is up to date stays so
although the backfill writes beside the cycle, as it only writes what is newer, and
just now (`UpToDateStays`). `Fetched` says that every checkpoint has been fetched:
MarkSeen meets only logs that Enqueue has stored.

`VersionsNeverGoBack` is about logs whose list entries and details all carried a
usable `updatedOn` so far (`Timed`): an entry without one makes MarkSeen forget the
marker. `MarkersAreTrue` asks it of the details only (`Dated`). The two properties
need

* `Truthful`, with `AnswersGenuine`: an answer under way is never ahead of the
  server, and with the server's version it has the server's content and marker; so a
  dated checkpoint that carries the current marker belongs to an accepted record of
  the current content;
* `Upward`: no accepted version of a log is above its checkpoint's marker. That is
  what `OlderMarker` compares against, but only while there is a checkpoint. When
  the checkpoint was deleted after the retention, nothing in the file guards the
  log. What does is that the log was gone from the server, and that no answer
  from before the deletion is still under way (`LongAbsent`, `Unlisted`): it rests
  on the clock not moving by a whole retention during a cycle, as section 2 says.

### The query path: `QueryProofs`

Of `QueryStore!QuerySpec`, for any queries and server facts,
any limits and retention, any clock and order of observations:
`QueryTypeCorrect`, `QueryFileNeverCorrupt`, `EachQueryCountedOnce`,
`CountedIffQueued` (each `QuerySpec => []...`) and `NothingAfterTerminal` (an action
property). The assumptions are those named in `QueryState` and `QueryStore`: what
the server says of a query is fixed, it completes no earlier than it was submitted,
limits and sizes are positive, the set of queries is finite. `QueryInv` adds

* `LockedOrExpired`: a query that was counted is locked by a final checkpoint, or
  the floor has passed the time it completed. Since the floor never moves back
  (`Floor`), a pruned query can never be accepted again, whatever the clock does;
  with `CheckpointsOK` (a checkpoint is final exactly when its hash is that of a
  terminal content, and then the query was counted) this gives `NotCounted`: an
  observation that is accepted is about a query that was never counted;
* `QueuedCounted`: what is queued as terminal, or was acknowledged, was counted.

`Appended` and `Removed` say what one insert and one removal do to the events and
their bytes, `RecordEvents` what a record does to events and counters;
`RecordStep`, `PruneStep` (also a restart) and `AckStep` keep the invariant.

Of `QueryPipeline!SafeSpec`: `FileStaysValid`,
`CycleBounded` (the round-robin loop takes listed queries, at most the configured
number), `NoEarlyRecovery` (`FailedPollUnready`), `PublishedFirst`
(`PublishedBeforeRemoved`), `BatchNotStale` (the record a flush acknowledges is
still queued) and `CountersMonotone` (`CountersNeverGoBack`). Poll and flush read
`Stats` outside the pipeline's mutex and report in either order. `report` keeps
the snapshot with the later revision, so the invariant (`SnapshotsOK`) is about
all snapshots that are shown or held: each is behind the store (`Behind`), and of
any two the one with the later revision has the higher counters (`Ordered`).
`NoEarlyRecovery` follows from `FlagFollowsPoll`: the flag of a part is up only when
the part is not owed, and only the poll writes these two flags; `stateOK`, which the
publisher writes too, could not carry it. Where
the loop over the cursor stops is shown from the least element of a set of
numbers (`LeastExists`). Exact byte counts and limits of the file are left to
`QueryInv`, which has them for any interleaving of the store's callers.

### The backfill: `HistoryScanProofs`

Of `HistoryScan!SafeSpec`: `ProgressValid` (`TypeOK`), `WalkSkipsNothing`
(`NothingSkipped`), `WorkIsAccounted` and `PendingUntilDone`
(`PendingUntilRecorded`). `NothingSkipped` speaks of a walk that has ended, and is
not inductive: what a walk will have recorded in the end depends on what it still
has to do. `IInv` adds

* `Accounted`: each item of the open interval is recorded, pending, or in a window
  that is still to be listed. Listing a page moves items from the third case to
  the second (`PageStep`), a split replaces a window by two that cover it
  (`SplitStep`, `MiddleInside`), an acknowledged batch moves items to the first
  (`AckStep`);
* `IntervalsOK`: an interval ends less than a second after the clock at which it
  was opened, and goes beyond the last one. The end is rounded up, so the last
  second is still being filled while it is walked; the property leaves it out
  (`end - Second`), and the next interval, which starts at least an overlap
  earlier (`SinceOK`), has it;
* `ProgressOK`: the record is one that the store accepts.

### The token: `TokenManagerProofs`

`TokenManagerProofs` proves of `TokenManager!Spec`, for any set of callers, any
retry limit and any number of upsets: `TokenTypeCorrect`, `RenewalsAreNeeded`,
`RetriesAreNewer` and `RequestsAreBounded` (each `Spec => []...`), from the three
named assumptions of `TokenManager`. The invariant adds

* `RenewalJustified`: while a renewal is under way the stored token is none,
  revoked or due, so the generation it replaces was of no use. It needs
  `HoldsStored`, that a rejected generation was revoked and never newer than the
  stored one, which makes a caller that is not served (`NotServed`) prove that
  the stored token is the rejected one;
* `GoesOnNewer`: also the result a follower has not yet picked up is newer than
  what it saw rejected, as the leader's renewal ended after the follower joined;
* `GetsCharged` and `PostsCharged`: every failed GET is charged to an attempt, a
  pause or the one rejection, every failed POST to the renewal before or after
  the rejection; `RetryLeft` bounds the open pause.

There is one lemma per kind of step (a call that changes alone, the end of a
renewal for leader and followers, an upset), and `NextInv` splits `Next`.

### The selection of details: `DetailTurnsProofs`

Of `DetailTurns!Spec`, for any finite set of ids, any limit and any list in every
cycle: `NobodyStarves` (`Spec => []BoundedWaiting`) and `EverySlotUsed`
(`Spec => FillsTheCycle`, an action property).

The sorted slices of `selectFair` are ranks in the model, so the first lemmas are
about them. The comparison of `order()` is a strict total order, whoever waits
(`BeforeIsTotal`); hence the ranks of n ids are the numbers below n
(`RanksAreNumbers`, by counting), a slice of the first k has k ids
(`FirstHasMany`), and whoever is taken was ahead of whoever is left
(`TakenWereAhead`). `quota()` gives out `min(maxPerCycle, listed)` slots and no class
more than it has (`QuotaFills`); of several slots each class that waits gets one
(`QuotaServesBoth`), a single one goes to the class whose turn it is
(`QuotaTakesTurns`). `EverySlotUsed` follows.

That nobody starves needs an invariant over the cycles (`WaitBounded`): the cycles
an id has waited and the place at which it waits add up to less than the number of
ids. An id is put off for the first time behind fewer than all of them, as one was
taken. After that nobody gets in ahead of it (`PlaceStep`), and in every cycle in
which its class has a slot, somebody ahead of it is taken and goes to the back
(`ClassMoves`). With one slot the classes take turns, so a cycle may pass in which
nobody ahead is taken; `TurnsLost` counts the cycles until the next one that helps,
and the sum with twice the place never grows. An id that
becomes new in the meantime loses no turn by it, as the slot that was to come for
refreshes is followed by one for new ids; one that falls back from new to refresh
may lose a turn each time, so with one slot `waited` starts again there. With two
slots or more each class that waits has a slot in every cycle, and changes of class
do not matter. Section 3's instance shows the same bounds.

### The process and its logins: `LifecycleProofs`

Of `Lifecycle!ProcessSpec`, for any set of callers, retry limit, number of sessions
and set of accepted configurations: `LoginsAreRare` (`LoginsAreNeeded`),
`FailedStartIsClean` (`FailedStartLeavesNothingOpen`) and `NothingClosedInUse`
(`StoppedBeforeClosed`).

*Logins.* `LoginsAreNeeded` compares two counts and is not inductive. The invariant
(`SessionInv`) names the session m of the last completed login: as many sessions
below m are expired as logins were completed before it (`LastLogin`), and a call
that knows of this login, because it read the present generation, has sent its
request with m or a newer session (`SentSince`). A call reads the generation before
the cookie, and not the other way round, which is what makes this true. When a
login ends, its caller was rejected with an expired session that is not below m,
so one more is expired below the new one (`LoginStep`). A login that fails after its
cookie was set leaves a newer session and no count, and m stays.

*Resources.* While `New` runs, exactly the resources of the stages it has been
through are open (`ProcessInv`). What a failing stage closes covers all that earlier
stages may have opened, in every configuration (`CleanupCovers`); when no stage is
left, every worker of the configuration has what it works on
(`WorkersHaveTheirs`, which needs that a backfill is enabled only with its
pipeline); the closing order names everything that `New` opens (`CloseCovers`).
Nothing is closed before `running` is empty, and a query call under way keeps the
query worker in `running`.

### Only model-checked

The liveness properties (`RunReturns`, and what is delivered, counted, converged or
walked *in the end*): TLAPS has no rules for fairness and `ENABLED`. The run of the
finding, where TLC's counterexample is the result.

## 6. Not modelled, and the plan

Left out for good: configuration parsing, event encoding, metrics descriptions,
the HTTP server, logging, TLS, tooling. `PROJECT.json` gives the reason for each.
The resource collectors keep nothing but time stamps: whether readiness flickers
depends on durations (`config.go:242` asks only that `DDAE_STALE_AFTER` exceeds
the interval), which the untimed models do not have. A call of the query client
whose neighbour's fresh session dies before it is used ends without a login
(`queryclient/client.go:259`): the model has this behaviour, and it is a hazard
without a property, since the next call logs in.

What could follow: `HistoryScan` over `QueryState` as its event store, with the
readiness of its `Poll`; and a timed model of the collectors' freshness.
