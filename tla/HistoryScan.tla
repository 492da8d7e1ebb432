------------------------------ MODULE HistoryScan ------------------------------
(***************************************************************************)
(* The history backfill (internal/historyscan/scan.go) over its progress   *)
(* store (internal/historystate): a worker walks a time window of the      *)
(* server's history page by page, splits a page that is full, hands every  *)
(* listed item to the event store and remembers in one durable record how  *)
(* far it came.  Workers of a batch, timeouts, failing requests and        *)
(* transactions, and a process that can stop at any step.                  *)
(*                                                                         *)
(* Time is counted in ticks, Second of them per second, so that an item    *)
(* can be created inside a second that was listed already.  The server     *)
(* shows an item from the tick of its creation on; the event store is a    *)
(* set of recorded items (QueryState and Outbox model event stores).       *)
(***************************************************************************)
EXTENDS Integers, FiniteSets, Sequences

CONSTANTS
  Items,            \* history items; the server lists them in their order
  Second, StartTime,
  Oldest,           \* when an item that is there at the start was created
  Lookbacks,        \* configured lookback; a restart may change it
  Overlap, RescanInterval, Retention,
  PageLimit,        \* a page with fewer items is complete
  MaxPages, DetailMax, Concurrency, MaxPending,
  MaxTime, MaxCrashes      \* bounds: clock, restarts

\* The checks of loadBackfill; 0 is the zero time.
ASSUME BackfillAssumption ==
  /\ Items \subseteq Nat /\ IsFiniteSet(Items)
  /\ Second \in Nat \ {0} /\ StartTime \in Nat /\ Retention \in Nat
  /\ Oldest \in 1..StartTime
  /\ Lookbacks \subseteq 1..Retention /\ Retention + Second <= StartTime
  /\ Overlap \in Nat /\ Overlap >= Second
  /\ \A l \in Lookbacks : Overlap <= l /\ RescanInterval <= l
  /\ RescanInterval \in Nat \ {0} /\ PageLimit \in Nat \ {0}
  /\ MaxPages \in Nat \ {0} /\ DetailMax \in Nat \ {0}
  /\ Concurrency \in 1..DetailMax /\ MaxPending \in Nat \ {0}

ASSUME BackfillBoundAssumption == MaxTime \in Nat /\ MaxCrashes \in Nat

VARIABLES
  now, created,  \* the clock, and when each item was created (0: not yet)
  progress,      \* the durable Progress
  recorded,      \* items whose event is committed
  lookback,      \* the configuration of this process
  cycle,         \* the local state of Poll and cycle
  batch,         \* the items of the batch, by what happened to them
  since,         \* history: start of the interval walked without a gap
  crashes

envVars == <<now, created, crashes>>
vars == <<envVars, progress, recorded, lookback, cycle, batch, since>>

Window == [from : Nat, to : Nat]

NoPage == [from |-> 0, to |-> 0]

EmptyProgress == [lookback |-> 0, end |-> 0, lastCompleted |-> 0, lastSweep |-> 0,
                  windows |-> <<>>, pending |-> {}, page |-> NoPage, block |-> ""]

IdleCycle == [pc |-> "idle", now |-> 0, details |-> 0, pages |-> 0]

Init ==
  /\ now = StartTime /\ created \in [Items -> {0, Oldest}] /\ crashes = 0
  /\ progress = EmptyProgress /\ recorded = {} /\ lookback \in Lookbacks
  /\ cycle = IdleCycle /\ batch = [i \in {} |-> i] /\ since = 0

Truncate(t) == t - (t % Second)

\* time.Add(Second - 1ns).Truncate(Second)
RoundUp(t) == Truncate(t + Second - 1)

Smaller(a, b) == IF a < b THEN a ELSE b

-------------------------------------------------------------------------------
(* Environment *)

Create(i) ==
  /\ created[i] = 0
  /\ created' = [created EXCEPT ![i] = now]
  /\ UNCHANGED <<now, crashes, progress, recorded, lookback, cycle, batch, since>>

Tick ==
  /\ now < MaxTime
  /\ now' = now + 1
  /\ UNCHANGED <<created, crashes, progress, recorded, lookback, cycle, batch, since>>

\* The server rounds the window outwards and includes both ends.
Listed(window) ==
  {i \in Items : /\ created[i] # 0
                 /\ created[i] >= Truncate(window.from)
                 /\ created[i] <= RoundUp(window.to)}

Complete(window) == Cardinality(Listed(window)) < PageLimit

-------------------------------------------------------------------------------
(* The start of a cycle: one transaction *)

\* A changed lookback starts all over.
Reset(p) == IF p.lookback = lookback THEN p
            ELSE [EmptyProgress EXCEPT !.lookback = lookback]

NothingOpen(p) == p.windows = <<>> /\ p.pending = {} /\ p.page = NoPage

SweepDue(p) == p.lastCompleted = 0 \/ now - p.lastSweep >= RescanInterval

\* Variant: the next window starts where the last one ended.
WindowStartNoOverlap(p) ==
  IF SweepDue(p) THEN Truncate(now - lookback) ELSE p.lastCompleted

WindowStart(p) ==
  IF SweepDue(p) THEN Truncate(now - lookback) ELSE p.lastCompleted - Overlap

\* Variant: every cycle opens a window, also over unfinished work.
OpenWindowAlways(p) ==
  [p EXCEPT !.end = RoundUp(now), !.pending = {}, !.page = NoPage,
            !.windows = <<[from |-> WindowStart(p), to |-> RoundUp(now)]>>]

OpenWindow(p) ==
  LET end == RoundUp(now)
      swept == IF SweepDue(p) THEN [p EXCEPT !.lastSweep = end] ELSE p
  IN  IF p.block # "" \/ ~NothingOpen(p) THEN p
      ELSE IF end <= p.lastCompleted THEN swept
      ELSE [swept EXCEPT !.end = end,
                         !.windows = <<[from |-> WindowStart(p), to |-> end]>>]

\* A sweep that starts after what was walked leaves a gap behind: the walked
\* interval starts again with it.
SinceAfter(p) ==
  IF p.block = "" /\ NothingOpen(p) /\ SweepDue(p) /\ RoundUp(now) > p.lastCompleted
     /\ (p.lastCompleted = 0 \/ WindowStart(p) > p.lastCompleted - Overlap)
  THEN Truncate(now - lookback) ELSE since

\* Two cycles are at least Interval apart; at the bound of the clock they go on.
CycleStarts ==
  /\ cycle.pc = "idle" /\ (now > cycle.now \/ now = MaxTime)
  /\ cycle' = [IdleCycle EXCEPT !.pc = "loop", !.now = now]
  /\ progress' = OpenWindow(Reset(progress))
  /\ since' = SinceAfter(Reset(progress))
  /\ UNCHANGED <<envVars, recorded, lookback, batch>>

\* Poll returns; the next one comes with the ticker.
CycleEnds == cycle' = [IdleCycle EXCEPT !.now = cycle.now]

\* A request, a transaction or the deadline fails: the durable state stays.
CycleFails ==
  /\ cycle.pc = "loop"
  /\ CycleEnds
  /\ UNCHANGED <<envVars, progress, recorded, lookback, batch, since>>

-------------------------------------------------------------------------------
(* One turn of the loop *)

Before(window) == window.from < Truncate(cycle.now - Retention)

InLoop == cycle.pc = "loop" /\ progress.block = ""

Blocked ==
  /\ cycle.pc = "loop" /\ progress.block # ""
  /\ CycleEnds
  /\ UNCHANGED <<envVars, progress, recorded, lookback, batch, since>>

PageExpired == progress.page # NoPage /\ Before(progress.page)

NextWindow == Head(progress.windows)

AtWindow == /\ InLoop /\ ~PageExpired
            /\ progress.pending = {} /\ progress.page = NoPage
            /\ progress.windows # <<>>

Expire ==
  /\ InLoop
  /\ PageExpired \/ (AtWindow /\ Before(NextWindow))
  /\ progress' = [progress EXCEPT !.block = "expired"]
  /\ CycleEnds
  /\ UNCHANGED <<envVars, recorded, lookback, batch, since>>

\* Variant: the page is closed while items are pending.
ClosePageUndrained ==
  /\ InLoop /\ ~PageExpired /\ progress.page # NoPage
  /\ progress' = [progress EXCEPT
                    !.page = NoPage,
                    !.lastCompleted = IF progress.windows = <<>> THEN progress.end
                                                                 ELSE @]
  /\ UNCHANGED <<envVars, recorded, lookback, cycle, batch, since>>

\* A page without pending items is done; with the last one the window is walked.
ClosePage ==
  /\ InLoop /\ ~PageExpired
  /\ progress.pending = {} /\ progress.page # NoPage
  /\ progress' = [progress EXCEPT
                    !.page = NoPage,
                    !.lastCompleted = IF progress.windows = <<>> THEN progress.end
                                                                 ELSE @]
  /\ UNCHANGED <<envVars, recorded, lookback, cycle, batch, since>>

\* Nothing left, or the budget of pages or details is used up.
CycleDone ==
  /\ InLoop /\ ~PageExpired
  /\ \/ progress.pending # {} /\ cycle.details >= DetailMax
     \/ NothingOpen(progress)
     \/ AtWindow /\ ~Before(NextWindow) /\ cycle.pages >= MaxPages
  /\ CycleEnds
  /\ UNCHANGED <<envVars, progress, recorded, lookback, batch, since>>

MayList == AtWindow /\ ~Before(NextWindow) /\ cycle.pages < MaxPages

CountPage == cycle' = [cycle EXCEPT !.pages = @ + 1]

\* A complete page becomes the pending items, if they fit: a page that does not
\* fit fails the cycle with ErrFull (CycleFails).
ListComplete ==
  /\ MayList /\ Complete(NextWindow)
  /\ Cardinality(Listed(NextWindow)) <= MaxPending
  /\ progress' = [progress EXCEPT !.pending = Listed(NextWindow),
                                  !.page = NextWindow, !.windows = Tail(@)]
  /\ CountPage
  /\ UNCHANGED <<envVars, recorded, lookback, batch, since>>

Middle(window) ==
  LET mid == Truncate(window.from + (window.to - window.from) \div 2)
  IN  IF mid > window.from THEN mid ELSE window.from + Second

\* The newer half is walked first.
Halves(window) == <<[from |-> Middle(window), to |-> window.to],
                    [from |-> window.from, to |-> Middle(window)]>>

ListSplit ==
  /\ MayList /\ ~Complete(NextWindow)
  /\ NextWindow.to - NextWindow.from > Second
  /\ Middle(NextWindow) < NextWindow.to
  /\ progress' = [progress EXCEPT !.windows = Halves(NextWindow) \o Tail(@)]
  /\ CountPage
  /\ UNCHANGED <<envVars, recorded, lookback, batch, since>>

\* More items in one second than a page holds.
ListSaturated ==
  /\ MayList /\ ~Complete(NextWindow)
  /\ NextWindow.to - NextWindow.from <= Second
  /\ progress' = [progress EXCEPT !.block = "saturated"]
  /\ CycleEnds
  /\ UNCHANGED <<envVars, recorded, lookback, batch, since>>

-------------------------------------------------------------------------------
(* A batch of details *)

FirstOf(n, items) == {i \in items : Cardinality({j \in items : j < i}) < n}

Having(status) == {i \in DOMAIN batch : batch[i] = status}

BatchStarts ==
  /\ InLoop /\ ~PageExpired
  /\ progress.pending # {} /\ cycle.details < DetailMax
  /\ batch' = [i \in FirstOf(DetailMax - cycle.details, progress.pending) |-> "waiting"]
  /\ cycle' = [cycle EXCEPT !.pc = "batch"]
  /\ UNCHANGED <<envVars, progress, recorded, lookback, since>>

Becomes(i, status) == batch' = [batch EXCEPT ![i] = status]

Dispatch(i) ==
  /\ i \in Having("waiting")
  /\ Cardinality(Having("active") \cup Having("recorded")) < Concurrency
  /\ Becomes(i, "active")
  /\ UNCHANGED <<envVars, progress, recorded, lookback, cycle, since>>

\* The event's transaction commits.
RecordOK(i) ==
  /\ i \in Having("active")
  /\ recorded' = recorded \cup {i}
  /\ Becomes(i, "recorded")
  /\ UNCHANGED <<envVars, progress, lookback, cycle, since>>

\* Variant: an item without a detail is given up.
RecordFailsForgotten(i) ==
  /\ i \in Having("active")
  /\ progress' = [progress EXCEPT !.pending = @ \ {i}]
  /\ Becomes(i, "failed")
  /\ UNCHANGED <<envVars, recorded, lookback, cycle, since>>

\* No detail, no room, or a failing transaction.
RecordFails(i) ==
  /\ i \in Having("active")
  /\ Becomes(i, "failed")
  /\ UNCHANGED <<envVars, progress, recorded, lookback, cycle, since>>

\* The event store's floor, which follows the retention, has passed the item.
RecordExpired(i) ==
  /\ i \in Having("active") /\ created[i] < now - Retention
  /\ Becomes(i, "expired")
  /\ UNCHANGED <<envVars, progress, recorded, lookback, cycle, since>>

\* Only then the item leaves the pending ones, in a transaction of its own.
AckOK(i) ==
  /\ i \in Having("recorded")
  /\ progress' = [progress EXCEPT !.pending = @ \ {i}]
  /\ Becomes(i, "done")
  /\ UNCHANGED <<envVars, recorded, lookback, cycle, since>>

AckFails(i) ==
  /\ i \in Having("recorded")
  /\ Becomes(i, "failed")
  /\ UNCHANGED <<envVars, progress, recorded, lookback, cycle, since>>

\* The deadline stops the dispatch.
BatchTimeout ==
  /\ cycle.pc = "batch" /\ Having("waiting") # {}
  /\ batch' = [i \in DOMAIN batch |-> IF batch[i] = "waiting" THEN "unsent" ELSE batch[i]]
  /\ UNCHANGED <<envVars, progress, recorded, lookback, cycle, since>>

BatchOver ==
  /\ cycle.pc = "batch"
  /\ Having("waiting") \cup Having("active") \cup Having("recorded") = {}

NoBatch == batch' = [i \in {} |-> i]

\* The cycle goes on after a batch without a failure.  An error ends it, without
\* a block if another failure was read after the expired one or the update fails.
BatchEnds ==
  /\ BatchOver
  /\ IF Having("failed") \cup Having("expired") \cup Having("unsent") = {}
     THEN cycle' = [cycle EXCEPT !.pc = "loop",
                                 !.details = @ + Cardinality(DOMAIN batch)]
     ELSE CycleEnds
  /\ NoBatch
  /\ UNCHANGED <<envVars, progress, recorded, lookback, since>>

BatchExpires ==
  /\ BatchOver /\ Having("expired") # {}
  /\ progress' = [progress EXCEPT !.block = "expired"]
  /\ CycleEnds /\ NoBatch
  /\ UNCHANGED <<envVars, recorded, lookback, since>>

-------------------------------------------------------------------------------
(* The process *)

CrashRestart ==
  /\ crashes < MaxCrashes
  /\ crashes' = crashes + 1
  /\ lookback' \in Lookbacks
  /\ cycle' = IdleCycle /\ NoBatch
  /\ UNCHANGED <<now, created, progress, recorded, since>>

\* The steps of the loop that change the progress or start a batch.
Advance ==
  \/ Expire \/ ClosePage \/ ListComplete \/ ListSplit \/ ListSaturated \/ BatchStarts

Turn ==
  CycleStarts \/ Blocked \/ CycleDone \/ Advance \/ BatchEnds \/ BatchExpires

Work(i) ==
  Dispatch(i) \/ RecordOK(i) \/ RecordFails(i) \/ RecordExpired(i)
  \/ AckOK(i) \/ AckFails(i)

Next ==
  \/ Turn \/ CycleFails \/ BatchTimeout
  \/ \E i \in Items : Work(i) \/ Create(i)
  \/ Tick \/ CrashRestart

SafeSpec == Init /\ [][Next]_vars

\* The clock runs and the goroutines are scheduled; among the answers that the
\* server and the two stores give again and again there are good ones (for some
\* item, not for each).
Fairness ==
  /\ WF_vars(Turn) /\ WF_vars(Tick)
  /\ SF_vars(Advance) /\ SF_vars(BatchExpires)
  /\ SF_vars(\E i \in Items : Dispatch(i))
  /\ SF_vars(\E i \in Items : RecordOK(i) \/ RecordExpired(i))
  /\ SF_vars(\E i \in Items : AckOK(i))

Spec == SafeSpec /\ Fairness

-------------------------------------------------------------------------------
(* Properties *)

\* The stored progress is one that historystate's validate accepts.
TypeOK ==
  /\ \A k \in DOMAIN progress.windows :
       progress.windows[k].from > 0 /\ progress.windows[k].from < progress.windows[k].to
  /\ progress.page # NoPage => progress.page.from < progress.page.to
  /\ progress.page = NoPage => progress.pending = {}
  /\ Cardinality(progress.pending) <= MaxPending
  /\ DOMAIN batch \subseteq Items /\ recorded \subseteq Items

\* Nothing in the walked interval is skipped: an item the server had before the
\* last second of it is recorded, whatever was split, retried, timed out, created
\* while the walk was under way, or lost with the process.
NothingSkipped ==
  \A i \in Items :
    (created[i] # 0 /\ since <= created[i]
       /\ created[i] <= progress.lastCompleted - Second) => i \in recorded

\* An item is pending until its event is committed.
PendingUntilRecorded ==
  [][\A i \in progress.pending \ progress'.pending :
       i \in recorded \/ progress'.lookback # progress.lookback]_vars

\* A window is walked to its end, or the worker is blocked for good: budgets,
\* splits, timeouts and failures never make it go round in circles.
WalkEnds ==
  []<>(NothingOpen(progress) \/ progress.block # "")
===============================================================================
