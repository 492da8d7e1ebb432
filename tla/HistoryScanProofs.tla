--------------------------- MODULE HistoryScanProofs ---------------------------
(***************************************************************************)
(* Theorems about the history backfill, for any items, page limit, budgets *)
(* and configuration that loadBackfill accepts.                            *)
(*                                                                         *)
(* What makes the walk complete although it only ever removes work from    *)
(* its list: an item of the open interval is recorded, or still pending,   *)
(* or lies in a window that is still to be listed.  An item that is        *)
(* created while the walk is under way is too young for the interval,      *)
(* which ends less than a second after the walk began.                     *)
(***************************************************************************)
EXTENDS HistoryScan, FiniteSetTheorems, SequenceTheorems, TLAPS

ProgressType ==
  [lookback : Nat, end : Nat, lastCompleted : Nat, lastSweep : Nat,
   windows : Seq(Window), pending : SUBSET Items, page : Window, block : {"", "saturated", "expired"}]

\* Nothing is created in the future.
ClockOK ==
  /\ now \in Nat /\ StartTime <= now
  /\ created \in [Items -> Nat]
  /\ \A i \in Items : created[i] <= now
  /\ lookback \in Lookbacks /\ since \in Nat

Proper(window) == window.from > 0 /\ window.from < window.to

\* The durable record is one that the store accepts.
ProgressOK ==
  /\ progress \in ProgressType
  /\ \A k \in DOMAIN progress.windows : Proper(progress.windows[k])
  /\ progress.page # NoPage => progress.page.from < progress.page.to
  /\ progress.page = NoPage => progress.pending = {}
  /\ Cardinality(progress.pending) <= MaxPending

\* An interval ends less than a second after the clock at which it was opened.
Reached(end) == StartTime <= end /\ end - Second < now

\* The walk that is open goes beyond the last one.
IntervalsOK ==
  /\ progress.lastCompleted # 0 => Reached(progress.lastCompleted)
  /\ ~NothingOpen(progress) =>
       progress.lastCompleted < progress.end /\ Reached(progress.end)

\* What is walked without a gap begins at least an overlap before its end.
SinceOK ==
  /\ NothingOpen(progress) /\ progress.lastCompleted # 0 =>
       since <= progress.lastCompleted - Overlap
  /\ ~NothingOpen(progress) => since <= progress.end - Overlap

\* A worker acknowledges only what it recorded.
BatchOK ==
  /\ recorded \subseteq Items /\ DOMAIN batch \subseteq Items
  /\ batch = [i \in DOMAIN batch |-> batch[i]]
  /\ Having("recorded") \subseteq recorded

\* The time t lies in a window that is still to be listed.
InWindow(windows, t) ==
  \E k \in DOMAIN windows : windows[k].from <= t /\ t <= windows[k].to

\* Of the open interval every item is recorded, pending, or still to be listed.
Accounted ==
  ~NothingOpen(progress) =>
    \A i \in Items :
      created[i] # 0 /\ since <= created[i] /\ created[i] <= progress.end - Second =>
        \/ i \in recorded
        \/ i \in progress.pending
        \/ InWindow(progress.windows, created[i])

\* What the durable record says is true.
WalkOK ==
  /\ ProgressOK
  /\ IntervalsOK
  /\ SinceOK
  /\ Accounted
  /\ NothingSkipped

IInv ==
  /\ ClockOK
  /\ BatchOK
  /\ WalkOK

-------------------------------------------------------------------------------
(* Arithmetic of seconds and windows *)

\* Truncating takes less than a second away, rounding up adds less than one.
LEMMA Rounding ==
  ASSUME NEW t \in Nat
  PROVE  /\ Truncate(t) \in Nat /\ Truncate(t) <= t /\ t - Second < Truncate(t)
         /\ RoundUp(t) \in Nat /\ t <= RoundUp(t) /\ RoundUp(t) < t + Second
<1>1. Second \in Nat \ {0}
  BY BackfillAssumption
<1>2. ASSUME NEW u \in Nat
      PROVE  Truncate(u) \in Nat /\ Truncate(u) <= u /\ u - Second < Truncate(u)
  <2>1. u % Second \in Nat /\ u % Second < Second /\ u % Second <= u
    BY <1>1
  <2> HIDE DEF Truncate
  <2>2. Truncate(u) = u - (u % Second)
    BY DEF Truncate
  <2> QED
    BY <1>1, <2>1, <2>2
<1>3. t + Second - 1 \in Nat
  BY <1>1
<1> QED
  BY <1>1, <1>2, <1>3 DEF RoundUp

\* A window is split after its start.
LEMMA MiddleInside ==
  ASSUME NEW window \in Window, window.from <= window.to
  PROVE  Middle(window) \in Nat /\ window.from < Middle(window)
<1>1. Second \in Nat \ {0} /\ window.from \in Nat /\ window.to \in Nat
  BY BackfillAssumption DEF Window
<1> DEFINE half == (window.to - window.from) \div 2
           mid == Truncate(window.from + half)
<1>2. half \in Nat
  <2>1. window.to - window.from \in Nat
    BY <1>1
  <2> QED
    BY <2>1
<1> HIDE DEF half
<1>3. mid \in Nat
  BY <1>1, <1>2, Rounding
<1> HIDE DEF mid
<1>4. Middle(window) = IF mid > window.from THEN mid ELSE window.from + Second
  BY DEF Middle, mid, half
<1> QED
  BY <1>1, <1>3, <1>4

\* The server lists what lies in the window.
LEMMA WindowIsListed ==
  ASSUME created \in [Items -> Nat], NEW window \in Window, NEW i \in Items,
         created[i] # 0, window.from <= created[i], created[i] <= window.to
  PROVE  i \in Listed(window)
<1>1. /\ window.from \in Nat /\ window.to \in Nat /\ created[i] \in Nat
      /\ Truncate(window.from) \in Nat /\ Truncate(window.from) <= window.from
      /\ RoundUp(window.to) \in Nat /\ window.to <= RoundUp(window.to)
  BY Rounding DEF Window
<1> QED
  BY <1>1 DEF Listed

\* A window that is opened begins before it ends, and after the zero time; the
\* first one and every one that leaves a gap behind begins where the lookback does.
LEMMA OpenedWindow ==
  ASSUME ClockOK, NEW p \in ProgressType,
         p.lastCompleted # 0 => Reached(p.lastCompleted)
  PROVE  /\ WindowStart(p) \in Nat /\ WindowStart(p) > 0
         /\ Truncate(now - lookback) \in Nat
         /\ Truncate(now - lookback) <= RoundUp(now) - Overlap
         /\ RoundUp(now) > p.lastCompleted => WindowStart(p) < RoundUp(now)
         /\ p.lastCompleted = 0 => WindowStart(p) = Truncate(now - lookback)
         /\ SweepDue(p) => WindowStart(p) = Truncate(now - lookback)
         /\ ~SweepDue(p) => WindowStart(p) = p.lastCompleted - Overlap
<1>1. /\ now \in Nat /\ StartTime <= now /\ lookback \in Nat /\ lookback >= 1
      /\ lookback <= Retention /\ Retention + Second <= StartTime
      /\ Retention \in Nat /\ StartTime \in Nat /\ Second \in Nat \ {0}
      /\ Overlap \in Nat /\ Overlap <= lookback /\ Overlap >= Second
  BY BackfillAssumption DEF ClockOK
<1>2. p.lastCompleted \in Nat
  BY DEF ProgressType
<1>3. now - lookback \in Nat /\ now - lookback >= Second
  BY <1>1
<1>4. /\ Truncate(now - lookback) \in Nat /\ Truncate(now - lookback) <= now - lookback
      /\ (now - lookback) - Second < Truncate(now - lookback)
      /\ RoundUp(now) \in Nat /\ now <= RoundUp(now)
  BY <1>1, <1>3, Rounding
<1>5. Truncate(now - lookback) > 0 /\ Truncate(now - lookback) < RoundUp(now)
      /\ Truncate(now - lookback) <= RoundUp(now) - Overlap
  BY <1>1, <1>3, <1>4
<1>6. CASE SweepDue(p)
  BY <1>4, <1>5, <1>6 DEF WindowStart
<1>7. CASE ~SweepDue(p)
  <2>1. p.lastCompleted # 0 /\ StartTime <= p.lastCompleted
    BY <1>7 DEF SweepDue, Reached
  <2>2. WindowStart(p) = p.lastCompleted - Overlap
    BY <1>7 DEF WindowStart
  <2>3. p.lastCompleted - Overlap \in Nat /\ p.lastCompleted - Overlap > 0
    BY <1>1, <1>2, <2>1
  <2>4. RoundUp(now) > p.lastCompleted => p.lastCompleted - Overlap < RoundUp(now)
    BY <1>1, <1>2, <1>4
  <2> QED
    BY <1>4, <1>5, <1>7, <2>1, <2>2, <2>3, <2>4
<1> QED
  BY <1>6, <1>7

-------------------------------------------------------------------------------
(* The clock, the items and the batch *)

\* Items are only added, at the current time.
LEMMA ClockStep ==
  ASSUME IInv, [Next]_vars
  PROVE  /\ ClockOK' /\ now <= now'
         /\ \A i \in Items : created'[i] = created[i]
                             \/ (created[i] = 0 /\ created'[i] = now)
<1>1. /\ now \in Nat /\ StartTime <= now /\ created \in [Items -> Nat]
      /\ \A i \in Items : created[i] <= now
      /\ lookback \in Lookbacks /\ since \in Nat
      /\ progress \in ProgressType
      /\ progress.lastCompleted # 0 => Reached(progress.lastCompleted)
  BY DEF IInv, ClockOK, WalkOK, ProgressOK, IntervalsOK
<1>2. ASSUME NEW i \in Items, Create(i)
      PROVE  /\ ClockOK' /\ now <= now'
             /\ \A j \in Items : created'[j] = created[j]
                                 \/ (created[j] = 0 /\ created'[j] = now)
  BY <1>1, <1>2 DEF Create, ClockOK
<1>3. CASE Tick
  <2>1. now' = now + 1 /\ UNCHANGED <<created, lookback, since>>
    BY <1>3 DEF Tick
  <2>2. StartTime \in Nat /\ now' \in Nat /\ now <= now' /\ StartTime <= now'
    BY <1>1, <2>1, BackfillAssumption
  <2>3. \A i \in Items : created'[i] \in Nat /\ created'[i] <= now'
    BY <1>1, <2>1
  <2> QED
    BY <1>1, <2>1, <2>2, <2>3 DEF ClockOK
<1>4. CASE CycleStarts
  <2>1. now - lookback \in Nat
    BY <1>1, BackfillAssumption
  <2>2. since' \in Nat
    BY <1>1, <1>4, <2>1, Rounding DEF CycleStarts, SinceAfter
  <2> QED
    BY <1>1, <1>4, <2>2 DEF CycleStarts, envVars, ClockOK
<1>5. CASE CrashRestart
  BY <1>1, <1>5 DEF CrashRestart, ClockOK
<1>6. CASE UNCHANGED <<now, created, lookback, since>>
  BY <1>1, <1>6 DEF ClockOK
<1> QED
  BY <1>2, <1>3, <1>4, <1>5, <1>6
     DEF Next, Turn, Advance, Work, Blocked, CycleDone, Expire, ClosePage, ListComplete,
         ListSplit, ListSaturated, BatchStarts, BatchEnds, BatchExpires, CycleFails,
         BatchTimeout, Dispatch, RecordOK, RecordFails, RecordExpired, AckOK, AckFails,
         envVars, vars

\* Every entry that says recorded was recorded.
LEMMA BatchStep ==
  ASSUME IInv, [Next]_vars
  PROVE  BatchOK' /\ recorded \subseteq recorded'
<1>1. /\ recorded \subseteq Items /\ DOMAIN batch \subseteq Items
      /\ batch = [i \in DOMAIN batch |-> batch[i]]
      /\ \A i \in DOMAIN batch : batch[i] = "recorded" => i \in recorded
      /\ progress.pending \subseteq Items
  BY DEF IInv, BatchOK, Having, WalkOK, ProgressOK, ProgressType
<1>3. CASE BatchStarts
  <2>1. FirstOf(DetailMax - cycle.details, progress.pending) \subseteq Items
    BY <1>1 DEF FirstOf
  <2> QED
    BY <1>1, <1>3, <2>1 DEF BatchStarts, BatchOK, Having
<1>4. CASE BatchTimeout
  BY <1>1, <1>4 DEF BatchTimeout, BatchOK, Having
<1>5. CASE NoBatch /\ UNCHANGED recorded
  BY <1>1, <1>5 DEF NoBatch, BatchOK, Having
<1>6. ASSUME NEW i \in Items, Work(i)
      PROVE  BatchOK' /\ recorded \subseteq recorded'
  <2>1. i \in DOMAIN batch /\ recorded \subseteq recorded' /\ recorded' \subseteq Items
    BY <1>1, <1>6 DEF Work, Dispatch, RecordOK, RecordFails, RecordExpired, AckOK,
                      AckFails, Having
  <2>2. \/ Becomes(i, "recorded") /\ i \in recorded'
        \/ Becomes(i, "active") \/ Becomes(i, "failed") \/ Becomes(i, "expired")
        \/ Becomes(i, "done")
    BY <1>6 DEF Work, Dispatch, RecordOK, RecordFails, RecordExpired, AckOK, AckFails
  <2>3. ASSUME NEW status, Becomes(i, status),
               status # "recorded" \/ i \in recorded'
        PROVE  BatchOK'
    BY <1>1, <2>1, <2>3 DEF Becomes, BatchOK, Having
  <2>4. CASE Becomes(i, "recorded") /\ i \in recorded'
    BY <2>1, <2>3, <2>4 DEF Becomes
  <2>5. CASE Becomes(i, "active")
    BY <2>1, <2>3, <2>5 DEF Becomes
  <2>6. CASE Becomes(i, "failed")
    BY <2>1, <2>3, <2>6 DEF Becomes
  <2>7. CASE Becomes(i, "expired")
    BY <2>1, <2>3, <2>7 DEF Becomes
  <2>8. CASE Becomes(i, "done")
    BY <2>1, <2>3, <2>8 DEF Becomes
  <2> QED
    BY <2>1, <2>2, <2>4, <2>5, <2>6, <2>7, <2>8
<1>7. CASE UNCHANGED <<batch, recorded>>
  BY <1>1, <1>7 DEF BatchOK, Having
<1> QED
  BY <1>3, <1>4, <1>5, <1>6, <1>7
     DEF Next, Turn, Advance, CycleStarts, Blocked, CycleDone, Expire, ClosePage,
         ListComplete, ListSplit, ListSaturated, BatchEnds, BatchExpires, CycleFails,
         Create, Tick, CrashRestart, vars

-------------------------------------------------------------------------------
(* The steps that leave the durable record alone *)

\* An item that is old enough to belong to an interval was there before the step.
LEMMA OldItems ==
  ASSUME IInv, [Next]_vars, NEW i \in Items, NEW end \in Nat, Reached(end),
         created'[i] <= end - Second
  PROVE  created'[i] = created[i]
<1>1. now \in Nat /\ Second \in Nat
  BY BackfillAssumption DEF IInv, ClockOK
<1>2. created'[i] # now
  BY <1>1 DEF Reached
<1> QED
  BY <1>2, ClockStep

\* What holds of the record keeps holding while items arrive and are recorded.
LEMMA RecordStays ==
  ASSUME IInv, [Next]_vars, UNCHANGED <<progress, since>>
  PROVE  WalkOK'
<1>1. progress \in ProgressType /\ progress.end \in Nat /\ progress.lastCompleted \in Nat
  BY DEF IInv, WalkOK, ProgressOK, ProgressType
<1>2. /\ recorded \subseteq recorded' /\ now <= now' /\ now \in Nat /\ now' \in Nat
      /\ Second \in Nat /\ created' \in [Items -> Nat]
  BY ClockStep, BatchStep, BackfillAssumption DEF IInv, ClockOK
<1>3. ProgressOK' /\ SinceOK'
  BY DEF IInv, WalkOK, ProgressOK, SinceOK, NothingOpen
<1>4. IntervalsOK'
  BY <1>1, <1>2 DEF IInv, WalkOK, IntervalsOK, Reached, NothingOpen
<1>5. Accounted'
  <2> SUFFICES ASSUME ~NothingOpen(progress), NEW i \in Items, created'[i] # 0,
                      since <= created'[i], created'[i] <= progress.end - Second
               PROVE  \/ i \in recorded'
                      \/ i \in progress.pending
                      \/ InWindow(progress.windows, created'[i])
    BY DEF Accounted, NothingOpen, InWindow
  <2>1. Reached(progress.end)
    BY DEF IInv, WalkOK, IntervalsOK
  <2>2. created'[i] = created[i]
    BY <1>1, <2>1, OldItems
  <2> QED
    BY <1>2, <2>2 DEF IInv, WalkOK, Accounted
<1>6. NothingSkipped'
  <2> SUFFICES ASSUME NEW i \in Items, created'[i] # 0, since <= created'[i],
                      created'[i] <= progress.lastCompleted - Second
               PROVE  i \in recorded'
    BY DEF NothingSkipped
  <2>1. progress.lastCompleted # 0
    BY <1>1, <1>2
  <2>2. Reached(progress.lastCompleted)
    BY <2>1 DEF IInv, WalkOK, IntervalsOK
  <2>3. created'[i] = created[i]
    BY <1>1, <2>2, OldItems
  <2> QED
    BY <1>2, <2>3 DEF IInv, WalkOK, NothingSkipped
<1> QED
  BY <1>3, <1>4, <1>5, <1>6 DEF WalkOK

-------------------------------------------------------------------------------
(* The start of a cycle *)

\* The windows of a record with one window.
LEMMA OneWindow ==
  ASSUME NEW w \in Window
  PROVE  /\ <<w>> \in Seq(Window) /\ <<w>> # <<>>
         /\ DOMAIN <<w>> = {1} /\ <<w>>[1] = w
OBVIOUS

\* A window is opened over what the record says was walked, or nothing is left to do.
LEMMA StartStep ==
  ASSUME IInv, [Next]_vars, CycleStarts
  PROVE  WalkOK'
<1> DEFINE p == Reset(progress)
           end == RoundUp(now)
           from == WindowStart(p)
<1>1. /\ now' = now /\ created' = created /\ recorded' = recorded
      /\ progress' = OpenWindow(p) /\ since' = SinceAfter(p)
  BY DEF CycleStarts, envVars
<1>2. /\ now \in Nat /\ since \in Nat /\ created \in [Items -> Nat]
      /\ StartTime \in Nat /\ StartTime <= now /\ lookback \in Nat
      /\ Second \in Nat \ {0} /\ Overlap \in Nat /\ Second <= Overlap
      /\ Retention \in Nat /\ Retention + Second <= StartTime /\ MaxPending \in Nat
  BY BackfillAssumption DEF IInv, ClockOK
<1>3. end \in Nat /\ now <= end /\ end < now + Second /\ Reached(end)
  BY <1>2, Rounding DEF Reached
\* What the record says, also after a reset.
<1>4. /\ p \in ProgressType
      /\ \A k \in DOMAIN p.windows : Proper(p.windows[k])
      /\ p.page # NoPage => p.page.from < p.page.to
      /\ p.page = NoPage => p.pending = {}
      /\ Cardinality(p.pending) <= MaxPending
      /\ p.lastCompleted # 0 => Reached(p.lastCompleted) /\ p = progress
      /\ NothingOpen(p) /\ p.lastCompleted # 0 => since <= p.lastCompleted - Overlap
      /\ ~NothingOpen(p) => p = progress
  <2>1. CASE progress.lookback = lookback
    <3>1. p = progress
      BY <2>1 DEF Reset
    <3> HIDE DEF p
    <3> QED
      BY <3>1 DEF IInv, WalkOK, ProgressOK, IntervalsOK, SinceOK
  <2>2. CASE progress.lookback # lookback
    <3>1. p = [EmptyProgress EXCEPT !.lookback = lookback]
      BY <2>2 DEF Reset
    <3>2. /\ <<>> \in Seq(Window) /\ DOMAIN <<>> = {} /\ NoPage \in Window
          /\ {} \in SUBSET Items
      BY DEF NoPage, Window
    <3>3. /\ p.lookback = lookback /\ p.end = 0 /\ p.lastCompleted = 0 /\ p.lastSweep = 0
          /\ p.windows = <<>> /\ p.pending = {} /\ p.page = NoPage /\ p.block = ""
          /\ p = [lookback |-> lookback, end |-> 0, lastCompleted |-> 0, lastSweep |-> 0,
                  windows |-> <<>>, pending |-> {}, page |-> NoPage, block |-> ""]
      BY <3>1 DEF EmptyProgress
    <3> HIDE DEF p
    <3>8. p.windows = <<>> /\ p.pending = {} /\ p.page = NoPage /\ p.lastCompleted = 0
      BY <3>3
    <3>4. p \in ProgressType
      <4> DEFINE none == ""
      <4>1. none \in {"", "saturated", "expired"}
        OBVIOUS
      <4>2. p = [lookback |-> lookback, end |-> 0, lastCompleted |-> 0, lastSweep |-> 0,
                 windows |-> <<>>, pending |-> {}, page |-> NoPage, block |-> none]
        BY <3>3
      <4> HIDE DEF none
      <4> QED
        BY <1>2, <3>2, <4>1, <4>2, Zenon DEF ProgressType
    <3>5. Cardinality({}) = 0
      BY FS_EmptySet
    <3>6. NothingOpen(p)
      BY <3>3 DEF NothingOpen
    <3>7. Cardinality(p.pending) <= MaxPending
      BY <1>2, <3>8, <3>5
    <3> QED
      BY <3>2, <3>8, <3>4, <3>6, <3>7
  <2> QED
    BY <2>1, <2>2
<1> HIDE DEF p
<1>5. p.lastCompleted \in Nat /\ p.end \in Nat /\ p.lastSweep \in Nat
  BY <1>4 DEF ProgressType
<1>6. \A i \in Items :
        created[i] # 0 /\ since <= created[i] /\ created[i] <= p.lastCompleted - Second
          => i \in recorded
  <2> SUFFICES ASSUME NEW i \in Items, created[i] # 0, since <= created[i],
                      created[i] <= p.lastCompleted - Second
               PROVE  i \in recorded
    OBVIOUS
  <2>1. p.lastCompleted = progress.lastCompleted
    BY <1>2, <1>4, <1>5
  <2> QED
    BY <2>1 DEF IInv, WalkOK, NothingSkipped
<1>7. /\ from \in Nat /\ from > 0
      /\ end > p.lastCompleted => from < end
      /\ Truncate(now - lookback) \in Nat /\ Truncate(now - lookback) <= end - Overlap
      /\ p.lastCompleted = 0 => from = Truncate(now - lookback)
      /\ SweepDue(p) => from = Truncate(now - lookback)
      /\ ~SweepDue(p) => from = p.lastCompleted - Overlap
  BY <1>4, OpenedWindow DEF IInv
<1>a. end = RoundUp(now) /\ from = WindowStart(p)
  OBVIOUS
<1> HIDE DEF end, from
\* Unfinished work, or a block, is left alone.
<1>8. CASE p.block # "" \/ ~NothingOpen(p)
  <2>1. progress' = p /\ since' = since
    BY <1>1, <1>8 DEF OpenWindow, SinceAfter
  <2>2. ProgressOK'
    BY <1>4, <2>1 DEF ProgressOK
  <2>3. IntervalsOK' /\ SinceOK'
    BY <1>1, <1>4, <2>1 DEF IntervalsOK, SinceOK, Reached, NothingOpen, IInv, WalkOK
  <2>4. Accounted'
    BY <1>1, <1>4, <2>1 DEF Accounted, NothingOpen, InWindow, IInv, WalkOK
  <2>5. NothingSkipped'
    BY <1>1, <1>6, <2>1 DEF NothingSkipped
  <2> QED
    BY <2>2, <2>3, <2>4, <2>5 DEF WalkOK
<1> DEFINE swept == IF SweepDue(p) THEN [p EXCEPT !.lastSweep = end] ELSE p
<1>9. /\ swept \in ProgressType /\ swept.lastCompleted = p.lastCompleted
      /\ swept.windows = p.windows /\ swept.pending = p.pending /\ swept.page = p.page
  BY <1>3, <1>4 DEF ProgressType
<1> HIDE DEF swept
\* The clock has not passed what was walked.
<1>10. CASE p.block = "" /\ NothingOpen(p) /\ end <= p.lastCompleted
  <2>0. NothingOpen(p) /\ end <= p.lastCompleted
    BY <1>10
  <2>1. progress' = swept /\ since' = since
    <3>1. ~(RoundUp(now) > p.lastCompleted)
      BY <1>3, <1>5, <1>a, <2>0
    <3>2. since' = since
      BY <1>1, <3>1 DEF SinceAfter
    <3>3. progress' = swept
      BY <1>1, <1>10 DEF OpenWindow, swept, end
    <3> QED
      BY <3>2, <3>3
  <2>2. ProgressOK'
    BY <1>4, <1>9, <2>1 DEF ProgressOK
  <2>3. NothingOpen(progress') /\ progress'.lastCompleted = p.lastCompleted
    BY <1>9, <1>10, <2>1 DEF NothingOpen
  <2>4. IntervalsOK' /\ SinceOK' /\ Accounted'
    <3>1. IntervalsOK'
      BY <1>1, <1>4, <2>3 DEF IntervalsOK, Reached, NothingOpen
    <3>2. SinceOK'
      BY <1>4, <1>10, <2>1, <2>3 DEF SinceOK, NothingOpen
    <3>3. Accounted'
      BY <2>3 DEF Accounted, NothingOpen
    <3> QED
      BY <3>1, <3>2, <3>3
  <2>5. NothingSkipped'
    BY <1>1, <1>6, <2>1, <2>3 DEF NothingSkipped
  <2> QED
    BY <2>2, <2>4, <2>5 DEF WalkOK
\* A window is opened.
<1>11. CASE p.block = "" /\ NothingOpen(p) /\ end > p.lastCompleted
  <2>0. NothingOpen(p) /\ end > p.lastCompleted
    BY <1>11
  <2> DEFINE w == [from |-> from, to |-> end]
  <2>1. w \in Window /\ w.from = from /\ w.to = end /\ Proper(w)
    BY <1>3, <1>7, <2>0 DEF Window, Proper
  <2>2. progress' = [swept EXCEPT !.end = end, !.windows = <<w>>]
    <3>1. ~(RoundUp(now) <= p.lastCompleted)
      BY <1>3, <1>5, <1>a, <2>0
    <3>2. OpenWindow(p) = [swept EXCEPT !.end = RoundUp(now),
             !.windows = <<[from |-> WindowStart(p), to |-> RoundUp(now)]>>]
      BY <1>11, <3>1 DEF OpenWindow, swept, end
    <3> QED
      BY <1>1, <1>a, <3>2 DEF w
  <2>3. since' = IF SweepDue(p) /\ (p.lastCompleted = 0 \/ from > p.lastCompleted - Overlap)
                 THEN Truncate(now - lookback) ELSE since
    BY <1>1, <1>11, <1>a DEF SinceAfter
  <2>4. <<w>> \in Seq(Window) /\ <<w>> # <<>> /\ DOMAIN <<w>> = {1} /\ <<w>>[1] = w
    BY <2>1, OneWindow
  <2> HIDE DEF w
  <2>5. /\ progress' \in ProgressType /\ progress'.end = end
        /\ progress'.windows = <<w>> /\ progress'.pending = p.pending
        /\ progress'.page = p.page /\ progress'.lastCompleted = p.lastCompleted
    BY <1>3, <1>9, <2>2, <2>4 DEF ProgressType
  <2>6. ~NothingOpen(progress')
    BY <2>4, <2>5 DEF NothingOpen
  <2>7. ProgressOK'
    BY <1>4, <2>1, <2>4, <2>5 DEF ProgressOK
  <2>8. IntervalsOK'
    BY <1>1, <1>3, <1>4, <2>0, <2>5 DEF IntervalsOK, Reached
  \* The walked interval starts with the window, or the window overlaps it.
  <2>9. \/ since' = from /\ from = Truncate(now - lookback)
           /\ (p.lastCompleted = 0 \/ from > p.lastCompleted - Overlap)
        \/ since' = since /\ p.lastCompleted # 0 /\ from <= p.lastCompleted - Overlap
    BY <1>2, <1>5, <1>7, <2>3
  <2>10. since' <= end - Overlap
    <3>1. CASE since' = since /\ p.lastCompleted # 0
      <4>1. since <= p.lastCompleted - Overlap
        BY <1>4, <2>0, <3>1
      <4> QED
        BY <1>2, <1>3, <1>5, <2>0, <3>1, <4>1
    <3>2. CASE since' = Truncate(now - lookback)
      BY <1>7, <3>2
    <3> QED
      BY <2>3, <2>9, <3>1, <3>2
  <2>11. p.lastCompleted # 0 => since <= since'
    <3>1. p.lastCompleted # 0 => since <= p.lastCompleted - Overlap
      BY <1>4, <2>0
    <3> QED
      BY <1>2, <1>5, <1>7, <2>9, <3>1
  <2>12. ASSUME NEW i \in Items, created[i] # 0, since' <= created[i],
                created[i] <= end - Second
         PROVE  i \in recorded \/ InWindow(progress'.windows, created[i])
    <3>1. created[i] \in Nat
      BY <1>2
    <3>2. CASE from <= created[i]
      <4>1. created[i] <= end
        BY <1>2, <1>3, <2>12, <3>1
      <4> QED
        BY <2>1, <2>4, <2>5, <3>2, <4>1 DEF InWindow
    <3>3. CASE created[i] < from
      <4>1. /\ since' = since /\ from <= p.lastCompleted - Overlap
        BY <1>7, <2>9, <2>12, <3>1, <3>3
      <4>2. created[i] <= p.lastCompleted - Second
        BY <1>2, <1>5, <1>7, <3>1, <3>3, <4>1
      <4> QED
        BY <1>6, <2>12, <4>1, <4>2
    <3> QED
      BY <1>7, <3>1, <3>2, <3>3
  <2>13. Accounted'
    BY <1>1, <2>5, <2>12 DEF Accounted
  <2>14. SinceOK'
    BY <2>5, <2>6, <2>10 DEF SinceOK, NothingOpen
  <2>15. NothingSkipped'
    <3> SUFFICES ASSUME NEW i \in Items, created[i] # 0, since' <= created[i],
                        created[i] <= p.lastCompleted - Second
                 PROVE  i \in recorded
      BY <1>1, <2>5 DEF NothingSkipped
    <3>1. created[i] \in Nat /\ since' \in Nat
      BY <1>2, <1>7, <2>9
    <3>2. p.lastCompleted # 0
      BY <1>2, <1>5, <3>1
    <3>3. since <= created[i]
      BY <1>2, <2>11, <3>1, <3>2
    <3> QED
      BY <1>6, <3>3
  <2> QED
    BY <2>7, <2>8, <2>13, <2>14, <2>15 DEF WalkOK
<1>12. end <= p.lastCompleted \/ end > p.lastCompleted
  BY <1>3, <1>5
<1> QED
  BY <1>8, <1>10, <1>11, <1>12

-------------------------------------------------------------------------------
(* The turns of the loop *)

\* What every change of the record in the loop leaves alone.
Still == UNCHANGED <<now, created, since, recorded>>

\* A block changes nothing but itself.
LEMMA BlockStep ==
  ASSUME IInv, Still, NEW reason \in {"saturated", "expired"},
         progress' = [progress EXCEPT !.block = reason]
  PROVE  WalkOK'
<1>1. progress \in ProgressType
  BY DEF IInv, WalkOK, ProgressOK
<1>2. /\ progress' \in ProgressType /\ progress'.windows = progress.windows
      /\ progress'.pending = progress.pending /\ progress'.page = progress.page
      /\ progress'.end = progress.end
      /\ progress'.lastCompleted = progress.lastCompleted
  BY <1>1 DEF ProgressType
<1>3. ProgressOK'
  BY <1>2 DEF IInv, WalkOK, ProgressOK
<1>4. IntervalsOK' /\ SinceOK'
  BY <1>2 DEF Still, IInv, WalkOK, IntervalsOK, SinceOK, Reached, NothingOpen
<1>5. Accounted' /\ NothingSkipped'
  BY <1>2 DEF Still, IInv, WalkOK, Accounted, NothingSkipped, NothingOpen, InWindow
<1> QED
  BY <1>3, <1>4, <1>5 DEF WalkOK

\* With the last page the whole interval is walked: nothing is pending and no window
\* is left, so every item of it is recorded.
LEMMA CloseStep ==
  ASSUME IInv, Still, ClosePage
  PROVE  WalkOK'
<1>1. progress \in ProgressType /\ ~NothingOpen(progress) /\ progress.pending = {}
  BY DEF IInv, WalkOK, ProgressOK, ClosePage, NothingOpen
<1> DEFINE last == IF progress.windows = <<>> THEN progress.end ELSE progress.lastCompleted
<1>2. progress' = [progress EXCEPT !.page = NoPage, !.lastCompleted = last]
  BY DEF ClosePage
<1>3. last \in Nat /\ NoPage \in Window
  BY <1>1 DEF ProgressType, NoPage, Window
<1> HIDE DEF last
<1>4. /\ progress' \in ProgressType /\ progress'.windows = progress.windows
      /\ progress'.pending = {} /\ progress'.page = NoPage
      /\ progress'.end = progress.end /\ progress'.lastCompleted = last
  BY <1>1, <1>2, <1>3 DEF ProgressType
<1>5. ProgressOK'
  BY <1>1, <1>4 DEF IInv, WalkOK, ProgressOK
<1>6. NothingOpen(progress') <=> progress.windows = <<>>
  BY <1>4 DEF NothingOpen
<1>7. IntervalsOK' /\ SinceOK'
  BY <1>1, <1>4, <1>6 DEF last, Still, IInv, WalkOK, IntervalsOK, SinceOK, Reached
<1>8. Accounted'
  BY <1>1, <1>4, <1>6 DEF Still, IInv, WalkOK, Accounted, InWindow
<1>9. NothingSkipped'
  <2>1. CASE progress.windows = <<>>
    <3>1. last = progress.end
      BY <2>1 DEF last
    <3>2. \A t : ~InWindow(progress.windows, t)
      <4>1. DOMAIN progress.windows = {}
        BY <2>1
      <4> QED
        BY <4>1 DEF InWindow
    <3> QED
      BY <1>1, <1>4, <3>1, <3>2 DEF Still, IInv, WalkOK, Accounted, NothingSkipped
  <2>2. CASE progress.windows # <<>>
    BY <1>4, <2>2 DEF last, Still, IInv, WalkOK, NothingSkipped
  <2> QED
    BY <2>1, <2>2
<1> QED
  BY <1>5, <1>7, <1>8, <1>9 DEF WalkOK

\* The head and the tail of the windows.
LEMMA HeadAndTail ==
  ASSUME NEW ws \in Seq(Window), ws # <<>>
  PROVE  /\ Head(ws) \in Window /\ Tail(ws) \in Seq(Window)
         /\ 1 \in DOMAIN ws /\ Head(ws) = ws[1]
         /\ \A k \in DOMAIN Tail(ws) : k + 1 \in DOMAIN ws /\ Tail(ws)[k] = ws[k + 1]
         /\ \A k \in DOMAIN ws : k # 1 => k - 1 \in DOMAIN Tail(ws)
                                          /\ Tail(ws)[k - 1] = ws[k]
<1>1. /\ Len(ws) \in Nat /\ Len(ws) # 0 /\ DOMAIN ws = 1..Len(ws)
      /\ Len(Tail(ws)) = Len(ws) - 1 /\ DOMAIN Tail(ws) = 1..Len(Tail(ws))
      /\ Tail(ws) \in Seq(Window) /\ Head(ws) = ws[1]
  OBVIOUS
<1>2. \A k \in 1..(Len(ws) - 1) : Tail(ws)[k] = ws[k + 1]
  OBVIOUS
<1>3. 1 \in DOMAIN ws /\ ws[1] \in Window
  BY <1>1
<1>4. ASSUME NEW k \in DOMAIN Tail(ws)
      PROVE  k + 1 \in DOMAIN ws /\ Tail(ws)[k] = ws[k + 1]
  BY <1>1, <1>2
<1>5. ASSUME NEW k \in DOMAIN ws, k # 1
      PROVE  k - 1 \in DOMAIN Tail(ws) /\ Tail(ws)[k - 1] = ws[k]
  <2>1. k - 1 \in 1..(Len(ws) - 1) /\ (k - 1) + 1 = k
    BY <1>1, <1>5
  <2> QED
    BY <1>1, <1>2, <2>1
<1> QED
  BY <1>1, <1>3, <1>4, <1>5

\* A complete page has every item of its window.
LEMMA PageStep ==
  ASSUME IInv, Still, ListComplete
  PROVE  WalkOK'
<1> DEFINE ws == progress.windows
           w == NextWindow
           listed == Listed(w)
<1>1. /\ progress \in ProgressType /\ progress.pending = {} /\ ws # <<>>
      /\ ws \in Seq(Window) /\ w = Head(ws) /\ ~NothingOpen(progress)
      /\ created \in [Items -> Nat]
  BY DEF IInv, ClockOK, WalkOK, ProgressOK, ProgressType, ListComplete, MayList,
         AtWindow, NextWindow, NothingOpen
<1>2. /\ progress' = [progress EXCEPT !.pending = listed, !.page = w,
                                      !.windows = Tail(ws)]
      /\ Cardinality(listed) <= MaxPending
  BY <1>1 DEF ListComplete, ProgressType
<1>3. listed \subseteq Items
  BY DEF Listed
<1>4. /\ w \in Window /\ Tail(ws) \in Seq(Window) /\ 1 \in DOMAIN ws /\ w = ws[1]
      /\ \A k \in DOMAIN Tail(ws) : k + 1 \in DOMAIN ws /\ Tail(ws)[k] = ws[k + 1]
      /\ \A k \in DOMAIN ws : k # 1 => k - 1 \in DOMAIN Tail(ws)
                                       /\ Tail(ws)[k - 1] = ws[k]
  BY <1>1, HeadAndTail
<1>5. \A i \in Items : created[i] # 0 /\ w.from <= created[i] /\ created[i] <= w.to
                         => i \in listed
  <2> HIDE DEF w
  <2> QED
    BY <1>1, <1>4, WindowIsListed DEF listed
<1>6. \A k \in DOMAIN ws : Proper(ws[k])
  BY DEF IInv, WalkOK, ProgressOK
<1>7. Proper(w) /\ w # NoPage
  <2>1. Proper(w)
    BY <1>4, <1>6
  <2>2. NoPage.from = 0 /\ ~(0 > 0)
    BY DEF NoPage
  <2> QED
    BY <2>1, <2>2 DEF Proper
<1> HIDE DEF w, listed
<1>8. /\ progress' \in ProgressType /\ progress'.pending = listed /\ progress'.page = w
      /\ progress'.windows = Tail(ws) /\ progress'.end = progress.end
      /\ progress'.lastCompleted = progress.lastCompleted
  BY <1>1, <1>2, <1>3, <1>4 DEF ProgressType
<1>9. ProgressOK'
  BY <1>2, <1>4, <1>6, <1>7, <1>8 DEF ProgressOK, Proper
<1>10. ~NothingOpen(progress')
  BY <1>7, <1>8 DEF NothingOpen
<1>11. IntervalsOK' /\ SinceOK'
  BY <1>1, <1>8, <1>10 DEF Still, IInv, WalkOK, IntervalsOK, SinceOK, Reached
<1>12. NothingSkipped'
  BY <1>8 DEF Still, IInv, WalkOK, NothingSkipped
<1>13. Accounted'
  <2> SUFFICES ASSUME NEW i \in Items, created[i] # 0, since <= created[i],
                      created[i] <= progress.end - Second
               PROVE  i \in recorded \/ i \in listed \/ InWindow(Tail(ws), created[i])
    BY <1>8 DEF Still, Accounted
  <2>1. i \in recorded \/ InWindow(ws, created[i])
    BY <1>1 DEF IInv, WalkOK, Accounted
  <2>2. ASSUME NEW k \in DOMAIN ws, ws[k].from <= created[i], created[i] <= ws[k].to
        PROVE  i \in listed \/ InWindow(Tail(ws), created[i])
    <3>1. CASE k = 1
      BY <1>4, <1>5, <2>2, <3>1
    <3>2. CASE k # 1
      BY <1>4, <2>2, <3>2 DEF InWindow
    <3> QED
      BY <3>1, <3>2
  <2> QED
    BY <2>1, <2>2 DEF InWindow
<1> QED
  BY <1>9, <1>11, <1>12, <1>13 DEF WalkOK

\* Two windows before the tail.
LEMMA TwoBefore ==
  ASSUME NEW ws \in Seq(Window), NEW a \in Window, NEW b \in Window
  PROVE  /\ <<a, b>> \o ws \in Seq(Window) /\ <<a, b>> \o ws # <<>>
         /\ 1 \in DOMAIN (<<a, b>> \o ws) /\ 2 \in DOMAIN (<<a, b>> \o ws)
         /\ (<<a, b>> \o ws)[1] = a /\ (<<a, b>> \o ws)[2] = b
         /\ \A k \in DOMAIN ws : k + 2 \in DOMAIN (<<a, b>> \o ws)
                                 /\ (<<a, b>> \o ws)[k + 2] = ws[k]
         /\ \A k \in DOMAIN (<<a, b>> \o ws) :
              k # 1 /\ k # 2 => k - 2 \in DOMAIN ws
                                /\ (<<a, b>> \o ws)[k] = ws[k - 2]
<1> DEFINE two == <<a, b>>
           all == two \o ws
<1>1. two \in Seq(Window) /\ Len(two) = 2 /\ two[1] = a /\ two[2] = b
  OBVIOUS
<1> HIDE DEF two
<1>a. /\ two \o ws \in Seq(Window) /\ Len(two \o ws) = Len(two) + Len(ws)
      /\ \A k \in 1..(Len(two) + Len(ws)) :
           (two \o ws)[k] = IF k <= Len(two) THEN two[k] ELSE ws[k - Len(two)]
  BY <1>1, ConcatProperties, Zenon
<1> HIDE DEF all
<1>b. /\ all \in Seq(Window) /\ Len(all) = Len(two) + Len(ws)
      /\ \A k \in 1..(Len(two) + Len(ws)) :
           all[k] = IF k <= Len(two) THEN two[k] ELSE ws[k - Len(two)]
  BY <1>a, Zenon DEF all
<1>2. /\ all \in Seq(Window) /\ Len(all) = 2 + Len(ws) /\ Len(ws) \in Nat
      /\ DOMAIN all = 1..Len(all) /\ DOMAIN ws = 1..Len(ws)
  BY <1>1, <1>b, LenProperties
<1>3. \A k \in 1..(2 + Len(ws)) :
        all[k] = IF k <= 2 THEN two[k] ELSE ws[k - 2]
  BY <1>1, <1>b
<1>4. 1 \in DOMAIN all /\ 2 \in DOMAIN all /\ all[1] = a /\ all[2] = b
  BY <1>1, <1>2, <1>3
<1>5. all # <<>>
  BY <1>4
<1>6. ASSUME NEW k \in DOMAIN ws
      PROVE  k + 2 \in DOMAIN all /\ all[k + 2] = ws[k]
  <2>1. k + 2 \in 1..(2 + Len(ws)) /\ ~(k + 2 <= 2) /\ (k + 2) - 2 = k
    BY <1>2, <1>6
  <2> QED
    BY <1>2, <1>3, <2>1
<1>7. ASSUME NEW k \in DOMAIN all, k # 1, k # 2
      PROVE  k - 2 \in DOMAIN ws /\ all[k] = ws[k - 2]
  <2>1. k \in 1..(2 + Len(ws)) /\ ~(k <= 2) /\ k - 2 \in 1..Len(ws)
    BY <1>2, <1>7
  <2> QED
    BY <1>2, <1>3, <2>1
<1> QED
  BY <1>2, <1>4, <1>5, <1>6, <1>7 DEF all, two

\* A page that is full is split into two windows that share the middle: nothing between
\* its ends is lost.
LEMMA SplitStep ==
  ASSUME IInv, Still, ListSplit
  PROVE  WalkOK'
<1> DEFINE ws == progress.windows
           w == NextWindow
           middle == Middle(w)
           newer == [from |-> middle, to |-> w.to]
           older == [from |-> w.from, to |-> middle]
           all == <<newer, older>> \o Tail(ws)
<1>1. /\ progress \in ProgressType /\ ws \in Seq(Window) /\ ws # <<>> /\ w = Head(ws)
      /\ ~NothingOpen(progress) /\ created \in [Items -> Nat] /\ middle < w.to
  BY DEF IInv, ClockOK, WalkOK, ProgressOK, ProgressType, ListSplit, MayList,
         AtWindow, NextWindow, NothingOpen
<1>2. progress' = [progress EXCEPT !.windows = all]
  BY <1>1 DEF ListSplit, Halves, ProgressType
<1>3. /\ w \in Window /\ Tail(ws) \in Seq(Window) /\ 1 \in DOMAIN ws /\ w = ws[1]
      /\ \A k \in DOMAIN Tail(ws) : k + 1 \in DOMAIN ws /\ Tail(ws)[k] = ws[k + 1]
      /\ \A k \in DOMAIN ws : k # 1 => k - 1 \in DOMAIN Tail(ws)
                                       /\ Tail(ws)[k - 1] = ws[k]
  BY <1>1, HeadAndTail
<1>4. \A k \in DOMAIN ws : Proper(ws[k])
  BY DEF IInv, WalkOK, ProgressOK
<1>5. /\ w.from \in Nat /\ w.to \in Nat /\ w.from > 0 /\ w.from < w.to
  BY <1>3, <1>4 DEF Proper, Window
<1>6. middle \in Nat /\ w.from < middle /\ middle < w.to
  <2>1. w.from <= w.to
    BY <1>5
  <2> HIDE DEF w
  <2> QED
    BY <1>1, <1>3, <2>1, MiddleInside
<1> HIDE DEF w, middle
<1>7. /\ newer \in Window /\ older \in Window /\ Proper(newer) /\ Proper(older)
      /\ newer.from = middle /\ newer.to = w.to
      /\ older.from = w.from /\ older.to = middle
  BY <1>5, <1>6 DEF Window, Proper
<1> HIDE DEF newer, older
<1>8. /\ all \in Seq(Window) /\ all # <<>>
      /\ 1 \in DOMAIN all /\ 2 \in DOMAIN all /\ all[1] = newer /\ all[2] = older
      /\ \A k \in DOMAIN Tail(ws) : k + 2 \in DOMAIN all /\ all[k + 2] = Tail(ws)[k]
      /\ \A k \in DOMAIN all : k # 1 /\ k # 2 => k - 2 \in DOMAIN Tail(ws)
                                                 /\ all[k] = Tail(ws)[k - 2]
  BY <1>3, <1>7, TwoBefore
<1> HIDE DEF all
<1>9. /\ progress' \in ProgressType /\ progress'.windows = all
      /\ progress'.pending = progress.pending /\ progress'.page = progress.page
      /\ progress'.end = progress.end
      /\ progress'.lastCompleted = progress.lastCompleted
  BY <1>1, <1>2, <1>8 DEF ProgressType
<1>10. \A k \in DOMAIN all : Proper(all[k])
  BY <1>3, <1>4, <1>7, <1>8
<1>11. ProgressOK'
  BY <1>9, <1>10 DEF IInv, WalkOK, ProgressOK, Proper
<1>12. ~NothingOpen(progress')
  BY <1>8, <1>9 DEF NothingOpen
<1>13. IntervalsOK' /\ SinceOK'
  BY <1>1, <1>9, <1>12 DEF Still, IInv, WalkOK, IntervalsOK, SinceOK, Reached
<1>14. NothingSkipped'
  BY <1>9 DEF Still, IInv, WalkOK, NothingSkipped
<1>15. \A t \in Nat : InWindow(ws, t) => InWindow(all, t)
  <2> SUFFICES ASSUME NEW t \in Nat, NEW k \in DOMAIN ws, ws[k].from <= t, t <= ws[k].to
               PROVE  InWindow(all, t)
    BY DEF InWindow
  <2>1. CASE k # 1
    <3>1. k - 1 \in DOMAIN Tail(ws) /\ Tail(ws)[k - 1] = ws[k]
      BY <1>3, <2>1
    <3>2. (k - 1) + 2 \in DOMAIN all /\ all[(k - 1) + 2] = ws[k]
      BY <1>8, <3>1
    <3> QED
      BY <3>2 DEF InWindow
  <2>2. CASE k = 1 /\ middle <= t
    BY <1>3, <1>7, <1>8, <2>2 DEF InWindow
  <2>3. CASE k = 1 /\ t <= middle
    BY <1>3, <1>7, <1>8, <2>3 DEF InWindow
  <2> QED
    BY <1>6, <2>1, <2>2, <2>3
<1>16. Accounted'
  BY <1>1, <1>9, <1>15 DEF Still, IInv, WalkOK, Accounted
<1> QED
  BY <1>11, <1>13, <1>14, <1>16 DEF WalkOK

\* What is acknowledged was recorded.
LEMMA AckStep ==
  ASSUME IInv, Still, NEW i \in Items, AckOK(i)
  PROVE  WalkOK'
<1>1. /\ progress \in ProgressType /\ progress.pending \subseteq Items /\ i \in recorded
  BY DEF IInv, BatchOK, WalkOK, ProgressOK, ProgressType, AckOK
<1>2. /\ progress' \in ProgressType /\ progress'.pending = progress.pending \ {i}
      /\ progress'.windows = progress.windows /\ progress'.page = progress.page
      /\ progress'.end = progress.end
      /\ progress'.lastCompleted = progress.lastCompleted
  BY <1>1 DEF AckOK, ProgressType
<1>3. Cardinality(progress'.pending) <= MaxPending
  <2>1. IsFiniteSet(progress.pending) /\ MaxPending \in Nat
    BY <1>1, BackfillAssumption, FS_Subset
  <2>2. progress.pending \ {i} \in SUBSET progress.pending
    OBVIOUS
  <2>3. /\ Cardinality(progress.pending \ {i}) <= Cardinality(progress.pending)
        /\ Cardinality(progress.pending \ {i}) \in Nat
        /\ Cardinality(progress.pending) \in Nat
    BY <2>1, <2>2, FS_Subset, FS_CardinalityType
  <2>4. Cardinality(progress.pending) <= MaxPending
    BY DEF IInv, WalkOK, ProgressOK
  <2> QED
    BY <1>2, <2>1, <2>3, <2>4
<1>4. ProgressOK'
  BY <1>2, <1>3 DEF IInv, WalkOK, ProgressOK
<1>5. NothingOpen(progress) => NothingOpen(progress')
  BY <1>2 DEF NothingOpen
<1>6. progress.pending # {} => progress.page # NoPage
  BY DEF IInv, WalkOK, ProgressOK
<1>7. NothingOpen(progress') => NothingOpen(progress)
  BY <1>2, <1>6 DEF NothingOpen
<1>8. IntervalsOK' /\ SinceOK'
  BY <1>2, <1>5, <1>7 DEF Still, IInv, WalkOK, IntervalsOK, SinceOK, Reached
<1>9. Accounted' /\ NothingSkipped'
  BY <1>1, <1>2, <1>5 DEF Still, IInv, WalkOK, Accounted, NothingSkipped
<1> QED
  BY <1>4, <1>8, <1>9 DEF WalkOK

-------------------------------------------------------------------------------
(* Theorems *)

LEMMA InitInv == Init => IInv
<1> SUFFICES ASSUME Init PROVE IInv
  OBVIOUS
<1>1. /\ now = StartTime /\ created \in [Items -> {0, Oldest}]
      /\ progress = EmptyProgress /\ recorded = {} /\ lookback \in Lookbacks
      /\ batch = [i \in {} |-> i] /\ since = 0
  BY DEF Init
<1>2. StartTime \in Nat /\ Oldest \in Nat /\ Oldest <= StartTime /\ MaxPending \in Nat
      /\ Second \in Nat \ {0}
  BY BackfillAssumption
<1>3. ClockOK
  BY <1>1, <1>2 DEF ClockOK
<1>4. BatchOK
  BY <1>1 DEF BatchOK, Having
<1>5. /\ progress.windows = <<>> /\ progress.pending = {} /\ progress.page = NoPage
      /\ progress.lastCompleted = 0
  BY <1>1 DEF EmptyProgress
<1>6. NothingOpen(progress)
  BY <1>5 DEF NothingOpen
<1>7. progress \in ProgressType
  <2> DEFINE none == ""
  <2>1. none \in {"", "saturated", "expired"}
    OBVIOUS
  <2>2. progress = [lookback |-> 0, end |-> 0, lastCompleted |-> 0, lastSweep |-> 0,
                    windows |-> <<>>, pending |-> {}, page |-> NoPage, block |-> none]
    BY <1>1 DEF EmptyProgress
  <2>3. <<>> \in Seq(Window) /\ NoPage \in Window /\ {} \in SUBSET Items /\ 0 \in Nat
    BY DEF NoPage, Window
  <2> HIDE DEF none
  <2> QED
    BY <2>1, <2>2, <2>3, Zenon DEF ProgressType
<1>8. ProgressOK
  <2>1. DOMAIN progress.windows = {}
    BY <1>5
  <2>2. Cardinality(progress.pending) <= MaxPending
    BY <1>2, <1>5, FS_EmptySet
  <2> QED
    BY <1>5, <1>7, <2>1, <2>2 DEF ProgressOK
<1>9. IntervalsOK /\ SinceOK /\ Accounted
  BY <1>5, <1>6 DEF IntervalsOK, SinceOK, Accounted
<1>10. NothingSkipped
  BY <1>2, <1>3, <1>5 DEF NothingSkipped, ClockOK
<1> QED
  BY <1>3, <1>4, <1>8, <1>9, <1>10 DEF IInv, WalkOK

LEMMA NextInv ==
  ASSUME IInv, [Next]_vars
  PROVE  IInv'
<1>1. ClockOK' /\ BatchOK'
  BY ClockStep, BatchStep
<1>2. CASE CycleStarts
  BY <1>1, <1>2, StartStep DEF IInv
<1>3. CASE Expire \/ BatchExpires
  <2>1. Still /\ progress' = [progress EXCEPT !.block = "expired"]
    BY <1>3 DEF Expire, BatchExpires, Still, envVars
  <2> QED
    BY <1>1, <2>1, BlockStep DEF IInv
<1>4. CASE ListSaturated
  <2>1. Still /\ progress' = [progress EXCEPT !.block = "saturated"]
    BY <1>4 DEF ListSaturated, Still, envVars
  <2> QED
    BY <1>1, <2>1, BlockStep DEF IInv
<1>5. CASE ClosePage
  BY <1>1, <1>5, CloseStep DEF IInv, ClosePage, Still, envVars
<1>6. CASE ListComplete
  BY <1>1, <1>6, PageStep DEF IInv, ListComplete, Still, envVars
<1>7. CASE ListSplit
  BY <1>1, <1>7, SplitStep DEF IInv, ListSplit, Still, envVars
<1>8. ASSUME NEW i \in Items, AckOK(i) PROVE IInv'
  BY <1>1, <1>8, AckStep DEF IInv, AckOK, Still, envVars
<1>9. CASE UNCHANGED <<progress, since>>
  BY <1>1, <1>9, RecordStays DEF IInv
<1> QED
  BY <1>2, <1>3, <1>4, <1>5, <1>6, <1>7, <1>8, <1>9
     DEF Next, Turn, Advance, Work, Blocked, CycleDone, BatchStarts, BatchEnds,
         CycleFails, BatchTimeout, Dispatch, RecordOK, RecordFails, RecordExpired,
         AckFails, Create, Tick, CrashRestart, vars

\* The inductive invariant holds in every behaviour of the backfill.
THEOREM Invariance == SafeSpec => []IInv
<1>1. Init => IInv
  BY InitInv
<1>2. IInv /\ [Next]_vars => IInv'
  BY NextInv
<1> QED
  BY <1>1, <1>2, PTL DEF SafeSpec

\* The stored progress is always one that historystate's validate accepts.
THEOREM ProgressValid == SafeSpec => []TypeOK
<1>1. IInv => TypeOK
  BY DEF IInv, BatchOK, WalkOK, ProgressOK, Proper, TypeOK
<1> QED
  BY <1>1, Invariance, PTL

\* Nothing in the walked interval is skipped, whatever was split, retried, timed out,
\* created while the walk was under way, or lost with the process.
THEOREM WalkSkipsNothing == SafeSpec => []NothingSkipped
<1>1. IInv => NothingSkipped
  BY DEF IInv, WalkOK
<1> QED
  BY <1>1, Invariance, PTL

\* While a walk is open, each item of its interval is recorded, pending, or in a window
\* that is still to be listed: what the gauges pending_windows and pending_records count
\* is all that is left to do.
THEOREM WorkIsAccounted == SafeSpec => []Accounted
<1>1. IInv => Accounted
  BY DEF IInv, WalkOK
<1> QED
  BY <1>1, Invariance, PTL

\* An item leaves the pending ones only after its event was committed, or when a changed
\* lookback starts all over.
THEOREM PendingUntilDone == SafeSpec => PendingUntilRecorded
<1> DEFINE Kept == \A i \in progress.pending \ progress'.pending :
                     i \in recorded \/ progress'.lookback # progress.lookback
<1>1. ASSUME IInv, [Next]_vars PROVE Kept
  <2>0. progress \in ProgressType /\ Having("recorded") \subseteq recorded
    BY <1>1 DEF IInv, BatchOK, WalkOK, ProgressOK
  <2>1. CASE CycleStarts
    <3>1. progress' = OpenWindow(Reset(progress)) /\ lookback \in Nat
      BY <1>1, <2>1, BackfillAssumption DEF CycleStarts, IInv, ClockOK
    <3>2. CASE progress.lookback = lookback
      <4>1. Reset(progress) = progress
        BY <3>2 DEF Reset
      <4>2. progress'.pending = progress.pending
        BY <2>0, <3>1, <4>1 DEF OpenWindow, ProgressType
      <4> QED
        BY <4>2
    <3>3. CASE progress.lookback # lookback
      <4>1. Reset(progress).lookback = lookback
        BY <3>3 DEF Reset, EmptyProgress
      <4>2. OpenWindow(Reset(progress)).lookback = Reset(progress).lookback
        <5>1. Reset(progress) = [EmptyProgress EXCEPT !.lookback = lookback]
          BY <3>3 DEF Reset
        <5>2. PICK p : p = Reset(progress)
          OBVIOUS
        <5>3. DOMAIN p = DOMAIN EmptyProgress
          BY <5>1, <5>2
        <5> QED
          BY <5>2, <5>3 DEF OpenWindow, EmptyProgress
      <4> QED
        BY <3>1, <3>3, <4>1, <4>2
    <3> QED
      BY <3>2, <3>3
  <2>2. CASE Expire \/ BatchExpires \/ ListSaturated \/ ClosePage \/ ListSplit
    <3>1. progress'.pending = progress.pending
      BY <2>0, <2>2 DEF Expire, BatchExpires, ListSaturated, ClosePage, ListSplit,
                        ProgressType
    <3> QED
      BY <3>1
  <2>3. CASE ListComplete
    BY <2>3 DEF ListComplete, MayList, AtWindow
  <2>4. ASSUME NEW i \in Items, AckOK(i) PROVE Kept
    <3>1. i \in recorded /\ progress'.pending = progress.pending \ {i}
      BY <2>0, <2>4 DEF AckOK, ProgressType
    <3> QED
      BY <3>1
  <2>5. CASE UNCHANGED progress
    BY <2>5
  <2> QED
    BY <1>1, <2>1, <2>2, <2>3, <2>4, <2>5
       DEF Next, Turn, Advance, Work, Blocked, CycleDone, BatchStarts, BatchEnds,
           CycleFails, BatchTimeout, Dispatch, RecordOK, RecordFails, RecordExpired,
           AckFails, Create, Tick, CrashRestart, envVars, vars
<1>2. IInv /\ [Next]_vars => [Kept]_vars
  <2> HIDE DEF Kept
  <2> QED
    BY <1>1
<1> QED
  BY <1>2, Invariance, PTL DEF SafeSpec, PendingUntilRecorded
===============================================================================
