----------------------------- MODULE AlertDelivery -----------------------------
(***************************************************************************)
(* The alert path of the exporter as a whole: the DDAE server, the alert   *)
(* pipeline, the outbox, the Kafka publisher, the readiness flags, and a   *)
(* process that can stop at any step and start again on the same file.     *)
(***************************************************************************)
EXTENDS AlertPipeline, KafkaPublisher, FiniteSetsExt

CONSTANT MaxCrashes   \* bound: restarts of the process

ASSUME CrashAssumption == MaxCrashes \in Nat

VARIABLE crashes

envVars == <<source, now, accepted, crashes>>

vars == <<storeVars, diag, pollVars, publisherVars, envVars>>

Init ==
  /\ StoreInit
  /\ diag = NoDiagnostics
  /\ SourceInit
  /\ PollInit
  /\ PublisherInit
  /\ accepted = <<>>
  /\ topic = <<>>
  /\ crashes = 0

\* Committed transactions and the topic survive; everything in memory is lost.
\* Open then validates the file.
CrashRestart ==
  /\ crashes < MaxCrashes
  /\ crashes' = crashes + 1
  /\ Reopen
  /\ diag' = NoDiagnostics
  /\ waitingOrder' = [x \in {} |-> x] /\ nextRefreshTurn' = FALSE
  /\ poll' = Idle
  /\ inflight' = [id \in {} |-> id]
  /\ flush' = Waiting /\ recovery' = FALSE
  /\ UNCHANGED <<topic, source, now, accepted>>

Pipeline == PollNext /\ UNCHANGED <<publisherVars, crashes>>

Publisher == FlushNext /\ UNCHANGED <<pollVars, envVars>>

Environment == SourceNext /\ UNCHANGED <<publisherVars, crashes>>

Next == Pipeline \/ Publisher \/ Environment \/ CrashRestart

SafeSpec == Init /\ [][Next]_vars

-------------------------------------------------------------------------------
(* Fairness *)

PollStep(A) == A /\ UNCHANGED <<publisherVars, crashes>>

FlushStep(A) == A /\ UNCHANGED <<pollVars, envVars>>

\* The two goroutines are scheduled: a step of the program that can be taken is
\* taken in the end.  The tickers start a new poll and a new flush for ever, so
\* what may fail is tried for ever; a server and a broker that answer correctly
\* again and again are assumed (strong fairness of the good answers).
Fairness ==
  /\ WF_vars(Pipeline) /\ WF_vars(Publisher)
  /\ SF_vars(PollStep(PollList(Present, TRUE)))
  /\ \A id \in Alerts :
       /\ WF_vars(PollStep(ClassifyTask(id) \/ ClassifySeen(id)))
       /\ SF_vars(PollStep(Dispatch(id)))
       /\ SF_vars(PollStep(DetailArrives(id)))
  /\ SF_vars(FlushStep(PublishOK))

Spec == SafeSpec /\ Fairness

-------------------------------------------------------------------------------
(* Properties *)

\* The record a topic entry carries.
Content(i) == accepted[topic[i]]

D == INSTANCE Delivery WITH Events <- Record,
                            log <- [i \in 1..Len(topic) |-> Content(i)]

\* The composed system implements Delivery: whatever the interleaving of poll
\* workers, publisher and crashes, the topic is a growing prefix of what was
\* accepted, in order and without gaps.
DeliversInOrder == D!DeliverySafety

\* ... and everything accepted reaches the topic in the end.
DeliversEverything == D!DeliverySpec

\* After a state error the publisher is not reported healthy before a flush has
\* gone through without any: a publish that fails in between must not hide it.
RecoveryKeepsUnready == recovery => ~AlertPipelineReady

\* A cycle that leaves the alert path ready has processed its list: every listed
\* alert that it did not defer has a checkpoint with the marker of this list, so
\* a new or changed alert whose detail failed, was refused or timed out never passes
\* as collected.
ReadyMeansCollected ==
  [][(poll.pc = "report" /\ poll'.pc = "idle" /\ AlertPipelineReady') =>
       \A id \in DOMAIN poll.markers \ poll.deferred :
         Known(id) /\ checkpoints[id].marker = poll.markers[id]]_vars

\* What the topic shows last for an alert.
LastDelivered(id) ==
  LET at == {i \in 1..Len(topic) : Content(i).id = id}
  IN  IF at = {} THEN NoHash ELSE Content(Max(at)).hash

\* Once the server's alerts stop changing, the topic shows the current content
\* of every alert that is still listed: no change is lost because a detail was
\* stale, a cycle timed out, the outbox was full or the process restarted.
TopicConverges ==
  \A id \in Alerts :
    <>[](id \in Present => LastDelivered(id) = source[id].hash)

\* The pipeline and the publisher both write the buffered and full gauges from
\* a Health they read earlier; whichever writes last, the gauges are right in
\* the end and readiness does not stay wrong.
GaugesConverge == <>[](diag.stateFull = Full /\ diag.buffered = meta.count)
===============================================================================
