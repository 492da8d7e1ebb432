------------------------------ MODULE OutboxStore ------------------------------
(***************************************************************************)
(* The alert outbox as a state machine of its own: any interleaving of the *)
(* transactions its two clients (the alert pipeline and the Kafka          *)
(* publisher) and a restart of the process can commit, with any wall-clock *)
(* reading, monotone or not.                                               *)
(*                                                                         *)
(* Two history variables record what the clients saw:                      *)
(*   observed[id]  content of the last Enqueue of id that succeeded        *)
(*   acked[id]     content of the last record of id that was acknowledged, *)
(*                 which Kafka had confirmed before                        *)
(***************************************************************************)
EXTENDS Outbox

CONSTANTS
  Times,         \* wall-clock readings
  MaxSequence    \* bound: records inserted in one behaviour

ASSUME TimesAssumption == Times \subseteq Nat \ {0}
ASSUME BoundAssumption == MaxSequence \in Nat

VARIABLES observed, acked

outboxVars == <<outbox, checkpoints, meta, sequence, observed, acked>>

OutboxInit ==
  /\ StoreInit
  /\ observed = [id \in Alerts |-> NoHash]
  /\ acked = [id \in Alerts |-> NoHash]

Enqueue(id, hash, marker, at) ==
  /\ \/ EnqueueKnown(id, hash, marker, at)
     \/ sequence < MaxSequence /\ EnqueueNew(id, hash, marker, at)
  /\ observed' = [observed EXCEPT ![id] = hash]
  /\ UNCHANGED acked

EnqueueRefused(id, hash, marker, at) ==
  EnqueueFull(id, hash, marker, at) /\ UNCHANGED <<observed, acked>>

Seen(id, marker) == MarkSeen(id, marker) /\ UNCHANGED <<observed, acked>>

\* The publisher acknowledges in key order: always the oldest record.
AcknowledgeOldest(s) ==
  /\ s \in Records(1)
  /\ Acknowledge(s)
  /\ acked' = [acked EXCEPT ![outbox[s].id] = outbox[s].hash]
  /\ UNCHANGED observed

Reconcile(listed, now, complete) ==
  ReconcileListed(listed, now, complete) /\ UNCHANGED <<observed, acked>>

\* A crash loses nothing that was committed; Open validates what it finds.
Restart == Reopen /\ UNCHANGED <<observed, acked>>

OutboxNext ==
  \/ \E id \in Alerts, hash \in Hashes,
        marker \in Markers \cup {NoMarker}, at \in Times :
       Enqueue(id, hash, marker, at) \/ EnqueueRefused(id, hash, marker, at)
  \/ \E id \in Alerts, marker \in Markers \cup {NoMarker} : Seen(id, marker)
  \/ \E s \in DOMAIN outbox : AcknowledgeOldest(s)
  \/ \E listed \in SUBSET Alerts, now \in Times, complete \in BOOLEAN :
       Reconcile(listed, now, complete)
  \/ Restart

OutboxSpec == OutboxInit /\ [][OutboxNext]_outboxVars

-------------------------------------------------------------------------------
(* Properties *)

\* Every variable of the store and its history has its type.
TypeOK ==
  /\ StoreTypeOK
  /\ observed \in [Alerts -> Hashes \cup {NoHash}]
  /\ acked \in [Alerts -> Hashes \cup {NoHash}]

\* No sequence of transactions leads to a state that the store itself calls
\* corrupt: Acknowledge's "checkpoint pending hash mismatch" and "outbox record
\* has no matching checkpoint", and the same checks of validateAndMigrate that
\* would keep the process from starting, can never fire.
NeverCorrupt ==
  /\ StateValid
  /\ \A s \in DOMAIN outbox : AckValid(s)

\* The content the topic will show for an alert once its queue has drained.
EventualContent(id) ==
  IF QueuedOf(id) # {} THEN NewestHash(id) ELSE acked[id]

\* De-duplication never hides a change: when the queue has drained, a consumer
\* holds the content the pipeline last observed, also when an alert goes
\* A -> B -> A while B is still queued, and also across the deletion of the
\* checkpoint after its retention.
ConsumerConverges ==
  \A id \in Alerts : observed[id] # NoHash => EventualContent(id) = observed[id]

\* A record is inserted only for a change.  Once an alert was fetched and as long
\* as its checkpoint is kept, a new record differs from what the topic shows of
\* the alert when its queue has drained: nothing unchanged is sent again, whatever
\* is queued, acknowledged or restarted in between.
NoRepeatedEvent ==
  [][\A id \in DOMAIN checkpoints, s \in DOMAIN outbox' \ DOMAIN outbox :
       (checkpoints[id].lastFetched > 0 /\ outbox'[s].id = id)
         => outbox'[s].hash # EventualContent(id)]_outboxVars
===============================================================================
