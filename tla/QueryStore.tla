------------------------------ MODULE QueryStore ------------------------------
(***************************************************************************)
(* The query store as a state machine of its own: any interleaving of the  *)
(* transactions that its three clients (query poll, query publisher and    *)
(* history backfill) and a restart can commit, with observations that      *)
(* arrive late and out of order and a clock that may be set back.          *)
(*                                                                         *)
(* What the server will say about a query is fixed: when it was submitted, *)
(* when it completes and how.  Two history variables record               *)
(*   counted[id]  how often the query was added to a completed counter     *)
(*   acked        queries whose terminal event was acknowledged            *)
(***************************************************************************)
EXTENDS QueryState

CONSTANTS
  Submitted, CompletedAt, Outcome,   \* the server's facts, by query
  Readings,                          \* clock readings
  MaxSequence                        \* bound: events inserted in one behaviour

ASSUME FactsAssumption ==
  /\ Submitted \in [Queries -> Nat] /\ CompletedAt \in [Queries -> Nat]
  /\ \A id \in Queries : Submitted[id] <= CompletedAt[id]
  /\ Outcome \in [Queries -> Terminal]
  /\ Readings \subseteq Nat \ {0}
  /\ IsFiniteSet(Queries)

ASSUME QueryBoundAssumption == MaxSequence \in Nat

VARIABLES counted, acked

queryVars == <<queryStoreVars, counted, acked>>

\* What a detail response can say about a query.
Observation ==
  {e \in [id : Queries, state : Live \cup Terminal,
          when : {Submitted[id] : id \in Queries} \cup {CompletedAt[id] : id \in Queries},
          observed : Readings] :
     IF e.state \in Live
     THEN e.when \in {Submitted[e.id], CompletedAt[e.id]}
     ELSE e.state = Outcome[e.id] /\ e.when = CompletedAt[e.id]}

QueryInit ==
  /\ QueryStoreInit
  /\ counted = [id \in Queries |-> 0]
  /\ acked = {}

Record(e) ==
  /\ sequence < MaxSequence
  /\ RecordStored(e)
  /\ counted' = IF e.state \in Terminal THEN [counted EXCEPT ![e.id] = @ + 1]
                ELSE counted
  /\ UNCHANGED acked

RecordNothing(e) == RecordIgnored(e) /\ UNCHANGED <<counted, acked>>

PruneAt(now) == Prune(now) /\ UNCHANGED <<counted, acked>>

\* flush acknowledges in key order.
AckOldest(s) ==
  /\ s \in Records(1)
  /\ Ack(s)
  /\ acked' = IF events[s].state \in Terminal THEN acked \cup {events[s].id} ELSE acked
  /\ UNCHANGED counted

Restart(now) == Open(now) /\ UNCHANGED <<counted, acked>>

QueryNext ==
  \/ \E e \in Observation : Record(e) \/ RecordNothing(e)
  \/ \E now \in Readings : PruneAt(now) \/ Restart(now)
  \/ \E s \in DOMAIN events : AckOldest(s)

QuerySpec == QueryInit /\ [][QueryNext]_queryVars

-------------------------------------------------------------------------------
(* Properties *)

\* Every variable of the store and its history has its type, and the limits hold
\* for what is really stored.
TypeOK ==
  /\ QueryStoreTypeOK
  /\ counted \in [Queries -> Nat]
  /\ acked \subseteq Queries
  /\ Cardinality(DOMAIN events) <= MaxEvents
  /\ BytesOf(DOMAIN events) <= MaxBytes
  /\ Cardinality(DOMAIN checkpoints) <= MaxCheckpoints

\* Records, Ack, Stats and Open never meet a file they call corrupt: a queued
\* terminal event keeps its locked checkpoint until retention has passed it.
NeverCorrupt == StateValid

\* The completed counters count every query at most once, whatever is observed
\* again after its checkpoint was pruned, after a restart, by the poll or by
\* the backfill, and also when the clock was set back in between.
CountedOnce ==
  /\ \A id \in Queries : counted[id] <= 1
  /\ \A t \in Terminal :
       stats.completed[t] = Cardinality({id \in Queries : counted[id] = 1
                                                          /\ Outcome[id] = t})

\* A query is counted exactly when its terminal event was handed to the outbox:
\* no crash and no full outbox separates the two.
CountedWithEvent ==
  Events => \A id \in Queries :
    counted[id] = 1 <=>
      \/ id \in acked
      \/ \E s \in DOMAIN events : events[s].id = id /\ events[s].state \in Terminal

\* No event of a query is queued after its terminal event: a late answer of a
\* concurrent fetch never makes a finished query run again for the consumer.
TerminalIsLast ==
  [][\A s \in DOMAIN events' \ DOMAIN events : counted[events'[s].id] = 0]_queryVars

===============================================================================
