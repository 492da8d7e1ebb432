---------------------------- MODULE AlertRetention ----------------------------
(***************************************************************************)
(* The alert path with one more history variable: the time of the last     *)
(* list that showed each alert (complete or not).                          *)
(***************************************************************************)
EXTENDS AlertDelivery

VARIABLE lastListed

retentionVars == <<vars, lastListed>>

RetentionInit == Init /\ lastListed = [id \in Alerts |-> 0]

ListArrives == poll.pc = "idle" /\ poll'.pc = "classify"

RetentionNext ==
  /\ Next
  /\ lastListed' = IF ListArrives
                   THEN [id \in Alerts |-> IF id \in DOMAIN poll'.markers
                                           THEN poll'.at ELSE lastListed[id]]
                   ELSE lastListed

RetentionSpec == RetentionInit /\ [][RetentionNext]_retentionVars

\* CHECKPOINT_RETENTION keeps the last hash for the retention after an alert
\* disappears: a checkpoint that a reconciliation deletes was last listed at
\* least the retention before.
RetainedAfterDisappearing ==
  [][\A id \in DOMAIN checkpoints \ DOMAIN checkpoints' :
       poll.at - lastListed[id] >= Retention]_retentionVars
===============================================================================
