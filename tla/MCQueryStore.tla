----------------------------- MODULE MCQueryStore -----------------------------
(* Two queries: one that completes quickly, one that runs for longer than the  *)
(* retention.                                                                  *)
EXTENDS QueryStore

MCSubmitted == [id \in Queries |-> 1]
MCCompletedAt == [id \in Queries |-> IF id = 1 THEN 2 ELSE 4]
MCOutcome == [id \in Queries |-> "finished"]
MCSize == [t \in Live \cup Terminal |-> IF t \in Terminal THEN 2 ELSE 1]
===============================================================================
