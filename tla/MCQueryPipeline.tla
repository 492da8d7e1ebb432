---------------------------- MODULE MCQueryPipeline ----------------------------
(* Events of one size: the event limit is the one that binds.                  *)
EXTENDS QueryPipeline

MCSize == [t \in Live \cup Terminal |-> 1]
===============================================================================
