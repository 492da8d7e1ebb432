------------------------------ MODULE MCLifecycle ------------------------------
(* Everything at once with one query caller; the query path alone with two;    *)
(* and the parts one by one.                                                   *)
EXTENDS Lifecycle

CONSTANTS c1, c2

AllParts == {"resources", "alerts", "logs", "query", "logBackfill", "queryBackfill"}

MCConfigurations ==
  {[parts |-> AllParts, callers |-> {c1}],
   [parts |-> {"query"}, callers |-> {c1, c2}],
   [parts |-> {"resources"}, callers |-> {}],
   [parts |-> {"alerts"}, callers |-> {}],
   [parts |-> {"resources", "logs", "logBackfill"}, callers |-> {}]}
===============================================================================
