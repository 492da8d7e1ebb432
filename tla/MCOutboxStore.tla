----------------------------- MODULE MCOutboxStore -----------------------------
(* The alert outbox with sizes that let the byte limit bind before the event  *)
(* limit for one content and after it for the other.                          *)
EXTENDS OutboxStore, TLC

CONSTANTS h1, h2

Symmetry == Permutations(Alerts)

MCSize == [h \in {h1, h2} |-> IF h = h1 THEN 1 ELSE 2]
===============================================================================
