--------------------------- MODULE MCAlertRetention ---------------------------
(* One alert that leaves, returns for one poll and leaves again. *)
EXTENDS AlertRetention

MCSize == [h \in Hashes |-> 1]
===============================================================================
