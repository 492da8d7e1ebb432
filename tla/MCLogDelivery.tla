----------------------------- MODULE MCLogDelivery -----------------------------
(* The log path with records of one size: the event limit is the one that     *)
(* binds.  The contents are interchangeable.                                   *)
EXTENDS LogDelivery, TLC

MCSize == [h \in Hashes |-> 1]

\* The clock has not moved, and all entries and details have carried an updatedOn.
Ordinary == now = 1 /\ \A id \in Logs : source[id].marked /\ source[id].dated

\* The states explored.  The backfill is enabled: it may do nothing, and a list
\* beyond its threshold is then as good as without it.  After an expiry or something
\* undated the publisher works between the cycles of the poll.
Explored == options.backfill /\ (Ordinary \/ poll = NoPoll \/ flush = NoFlush)

MCSymmetry == Permutations(Hashes)
===============================================================================
