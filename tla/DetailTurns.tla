------------------------------ MODULE DetailTurns ------------------------------
(***************************************************************************)
(* Cycle after cycle of selectFair against an arbitrary alert list: any    *)
(* set of ids is eligible in any cycle, attempts succeed or fail.          *)
(*                                                                         *)
(*   newIds, refreshIds  the classes of the eligible ids of this cycle     *)
(*   waited[x]           history: cycles in a row in which x was eligible  *)
(*                       and was not attempted; with one slot, since it    *)
(*                       last fell back from new to refresh                *)
(***************************************************************************)
EXTENDS FairSelection

CONSTANTS
  Limits,      \* values of the option maxPerCycle
  FetchTimes   \* readings of lastFetched

\* The configuration refuses a limit below 1, and a process lists finitely many ids.
ASSUME TurnsAssumption ==
  Limits \subseteq Nat \ {0} /\ FetchTimes \subseteq Nat /\ IsFiniteSet(Ids)

VARIABLES newIds, refreshIds, waited

vars == <<maxPerCycle, waitingOrder, nextRefreshTurn, newIds, refreshIds, waited>>

Init ==
  /\ SelectionInit
  /\ maxPerCycle \in Limits
  /\ newIds = {} /\ refreshIds = {}
  /\ waited = [x \in Ids |-> 0]

\* An id that was new is a refresh now: its list entry has lost its usable
\* updatedOn or shows the checkpoint's again, or the detail was fetched.
FallsBack(x, refresh) == x \in newIds \cap refresh

\* One cycle.
Cycle(new, refresh, lastFetched, selected) ==
  /\ new \cap refresh = {}
  /\ SelectFair(new, refresh, lastFetched, selected)
  /\ newIds' = new
  /\ refreshIds' = refresh
  /\ waited' = [x \in Ids |->
                  IF x \notin (new \cup refresh) \ selected THEN 0
                  ELSE IF maxPerCycle = 1 /\ FallsBack(x, refresh) THEN 1
                  ELSE waited[x] + 1]
  /\ UNCHANGED maxPerCycle

Next ==
  \E new, refresh \in SUBSET Ids, lastFetched \in [Ids -> FetchTimes] :
    \E selected \in {SelectedNew(new, refresh, lastFetched)
                       \cup SelectedRefresh(new, refresh, lastFetched)} :
      Cycle(new, refresh, lastFetched, selected)

Spec == Init /\ [][Next]_vars

-------------------------------------------------------------------------------
(* Properties *)

\* No id starves.  With several slots an eligible id is passed over in fewer
\* cycles than there are ids, whatever arrives, leaves, fails or changes class in
\* the meantime, the id itself included.  With one slot, which alternates between
\* the classes, in fewer than twice as many, counted from the cycle in which it
\* last fell back from new to refresh (an id that falls back in step with the
\* turns misses all of them).
BoundedWaiting ==
  \A x \in Ids : waited[x] < (IF maxPerCycle = 1 THEN 2 ELSE 1) * Cardinality(Ids)

\* A cycle wastes no slot and exceeds none: it attempts maxPerCycle ids, or all
\* the eligible ones.
FillsTheCycle ==
  [][LET eligible == newIds' \cup refreshIds'
         attempted == {x \in eligible : waited'[x] = 0}
     IN  Cardinality(attempted) = Smaller(maxPerCycle, Cardinality(eligible))]_vars
===============================================================================
