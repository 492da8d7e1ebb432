----------------------------- MODULE FairSelection -----------------------------
(***************************************************************************)
(* selectFair: which of the eligible details a poll cycle fetches when     *)
(* there are more of them than maxPerCycle (internal/alerts/pipeline.go;   *)
(* internal/serviceability/pipeline.go has the same function).             *)
(*                                                                         *)
(* A task is an id; its class is "new" (priority 0) or "refresh"           *)
(* (priority 1).  Sorted slices are represented by their order: the first  *)
(* k elements of a sorted slice are the elements of rank below k.          *)
(***************************************************************************)
EXTENDS Integers, FiniteSets

CONSTANT Ids

\* Ids are compared by the sort.
ASSUME SelectionAssumption == Ids \subseteq Nat

VARIABLES
  maxPerCycle,     \* an option: no step of a process changes it
  waitingOrder, nextRefreshTurn

selectionVars == <<waitingOrder, nextRefreshTurn>>

\* The comparison of order(): waiting ids first, in their waiting order, then
\* by the time of the last fetch, then by id.
Before(x, y, lastFetched) ==
  LET xWaits == x \in DOMAIN waitingOrder
      yWaits == y \in DOMAIN waitingOrder
  IN  \/ xWaits /\ ~yWaits
      \/ xWaits /\ yWaits /\ waitingOrder[x] < waitingOrder[y]
      \/ ~xWaits /\ ~yWaits /\ \/ lastFetched[x] < lastFetched[y]
                               \/ lastFetched[x] = lastFetched[y] /\ x < y

Rank(x, tasks, lastFetched) ==
  Cardinality({y \in tasks : Before(y, x, lastFetched)})

First(k, tasks, lastFetched) ==
  {x \in tasks : Rank(x, tasks, lastFetched) < k}

Smaller(a, b) == IF a < b THEN a ELSE b

Larger(a, b) == IF a > b THEN a ELSE b

\* Variant: what one class leaves unused is lost.
QuotaWithoutRest(newTasks, refreshTasks) ==
  LET limit == Smaller(maxPerCycle, Cardinality(newTasks \cup refreshTasks))
      share == Smaller(Larger(1, limit \div 4), Cardinality(refreshTasks))
  IN  [new |-> Smaller(limit - share, Cardinality(newTasks)), refresh |-> share]

\* How many tasks of each class are taken: with both classes waiting a quarter
\* of the cycle, at least one task, goes to refreshes, and what one class
\* leaves unused goes to the other.
Quota(newTasks, refreshTasks) ==
  LET n == Cardinality(newTasks)
      r == Cardinality(refreshTasks)
      limit == Smaller(maxPerCycle, n + r)
      share == Smaller(Larger(1, limit \div 4), r)
      takenNew == Smaller(limit - share, n)
  IN  IF n = 0 \/ r = 0
      THEN [new |-> Smaller(limit, n), refresh |-> Smaller(limit, r)]
      ELSE IF limit = 1
      THEN [new |-> IF nextRefreshTurn THEN 0 ELSE 1,
            refresh |-> IF nextRefreshTurn THEN 1 ELSE 0]
      ELSE [new |-> takenNew, refresh |-> Smaller(limit - takenNew, r)]

SelectedNew(newTasks, refreshTasks, lastFetched) ==
  First(Quota(newTasks, refreshTasks).new, newTasks, lastFetched)

SelectedRefresh(newTasks, refreshTasks, lastFetched) ==
  First(Quota(newTasks, refreshTasks).refresh, refreshTasks, lastFetched)

\* Variant: attempted ids keep the front.
NextWaitingFront(tasks, pickedNew, pickedRefresh, lastFetched) ==
  LET picked == pickedNew \cup pickedRefresh
  IN  [x \in tasks |-> IF x \in picked
                       THEN Rank(x, picked, lastFetched)
                       ELSE Cardinality(picked) + Rank(x, tasks \ picked, lastFetched)]

\* The deferred function: ids that were not attempted keep their place at the
\* front, attempted ids go to the back in the order they were selected.
NextWaiting(tasks, pickedNew, pickedRefresh, lastFetched) ==
  LET left == tasks \ (pickedNew \cup pickedRefresh)
  IN  [x \in tasks |->
         CASE x \in left -> Rank(x, left, lastFetched)
           [] x \in pickedNew ->
                Cardinality(left) + Rank(x, pickedNew, lastFetched)
           [] x \in pickedRefresh ->
                Cardinality(left) + Cardinality(pickedNew)
                  + Rank(x, pickedRefresh, lastFetched)]

\* selectFair returns `selected'; the refresh turn flips only when one slot is
\* contended by both classes.
SelectFair(newTasks, refreshTasks, lastFetched, selected) ==
  LET pickedNew == SelectedNew(newTasks, refreshTasks, lastFetched)
      pickedRefresh == SelectedRefresh(newTasks, refreshTasks, lastFetched)
      contended == maxPerCycle = 1 /\ newTasks # {} /\ refreshTasks # {}
  IN  /\ selected = pickedNew \cup pickedRefresh
      /\ waitingOrder' = NextWaiting(newTasks \cup refreshTasks,
                                     pickedNew, pickedRefresh, lastFetched)
      /\ nextRefreshTurn' = IF contended THEN ~nextRefreshTurn
                                         ELSE nextRefreshTurn

SelectionInit == waitingOrder = [x \in {} |-> x] /\ nextRefreshTurn = FALSE
===============================================================================
