---------------------------- MODULE DetailTurnsProofs ----------------------------
(***************************************************************************)
(* Theorems about the selection of details, for every finite set of ids,   *)
(* every limit, any arrivals, departures, classes and times of the last    *)
(* fetch.                                                                  *)
(*                                                                         *)
(* The comparison of order() is total on the eligible ids, so the ranks of *)
(* n ids are the numbers below n, and a slice of k of them has k ids.  An  *)
(* id that was passed over waits behind those that were passed over with   *)
(* it only, and in every cycle in which its class has a slot one of them   *)
(* is taken and goes to the back.                                          *)
(***************************************************************************)
EXTENDS DetailTurns, FiniteSetTheorems, TLAPS

Eligible == newIds \cup refreshIds

TurnsTypeOK ==
  /\ maxPerCycle \in Nat \ {0}
  /\ nextRefreshTurn \in BOOLEAN
  /\ newIds \subseteq Ids /\ refreshIds \subseteq Ids
  /\ newIds \cap refreshIds = {}
  /\ waited \in [Ids -> Nat]

\* No two ids wait at the same place.
OrderOK ==
  /\ waitingOrder \in [Eligible -> Nat]
  /\ \A x, y \in Eligible : waitingOrder[x] = waitingOrder[y] => x = y

\* With one slot: the cycles in which the other class has its turn before one id
\* ahead of x is taken.  A refresh can become new, which changes its turn.
TurnsLost(x) ==
  IF x \in newIds THEN IF nextRefreshTurn THEN 1 ELSE 0
                  ELSE IF nextRefreshTurn THEN 1 ELSE 2

\* An id that was passed over has waited for those that went ahead of it, and will
\* wait for those that are still ahead.
WaitBounded ==
  \A x \in Ids : waited[x] > 0 =>
    /\ x \in Eligible
    /\ IF maxPerCycle = 1
       THEN waited[x] + 2 * waitingOrder[x] + TurnsLost(x) < 2 * Cardinality(Ids)
       ELSE waited[x] + waitingOrder[x] < Cardinality(Ids)

IInv == TurnsTypeOK /\ OrderOK /\ WaitBounded

-------------------------------------------------------------------------------
(* The comparison of order() *)

Fetches == [Ids -> FetchTimes]

\* It is a strict total order, whoever waits and whenever it was fetched.
LEMMA BeforeIsTotal ==
  ASSUME TurnsTypeOK, OrderOK, NEW L \in Fetches
  PROVE  /\ \A x \in Ids : ~Before(x, x, L)
         /\ \A x, y \in Ids : x # y => Before(x, y, L) \/ Before(y, x, L)
         /\ \A x, y, z \in Ids : Before(x, y, L) /\ Before(y, z, L) => Before(x, z, L)
<1>1. /\ DOMAIN waitingOrder = Eligible
      /\ \A x \in Eligible : waitingOrder[x] \in Nat
      /\ \A x, y \in Eligible : waitingOrder[x] = waitingOrder[y] => x = y
  BY DEF OrderOK
<1>2. \A x \in Ids : x \in Nat /\ L[x] \in Nat
  BY SelectionAssumption, TurnsAssumption DEF Fetches
<1>3. \A x \in Ids : ~Before(x, x, L)
  BY <1>1, <1>2 DEF Before
<1>4. ASSUME NEW x \in Ids, NEW y \in Ids, x # y
      PROVE  Before(x, y, L) \/ Before(y, x, L)
  BY <1>1, <1>2, <1>4 DEF Before
<1>5. ASSUME NEW x \in Ids, NEW y \in Ids, NEW z \in Ids,
             Before(x, y, L), Before(y, z, L)
      PROVE  Before(x, z, L)
  BY <1>1, <1>2, <1>5 DEF Before
<1> QED
  BY <1>3, <1>4, <1>5

\* The ranks of n tasks are the numbers below n, in the order of the comparison.
LEMMA RanksAreNumbers ==
  ASSUME TurnsTypeOK, OrderOK, NEW L \in Fetches, NEW T \in SUBSET Ids
  PROVE  /\ IsFiniteSet(T) /\ Cardinality(T) \in Nat
         /\ \A x \in T : Rank(x, T, L) \in 0..(Cardinality(T) - 1)
         /\ \A x, y \in T : Before(x, y, L) => Rank(x, T, L) < Rank(y, T, L)
         /\ \A x, y \in T : Rank(x, T, L) = Rank(y, T, L) => x = y
         /\ \A k \in 0..(Cardinality(T) - 1) : \E x \in T : Rank(x, T, L) = k
<1> DEFINE n == Cardinality(T)
           Ahead(x) == {y \in T : Before(y, x, L)}
           R == 0..(n - 1)
           f == [x \in T |-> Cardinality(Ahead(x))]
<1>1. IsFiniteSet(T) /\ n \in Nat
  BY TurnsAssumption, FS_Subset, FS_CardinalityType
<1>2. \A x \in T : Ahead(x) \in SUBSET (T \ {x}) /\ IsFiniteSet(Ahead(x))
                   /\ Cardinality(Ahead(x)) \in Nat
  <2> SUFFICES ASSUME NEW x \in T
               PROVE  Ahead(x) \in SUBSET (T \ {x}) /\ IsFiniteSet(Ahead(x))
                      /\ Cardinality(Ahead(x)) \in Nat
    OBVIOUS
  <2>1. Ahead(x) \in SUBSET (T \ {x}) /\ Ahead(x) \in SUBSET T
    BY BeforeIsTotal
  <2> HIDE DEF Ahead
  <2> QED
    BY <1>1, <2>1, FS_Subset, FS_CardinalityType
<1>3. \A x \in T : Cardinality(Ahead(x)) \in R
  <2> SUFFICES ASSUME NEW x \in T PROVE Cardinality(Ahead(x)) \in R
    OBVIOUS
  <2>1. IsFiniteSet(T \ {x}) /\ Cardinality(T \ {x}) = n - 1
    BY <1>1, FS_RemoveElement
  <2> HIDE DEF Ahead, n
  <2>2. Cardinality(Ahead(x)) <= Cardinality(T \ {x})
    BY <1>2, <2>1, FS_Subset
  <2> QED
    BY <1>1, <1>2, <2>1, <2>2
<1>4. \A x, y \in T : Before(x, y, L) => Cardinality(Ahead(x)) < Cardinality(Ahead(y))
  <2> SUFFICES ASSUME NEW x \in T, NEW y \in T, Before(x, y, L)
               PROVE  Cardinality(Ahead(x)) < Cardinality(Ahead(y))
    OBVIOUS
  <2>1. Ahead(x) \in SUBSET Ahead(y) /\ x \in Ahead(y) /\ x \notin Ahead(x)
    BY BeforeIsTotal
  <2> HIDE DEF Ahead
  <2>2. Cardinality(Ahead(x)) <= Cardinality(Ahead(y))
        /\ Cardinality(Ahead(x)) # Cardinality(Ahead(y))
    BY <1>2, <2>1, FS_Subset
  <2> QED
    BY <1>2, <2>2
<1>5. \A x, y \in T : Cardinality(Ahead(x)) = Cardinality(Ahead(y)) => x = y
  <2> SUFFICES ASSUME NEW x \in T, NEW y \in T, x # y
               PROVE  Cardinality(Ahead(x)) # Cardinality(Ahead(y))
    OBVIOUS
  <2>1. Before(x, y, L) \/ Before(y, x, L)
    BY BeforeIsTotal
  <2> HIDE DEF Ahead
  <2> QED
    BY <1>2, <1>4, <2>1
<1>6. IsFiniteSet(R) /\ Cardinality(R) = n
  <2> HIDE DEF n
  <2>1. IsFiniteSet(0..(n - 1))
        /\ Cardinality(0..(n - 1)) = IF 0 > n - 1 THEN 0 ELSE (n - 1) - 0 + 1
    BY <1>1, FS_Interval
  <2> QED
    BY <1>1, <2>1
<1>7. f \in Injection(T, R)
  <2>1. f \in [T -> R]
    BY <1>3
  <2>2. \A x, y \in T : f[x] = f[y] => x = y
    BY <1>5
  <2> HIDE DEF f, R
  <2> QED
    BY <2>1, <2>2 DEF Injection, IsInjective
<1>8. f \in Surjection(T, R)
  <2> HIDE DEF f, R, n
  <2>1. Cardinality(T) = n
    BY DEF n
  <2> QED
    BY <1>6, <1>7, <2>1, FS_Injection
<1>9. \A k \in R : \E x \in T : f[x] = k
  <2> HIDE DEF f, R
  <2> QED
    BY <1>8 DEF Surjection
<1> QED
  BY <1>1, <1>3, <1>4, <1>5, <1>9 DEF Rank

\* A slice of the first k tasks has k of them.
LEMMA FirstHasMany ==
  ASSUME TurnsTypeOK, OrderOK, NEW L \in Fetches, NEW T \in SUBSET Ids,
         NEW k \in 0..Cardinality(T)
  PROVE  /\ First(k, T, L) \subseteq T
         /\ IsFiniteSet(First(k, T, L)) /\ Cardinality(First(k, T, L)) = k
<1> DEFINE F == First(k, T, L)
           R == 0..(k - 1)
           f == [x \in F |-> Rank(x, T, L)]
<1>1. /\ IsFiniteSet(T) /\ Cardinality(T) \in Nat /\ k \in Nat /\ k <= Cardinality(T)
      /\ \A x \in T : Rank(x, T, L) \in 0..(Cardinality(T) - 1)
      /\ \A x, y \in T : Rank(x, T, L) = Rank(y, T, L) => x = y
      /\ \A j \in 0..(Cardinality(T) - 1) : \E x \in T : Rank(x, T, L) = j
  BY RanksAreNumbers
<1>2. F \in SUBSET T /\ \A x \in T : x \in F <=> Rank(x, T, L) < k
  BY DEF First
<1>3. IsFiniteSet(F)
  BY <1>1, <1>2, FS_Subset
<1>4. IsFiniteSet(R) /\ Cardinality(R) = k
  <2> HIDE DEF F
  <2>1. 0 \in Int /\ k - 1 \in Int
    BY <1>1
  <2>2. IsFiniteSet(0..(k - 1))
        /\ Cardinality(0..(k - 1)) = IF 0 > k - 1 THEN 0 ELSE (k - 1) - 0 + 1
    BY <2>1, FS_Interval
  <2> QED
    BY <1>1, <2>2
<1>5. f \in Bijection(F, R)
  <2> HIDE DEF F
  <2>1. \A x \in F : Rank(x, T, L) \in R
    BY <1>1, <1>2
  <2>2. f \in [F -> R] /\ \A x, y \in F : f[x] = f[y] => x = y
    BY <1>1, <1>2, <2>1
  <2>3. \A j \in R : \E x \in F : f[x] = j
    <3> SUFFICES ASSUME NEW j \in R PROVE \E x \in F : f[x] = j
      OBVIOUS
    <3>1. j \in 0..(Cardinality(T) - 1) /\ j < k
      BY <1>1
    <3>2. PICK x \in T : Rank(x, T, L) = j
      BY <1>1, <3>1
    <3> QED
      BY <1>2, <3>1, <3>2
  <2> HIDE DEF f, R
  <2> QED
    BY <2>2, <2>3 DEF Bijection, Injection, Surjection, IsInjective
<1>6. Cardinality(R) = Cardinality(F)
  <2> HIDE DEF F, R, f
  <2> QED
    BY <1>3, <1>5, FS_Bijection DEF ExistsBijection
<1> QED
  BY <1>2, <1>3, <1>4, <1>6

\* Whoever is taken was ahead of whoever is left.
LEMMA TakenWereAhead ==
  ASSUME TurnsTypeOK, OrderOK, NEW L \in Fetches, NEW T \in SUBSET Ids, NEW k \in Nat,
         NEW y \in First(k, T, L), NEW x \in T \ First(k, T, L)
  PROVE  Before(y, x, L)
<1>1. /\ x \in T /\ y \in T /\ Rank(y, T, L) < k /\ ~(Rank(x, T, L) < k)
  BY DEF First
<1>2. Rank(x, T, L) \in Nat /\ Rank(y, T, L) \in Nat
      /\ (Before(x, y, L) => Rank(x, T, L) < Rank(y, T, L))
  BY <1>1, RanksAreNumbers
<1>3. x # y
  BY <1>1
<1>4. ~Before(x, y, L)
  BY <1>1, <1>2
<1> QED
  BY <1>1, <1>3, <1>4, BeforeIsTotal
-------------------------------------------------------------------------------
(* The quota of a cycle *)

\* The quota uses every slot, and gives no class more than it has.
LEMMA QuotaFills ==
  ASSUME maxPerCycle \in Nat \ {0}, nextRefreshTurn \in BOOLEAN,
         NEW S, IsFiniteSet(S), NEW T, IsFiniteSet(T), S \cap T = {}
  PROVE  /\ Quota(S, T).new \in 0..Cardinality(S)
         /\ Quota(S, T).refresh \in 0..Cardinality(T)
         /\ Quota(S, T).new + Quota(S, T).refresh
              = Smaller(maxPerCycle, Cardinality(S \cup T))
<1>1. Cardinality(S) \in Nat /\ Cardinality(T) \in Nat
  BY FS_CardinalityType
<1>2. Cardinality(S \cup T) = Cardinality(S) + Cardinality(T)
  <2>1. Cardinality(S \cap T) = 0
    BY FS_EmptySet
  <2>2. Cardinality(S \cup T) = Cardinality(S) + Cardinality(T) - Cardinality(S \cap T)
    BY FS_Union
  <2> QED
    BY <1>1, <2>1, <2>2
<1> DEFINE n == Cardinality(S)
           r == Cardinality(T)
           limit == Smaller(maxPerCycle, n + r)
           share == Smaller(Larger(1, limit \div 4), r)
           taken == Smaller(limit - share, n)
<1>3. /\ limit \in Nat /\ limit <= n + r
      /\ n + r > 0 => limit > 0
      /\ limit = Smaller(maxPerCycle, Cardinality(S \cup T))
  BY <1>1, <1>2 DEF Smaller
<1> HIDE DEF n, r, limit
<1>4. n \in Nat /\ r \in Nat
  BY <1>1 DEF n, r
<1>5. CASE n = 0 \/ r = 0
  <2>1. Quota(S, T) = [new |-> Smaller(limit, n), refresh |-> Smaller(limit, r)]
    BY <1>5 DEF Quota, n, r, limit
  <2>2. Smaller(limit, n) + Smaller(limit, r) = limit
        /\ Smaller(limit, n) \in 0..n /\ Smaller(limit, r) \in 0..r
    BY <1>3, <1>4, <1>5 DEF Smaller
  <2> QED
    BY <1>3, <2>1, <2>2 DEF n, r
<1>6. CASE n # 0 /\ r # 0 /\ limit = 1
  <2>1. Quota(S, T) = [new |-> IF nextRefreshTurn THEN 0 ELSE 1,
                       refresh |-> IF nextRefreshTurn THEN 1 ELSE 0]
    BY <1>6 DEF Quota, n, r, limit
  <2> QED
    BY <1>3, <1>4, <1>6, <2>1 DEF n, r
<1>7. CASE n # 0 /\ r # 0 /\ limit # 1
  <2>1. Quota(S, T) = [new |-> taken, refresh |-> Smaller(limit - taken, r)]
    BY <1>7 DEF Quota, n, r, limit
  <2>2. limit \div 4 \in Nat /\ 4 * (limit \div 4) <= limit
    BY <1>3
  <2>3. share \in 1..r /\ share < limit /\ share <= Larger(1, limit \div 4)
    BY <1>3, <1>4, <1>7, <2>2 DEF Smaller, Larger
  <2> HIDE DEF share
  <2>4. taken \in 0..n /\ taken <= limit - share
    BY <1>3, <1>4, <2>3 DEF Smaller
  <2>5. Smaller(limit - taken, r) \in 0..r /\ taken + Smaller(limit - taken, r) = limit
    BY <1>3, <1>4, <2>3 DEF Smaller
  <2> QED
    BY <1>3, <2>1, <2>4, <2>5 DEF n, r
<1> QED
  BY <1>4, <1>5, <1>6, <1>7

\* Of several slots each class that waits has one.
LEMMA QuotaServesBoth ==
  ASSUME maxPerCycle \in Nat \ {0, 1}, NEW S, IsFiniteSet(S), NEW T, IsFiniteSet(T)
  PROVE  /\ S # {} => Quota(S, T).new >= 1
         /\ T # {} => Quota(S, T).refresh >= 1
<1>1. /\ Cardinality(S) \in Nat /\ Cardinality(T) \in Nat
      /\ Cardinality(S) = 0 <=> S = {}
      /\ Cardinality(T) = 0 <=> T = {}
  BY FS_CardinalityType, FS_EmptySet
<1> DEFINE n == Cardinality(S)
           r == Cardinality(T)
           limit == Smaller(maxPerCycle, n + r)
           share == Smaller(Larger(1, limit \div 4), r)
           taken == Smaller(limit - share, n)
<1>2. CASE n = 0 \/ r = 0
  <2>1. Quota(S, T) = [new |-> Smaller(limit, n), refresh |-> Smaller(limit, r)]
    BY <1>2 DEF Quota
  <2> QED
    BY <1>1, <1>2, <2>1 DEF Smaller
<1>3. CASE n # 0 /\ r # 0
  <2>1. limit \in Nat /\ limit >= 2
    BY <1>1, <1>3 DEF Smaller
  <2> HIDE DEF limit
  <2>2. Quota(S, T) = [new |-> taken, refresh |-> Smaller(limit - taken, r)]
    BY <1>3, <2>1 DEF Quota, limit
  <2>3. limit \div 4 \in Nat /\ 4 * (limit \div 4) <= limit
    BY <2>1
  <2> HIDE DEF n, r
  <2>4. n \in Nat /\ r \in Nat
    BY <1>1 DEF n, r
  <2>5. share \in 1..r /\ share < limit
    BY <1>3, <2>1, <2>3, <2>4 DEF Smaller, Larger
  <2> HIDE DEF share
  <2>6. taken >= 1 /\ taken <= limit - share /\ taken \in Nat
    BY <1>3, <2>1, <2>4, <2>5 DEF Smaller
  <2> HIDE DEF taken
  <2>7. Smaller(limit - taken, r) >= 1
    BY <1>3, <2>1, <2>4, <2>5, <2>6 DEF Smaller
  <2> QED
    BY <2>2, <2>6, <2>7
<1> QED
  BY <1>2, <1>3

\* The only slot goes to the class that waits, or to the one whose turn it is.
LEMMA QuotaTakesTurns ==
  ASSUME maxPerCycle = 1, nextRefreshTurn \in BOOLEAN,
         NEW S, IsFiniteSet(S), NEW T, IsFiniteSet(T)
  PROVE  /\ S # {} /\ (T = {} \/ ~nextRefreshTurn) => Quota(S, T).new = 1
         /\ T # {} /\ (S = {} \/ nextRefreshTurn) => Quota(S, T).refresh = 1
<1>1. /\ Cardinality(S) \in Nat /\ Cardinality(T) \in Nat
      /\ Cardinality(S) = 0 <=> S = {}
      /\ Cardinality(T) = 0 <=> T = {}
  BY FS_CardinalityType, FS_EmptySet
<1>2. CASE S = {} \/ T = {}
  BY <1>1, <1>2 DEF Quota, Smaller
<1>3. CASE S # {} /\ T # {}
  BY <1>1, <1>3 DEF Quota, Smaller
<1> QED
  BY <1>2, <1>3

-------------------------------------------------------------------------------
(* What a cycle selects and whom it puts off *)

\* The ids of a cycle's list, in their two classes.
Classes(S, T) == S \in SUBSET Ids /\ T \in SUBSET Ids /\ S \cap T = {}

Picked(S, T, L) == SelectedNew(S, T, L) \cup SelectedRefresh(S, T, L)

PutOff(S, T, L) == (S \cup T) \ Picked(S, T, L)

NewOrder(S, T, L) ==
  NextWaiting(S \cup T, SelectedNew(S, T, L), SelectedRefresh(S, T, L), L)

\* What selectFair returns comes from the list and fills the cycle.
LEMMA SelectionFills ==
  ASSUME TurnsTypeOK, OrderOK, NEW L \in Fetches, NEW S, NEW T, Classes(S, T)
  PROVE  /\ SelectedNew(S, T, L) \subseteq S /\ SelectedRefresh(S, T, L) \subseteq T
         /\ IsFiniteSet(Picked(S, T, L))
         /\ Cardinality(Picked(S, T, L)) = Smaller(maxPerCycle, Cardinality(S \cup T))
<1> DEFINE q == Quota(S, T)
           A == First(q.new, S, L)
           B == First(q.refresh, T, L)
<1>1. /\ S \in SUBSET Ids /\ T \in SUBSET Ids /\ S \cap T = {}
      /\ IsFiniteSet(S) /\ IsFiniteSet(T)
  BY TurnsAssumption, FS_Subset DEF Classes
<1>2. /\ q.new \in 0..Cardinality(S) /\ q.refresh \in 0..Cardinality(T)
      /\ q.new + q.refresh = Smaller(maxPerCycle, Cardinality(S \cup T))
  BY <1>1, QuotaFills DEF TurnsTypeOK
<1> HIDE DEF q
<1>3. /\ A \subseteq S /\ IsFiniteSet(A) /\ Cardinality(A) = q.new
      /\ B \subseteq T /\ IsFiniteSet(B) /\ Cardinality(B) = q.refresh
  BY <1>1, <1>2, FirstHasMany
<1> HIDE DEF A, B
<1>4. IsFiniteSet(A \cup B) /\ Cardinality(A \cup B) = q.new + q.refresh
  <2>1. A \cap B = {}
    BY <1>1, <1>3
  <2>2. Cardinality(A \cap B) = 0
    BY <2>1, FS_EmptySet
  <2>3. Cardinality(A) \in Nat /\ Cardinality(B) \in Nat
    BY <1>3, FS_CardinalityType
  <2>4. IsFiniteSet(A \cup B)
        /\ Cardinality(A \cup B) = Cardinality(A) + Cardinality(B) - Cardinality(A \cap B)
    BY <1>3, FS_Union
  <2> QED
    BY <1>3, <2>2, <2>3, <2>4
<1> QED
  BY <1>2, <1>3, <1>4 DEF A, B, q, Picked, SelectedNew, SelectedRefresh

\* Where the ids stand after a cycle: those that were put off in front, in their
\* order, and every id at a place of its own.
LEMMA OrderStep ==
  ASSUME TurnsTypeOK, OrderOK, NEW L \in Fetches, NEW S, NEW T, Classes(S, T)
  PROVE  /\ NewOrder(S, T, L) \in [S \cup T -> Nat]
         /\ \A x, y \in S \cup T :
              NewOrder(S, T, L)[x] = NewOrder(S, T, L)[y] => x = y
         /\ \A x \in PutOff(S, T, L) :
              NewOrder(S, T, L)[x] = Rank(x, PutOff(S, T, L), L)
<1> DEFINE A == SelectedNew(S, T, L)
           B == SelectedRefresh(S, T, L)
           left == (S \cup T) \ (A \cup B)
           order == NextWaiting(S \cup T, A, B, L)
           RankIn(x, U) == Rank(x, U, L)
<1>1. /\ S \in SUBSET Ids /\ T \in SUBSET Ids /\ S \cap T = {}
      /\ A \subseteq S /\ B \subseteq T /\ Picked(S, T, L) = A \cup B
  BY SelectionFills DEF Classes, Picked
<1> HIDE DEF A, B
<1>2. /\ A \in SUBSET Ids /\ B \in SUBSET Ids /\ left \in SUBSET Ids
      /\ A \cap B = {} /\ A \cap left = {} /\ B \cap left = {}
      /\ S \cup T = A \cup B \cup left
  BY <1>1
<1> HIDE DEF left
<1>3. \A x \in S \cup T :
        order[x] = CASE x \in left -> RankIn(x, left)
                     [] x \in A -> Cardinality(left) + RankIn(x, A)
                     [] x \in B -> Cardinality(left) + Cardinality(A) + RankIn(x, B)
  BY DEF NextWaiting, left
<1>4. \A U \in {left, A, B} :
        /\ Cardinality(U) \in Nat
        /\ \A x \in U : RankIn(x, U) \in 0..(Cardinality(U) - 1)
        /\ \A x, y \in U : RankIn(x, U) = RankIn(y, U) => x = y
  <2> SUFFICES ASSUME NEW U \in SUBSET Ids
               PROVE  /\ Cardinality(U) \in Nat
                      /\ \A x \in U : RankIn(x, U) \in 0..(Cardinality(U) - 1)
                      /\ \A x, y \in U : RankIn(x, U) = RankIn(y, U) => x = y
    BY <1>2
  <2> QED
    BY RanksAreNumbers
<1>5. order = [x \in S \cup T |-> order[x]]
  BY DEF NextWaiting
<1> HIDE DEF order, RankIn
<1>6. /\ \A x \in left : order[x] = RankIn(x, left)
      /\ \A x \in A : order[x] = Cardinality(left) + RankIn(x, A)
      /\ \A x \in B : order[x] = Cardinality(left) + Cardinality(A) + RankIn(x, B)
  BY <1>2, <1>3
<1>7. \A x \in S \cup T : order[x] \in Nat
  BY <1>2, <1>4, <1>6
<1>8. ASSUME NEW x \in S \cup T, NEW y \in S \cup T, order[x] = order[y]
      PROVE  x = y
  <2>1. /\ x \in left => order[x] < Cardinality(left)
        /\ x \in A => order[x] >= Cardinality(left)
                      /\ order[x] < Cardinality(left) + Cardinality(A)
        /\ x \in B => order[x] >= Cardinality(left) + Cardinality(A)
    BY <1>4, <1>6
  <2>2. /\ y \in left => order[y] < Cardinality(left)
        /\ y \in A => order[y] >= Cardinality(left)
                      /\ order[y] < Cardinality(left) + Cardinality(A)
        /\ y \in B => order[y] >= Cardinality(left) + Cardinality(A)
    BY <1>4, <1>6
  <2>3. Cardinality(left) \in Nat /\ Cardinality(A) \in Nat /\ order[x] \in Nat
    BY <1>4, <1>7
  <2>4. \E U \in {left, A, B} : x \in U /\ y \in U /\ RankIn(x, U) = RankIn(y, U)
    <3>1. CASE x \in left
      <4>1. y \in left
        BY <1>2, <1>8, <2>1, <2>2, <2>3, <3>1
      <4> QED
        BY <1>6, <1>8, <3>1, <4>1
    <3>2. CASE x \in A
      <4>1. y \in A
        BY <1>2, <1>8, <2>1, <2>2, <2>3, <3>2
      <4>2. RankIn(x, A) \in Nat /\ RankIn(y, A) \in Nat
        BY <1>4, <3>2, <4>1
      <4>3. RankIn(x, A) = RankIn(y, A)
        BY <1>6, <1>8, <2>3, <3>2, <4>1, <4>2
      <4> QED
        BY <3>2, <4>1, <4>3
    <3>3. CASE x \in B
      <4>1. y \in B
        BY <1>2, <1>8, <2>1, <2>2, <2>3, <3>3
      <4>2. RankIn(x, B) \in Nat /\ RankIn(y, B) \in Nat
        BY <1>4, <3>3, <4>1
      <4>3. RankIn(x, B) = RankIn(y, B)
        BY <1>6, <1>8, <2>3, <3>3, <4>1, <4>2
      <4> QED
        BY <3>3, <4>1, <4>3
    <3> QED
      BY <1>2, <3>1, <3>2, <3>3
  <2> QED
    BY <1>4, <2>4
<1>9. order \in [S \cup T -> Nat]
  BY <1>5, <1>7
<1> QED
  BY <1>1, <1>6, <1>8, <1>9 DEF order, left, A, B, RankIn, NewOrder, PutOff
\* Behind an id that waits nobody gets in: after a cycle at most those are ahead of
\* it that were before, and one fewer if one of them was taken.
LEMMA PlaceStep ==
  ASSUME TurnsTypeOK, OrderOK, NEW L \in Fetches, NEW U \in SUBSET Ids,
         NEW x \in U, x \in Eligible
  PROVE  /\ Rank(x, U, L) \in Nat
         /\ Rank(x, U, L) <= waitingOrder[x]
         /\ (\E y \in Ids \ U : Before(y, x, L)) => Rank(x, U, L) < waitingOrder[x]
<1> DEFINE o == waitingOrder[x]
           Ahead == {y \in Eligible : waitingOrder[y] < o}
           Stay == {y \in U : Before(y, x, L)}
           R == 0..(o - 1)
           f == [y \in Ahead |-> waitingOrder[y]]
<1>1. /\ DOMAIN waitingOrder = Eligible
      /\ \A y \in Eligible : waitingOrder[y] \in Nat
      /\ \A y, z \in Eligible : waitingOrder[y] = waitingOrder[z] => y = z
      /\ o \in Nat
  BY DEF OrderOK
<1>2. IsFiniteSet(R) /\ Cardinality(R) = o
  <2> HIDE DEF o
  <2>1. 0 \in Int /\ o - 1 \in Int
    BY <1>1
  <2>2. IsFiniteSet(0..(o - 1))
        /\ Cardinality(0..(o - 1)) = IF 0 > o - 1 THEN 0 ELSE (o - 1) - 0 + 1
    BY <2>1, FS_Interval
  <2> QED
    BY <1>1, <2>2
<1>3. f \in Injection(Ahead, R)
  <2>1. f \in [Ahead -> R]
    BY <1>1
  <2>2. \A y, z \in Ahead : f[y] = f[z] => y = z
    BY <1>1
  <2> HIDE DEF f, Ahead, R
  <2> QED
    BY <2>1, <2>2 DEF Injection, IsInjective
<1>4. IsFiniteSet(Ahead) /\ Cardinality(Ahead) <= o
  <2> HIDE DEF f, Ahead, R
  <2> QED
    BY <1>2, <1>3, FS_Injection
<1>5. \A y \in Ids : Before(y, x, L) => y \in Ahead
  BY <1>1 DEF Before
<1>6. Stay \in SUBSET Ahead
  BY <1>5
<1> HIDE DEF Ahead
<1>7. Rank(x, U, L) = Cardinality(Stay)
  BY DEF Rank
<1>8. (\E y \in Ids \ U : Before(y, x, L)) => Stay # Ahead
  BY <1>5
<1> HIDE DEF Stay, o
<1>9. /\ Cardinality(Ahead) \in Nat /\ Cardinality(Stay) \in Nat
      /\ Cardinality(Stay) <= Cardinality(Ahead)
      /\ Cardinality(Ahead) = Cardinality(Stay) => Ahead = Stay
  BY <1>4, <1>6, FS_Subset, FS_CardinalityType
<1> QED
  BY <1>1, <1>4, <1>7, <1>8, <1>9 DEF o

\* If the class of an id that is put off has a slot, one of those ahead of it is taken.
LEMMA ClassMoves ==
  ASSUME TurnsTypeOK, OrderOK, NEW L \in Fetches, NEW S, NEW T, Classes(S, T),
         NEW C, NEW q,
         \/ C = S /\ q = Quota(S, T).new
         \/ C = T /\ q = Quota(S, T).refresh,
         q >= 1, NEW x \in C, x \notin Picked(S, T, L)
  PROVE  \E y \in Picked(S, T, L) : Before(y, x, L)
<1>1. /\ S \in SUBSET Ids /\ T \in SUBSET Ids /\ S \cap T = {}
      /\ IsFiniteSet(S) /\ IsFiniteSet(T) /\ C \in SUBSET Ids
  BY TurnsAssumption, FS_Subset DEF Classes
<1>2. q \in 0..Cardinality(C) /\ q \in Nat
  <2>1. /\ Quota(S, T).new \in 0..Cardinality(S)
        /\ Quota(S, T).refresh \in 0..Cardinality(T)
    BY <1>1, QuotaFills DEF TurnsTypeOK
  <2>2. Cardinality(S) \in Nat /\ Cardinality(T) \in Nat
    BY <1>1, FS_CardinalityType
  <2> QED
    BY <2>1, <2>2
<1>3. First(q, C, L) \subseteq Picked(S, T, L)
  BY DEF Picked, SelectedNew, SelectedRefresh
<1>4. PICK y : y \in First(q, C, L)
  <2>1. Cardinality(First(q, C, L)) = q
    BY <1>1, <1>2, FirstHasMany
  <2>2. First(q, C, L) # {}
    BY <1>2, <2>1, FS_EmptySet
  <2> QED
    BY <2>2
<1>5. x \in C \ First(q, C, L)
  BY <1>3
<1>6. Before(y, x, L)
  BY <1>1, <1>2, <1>4, <1>5, TakenWereAhead
<1> QED
  BY <1>3, <1>4, <1>6

-------------------------------------------------------------------------------
(* The step *)

\* One cycle keeps the types and the places.
LEMMA CycleOrder ==
  ASSUME IInv, NEW S \in SUBSET Ids, NEW T \in SUBSET Ids, NEW L \in Fetches,
         Cycle(S, T, L, Picked(S, T, L))
  PROVE  /\ Classes(S, T) /\ newIds' = S /\ refreshIds' = T
         /\ maxPerCycle' = maxPerCycle
         /\ nextRefreshTurn' = IF maxPerCycle = 1 /\ S # {} /\ T # {}
                               THEN ~nextRefreshTurn ELSE nextRefreshTurn
         /\ \A x \in (S \cup T) \ Picked(S, T, L) :
              waitingOrder'[x] = Rank(x, (S \cup T) \ Picked(S, T, L), L)
         /\ TurnsTypeOK' /\ OrderOK'
<1>1. TurnsTypeOK /\ OrderOK
  BY DEF IInv
<1>2. /\ Classes(S, T) /\ newIds' = S /\ refreshIds' = T /\ maxPerCycle' = maxPerCycle
      /\ Eligible' = S \cup T
  BY DEF Cycle, Classes, Eligible
<1>3. nextRefreshTurn' = IF maxPerCycle = 1 /\ S # {} /\ T # {}
                         THEN ~nextRefreshTurn ELSE nextRefreshTurn
  BY DEF Cycle, SelectFair
<1>4. waitingOrder' = NextWaiting(S \cup T, SelectedNew(S, T, L),
                                  SelectedRefresh(S, T, L), L)
  BY DEF Cycle, SelectFair
<1>5. TurnsTypeOK'
  <2>1. waited' \in [Ids -> Nat]
    BY <1>1 DEF Cycle, TurnsTypeOK
  <2>2. nextRefreshTurn' \in BOOLEAN
    BY <1>1, <1>3 DEF TurnsTypeOK
  <2> QED
    BY <1>1, <1>2, <2>1, <2>2 DEF TurnsTypeOK, Classes
<1>6. Classes(S, T)
  BY <1>2
<1>7. /\ NewOrder(S, T, L) \in [S \cup T -> Nat]
      /\ \A x, y \in S \cup T : NewOrder(S, T, L)[x] = NewOrder(S, T, L)[y] => x = y
      /\ \A x \in PutOff(S, T, L) :
           NewOrder(S, T, L)[x] = Rank(x, PutOff(S, T, L), L)
  BY <1>1, <1>6, OrderStep
<1>8. waitingOrder' = NewOrder(S, T, L)
  BY <1>4 DEF NewOrder
<1>9. OrderOK'
  BY <1>2, <1>7, <1>8 DEF OrderOK
<1> QED
  BY <1>2, <1>3, <1>5, <1>7, <1>8, <1>9 DEF PutOff

\* The other id's turn is soon over: what an id that is put off has waited and still
\* waits for never grows.
LEMMA WaitStep ==
  ASSUME IInv, NEW S \in SUBSET Ids, NEW T \in SUBSET Ids, NEW L \in Fetches,
         Cycle(S, T, L, Picked(S, T, L))
  PROVE  WaitBounded'
<1> DEFINE P == Picked(S, T, L)
           left == (S \cup T) \ P
           N == Cardinality(Ids)
<1>1. TurnsTypeOK /\ OrderOK /\ WaitBounded
  BY DEF IInv
<1>2. /\ Classes(S, T) /\ newIds' = S /\ refreshIds' = T /\ maxPerCycle' = maxPerCycle
      /\ nextRefreshTurn' = IF maxPerCycle = 1 /\ S # {} /\ T # {}
                            THEN ~nextRefreshTurn ELSE nextRefreshTurn
      /\ \A x \in left : waitingOrder'[x] = Rank(x, left, L)
      /\ Eligible' = S \cup T
  BY CycleOrder DEF Eligible
<1>3. \A x \in Ids : waited'[x] = IF x \notin left THEN 0
                                 ELSE IF maxPerCycle = 1 /\ FallsBack(x, T) THEN 1
                                 ELSE waited[x] + 1
  BY DEF Cycle
<1>4. /\ S \in SUBSET Ids /\ T \in SUBSET Ids /\ S \cap T = {} /\ P \subseteq S \cup T
      /\ left \in SUBSET Ids /\ IsFiniteSet(S) /\ IsFiniteSet(T)
  BY <1>1, <1>2, SelectionFills, TurnsAssumption, FS_Subset DEF Classes, Picked
<1>5. maxPerCycle \in Nat \ {0} /\ nextRefreshTurn \in BOOLEAN /\ waited \in [Ids -> Nat]
      /\ N \in Nat
  BY <1>1, TurnsAssumption, FS_CardinalityType DEF TurnsTypeOK
<1>6. SUFFICES ASSUME NEW x \in left
               PROVE  IF maxPerCycle = 1
                      THEN waited'[x] + 2 * waitingOrder'[x] + TurnsLost(x)' < 2 * N
                      ELSE waited'[x] + waitingOrder'[x] < N
  BY <1>2, <1>3, <1>5 DEF WaitBounded
<1> DEFINE fell == maxPerCycle = 1 /\ FallsBack(x, T)
           w == IF fell THEN 0 ELSE waited[x]
           r == Rank(x, left, L)
<1>7. waited'[x] = w + 1 /\ waitingOrder'[x] = r /\ w \in Nat /\ x \in Ids
  <2>1. x \in Ids /\ waited[x] \in Nat /\ waitingOrder'[x] = r
    BY <1>2, <1>4, <1>5, <1>6
  <2>2. CASE fell
    <3>1. waited'[x] = 1 /\ w = 0
      BY <1>3, <1>6, <2>1, <2>2
    <3> QED
      BY <2>1, <3>1
  <2>3. CASE ~fell
    <3>1. waited'[x] = waited[x] + 1 /\ w = waited[x]
      BY <1>3, <1>6, <2>1, <2>3
    <3> QED
      BY <2>1, <3>1
  <2> QED
    BY <2>2, <2>3
<1>8. TurnsLost(x)' = IF x \in S THEN IF nextRefreshTurn' THEN 1 ELSE 0
                                 ELSE IF nextRefreshTurn' THEN 1 ELSE 2
  BY <1>2 DEF TurnsLost
<1> HIDE DEF P, left
<1>9. CASE w = 0
  <2>1. r \in Nat /\ r <= Cardinality(left) - 1 /\ Cardinality(left) \in Nat
    BY <1>1, <1>4, <1>6, RanksAreNumbers
  <2>2. Cardinality(left) <= N - 1
    <3>1. P # {}
      <4>1. Cardinality(P) = Smaller(maxPerCycle, Cardinality(S \cup T))
        BY <1>1, <1>2, SelectionFills DEF P
      <4>2. S \cup T \in SUBSET Ids /\ S \cup T # {}
        BY <1>4, <1>6 DEF left
      <4>3. IsFiniteSet(S \cup T) /\ Cardinality(S \cup T) \in Nat
            /\ Cardinality(S \cup T) # 0
        BY <4>2, TurnsAssumption, FS_Subset, FS_CardinalityType, FS_EmptySet
      <4> QED
        BY <1>5, <4>1, <4>3, FS_EmptySet DEF Smaller
    <3>2. PICK y : y \in P
      BY <3>1
    <3>3. y \in Ids /\ left \in SUBSET (Ids \ {y})
      BY <1>4, <3>2 DEF left
    <3> HIDE DEF N
    <3>4. IsFiniteSet(Ids \ {y}) /\ Cardinality(Ids \ {y}) = N - 1
      BY <3>3, TurnsAssumption, FS_RemoveElement DEF N
    <3> QED
      BY <3>3, <3>4, FS_Subset
  <2> HIDE DEF N, r, w
  <2>3. TurnsLost(x)' \in 0..2
    BY <1>8
  <2>4. w = 0 /\ r + 2 <= N /\ r \in Nat
    BY <1>5, <1>9, <2>1, <2>2
  <2>5. maxPerCycle = 1 => w + 1 + 2 * r + TurnsLost(x)' < 2 * N
    BY <1>5, <2>3, <2>4
  <2> QED
    BY <1>5, <1>7, <2>4, <2>5
<1>10. CASE w > 0
  <2> DEFINE o == waitingOrder[x]
  <2>0. ~fell /\ w = waited[x]
    BY <1>10
  <2>1. /\ x \in Eligible /\ x \in Ids
        /\ IF maxPerCycle = 1 THEN w + 2 * o + TurnsLost(x) < 2 * N
                              ELSE w + o < N
    BY <1>1, <1>7, <1>10, <2>0 DEF WaitBounded
  <2>2. o \in Nat
    BY <1>1, <2>1 DEF OrderOK
  <2>3. /\ r \in Nat /\ r <= o
        /\ (\E y \in Ids \ left : Before(y, x, L)) => r < o
    BY <1>1, <1>4, <1>6, <2>1, PlaceStep
  <2>4. ASSUME \/ x \in S /\ Quota(S, T).new >= 1
               \/ x \in T /\ Quota(S, T).refresh >= 1
        PROVE  r < o
    <3>1. \E y \in P : Before(y, x, L)
      BY <1>1, <1>2, <1>6, <2>4, ClassMoves DEF P, left
    <3>2. P \subseteq Ids \ left
      BY <1>4 DEF left
    <3> QED
      BY <2>3, <3>1, <3>2
  <2>5. x \in S \/ x \in T
    BY <1>6 DEF left
  <2> HIDE DEF o, N, r, w, fell
  <2>6. CASE maxPerCycle # 1
    <3>1. r < o
      BY <1>4, <1>5, <2>4, <2>5, <2>6, QuotaServesBoth
    <3> QED
      BY <1>5, <1>7, <2>1, <2>2, <2>3, <2>6, <3>1
  <2>7. CASE maxPerCycle = 1
    <3>1. /\ x \in S /\ (T = {} \/ ~nextRefreshTurn) => r < o
          /\ x \in T /\ (S = {} \/ nextRefreshTurn) => r < o
      <4>1. /\ S # {} /\ (T = {} \/ ~nextRefreshTurn) => Quota(S, T).new = 1
            /\ T # {} /\ (S = {} \/ nextRefreshTurn) => Quota(S, T).refresh = 1
        BY <1>4, <1>5, <2>7, QuotaTakesTurns
      <4> QED
        BY <2>4, <4>1
    <3>2. TurnsLost(x) = IF x \in newIds THEN IF nextRefreshTurn THEN 1 ELSE 0
                                         ELSE IF nextRefreshTurn THEN 1 ELSE 2
      BY DEF TurnsLost
    <3>3. x \in T => x \notin newIds
      BY <2>0, <2>7 DEF fell, FallsBack
    <3>4. w + 2 * o + TurnsLost(x) < 2 * N
      BY <2>1, <2>7
    <3>5. 1 + 2 * r + TurnsLost(x)' <= 2 * o + TurnsLost(x)
      <4>1. CASE x \in S
        <5>1. x \notin T
          BY <1>4, <4>1
        <5>2. CASE T = {} \/ ~nextRefreshTurn
          <6>1. r < o
            BY <3>1, <4>1, <5>2
          <6>2. TurnsLost(x)' <= TurnsLost(x) + 1 /\ TurnsLost(x) \in 0..2
                /\ TurnsLost(x)' \in 0..2
            BY <1>2, <1>5, <1>8, <2>7, <3>2, <4>1, <5>2
          <6> QED
            BY <2>2, <2>3, <6>1, <6>2
        <5>3. CASE T # {} /\ nextRefreshTurn
          <6>1. TurnsLost(x)' = 0 /\ TurnsLost(x) = 1
            BY <1>2, <1>5, <1>8, <2>7, <3>2, <4>1, <5>3
          <6> QED
            BY <2>2, <2>3, <6>1
        <5> QED
          BY <1>5, <5>2, <5>3
      <4>2. CASE x \in T
        <5>1. x \notin S /\ x \notin newIds
          BY <1>4, <3>3, <4>2
        <5>2. CASE S = {} \/ nextRefreshTurn
          <6>1. r < o
            BY <3>1, <4>2, <5>2
          <6>2. TurnsLost(x)' <= TurnsLost(x) + 1 /\ TurnsLost(x) \in 0..2
                /\ TurnsLost(x)' \in 0..2
            BY <1>2, <1>5, <1>8, <2>7, <3>2, <4>2, <5>1, <5>2
          <6> QED
            BY <2>2, <2>3, <6>1, <6>2
        <5>3. CASE S # {} /\ ~nextRefreshTurn
          <6>1. TurnsLost(x)' = 1 /\ TurnsLost(x) = 2
            BY <1>2, <1>5, <1>8, <2>7, <3>2, <4>2, <5>1, <5>3
          <6> QED
            BY <2>2, <2>3, <6>1
        <5> QED
          BY <1>5, <5>2, <5>3
      <4> QED
        BY <2>5, <4>1, <4>2
    <3>6. TurnsLost(x)' \in 0..2 /\ TurnsLost(x) \in 0..2
      BY <1>8, <3>2
    <3>7. w \in Nat
      BY <1>7
    <3> QED
      BY <1>5, <1>7, <2>2, <2>3, <2>7, <3>4, <3>5, <3>6, <3>7
  <2> QED
    BY <2>6, <2>7
<1> HIDE DEF w
<1> QED
  BY <1>7, <1>9, <1>10
-------------------------------------------------------------------------------
(* The theorems *)

LEMMA InitInv == Init => IInv
<1> SUFFICES ASSUME Init PROVE IInv
  OBVIOUS
<1>1. TurnsTypeOK
  BY TurnsAssumption DEF Init, SelectionInit, TurnsTypeOK
<1>2. OrderOK
  BY DEF Init, SelectionInit, OrderOK, Eligible
<1>3. WaitBounded
  BY DEF Init, WaitBounded
<1> QED
  BY <1>1, <1>2, <1>3 DEF IInv

LEMMA NextInv == IInv /\ [Next]_vars => IInv'
<1> SUFFICES ASSUME IInv, [Next]_vars PROVE IInv'
  OBVIOUS
<1>1. CASE Next
  <2>1. PICK S \in SUBSET Ids, T \in SUBSET Ids, L \in Fetches :
               Cycle(S, T, L, Picked(S, T, L))
    BY <1>1 DEF Next, Fetches, Picked
  <2>2. TurnsTypeOK' /\ OrderOK'
    BY <2>1, CycleOrder
  <2>3. WaitBounded'
    BY <2>1, WaitStep
  <2> QED
    BY <2>2, <2>3 DEF IInv
<1>2. CASE UNCHANGED vars
  BY <1>2 DEF vars, IInv, TurnsTypeOK, OrderOK, WaitBounded, Eligible, TurnsLost
<1> QED
  BY <1>1, <1>2

THEOREM TurnsInvariance == Spec => []IInv
  BY InitInv, NextInv, PTL DEF Spec

\* No id starves (the order and the turns of selectFair): with several slots an
\* eligible id is passed over in fewer cycles than there are ids, whatever arrives,
\* leaves, fails or changes class; with one slot in fewer than twice as many since it
\* last fell back from new to refresh.
THEOREM NobodyStarves == Spec => []BoundedWaiting
<1>1. IInv => BoundedWaiting
  <2> SUFFICES ASSUME IInv, NEW x \in Ids
               PROVE  waited[x] < (IF maxPerCycle = 1 THEN 2 ELSE 1) * Cardinality(Ids)
    BY DEF BoundedWaiting
  <2> DEFINE N == Cardinality(Ids)
  <2>1. N \in Nat /\ N # 0
    BY TurnsAssumption, FS_CardinalityType, FS_EmptySet
  <2>2. waited[x] \in Nat /\ TurnsLost(x) \in 0..2
    BY DEF IInv, TurnsTypeOK, TurnsLost
  <2>3. waited[x] > 0 => waitingOrder[x] \in Nat
    BY DEF IInv, OrderOK, WaitBounded
  <2>4. waited[x] > 0 => IF maxPerCycle = 1
                         THEN waited[x] + 2 * waitingOrder[x] + TurnsLost(x) < 2 * N
                         ELSE waited[x] + waitingOrder[x] < N
    BY DEF IInv, WaitBounded
  <2> HIDE DEF N
  <2>5. waited[x] < (IF maxPerCycle = 1 THEN 2 ELSE 1) * N
    BY <2>1, <2>2, <2>3, <2>4
  <2> QED
    BY <2>5 DEF N
<1> QED
  BY <1>1, TurnsInvariance, PTL

\* A cycle of selectFair wastes no slot and exceeds none: it attempts maxPerCycle ids,
\* or all the eligible ones.
THEOREM EverySlotUsed == Spec => FillsTheCycle
<1> DEFINE eligible == newIds' \cup refreshIds'
           attempted == {x \in eligible : waited'[x] = 0}
           Filled == Cardinality(attempted) = Smaller(maxPerCycle, Cardinality(eligible))
<1>1. IInv /\ [Next]_vars => [Filled]_vars
  <2> SUFFICES ASSUME IInv, Next PROVE Filled
    OBVIOUS
  <2>1. PICK S \in SUBSET Ids, T \in SUBSET Ids, L \in Fetches :
               Cycle(S, T, L, Picked(S, T, L))
    BY DEF Next, Fetches, Picked
  <2>2. Classes(S, T) /\ newIds' = S /\ refreshIds' = T
    BY <2>1, CycleOrder
  <2>3. TurnsTypeOK /\ OrderOK /\ waited \in [Ids -> Nat]
    BY DEF IInv, TurnsTypeOK
  <2>4. /\ Picked(S, T, L) \subseteq S \cup T
        /\ Cardinality(Picked(S, T, L)) = Smaller(maxPerCycle, Cardinality(S \cup T))
    BY <2>2, <2>3, SelectionFills DEF Picked
  <2>5. \A x \in S \cup T : waited'[x] = 0 <=> x \in Picked(S, T, L)
    <3> SUFFICES ASSUME NEW x \in S \cup T
                 PROVE  waited'[x] = 0 <=> x \in Picked(S, T, L)
      OBVIOUS
    <3>1. x \in Ids /\ waited[x] \in Nat
      BY <2>3
    <3>2. waited'[x] = IF x \notin (S \cup T) \ Picked(S, T, L) THEN 0
                       ELSE IF maxPerCycle = 1 /\ FallsBack(x, T) THEN 1
                       ELSE waited[x] + 1
      BY <2>1, <3>1 DEF Cycle
    <3> QED
      BY <3>1, <3>2
  <2>6. attempted = Picked(S, T, L) /\ eligible = S \cup T
    BY <2>2, <2>4, <2>5
  <2> QED
    BY <2>4, <2>6
<1> QED
  BY <1>1, TurnsInvariance, PTL DEF Spec, FillsTheCycle
===============================================================================
