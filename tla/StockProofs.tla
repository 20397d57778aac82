---------------------------- MODULE StockProofs ----------------------------
(***************************************************************************)
(* Theorems about AccessoryStock for every finite set of checkout rows and *)
(* request slots, and about ConsumableStock for any quantities and counts. *)
(***************************************************************************)
EXTENDS AccessoryStock, ConsumableStock, FiniteSetTheorems, TLAPS

-----------------------------------------------------------------------------
(* Counting units.                                                         *)

\* A set of rows stands for finitely many units.
LEMMA UnitsFinite ==
  ASSUME NEW S \in SUBSET Checkouts
  PROVE  IsFiniteSet(Units(S)) /\ Cardinality(Units(S)) \in Nat
  <1>1. IsFiniteSet(S) /\ IsFiniteSet(1..MaxQuantity)
    BY StockConstants, NobodyIsNoEmployee, FS_Subset, FS_Interval
  <1>2. IsFiniteSet(S \X (1..MaxQuantity))
    BY <1>1, FS_Product
  <1>3. Units(S) \in SUBSET (S \X (1..MaxQuantity))
    BY DEF Units
  <1>4. IsFiniteSet(Units(S))
    BY <1>2, <1>3, FS_Subset
  <1> QED
    BY <1>4, FS_CardinalityType

\* Closing the rows R of S takes away at most the units of R, and exactly
\* those when R is part of S.
LEMMA UnitsClosed ==
  ASSUME NEW S \in SUBSET Checkouts, NEW R \in SUBSET Checkouts
  PROVE  /\ Cardinality(Units(S)) <= Cardinality(Units(S \ R)) + Cardinality(Units(R))
         /\ R \subseteq S =>
              /\ Cardinality(Units(S \ R)) = Cardinality(Units(S)) - Cardinality(Units(R))
              /\ Cardinality(Units(R)) <= Cardinality(Units(S))
  <1>1. IsFiniteSet(Units(S)) /\ IsFiniteSet(Units(R)) /\ IsFiniteSet(Units(S \ R))
        /\ Cardinality(Units(S)) \in Nat /\ Cardinality(Units(R)) \in Nat
        /\ Cardinality(Units(S \ R)) \in Nat
    BY UnitsFinite
  <1>2. Units(S) \ Units(R) = Units(S \ R)
    BY DEF Units
  <1>3. Cardinality(Units(S \ R)) = Cardinality(Units(S)) - Cardinality(Units(S) \cap Units(R))
    BY <1>1, <1>2, FS_Difference
  <1>4. /\ Cardinality(Units(S) \cap Units(R)) <= Cardinality(Units(R))
        /\ IsFiniteSet(Units(S) \cap Units(R))
    BY <1>1, FS_Intersection
  <1>5. Cardinality(Units(S) \cap Units(R)) \in Nat
    BY <1>4, FS_CardinalityType
  <1>6. R \subseteq S => Units(S) \cap Units(R) = Units(R)
    BY DEF Units
  <1>7. Cardinality(Units(S)) <= Cardinality(Units(S \ R)) + Cardinality(Units(R))
    BY <1>1, <1>3, <1>4, <1>5
  <1>8. ASSUME R \subseteq S
        PROVE  /\ Cardinality(Units(S \ R)) = Cardinality(Units(S)) - Cardinality(Units(R))
               /\ Cardinality(Units(R)) <= Cardinality(Units(S))
    <2>1. Units(S) \cap Units(R) = Units(R)
      BY <1>6, <1>8
    <2>2. Cardinality(Units(S \ R)) = Cardinality(Units(S)) - Cardinality(Units(R))
      BY <1>3, <2>1
    <2> QED
      BY <1>1, <2>2
  <1> QED
    BY <1>7, <1>8

\* The units of one pair component: n of them.
LEMMA BlockSize ==
  ASSUME NEW c, NEW n \in Nat
  PROVE  IsFiniteSet({c} \X (1..n)) /\ Cardinality({c} \X (1..n)) = n
  <1>1. IsFiniteSet({c}) /\ Cardinality({c}) = 1
    BY FS_Singleton
  <1>2. IsFiniteSet(1..n) /\ Cardinality(1..n) = n
    BY FS_Interval
  <1>3. Cardinality({c} \X (1..n)) = Cardinality({c}) * Cardinality(1..n)
        /\ IsFiniteSet({c} \X (1..n))
    BY <1>1, <1>2, FS_Product
  <1>4. Cardinality({c} \X (1..n)) = 1 * n
    BY <1>1, <1>2, <1>3
  <1> QED
    BY <1>3, <1>4

\* Two disjoint finite sets count separately.
LEMMA DisjointUnion ==
  ASSUME NEW S, NEW T, IsFiniteSet(S), IsFiniteSet(T), S \cap T = {}
  PROVE  Cardinality(S \union T) = Cardinality(S) + Cardinality(T)
  <1>1. Cardinality(S \cap T) = 0
    BY FS_EmptySet
  <1>2. Cardinality(S) \in Nat /\ Cardinality(T) \in Nat
    BY FS_CardinalityType
  <1>3. Cardinality(S \union T) = Cardinality(S) + Cardinality(T) - Cardinality(S \cap T)
    BY FS_Union
  <1>4. Cardinality(S \union T) = Cardinality(S) + Cardinality(T) - 0
    BY <1>1, <1>3
  <1> QED
    BY <1>2, <1>4

\* A new row adds its quantity.
LEMMA UnitsAdded ==
  ASSUME TypeOK, NEW r \in Requests, CommitCheckout(r)
  PROVE  UnitsOut' = UnitsOut + plan[r].quantity
  <1>1. PICK c \in Checkouts :
          /\ quantity[c] = 0
          /\ quantity' = [quantity EXCEPT ![c] = plan[r].quantity]
          /\ open' = open \union {c}
    BY DEF CommitCheckout
  <1>2. plan[r].quantity \in 0..MaxQuantity /\ c \notin open /\ MaxQuantity \in Nat
    BY <1>1, StockConstants, NobodyIsNoEmployee DEF TypeOK, Plan
  <1>3. Units(open)' = Units(open) \union ({c} \X (1..plan[r].quantity))
    BY <1>1, <1>2 DEF Units, TypeOK
  <1>4. Units(open) \cap ({c} \X (1..plan[r].quantity)) = {}
    BY <1>2 DEF Units
  <1>5. IsFiniteSet(Units(open))
    BY UnitsFinite DEF TypeOK
  <1>6. /\ IsFiniteSet({c} \X (1..plan[r].quantity))
        /\ Cardinality({c} \X (1..plan[r].quantity)) = plan[r].quantity
    <2>1. plan[r].quantity \in Nat
      BY <1>2
    <2> QED
      BY <2>1, BlockSize
  <1>7. Cardinality(Units(open) \union ({c} \X (1..plan[r].quantity)))
          = Cardinality(Units(open)) + Cardinality({c} \X (1..plan[r].quantity))
    BY <1>4, <1>5, <1>6, DisjointUnion
  <1> QED
    BY <1>3, <1>6, <1>7 DEF UnitsOut

-----------------------------------------------------------------------------
(* Type correctness.                                                       *)

LEMMA TypeInit == Init => TypeOK
  <1> SUFFICES ASSUME Init PROVE TypeOK
    OBVIOUS
  <1>1. total \in Int /\ most \in Int
    BY StockConstants, NobodyIsNoEmployee DEF Init
  <1>3. overlapped \in BOOLEAN
    BY DEF Init
  <1>4. quantity \in [Checkouts -> 0..MaxQuantity]
    <2>1. 0 \in 0..MaxQuantity
      BY StockConstants, NobodyIsNoEmployee
    <2> QED
      BY <2>1 DEF Init
  <1>2. Idle \in Plan
    BY StockConstants, NobodyIsNoEmployee DEF Idle, Plan, Kind
  <1> QED
    BY <1>1, <1>2, <1>3, <1>4 DEF Init, TypeOK, Idle

LEMMA TypeStep == TypeOK /\ [Next]_vars => TypeOK'
  <1> SUFFICES ASSUME TypeOK, [Next]_vars PROVE TypeOK'
    OBVIOUS
  <1> USE StockConstants, NobodyIsNoEmployee DEF Plan, Kind, stock, history, Busy
  <1>1. ASSUME NEW r \in Requests, NEW e \in Employees, NEW q \in 1..MaxQuantity,
               BeginCheckout(r, e, q)
        PROVE  TypeOK'
    BY <1>1 DEF BeginCheckout, Start, TypeOK
  <1>2. ASSUME NEW r \in Requests, NEW c \in Checkouts, BeginCheckin(r, c) PROVE TypeOK'
    BY <1>2 DEF BeginCheckin, Start, TypeOK
  <1>3. ASSUME NEW r \in Requests, NEW e \in Employees, BeginOffboard(r, e) PROVE TypeOK'
    BY <1>3 DEF BeginOffboard, Start, TypeOK
  <1>4. ASSUME NEW r \in Requests, NEW n \in Stocktakes, BeginAdjust(r, n) PROVE TypeOK'
    BY <1>4 DEF BeginAdjust, Start, TypeOK
  <1>5. ASSUME NEW r \in Requests, Finish(r), TypeOK
        PROVE  plan' \in [Requests -> Plan]
               /\ \A s \in Requests : plan'[s] = plan[s] \/ plan'[s] = Idle
    BY <1>5 DEF Finish, Idle, TypeOK
  <1>6. ASSUME NEW r \in Requests, CommitCheckout(r) PROVE TypeOK'
    <2>1. PICK c \in Checkouts :
            /\ quantity[c] = 0
            /\ quantity' = [quantity EXCEPT ![c] = plan[r].quantity]
            /\ owner' = [owner EXCEPT ![c] = plan[r].employee]
            /\ open' = open \union {c}
      BY <1>6 DEF CommitCheckout
    <2>2. /\ plan[r].quantity \in 0..MaxQuantity /\ plan[r].quantity > 0
          /\ plan[r].employee \in Employees
      BY <1>6 DEF CommitCheckout, TypeOK
    <2>3. /\ quantity' \in [Checkouts -> 0..MaxQuantity]
          /\ owner' \in [Checkouts -> Employees \union {NoOne}]
          /\ open' \subseteq {d \in Checkouts : quantity'[d] > 0}
      BY <2>1, <2>2 DEF TypeOK
    <2>4. checkedOut' \in Int /\ UNCHANGED <<total, active, most, overlapped>> /\ Finish(r)
      BY <1>6, <2>2 DEF CommitCheckout, TypeOK
    <2>5. /\ plan' \in [Requests -> Plan]
          /\ \A s \in Requests : plan'[s] = plan[s] \/ plan'[s] = Idle
      BY <1>5, <2>4
    <2>6. \A s \in Requests :
            /\ plan'[s].kind = "checkout" => plan'[s].quantity > 0
            /\ plan'[s].kind \in {"checkout", "offboard"} => plan'[s].employee \in Employees
      BY <2>5 DEF TypeOK, Idle
    <2>7. total' \in Int /\ active' \in [Employees -> BOOLEAN] /\ most' \in Int
          /\ overlapped' \in BOOLEAN
      BY <2>4 DEF TypeOK
    <2> QED
      BY <2>3, <2>4, <2>5, <2>6, <2>7 DEF TypeOK
  <1>7. ASSUME NEW r \in Requests, CloseRows(r), TypeOK
        PROVE  checkedOut' \in Int /\ open' \subseteq open
    <2>1. Cardinality(Units(plan[r].rows)) \in Nat
      BY UnitsFinite DEF TypeOK
    <2> QED
      BY <1>7, <2>1 DEF CloseRows, TypeOK
  <1>8. ASSUME NEW r \in Requests, CommitCheckin(r) PROVE TypeOK'
    BY <1>5, <1>7, <1>8 DEF CommitCheckin, CloseRows, TypeOK, Idle
  <1>9. ASSUME NEW r \in Requests, CommitOffboard(r) PROVE TypeOK'
    BY <1>5, <1>7, <1>9 DEF CommitOffboard, CloseRows, TypeOK, Idle
  <1>10. ASSUME NEW r \in Requests, CommitAdjust(r) PROVE TypeOK'
    BY <1>5, <1>10 DEF CommitAdjust, TypeOK, Idle
  <1>11. ASSUME NEW r \in Requests, Abort(r) PROVE TypeOK'
    BY <1>5, <1>11 DEF Abort, TypeOK, Idle
  <1>12. ASSUME NEW e \in Employees, NEW b \in BOOLEAN, SetEmployeeActive(e, b) PROVE TypeOK'
    BY <1>12 DEF SetEmployeeActive, TypeOK
  <1>13. CASE UNCHANGED vars
    BY <1>13 DEF vars, TypeOK
  <1> QED
    BY <1>1, <1>2, <1>3, <1>4, <1>6, <1>8, <1>9, <1>10, <1>11, <1>12, <1>13 DEF Next, Step

\* Whatever requests overlap or are rolled back, the counters are integers, and the rows and the plans in
\* flight are about slots, units and requests there are: every handler of the accessories keeps this.
THEOREM StockTyped == Spec => []TypeOK
  BY TypeInit, TypeStep, PTL DEF Spec

\* A step either leaves the counters and the rows alone, or is one of the
\* four commits.
LEMMA StepKinds ==
  ASSUME [Next]_vars
  PROVE  \/ UNCHANGED <<total, checkedOut, quantity, owner, open>>
         \/ \E r \in Requests : CommitCheckout(r)
         \/ \E r \in Requests : CloseRows(r) /\ (CommitCheckin(r) \/ CommitOffboard(r))
         \/ \E r \in Requests : CommitAdjust(r)
  BY DEF Next, Step, BeginCheckout, BeginCheckin, BeginOffboard, BeginAdjust, Start, stock,
         CommitCheckin, CommitOffboard, Abort, SetEmployeeActive, vars

-----------------------------------------------------------------------------
(* Any overlap: the counter never overstates.                              *)

\* A commit that closes the rows R.
LEMMA UnitsReturned ==
  ASSUME TypeOK, NEW r \in Requests, CloseRows(r)
  PROVE  \E n \in Nat :
           /\ checkedOut' = checkedOut - n
           /\ UnitsOut' \in Nat /\ UnitsOut <= UnitsOut' + n
           /\ plan[r].rows \subseteq open => UnitsOut' = UnitsOut - n /\ n <= UnitsOut
           /\ plan[r].rows = {} => n = 0
  <1> DEFINE R == plan[r].rows
             n == Cardinality(Units(R))
  <1>1. R \in SUBSET Checkouts /\ open \in SUBSET Checkouts
    BY DEF TypeOK, Plan
  <1>2. UnitsOut' = Cardinality(Units(open \ R))
    BY DEF CloseRows, Units, UnitsOut
  <1>3. n \in Nat /\ Cardinality(Units(open \ R)) \in Nat
    BY <1>1, UnitsFinite
  <1>4. /\ UnitsOut <= UnitsOut' + n
        /\ R \subseteq open => UnitsOut' = UnitsOut - n /\ n <= UnitsOut
    BY <1>1, <1>2, UnitsClosed DEF UnitsOut
  <1>5. R = {} => n = 0
    BY FS_EmptySet DEF Units
  <1> QED
    BY <1>2, <1>3, <1>4, <1>5 DEF CloseRows

LEMMA OverstateStep ==
  TypeOK /\ CounterNeverOverstates /\ [Next]_vars => CounterNeverOverstates'
  <1> SUFFICES ASSUME TypeOK, CounterNeverOverstates, [Next]_vars
               PROVE  CounterNeverOverstates'
    OBVIOUS
  <1>0. UnitsOut \in Nat /\ checkedOut \in Int
    BY UnitsFinite DEF TypeOK, UnitsOut
  <1>1. CASE UNCHANGED <<total, checkedOut, quantity, owner, open>>
    BY <1>1 DEF CounterNeverOverstates, UnitsOut, Units
  <1>2. ASSUME NEW r \in Requests, CommitCheckout(r) PROVE CounterNeverOverstates'
    <2>1. plan[r].quantity \in Nat
      BY StockConstants, NobodyIsNoEmployee DEF TypeOK, Plan
    <2>2. UnitsOut' = UnitsOut + plan[r].quantity
      BY <1>2, UnitsAdded
    <2>3. checkedOut' = checkedOut + plan[r].quantity
      BY <1>2 DEF CommitCheckout
    <2> QED
      BY <1>0, <2>1, <2>2, <2>3 DEF CounterNeverOverstates
  <1>3. ASSUME NEW r \in Requests, CloseRows(r) PROVE CounterNeverOverstates'
    BY <1>0, <1>3, UnitsReturned DEF CounterNeverOverstates
  <1>4. ASSUME NEW r \in Requests, CommitAdjust(r) PROVE CounterNeverOverstates'
    BY <1>4 DEF CommitAdjust, CounterNeverOverstates, UnitsOut, Units
  <1> QED
    BY <1>1, <1>2, <1>3, <1>4, StepKinds

\* However check-outs, check-ins and offboardings overlap, the checked-out
\* counter never exceeds the units on open checkout rows.
THEOREM NeverOverstates == Spec => []CounterNeverOverstates
  <1>1. Init => TypeOK /\ CounterNeverOverstates
    <2>1. Init => Units(open) = {}
      BY DEF Init, Units
    <2> QED
      BY <2>1, TypeInit, FS_EmptySet DEF Init, CounterNeverOverstates, UnitsOut
  <1>2. TypeOK /\ CounterNeverOverstates /\ [Next]_vars => (TypeOK /\ CounterNeverOverstates)'
    BY TypeStep, OverstateStep
  <1> QED
    BY <1>1, <1>2, PTL DEF Spec

-----------------------------------------------------------------------------
(* Until requests overlap: exact, never over-issued, and a stock ledger.   *)

LEMMA SerialInit == Init => SerialInv
  <1>1. Init => Units(open) = {}
    BY DEF Init, Units
  <1>2. Init => UnitsOut = 0 /\ total >= 0
    BY <1>1, FS_EmptySet, StockConstants, NobodyIsNoEmployee DEF UnitsOut, Init
  <1> QED
    BY <1>2 DEF Init, SerialInv, Idle, Busy

\* Once the only request is over, nothing of it is left to be stale.
LEMMA SerialFinish ==
  ASSUME TypeOK, SerialInv, NEW r \in Requests, Busy(r), Finish(r), UNCHANGED overlapped,
         ~overlapped => checkedOut' = UnitsOut' /\ checkedOut' <= total'
  PROVE  SerialInv'
  <1> SUFFICES ASSUME ~overlapped PROVE SerialInv'
    BY DEF SerialInv
  <1>1. \A s \in Requests : ~Busy(s)'
    BY DEF SerialInv, Finish, Busy, TypeOK, Idle
  <1> QED
    BY <1>1 DEF SerialInv, Busy

\* A request begins with what it has just read.
LEMMA SerialStart ==
  ASSUME TypeOK, SerialInv, NEW r \in Requests, NEW p, Start(r, p),
         p.kind = "checkout" => p.quantity <= Available,
         p.kind = "adjust" => p.total >= checkedOut,
         p.rows \subseteq open
  PROVE  SerialInv'
  <1> SUFFICES ASSUME ~overlapped' PROVE SerialInv'
    BY DEF SerialInv
  <1>1. \A s \in Requests : ~Busy(s)
    BY DEF Start
  <1>2. \A s \in Requests \ {r} : plan'[s] = plan[s]
    BY DEF Start, TypeOK
  <1>3. plan'[r] = p
    BY DEF Start, TypeOK
  <1>4. ~overlapped /\ UNCHANGED <<total, checkedOut, open, UnitsOut, Available>>
    BY DEF Start, stock, UnitsOut, Units, Available
  <1>5. \A q, s \in Requests : Busy(q)' /\ Busy(s)' => q = s
    BY <1>1, <1>2 DEF Busy
  <1>6. checkedOut = UnitsOut /\ checkedOut <= total
    BY <1>4 DEF SerialInv
  <1>7. \A s \in Requests :
          /\ plan'[s].kind = "checkout" => plan'[s].quantity <= Available
          /\ plan'[s].kind = "adjust" => plan'[s].total >= checkedOut
          /\ Busy(s)' => plan'[s].rows \subseteq open
    BY <1>1, <1>2, <1>3, <1>6 DEF Busy
  <1> QED
    BY <1>4, <1>5, <1>6, <1>7 DEF SerialInv

LEMMA SerialStep == TypeOK /\ SerialInv /\ [Next]_vars => SerialInv'
  <1> SUFFICES ASSUME TypeOK, SerialInv, [Next]_vars PROVE SerialInv'
    OBVIOUS
  <1>a. UnitsOut \in Nat /\ checkedOut \in Int /\ total \in Int
    BY UnitsFinite DEF TypeOK, UnitsOut
  <1>b. ~overlapped => checkedOut = UnitsOut /\ checkedOut <= total
    BY DEF SerialInv
  <1>1. ASSUME NEW r \in Requests,
               \/ \E e \in Employees, q \in 1..MaxQuantity : BeginCheckout(r, e, q)
               \/ \E c \in Checkouts : BeginCheckin(r, c)
               \/ \E e \in Employees : BeginOffboard(r, e)
               \/ \E n \in Stocktakes : BeginAdjust(r, n)
        PROVE  SerialInv'
    <2>1. ASSUME NEW e \in Employees, NEW q \in 1..MaxQuantity, BeginCheckout(r, e, q)
          PROVE  SerialInv'
      BY <2>1, SerialStart DEF BeginCheckout
    <2>2. ASSUME NEW c \in Checkouts, BeginCheckin(r, c) PROVE SerialInv'
      BY <2>2, SerialStart DEF BeginCheckin
    <2>3. ASSUME NEW e \in Employees, BeginOffboard(r, e) PROVE SerialInv'
      BY <2>3, SerialStart DEF BeginOffboard
    <2>4. ASSUME NEW n \in Stocktakes, BeginAdjust(r, n) PROVE SerialInv'
      BY <2>4, SerialStart DEF BeginAdjust
    <2> QED
      BY <1>1, <2>1, <2>2, <2>3, <2>4
  <1>2. CASE \/ \E e \in Employees, b \in BOOLEAN : SetEmployeeActive(e, b)
             \/ UNCHANGED vars
    BY <1>2 DEF SetEmployeeActive, vars, stock, history, SerialInv, UnitsOut, Units, Available, Busy
  <1>3. ASSUME NEW r \in Requests, Abort(r) PROVE SerialInv'
    <2>1. UNCHANGED <<total, checkedOut, UnitsOut, overlapped>> /\ Finish(r) /\ Busy(r)
      BY <1>3 DEF Abort, stock, history, UnitsOut, Units
    <2> QED
      BY <1>b, <2>1, SerialFinish
  <1>4. ASSUME NEW r \in Requests, CommitCheckout(r) PROVE SerialInv'
    <2>1. /\ plan[r].quantity \in Nat
          /\ ~overlapped => plan[r].quantity <= total - checkedOut
      BY <1>4, StockConstants, NobodyIsNoEmployee DEF CommitCheckout, TypeOK, Plan, SerialInv, Available
    <2>2. UnitsOut' = UnitsOut + plan[r].quantity
      BY <1>4, UnitsAdded
    <2>3. /\ checkedOut' = checkedOut + plan[r].quantity /\ total' = total
          /\ Finish(r) /\ Busy(r) /\ UNCHANGED overlapped
      BY <1>4 DEF CommitCheckout, history, Busy
    <2>4. ~overlapped => checkedOut' = UnitsOut' /\ checkedOut' <= total'
      BY <1>a, <1>b, <2>1, <2>2, <2>3
    <2> QED
      BY <2>3, <2>4, SerialFinish
  <1>5. ASSUME NEW r \in Requests, CloseRows(r), Finish(r), Busy(r) PROVE SerialInv'
    <2>1. PICK n \in Nat : /\ checkedOut' = checkedOut - n /\ UnitsOut' \in Nat
                           /\ plan[r].rows \subseteq open => UnitsOut' = UnitsOut - n
      BY <1>5, UnitsReturned
    <2>2. total' = total /\ UNCHANGED overlapped
      BY <1>5 DEF CloseRows, history
    <2>3. ~overlapped => plan[r].rows \subseteq open
      BY <1>5 DEF SerialInv
    <2>4. ~overlapped => checkedOut' = UnitsOut' /\ checkedOut' <= total'
      BY <1>a, <1>b, <2>1, <2>2, <2>3
    <2> QED
      BY <1>5, <2>2, <2>4, SerialFinish
  <1>6. ASSUME NEW r \in Requests, CommitAdjust(r) PROVE SerialInv'
    <2>1. /\ total' = plan[r].total /\ checkedOut' = checkedOut
          /\ Finish(r) /\ Busy(r) /\ UNCHANGED overlapped
      BY <1>6 DEF CommitAdjust, Busy
    <2>2. ~overlapped => plan[r].total >= checkedOut
      BY <1>6 DEF CommitAdjust, SerialInv
    <2>3. plan[r].total \in Int
      BY DEF TypeOK, Plan
    <2>4. UnitsOut' = UnitsOut
      BY <1>6 DEF CommitAdjust, UnitsOut, Units
    <2>5. ~overlapped => checkedOut' = UnitsOut' /\ checkedOut' <= total'
      BY <1>a, <1>b, <2>1, <2>2, <2>3, <2>4
    <2> QED
      BY <2>1, <2>5, SerialFinish
  <1>7. \A r \in Requests : CommitCheckin(r) \/ CommitOffboard(r) =>
          CloseRows(r) /\ Finish(r) /\ Busy(r)
    BY DEF CommitCheckin, CommitOffboard, Busy
  <1> QED
    BY <1>1, <1>2, <1>3, <1>4, <1>5, <1>6, <1>7 DEF Next, Step

\* Until requests overlap, the counter is what the open checkout rows add up to,
\* and at most the stock.
THEOREM SerialExact == Spec => []CounterExact
  <1>1. Init => TypeOK /\ SerialInv
    BY TypeInit, SerialInit
  <1>2. TypeOK /\ SerialInv /\ [Next]_vars => (TypeOK /\ SerialInv)'
    BY TypeStep, SerialStep
  <1>3. SerialInv => CounterExact
    BY DEF SerialInv, CounterExact
  <1> QED
    BY <1>1, <1>2, <1>3, PTL DEF Spec

LEMMA LedgerInit == Init => Ledger!Init
  <1>1. Init => Units(open) = {}
    BY DEF Init, Units
  <1> QED
    BY <1>1, FS_EmptySet, StockConstants, NobodyIsNoEmployee DEF Init, Ledger!Init, Available, UnitsOut

\* A checkout's commit is an issue, a return's commit a return or, when there
\* is nothing to return, nothing; an adjustment is a count; the rest is
\* invisible.
LEMMA LedgerStep ==
  ASSUME TypeOK, SerialInv, [Next]_vars, ~overlapped'
  PROVE  Ledger!Next \/ UNCHANGED <<Available, UnitsOut>>
  <1>c. ~overlapped
    BY DEF Next, Step, BeginCheckout, BeginCheckin, BeginOffboard, BeginAdjust, Start,
           CommitCheckout, CommitCheckin, CommitOffboard, CloseRows, CommitAdjust, Abort,
           SetEmployeeActive, vars, history
  <1>a. UnitsOut \in Nat /\ checkedOut \in Int /\ total \in Int
    BY UnitsFinite DEF TypeOK, UnitsOut
  <1>b. checkedOut = UnitsOut /\ checkedOut <= total
    BY <1>c DEF SerialInv
  <1>0. /\ UnitsOut \in Nat /\ checkedOut \in Int /\ total \in Int
        /\ checkedOut = UnitsOut /\ checkedOut <= total
    BY <1>a, <1>b
  <1>1. CASE UNCHANGED <<total, checkedOut, quantity, owner, open>>
    BY <1>1 DEF Available, UnitsOut, Units
  <1>2. ASSUME NEW r \in Requests, CommitCheckout(r) PROVE Ledger!Next
    <2> DEFINE q == plan[r].quantity
    <2>1. q \in Nat /\ q > 0 /\ q <= total - checkedOut
      BY <1>2, <1>c, StockConstants, NobodyIsNoEmployee DEF CommitCheckout, TypeOK, Plan, SerialInv, Available
    <2>2. UnitsOut' = UnitsOut + q
      BY <1>2, UnitsAdded
    <2>3. checkedOut' = checkedOut + q /\ total' = total
      BY <1>2 DEF CommitCheckout
    <2>4. q \in 1..Available /\ Available' = Available - q
      BY <1>0, <2>1, <2>3 DEF Available
    <2> QED
      BY <2>2, <2>4 DEF Ledger!Next, Ledger!Issue
  <1>3. ASSUME NEW r \in Requests, CloseRows(r), Busy(r)
        PROVE  Ledger!Next \/ UNCHANGED <<Available, UnitsOut>>
    <2>1. PICK n \in Nat : checkedOut' = checkedOut - n /\ UnitsOut' \in Nat
                           /\ UnitsOut' = UnitsOut - n /\ n <= UnitsOut
      BY <1>3, <1>c, UnitsReturned DEF SerialInv
    <2>2. total' = total
      BY <1>3 DEF CloseRows
    <2>7. total - (checkedOut - n) = (total - checkedOut) + n
      BY <1>a
    <2>6. Available' = Available + n
      BY <2>1, <2>2, <2>7 DEF Available
    <2>4. CASE n = 0
      BY <1>0, <2>1, <2>4, <2>6 DEF Available
    <2>5. CASE n # 0
      <3>1. n \in 1..UnitsOut
        BY <1>a, <2>1, <2>5
      <3> QED
        BY <2>1, <2>6, <3>1 DEF Ledger!Next, Ledger!Return
    <2> QED
      BY <2>4, <2>5
  <1>4. ASSUME NEW r \in Requests, CommitAdjust(r) PROVE Ledger!Next
    <2>1. total' = plan[r].total /\ plan[r].total >= checkedOut /\ checkedOut' = checkedOut
          /\ plan[r].total \in Int
      BY <1>4, <1>c DEF CommitAdjust, SerialInv, TypeOK, Plan
    <2>2. Available' \in Nat
      BY <1>0, <2>1 DEF Available
    <2>3. UnitsOut' = UnitsOut
      BY <1>4 DEF CommitAdjust, UnitsOut, Units
    <2> QED
      BY <2>2, <2>3 DEF Ledger!Next, Ledger!Count
  <1>5. \A r \in Requests : CommitCheckin(r) \/ CommitOffboard(r) => Busy(r)
    BY DEF CommitCheckin, CommitOffboard, Busy
  <1> QED
    BY <1>1, <1>2, <1>3, <1>4, <1>5, StepKinds

\* Until requests overlap, the accessory's stock implements the stock ledger.
THEOREM ImplementsLedger == Spec => LedgerSpec
  <1>1. Init => TypeOK /\ SerialInv /\ Ledger!Init
    BY TypeInit, SerialInit, LedgerInit
  <1>2. TypeOK /\ SerialInv /\ [Next]_vars => (TypeOK /\ SerialInv)'
    BY TypeStep, SerialStep
  <1>3. TypeOK /\ SerialInv /\ [Next]_vars
          => [~overlapped' => Ledger!Next \/ UNCHANGED <<Available, UnitsOut>>]_vars
    BY LedgerStep
  <1> QED
    BY <1>1, <1>2, <1>3, PTL DEF Spec, LedgerSpec

-----------------------------------------------------------------------------
(* Overlapping checkouts: how far the stock can be over-issued.            *)

\* One request's worth for each request in flight besides the first.
Slack == (Cardinality(Requests) - 1) * MaxQuantity

LEMMA SlackType == Cardinality(Requests) \in Nat \ {0} /\ Slack \in Nat
  <1>1. Cardinality(Requests) \in Nat /\ Cardinality(Requests) # 0
    BY StockConstants, NobodyIsNoEmployee, FS_CardinalityType, FS_EmptySet
  <1>2. Cardinality(Requests) - 1 \in Nat /\ MaxQuantity \in Nat
    BY <1>1, StockConstants, NobodyIsNoEmployee
  <1>3. \A i, j \in Nat : i * j \in Nat
    OBVIOUS
  <1> QED
    BY <1>1, <1>2, <1>3 DEF Slack

LEMMA PlannableFinite == IsFiniteSet(Requests \X (1..MaxQuantity))
  <1>1. IsFiniteSet(1..MaxQuantity)
    BY StockConstants, NobodyIsNoEmployee, FS_Interval
  <1> QED
    BY <1>1, StockConstants, NobodyIsNoEmployee, FS_Product

LEMMA PlannedFinite == IsFiniteSet(PlannedUnits) /\ Cardinality(PlannedUnits) \in Nat
  <1>1. IsFiniteSet(Requests \X (1..MaxQuantity))
    BY PlannableFinite
  <1>2. PlannedUnits \in SUBSET (Requests \X (1..MaxQuantity))
    BY DEF PlannedUnits
  <1> QED
    BY <1>1, <1>2, FS_Subset, FS_CardinalityType

\* The other requests plan at most the slack, the one in slot r what it asks.
LEMMA PlannedByOne ==
  ASSUME NEW r \in Requests, NEW q \in Nat, NEW S,
         S \subseteq ((Requests \ {r}) \X (1..MaxQuantity)) \union ({r} \X (1..q))
  PROVE  Cardinality(S) <= Slack + q
  <1> DEFINE O == (Requests \ {r}) \X (1..MaxQuantity)
             M == {r} \X (1..q)
  <1>1. /\ IsFiniteSet(Requests \ {r})
        /\ Cardinality(Requests \ {r}) = Cardinality(Requests) - 1
    BY StockConstants, NobodyIsNoEmployee, FS_RemoveElement
  <1>2. IsFiniteSet(1..MaxQuantity) /\ Cardinality(1..MaxQuantity) = MaxQuantity
    BY StockConstants, NobodyIsNoEmployee, FS_Interval
  <1>3. /\ IsFiniteSet(O)
        /\ Cardinality(O) = Cardinality(Requests \ {r}) * Cardinality(1..MaxQuantity)
    BY <1>1, <1>2, FS_Product
  <1>4. Cardinality(O) = Slack
    BY <1>1, <1>2, <1>3 DEF Slack
  <1>5. IsFiniteSet(M) /\ Cardinality(M) = q
    BY BlockSize
  <1>6. O \cap M = {}
    OBVIOUS
  <1>7. Cardinality(O \union M) = Slack + q /\ IsFiniteSet(O \union M)
    BY <1>3, <1>4, <1>5, <1>6, DisjointUnion, FS_Union
  <1>8. S \in SUBSET (O \union M)
    OBVIOUS
  <1> HIDE DEF O, M
  <1> QED
    BY <1>7, <1>8, FS_Subset

LEMMA BoundInit == Init => BoundInv
  <1> SUFFICES ASSUME Init PROVE BoundInv
    OBVIOUS
  <1>1. PlannedUnits = {}
    BY DEF Init, Idle, PlannedUnits
  <1>2. Cardinality(PlannedUnits) = 0
    BY <1>1, FS_EmptySet
  <1>3. checkedOut = 0 /\ total \in Nat /\ most = total
    BY StockConstants, NobodyIsNoEmployee DEF Init
  <1> QED
    BY <1>2, <1>3, SlackType DEF BoundInv, Slack

\* A step that plans no new checkout and takes nothing out.
LEMMA BoundQuiet ==
  ASSUME TypeOK, BoundInv, checkedOut' \in Int, checkedOut' <= checkedOut,
         most' \in Int, most <= most', total' <= most', PlannedUnits' \subseteq PlannedUnits
  PROVE  BoundInv'
  <1>1. /\ Cardinality(PlannedUnits') <= Cardinality(PlannedUnits)
        /\ Cardinality(PlannedUnits) \in Nat /\ Cardinality(PlannedUnits') \in Nat
    BY PlannedFinite, FS_Subset, FS_CardinalityType
  <1>2. checkedOut \in Int /\ most \in Int
    BY DEF TypeOK
  <1>3. checkedOut + Cardinality(PlannedUnits) <= most + Slack
    BY DEF BoundInv, Slack
  <1>4. checkedOut' + Cardinality(PlannedUnits') <= most' + Slack
    BY <1>1, <1>2, <1>3, SlackType
  <1> QED
    BY <1>4 DEF BoundInv, Slack

\* A finished request plans nothing any more.
LEMMA PlannedDone ==
  ASSUME TypeOK, NEW r \in Requests, Finish(r)
  PROVE  PlannedUnits' = PlannedUnits \ ({r} \X (1..MaxQuantity))
  BY DEF TypeOK, Finish, Idle, PlannedUnits

LEMMA BoundStep == TypeOK /\ BoundInv /\ [Next]_vars => BoundInv'
  <1> SUFFICES ASSUME TypeOK, BoundInv, [Next]_vars PROVE BoundInv'
    OBVIOUS
  <1>0. /\ checkedOut \in Int /\ total \in Int /\ most \in Int /\ total <= most
        /\ plan \in [Requests -> Plan]
    BY DEF TypeOK, BoundInv
  <1>1. ASSUME NEW r \in Requests, NEW e \in Employees, NEW q \in 1..MaxQuantity,
               BeginCheckout(r, e, q)
        PROVE  BoundInv'
    <2>1. PlannedUnits' \subseteq ((Requests \ {r}) \X (1..MaxQuantity)) \union ({r} \X (1..q))
      BY <1>0, <1>1 DEF BeginCheckout, Start, PlannedUnits
    <2>2. Cardinality(PlannedUnits') <= Slack + q /\ Cardinality(PlannedUnits') \in Nat
      <3>1. q \in Nat
        BY StockConstants, NobodyIsNoEmployee
      <3>2. IsFiniteSet(PlannedUnits')
        <4>1. PlannedUnits' \in SUBSET (Requests \X (1..MaxQuantity))
          BY <1>1 DEF PlannedUnits
        <4> QED
          BY <4>1, PlannableFinite, FS_Subset
      <3> QED
        BY <2>1, <3>1, <3>2, PlannedByOne, FS_CardinalityType
    <2>3. q <= total - checkedOut /\ UNCHANGED <<checkedOut, total, most>>
      BY <1>1 DEF BeginCheckout, Start, stock, Available
    <2>4. checkedOut + Cardinality(PlannedUnits') <= most + Slack
      BY <1>0, <2>2, <2>3, SlackType
    <2> QED
      BY <1>0, <2>3, <2>4 DEF BoundInv, Slack
  <1>2. ASSUME NEW r \in Requests,
               \/ \E c \in Checkouts : BeginCheckin(r, c)
               \/ \E e \in Employees : BeginOffboard(r, e)
               \/ \E n \in Stocktakes : BeginAdjust(r, n)
        PROVE  BoundInv'
    <2>1. PlannedUnits' \subseteq PlannedUnits
      BY <1>0, <1>2 DEF BeginCheckin, BeginOffboard, BeginAdjust, Start, PlannedUnits
    <2>2. UNCHANGED <<checkedOut, total, most>>
      BY <1>2 DEF BeginCheckin, BeginOffboard, BeginAdjust, Start, stock
    <2> QED
      BY <1>0, <2>1, <2>2, BoundQuiet
  <1>3. ASSUME NEW r \in Requests, CommitCheckout(r) PROVE BoundInv'
    <2> DEFINE q == plan[r].quantity
               M == {r} \X (1..q)
    <2>1. q \in Nat /\ q <= MaxQuantity /\ MaxQuantity \in Nat
      BY <1>0, StockConstants, NobodyIsNoEmployee DEF Plan
    <2>2. PlannedUnits' = PlannedUnits \ M /\ M \subseteq PlannedUnits
      <3>1. PlannedUnits' = PlannedUnits \ ({r} \X (1..MaxQuantity))
        BY <1>3, PlannedDone DEF CommitCheckout
      <3>2. PlannedUnits \ ({r} \X (1..MaxQuantity)) = PlannedUnits \ M
        BY <2>1 DEF PlannedUnits
      <3>3. M \subseteq PlannedUnits
        BY <1>3, <2>1 DEF PlannedUnits, CommitCheckout
      <3> QED
        BY <3>1, <3>2, <3>3
    <2>3. IsFiniteSet(M) /\ Cardinality(M) = q /\ PlannedUnits \cap M = M
      BY <2>1, <2>2, BlockSize
    <2>4. Cardinality(PlannedUnits \ M) = Cardinality(PlannedUnits) - Cardinality(PlannedUnits \cap M)
      BY PlannedFinite, <2>3, FS_Difference
    <2>5. Cardinality(PlannedUnits') = Cardinality(PlannedUnits) - q
      BY <2>2, <2>3, <2>4
    <2>6. checkedOut' = checkedOut + q /\ total' = total /\ most' = most
      BY <1>3 DEF CommitCheckout, history
    <2>7. checkedOut + Cardinality(PlannedUnits) <= most + Slack
      BY DEF BoundInv, Slack
    <2> HIDE DEF q, M
    <2>8. (checkedOut + q) + (Cardinality(PlannedUnits) - q) <= most + Slack
      BY <1>0, <2>1, <2>7, PlannedFinite, SlackType
    <2>9. checkedOut' + Cardinality(PlannedUnits') <= most' + Slack
      BY <2>5, <2>6, <2>8
    <2> QED
      BY <1>0, <2>6, <2>9 DEF BoundInv, Slack
  <1>4. ASSUME NEW r \in Requests, CloseRows(r), Finish(r) PROVE BoundInv'
    <2>1. PICK n \in Nat : checkedOut' = checkedOut - n
      BY <1>4, UnitsReturned
    <2>2. checkedOut' \in Int /\ checkedOut' <= checkedOut /\ total' = total /\ most' = most
      BY <1>0, <1>4, <2>1 DEF CloseRows, history
    <2>3. PlannedUnits' \subseteq PlannedUnits
      BY <1>4, PlannedDone
    <2> QED
      BY <1>0, <2>2, <2>3, BoundQuiet
  <1>5. ASSUME NEW r \in Requests, Abort(r) \/ CommitAdjust(r) PROVE BoundInv'
    <2>1. checkedOut' = checkedOut /\ most' \in Int /\ most <= most' /\ total' <= most'
      BY <1>0, <1>5 DEF Abort, CommitAdjust, stock, history, Plan
    <2>2. PlannedUnits' \subseteq PlannedUnits
      BY <1>5, PlannedDone DEF Abort, CommitAdjust
    <2> QED
      BY <1>0, <2>1, <2>2, BoundQuiet
  <1>6. CASE \/ \E e \in Employees, b \in BOOLEAN : SetEmployeeActive(e, b)
             \/ UNCHANGED vars
    BY <1>6 DEF SetEmployeeActive, vars, stock, history, BoundInv, PlannedUnits
  <1> QED
    BY <1>1, <1>2, <1>3, <1>4, <1>5, <1>6 DEF Next, Step, CommitCheckin, CommitOffboard

\* Overlapping checkouts of any number can take out more than there ever was by at most
\* one request's worth for each request slot besides the first.
THEOREM BoundedOverIssue == Spec => []OverIssueBounded
  <1>1. Init => TypeOK /\ BoundInv
    BY TypeInit, BoundInit
  <1>2. TypeOK /\ BoundInv /\ [Next]_vars => (TypeOK /\ BoundInv)'
    BY TypeStep, BoundStep
  <1>3. TypeOK /\ BoundInv => OverIssueBounded
    BY PlannedFinite, SlackType DEF TypeOK, BoundInv, OverIssueBounded, Slack
  <1> QED
    BY <1>1, <1>2, <1>3, PTL DEF Spec

-----------------------------------------------------------------------------
(* Until requests overlap, a leaver returns everything.                    *)

\* A step that opens no row and starts no request leaves an offboarding with
\* every open row of its leaver.
LEMMA LeaverKept ==
  ASSUME TypeOK, LeaverInv, overlapped' = overlapped, open' \subseteq open, owner' = owner,
         \A r \in Requests : plan'[r] = plan[r] \/ plan'[r] = Idle
  PROVE  LeaverInv'
  BY DEF LeaverInv, Idle

LEMMA LeaverStep == TypeOK /\ SerialInv /\ LeaverInv /\ [Next]_vars => LeaverInv'
  <1> SUFFICES ASSUME TypeOK, SerialInv, LeaverInv, [Next]_vars PROVE LeaverInv'
    OBVIOUS
  <1>1. ASSUME NEW r \in Requests, NEW p, Start(r, p),
               p.kind = "offboard" => p.rows = {c \in open : owner[c] = p.employee}
        PROVE  LeaverInv'
    <2>1. plan'[r] = p /\ \A q \in Requests \ {r} : plan'[q] = plan[q]
      BY <1>1 DEF Start, TypeOK
    <2>2. UNCHANGED <<open, owner>> /\ (overlapped => overlapped')
      BY <1>1 DEF Start, stock
    <2> QED
      BY <1>1, <2>1, <2>2 DEF LeaverInv
  <1>2. ASSUME NEW r \in Requests,
               \/ \E e \in Employees, q \in 1..MaxQuantity : BeginCheckout(r, e, q)
               \/ \E c \in Checkouts : BeginCheckin(r, c)
               \/ \E n \in Stocktakes : BeginAdjust(r, n)
        PROVE  LeaverInv'
    <2>a. ASSUME NEW e \in Employees, NEW q \in 1..MaxQuantity, BeginCheckout(r, e, q)
          PROVE  \E p : Start(r, p) /\ p.kind # "offboard"
      BY <2>a DEF BeginCheckout
    <2>b. ASSUME NEW c \in Checkouts, BeginCheckin(r, c)
          PROVE  \E p : Start(r, p) /\ p.kind # "offboard"
      BY <2>b DEF BeginCheckin
    <2>c. ASSUME NEW n \in Stocktakes, BeginAdjust(r, n)
          PROVE  \E p : Start(r, p) /\ p.kind # "offboard"
      BY <2>c DEF BeginAdjust
    <2>1. PICK p : Start(r, p) /\ p.kind # "offboard"
      BY <1>2, <2>a, <2>b, <2>c
    <2> QED
      BY <1>1, <2>1
  <1>3. ASSUME NEW r \in Requests, NEW e \in Employees, BeginOffboard(r, e) PROVE LeaverInv'
    BY <1>1, <1>3 DEF BeginOffboard
  <1>4. ASSUME NEW r \in Requests, Finish(r)
        PROVE  \A q \in Requests : plan'[q] = plan[q] \/ plan'[q] = Idle
    BY <1>4 DEF Finish, TypeOK
  <1>5. ASSUME NEW r \in Requests, CommitCheckout(r) PROVE LeaverInv'
    <2> SUFFICES ASSUME ~overlapped' PROVE \A q \in Requests : plan'[q].kind # "offboard"
      BY DEF LeaverInv
    <2>1. ~overlapped /\ Busy(r)
      BY <1>5 DEF CommitCheckout, history, Busy
    <2>2. \A q \in Requests : q # r => ~Busy(q)
      BY <2>1 DEF SerialInv
    <2>3. plan'[r] = Idle /\ \A q \in Requests : q # r => plan'[q] = plan[q]
      BY <1>5 DEF CommitCheckout, Finish, TypeOK
    <2> QED
      BY <2>2, <2>3 DEF Busy, Idle
  <1>6. ASSUME NEW r \in Requests,
               CommitCheckin(r) \/ CommitOffboard(r) \/ CommitAdjust(r) \/ Abort(r)
        PROVE  LeaverInv'
    <2>1. Finish(r) /\ UNCHANGED <<owner, overlapped>> /\ open' \subseteq open
      BY <1>6
      DEF CommitCheckin, CommitOffboard, CloseRows, CommitAdjust, Abort, stock, history
    <2> QED
      BY <1>4, <2>1, LeaverKept
  <1>7. CASE \/ \E e \in Employees, b \in BOOLEAN : SetEmployeeActive(e, b)
             \/ UNCHANGED vars
    BY <1>7, LeaverKept DEF SetEmployeeActive, vars, stock, history
  <1> QED
    BY <1>2, <1>3, <1>5, <1>6, <1>7 DEF Next, Step

\* Until requests overlap, an offboarding leaves the leaver without an open
\* checkout: nothing was checked out to them after it read the rows.
THEOREM LeaverReturnsAll == Spec => OffboardReturnsAll
  <1> DEFINE Returned == \A r \in Requests :
               CommitOffboard(r) /\ ~overlapped
                 => \A c \in open' : owner'[c] # plan[r].employee
  <1>1. LeaverInv /\ [Next]_vars => [Returned]_vars
    BY DEF LeaverInv, CommitOffboard, CloseRows
  <1>2. Init => TypeOK /\ SerialInv /\ LeaverInv
    BY TypeInit, SerialInit DEF Init, LeaverInv
  <1>3. TypeOK /\ SerialInv /\ LeaverInv /\ [Next]_vars => (TypeOK /\ SerialInv /\ LeaverInv)'
    BY TypeStep, SerialStep, LeaverStep
  <1> QED
    BY <1>1, <1>2, <1>3, PTL DEF Spec, OffboardReturnsAll

-----------------------------------------------------------------------------
(* Consumables, one request at a time.                                     *)

ConsumableInv == ConsumableTypeOK /\ InTurnInv

LEMMA InTurnInit == ConsumableInit => ConsumableInv
  BY ConsumableConstants
  DEF ConsumableInit, ConsumableTypeOK, InTurnInv, Change, NoChange, ConsumableInv

\* A request begins with what it has just read.
LEMMA InTurnStart ==
  ASSUME OneAtATime, ConsumableInv,
         NEW r \in Changes, NEW p \in Change, StartChange(r, p),
         p.kind = "issue" => p.quantity \in 1..quantityAvailable,
         p.kind = "update" =>
           p.available \in Nat /\ p.total - p.available = quantityTotal - quantityAvailable,
         p.kind = "adjust" => p.available \in Recounts
  PROVE  ConsumableInv'
  <1>1. /\ change' = [change EXCEPT ![r] = p]
        /\ UNCHANGED <<quantityTotal, quantityAvailable, issued>>
    BY DEF StartChange, consumable
  <1>2. \A q \in Changes : change'[q] = p
    BY <1>1 DEF OneAtATime, ConsumableTypeOK, ConsumableInv
  <1>3. ConsumableTypeOK'
    BY <1>1 DEF ConsumableTypeOK, ConsumableInv
  <1>4. InTurnInv'
    BY <1>1, <1>2 DEF InTurnInv
  <1> QED
    BY <1>3, <1>4 DEF ConsumableInv

\* Once the only request is over, no plan is left to be stale.
LEMMA InTurnFinish ==
  ASSUME OneAtATime, ConsumableInv, NEW r \in Changes, FinishChange(r),
         quantityTotal' \in Int, quantityAvailable' \in Int, issued' \in Nat
  PROVE  ConsumableInv'
  <1>1. \A q \in Changes : change'[q] = NoChange
    BY DEF OneAtATime, FinishChange, ConsumableTypeOK, ConsumableInv
  <1>2. change' \in [Changes -> Change]
    BY ConsumableConstants DEF FinishChange, ConsumableTypeOK, NoChange, Change, ConsumableInv
  <1>3. InTurnInv'
    BY <1>1 DEF InTurnInv, NoChange
  <1> QED
    BY <1>2, <1>3 DEF ConsumableInv, ConsumableTypeOK

LEMMA InTurnStep ==
  ASSUME OneAtATime PROVE ConsumableInv /\ [ConsumableNext]_consumableVars => ConsumableInv'
  <1> SUFFICES ASSUME ConsumableInv, [ConsumableNext]_consumableVars PROVE ConsumableInv'
    OBVIOUS
  <1>0. /\ quantityTotal \in Int /\ quantityAvailable \in Int /\ issued \in Nat
        /\ change \in [Changes -> Change]
        /\ MaxIssue \in Nat /\ Totals \subseteq Nat /\ Recounts \subseteq Int
    BY ConsumableConstants DEF ConsumableInv, ConsumableTypeOK
  <1>1. ASSUME NEW r \in Changes, NEW q \in 1..MaxIssue, BeginIssue(r, q)
        PROVE  ConsumableInv'
    <2> DEFINE p == [kind |-> "issue", quantity |-> q, total |-> 0, available |-> 0]
    <2>1. p \in Change /\ p.kind = "issue" /\ p.quantity \in 1..quantityAvailable
          /\ StartChange(r, p)
      BY <1>0, <1>1 DEF BeginIssue, Change
    <2> QED
      BY <2>1, InTurnStart
  <1>2. ASSUME NEW r \in Changes, NEW n \in Totals, BeginUpdate(r, n)
        PROVE  ConsumableInv'
    <2> DEFINE k == n - (quantityTotal - quantityAvailable)
               p == [kind |-> "update", quantity |-> 0, total |-> n, available |-> k]
    <2>1. k \in Nat /\ n \in Int /\ n - k = quantityTotal - quantityAvailable
      BY <1>0, <1>2 DEF BeginUpdate
    <2>2. StartChange(r, p)
      BY <1>2 DEF BeginUpdate
    <2> HIDE DEF k
    <2>3. p \in Change /\ p.kind = "update" /\ p.available = k /\ p.total = n
      BY <1>0, <2>1 DEF Change
    <2> QED
      BY <2>1, <2>2, <2>3, InTurnStart
  <1>3. ASSUME NEW r \in Changes, NEW n \in Recounts, BeginRecount(r, n)
        PROVE  ConsumableInv'
    <2> DEFINE p == [kind |-> "adjust", quantity |-> 0, total |-> 0, available |-> n]
    <2>1. p \in Change /\ p.kind = "adjust" /\ p.available = n /\ StartChange(r, p)
      BY <1>0, <1>3 DEF BeginRecount, Change
    <2> QED
      BY <2>1, InTurnStart
  <1>4. ASSUME NEW r \in Changes,
               CommitIssue(r) \/ CommitUpdate(r) \/ CommitRecount(r) \/ AbortChange(r)
        PROVE  ConsumableInv'
    <2>1. change[r] \in Change
      BY <1>0
    <2>2. change[r].quantity \in Nat /\ change[r].total \in Int /\ change[r].available \in Int
      BY <1>0, <2>1 DEF Change
    <2>3. FinishChange(r) /\ quantityTotal' \in Int /\ quantityAvailable' \in Int /\ issued' \in Nat
      BY <1>0, <1>4, <2>2
      DEF CommitIssue, CommitUpdate, CommitRecount, AbortChange, consumable
    <2> QED
      BY <2>3, InTurnFinish
  <1>5. CASE UNCHANGED consumableVars
    BY <1>5 DEF consumableVars, ConsumableInv, ConsumableTypeOK, InTurnInv
  <1> QED
    BY <1>1, <1>2, <1>3, <1>4, <1>5 DEF ConsumableNext, ChangeStep

\* What each step does to the three counts.
LEMMA InTurnCounts ==
  ASSUME ConsumableInv, [ConsumableNext]_consumableVars
  PROVE  \/ UNCHANGED <<quantityTotal, quantityAvailable, issued>>
         \/ \E q \in 1..quantityAvailable :
              /\ quantityAvailable' = quantityAvailable - q
              /\ issued' = issued + q
              /\ quantityTotal' = quantityTotal
         \/ /\ quantityAvailable' \in Nat /\ issued' = issued
            /\ quantityTotal' - quantityAvailable' = quantityTotal - quantityAvailable
         \/ /\ quantityAvailable' \in Recounts /\ issued' = issued
            /\ \E r \in Changes : CommitRecount(r)
  <1>1. ASSUME NEW r \in Changes, CommitIssue(r)
        PROVE  \E q \in 1..quantityAvailable :
                 /\ quantityAvailable' = quantityAvailable - q
                 /\ issued' = issued + q
                 /\ quantityTotal' = quantityTotal
    BY <1>1 DEF CommitIssue, ConsumableInv, InTurnInv
  <1>2. ASSUME NEW r \in Changes, CommitUpdate(r)
        PROVE  /\ quantityAvailable' \in Nat /\ issued' = issued
               /\ quantityTotal' - quantityAvailable' = quantityTotal - quantityAvailable
    BY <1>2 DEF CommitUpdate, ConsumableInv, InTurnInv
  <1>3. ASSUME NEW r \in Changes, CommitRecount(r)
        PROVE  quantityAvailable' \in Recounts /\ issued' = issued
    BY <1>3 DEF CommitRecount, ConsumableInv, InTurnInv
  <1> QED
    BY <1>1, <1>2, <1>3
    DEF ConsumableNext, ChangeStep, BeginIssue, BeginUpdate, BeginRecount, StartChange,
        AbortChange, consumable, consumableVars

LEMMA SameDifference ==
  ASSUME NEW v \in Int, NEW w \in Int, NEW i \in Int, NEW t \in Int, NEW u \in Int,
         u - w = t - v
  PROVE  (w + i) - u = (v + i) - t
  OBVIOUS

\* One request at a time, what is on the shelf and what was issued go on
\* making up the total: only a stock count changes by how much they miss it.
THEOREM CountsAloneUnbalance ==
  ASSUME OneAtATime PROVE ConsumableSpec => OnlyCountsUnbalance
  <1> DEFINE Balanced == \/ Imbalance' = Imbalance
                         \/ \E r \in Changes : CommitRecount(r)
  <1>1. ConsumableInv /\ [ConsumableNext]_consumableVars => [Balanced]_consumableVars
    <2> SUFFICES ASSUME ConsumableInv, [ConsumableNext]_consumableVars PROVE Balanced
      OBVIOUS
    <2>1. quantityTotal \in Int /\ quantityAvailable \in Int /\ issued \in Int
      BY DEF ConsumableInv, ConsumableTypeOK
    <2>2. quantityTotal' \in Int /\ quantityAvailable' \in Int /\ issued' \in Int
      BY InTurnStep DEF ConsumableInv, ConsumableTypeOK
    <2>3. /\ Imbalance = quantityAvailable + issued - quantityTotal
          /\ Imbalance' = quantityAvailable' + issued' - quantityTotal'
      BY DEF Imbalance
    <2>4. ASSUME UNCHANGED <<quantityTotal, quantityAvailable, issued>>
          PROVE  Imbalance' = Imbalance
      BY <2>3, <2>4
    <2>5. ASSUME NEW q \in 1..quantityAvailable, quantityAvailable' = quantityAvailable - q,
                 issued' = issued + q, quantityTotal' = quantityTotal
          PROVE  Imbalance' = Imbalance
      BY <2>1, <2>3, <2>5
    <2>6. ASSUME issued' = issued,
                 quantityTotal' - quantityAvailable' = quantityTotal - quantityAvailable
          PROVE  Imbalance' = Imbalance
      <3> DEFINE A == quantityAvailable'
                 T == quantityTotal'
      <3>1. /\ A \in Int /\ T \in Int /\ T - A = quantityTotal - quantityAvailable
            /\ Imbalance' = A + issued - T
        BY <2>2, <2>3, <2>6
      <3> HIDE DEF A, T
      <3>2. A + issued - T = quantityAvailable + issued - quantityTotal
        BY <2>1, <3>1, SameDifference
      <3> QED
        BY <2>3, <3>1, <3>2
    <2> QED
      BY <2>4, <2>5, <2>6, InTurnCounts
  <1> QED
    BY <1>1, InTurnInit, InTurnStep, PTL DEF ConsumableSpec, OnlyCountsUnbalance

\* One request at a time, the consumable's stock implements the stock ledger:
\* units are issued only when they are there, and issued units stay issued.
THEOREM ConsumableImplementsLedger ==
  ASSUME OneAtATime PROVE ConsumableSpec => ConsumableLedgerSpec
  <1>1. ConsumableInit => ConsumableLedger!Init
    BY ConsumableConstants DEF ConsumableInit, ConsumableLedger!Init
  <1>2. ConsumableInv /\ [ConsumableNext]_consumableVars
          => [ConsumableLedger!Next]_<<quantityAvailable, issued>>
    BY InTurnCounts
    DEF ConsumableLedger!Next, ConsumableLedger!Issue, ConsumableLedger!Count
  <1> QED
    BY <1>1, <1>2, InTurnInit, InTurnStep, PTL
    DEF ConsumableSpec, ConsumableLedgerSpec, ConsumableLedger!Spec
=============================================================================
