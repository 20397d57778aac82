--------------------------- MODULE AccessoryStock ---------------------------
(***************************************************************************)
(* The stock of one accessory: the counters accessories.quantity_total and *)
(* quantity_checked_out, and the rows of accessory_checkouts, under the    *)
(* requests that change them.  Each request reads (Begin) and later writes *)
(* (Commit); what it writes to quantity_checked_out is an increment, so    *)
(* only its check can be stale.                                            *)
(***************************************************************************)
EXTENDS Personnel, Integers, FiniteSets

CONSTANTS
  Requests,      \* request slots: how many requests can be in flight at once
  Checkouts,     \* ids of checkout rows; as many rows as are ever made
  MaxQuantity,   \* bound: the units one checkout may ask for
  MaxTotal,      \* bound: the units an accessory is created with
  Stocktakes     \* the totals that a stock adjustment may set

ASSUME StockConstants ==
  /\ IsFiniteSet(Requests) /\ Requests # {}
  /\ IsFiniteSet(Checkouts)
  /\ MaxQuantity \in Nat \ {0}
  /\ MaxTotal \in Nat
  /\ Stocktakes \subseteq Int

VARIABLES
  total,         \* quantity_total
  checkedOut,    \* quantity_checked_out
  quantity,      \* quantity[c] of checkout row c; 0: no such row yet
  owner,         \* owner[c]: the employee of row c
  open,          \* the rows with checked_in_at null
  active,        \* active[e]: employees.is_active
  plan,          \* plan[r]: what the request in slot r is going to write
  most,          \* history: the largest total so far
  overlapped     \* history: two requests were in flight at once

stock == <<total, checkedOut, quantity, owner, open, active>>
history == <<most, overlapped>>
vars == <<stock, plan, history>>

\* The units that a set of checkout rows stands for: quantity[c] for each c.
Units(S) == {u \in S \X (1..MaxQuantity) : u[2] <= quantity[u[1]]}

\* The units on open checkout rows.
UnitsOut == Cardinality(Units(open))

Available == total - checkedOut

Kind == {"idle", "checkout", "checkin", "offboard", "adjust"}

Plan == [kind : Kind, quantity : 0..MaxQuantity, employee : Employees \union {NoOne},
         rows : SUBSET Checkouts, total : Int]

Idle == [kind |-> "idle", quantity |-> 0, employee |-> NoOne, rows |-> {}, total |-> 0]

Init ==
  /\ total \in 0..MaxTotal
  /\ checkedOut = 0
  /\ quantity = [c \in Checkouts |-> 0]
  /\ owner = [c \in Checkouts |-> NoOne]
  /\ open = {}
  /\ active = [e \in Employees |-> TRUE]
  /\ plan = [r \in Requests |-> Idle]
  /\ most = total
  /\ overlapped = FALSE

-----------------------------------------------------------------------------
Busy(r) == plan[r].kind # "idle"

Start(r, p) ==
  /\ ~Busy(r)
  /\ plan' = [plan EXCEPT ![r] = p]
  /\ overlapped' = (overlapped \/ \E q \in Requests : Busy(q))
  /\ UNCHANGED <<stock, most>>

\* Mutant: the request is compared with the total, not with what is left.
BeginCheckoutOfTotal(r, e, q) ==
  /\ q <= total
  /\ active[e]
  /\ Start(r, [kind |-> "checkout", quantity |-> q, employee |-> e,
               rows |-> {}, total |-> 0])

\* checkout, up to its first write.
BeginCheckout(r, e, q) ==
  /\ q <= Available
  /\ active[e]
  /\ Start(r, [kind |-> "checkout", quantity |-> q, employee |-> e,
               rows |-> {}, total |-> 0])

\* checkin reads the row while it is open.
BeginCheckin(r, c) ==
  /\ c \in open
  /\ Start(r, [kind |-> "checkin", quantity |-> 0, employee |-> NoOne,
               rows |-> {c}, total |-> 0])

\* Mutant: only one of the leaver's open checkouts is read.
BeginOffboardOne(r, e) ==
  /\ active[e]
  /\ \E R \in SUBSET {c \in open : owner[c] = e} :
       /\ Cardinality(R) <= 1
       /\ Start(r, [kind |-> "offboard", quantity |-> 0, employee |-> e,
                    rows |-> R, total |-> 0])

\* offboard reads the leaver's open checkouts before its transaction.
BeginOffboard(r, e) ==
  /\ active[e]
  /\ Start(r, [kind |-> "offboard", quantity |-> 0, employee |-> e,
               rows |-> {c \in open : owner[c] = e}, total |-> 0])

\* adjustStock, and update when it sets quantityTotal.
BeginAdjust(r, n) ==
  /\ n >= checkedOut
  /\ Start(r, [kind |-> "adjust", quantity |-> 0, employee |-> NoOne,
               rows |-> {}, total |-> n])

Finish(r) == plan' = [plan EXCEPT ![r] = Idle]

\* checkout: a new row, and quantityCheckedOut incremented by its quantity.
CommitCheckout(r) ==
  /\ plan[r].kind = "checkout"
  /\ \E c \in Checkouts :
       /\ quantity[c] = 0
       /\ quantity' = [quantity EXCEPT ![c] = plan[r].quantity]
       /\ owner' = [owner EXCEPT ![c] = plan[r].employee]
       /\ open' = open \union {c}
  /\ checkedOut' = checkedOut + plan[r].quantity
  /\ UNCHANGED <<total, active, history>>
  /\ Finish(r)

\* Mutant: the counter goes down by one for each row, whatever its quantity.
CloseRowsByOne(r) ==
  /\ open' = open \ plan[r].rows
  /\ checkedOut' = checkedOut - Cardinality(plan[r].rows)
  /\ UNCHANGED <<total, quantity, owner, history>>

\* Mutant: the rows are closed and the counter is forgotten.
CloseRowsUncounted(r) ==
  /\ open' = open \ plan[r].rows
  /\ UNCHANGED <<total, checkedOut, quantity, owner, history>>

\* checkin and offboard: the rows that were read are closed by id, whether or
\* not they still are open, and the counter goes down by their quantities.
CloseRows(r) ==
  /\ open' = open \ plan[r].rows
  /\ checkedOut' = checkedOut - Cardinality(Units(plan[r].rows))
  /\ UNCHANGED <<total, quantity, owner, history>>

CommitCheckin(r) ==
  /\ plan[r].kind = "checkin"
  /\ CloseRows(r)
  /\ UNCHANGED active
  /\ Finish(r)

CommitOffboard(r) ==
  /\ plan[r].kind = "offboard"
  /\ CloseRows(r)
  /\ active' = [active EXCEPT ![plan[r].employee] = FALSE]
  /\ Finish(r)

CommitAdjust(r) ==
  /\ plan[r].kind = "adjust"
  /\ total' = plan[r].total
  /\ most' = IF total' > most THEN total' ELSE most
  /\ UNCHANGED <<checkedOut, quantity, owner, open, active, overlapped>>
  /\ Finish(r)

\* The request fails before it has written anything that stays.
Abort(r) ==
  /\ Busy(r)
  /\ Finish(r)
  /\ UNCHANGED <<stock, history>>

\* Employee update or reinstate sets is_active.
SetEmployeeActive(e, b) ==
  /\ active[e] # b
  /\ active' = [active EXCEPT ![e] = b]
  /\ UNCHANGED <<total, checkedOut, quantity, owner, open, plan, history>>

-----------------------------------------------------------------------------
Step(r) ==
  \/ \E e \in Employees, q \in 1..MaxQuantity : BeginCheckout(r, e, q)
  \/ \E c \in Checkouts : BeginCheckin(r, c)
  \/ \E e \in Employees : BeginOffboard(r, e)
  \/ \E n \in Stocktakes : BeginAdjust(r, n)
  \/ CommitCheckout(r)
  \/ CommitCheckin(r)
  \/ CommitOffboard(r)
  \/ CommitAdjust(r)
  \/ Abort(r)

Next ==
  \/ \E r \in Requests : Step(r)
  \/ \E e \in Employees, b \in BOOLEAN : SetEmployeeActive(e, b)

Spec == Init /\ [][Next]_vars

-----------------------------------------------------------------------------
(* Properties.                                                             *)

TypeOK ==
  /\ total \in Int
  /\ checkedOut \in Int
  /\ quantity \in [Checkouts -> 0..MaxQuantity]
  /\ owner \in [Checkouts -> Employees \union {NoOne}]
  /\ open \subseteq {c \in Checkouts : quantity[c] > 0}
  /\ active \in [Employees -> BOOLEAN]
  /\ plan \in [Requests -> Plan]
  /\ most \in Int
  /\ overlapped \in BOOLEAN
  /\ \A r \in Requests :
       /\ plan[r].kind = "checkout" => plan[r].quantity > 0
       /\ plan[r].kind \in {"checkout", "offboard"} => plan[r].employee \in Employees

\* However check-outs, check-ins and offboardings overlap, the counter never
\* claims more units out than the open checkout rows account for: an
\* overlapping check-in of one row can only make it too small.
CounterNeverOverstates == checkedOut <= UnitsOut

\* Until requests overlap the counter is exactly what the open rows add up to, and never
\* more than the stock there is.
CounterExact == ~overlapped => checkedOut = UnitsOut /\ checkedOut <= total

\* Overlapping checkouts can take out more than there ever was, but by no more than one
\* request's worth for each request in flight besides the first.
OverIssueBounded == checkedOut <= most + (Cardinality(Requests) - 1) * MaxQuantity

\* An offboarding leaves the leaver without open checkouts, until requests overlap.
OffboardReturnsAll ==
  [][\A r \in Requests :
       CommitOffboard(r) /\ ~overlapped => \A c \in open' : owner'[c] # plan[r].employee]_vars

\* In turn, what a request has read is still so when it writes.
SerialInv ==
  ~overlapped =>
    /\ checkedOut = UnitsOut
    /\ checkedOut <= total
    /\ \A r \in Requests :
         /\ plan[r].kind = "checkout" => plan[r].quantity <= Available
         /\ plan[r].kind = "adjust" => plan[r].total >= checkedOut
         /\ Busy(r) => plan[r].rows \subseteq open
    /\ \A q, r \in Requests : Busy(q) /\ Busy(r) => q = r

\* ... and an offboarding has read every open row of the leaver.
LeaverInv ==
  ~overlapped =>
    \A r \in Requests : plan[r].kind = "offboard" =>
      \A c \in open : owner[c] = plan[r].employee => c \in plan[r].rows

\* The units that the checkouts in flight are about to take count as taken.
PlannedUnits ==
  {u \in Requests \X (1..MaxQuantity) :
     plan[u[1]].kind = "checkout" /\ u[2] <= plan[u[1]].quantity}

BoundInv ==
  /\ total <= most
  /\ checkedOut + Cardinality(PlannedUnits) <= most + (Cardinality(Requests) - 1) * MaxQuantity

\* Until requests overlap, the stock keeps the promises of the ledger.
Ledger == INSTANCE StockLedger WITH
            Counts <- Nat, available <- Available, out <- UnitsOut

LedgerSpec ==
  Ledger!Init /\ [][~overlapped' => Ledger!Next \/ UNCHANGED <<Available, UnitsOut>>]_vars
=============================================================================
