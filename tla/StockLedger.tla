----------------------------- MODULE StockLedger -----------------------------
(***************************************************************************)
(* What the stock of one accessory, or one consumable, promises: units     *)
(* leave the shelf only when they are there and are then out; units come   *)
(* back only when they are out; and a count of the shelf changes nothing   *)
(* that is out.  The abstract specification of AccessoryStock and of       *)
(* ConsumableStock.                                                        *)
(***************************************************************************)
EXTENDS Integers

CONSTANT Counts     \* what a count of the shelf may find

VARIABLES
  available,        \* units on the shelf
  out               \* units on record as handed out

Init == available \in Nat /\ out = 0

Issue ==
  \E q \in 1..available :
    /\ available' = available - q
    /\ out' = out + q

Return ==
  \E q \in 1..out :
    /\ available' = available + q
    /\ out' = out - q

Count ==
  /\ available' \in Counts
  /\ UNCHANGED out

Next == Issue \/ Return \/ Count

Spec == Init /\ [][Next]_<<available, out>>
=============================================================================
