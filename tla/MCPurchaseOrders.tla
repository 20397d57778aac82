-------------------------- MODULE MCPurchaseOrders --------------------------
(* Model checking of PurchaseOrders: an order of one serialized line, and   *)
(* one with a line of stock beside it.                                      *)
EXTENDS PurchaseOrders, TLC

One == [kind |-> "serialized", quantity |-> 2]
Two == [kind |-> "stock", quantity |-> 1]

SmallOrders == {<<One>>, <<[One EXCEPT !.quantity = 1], Two>>}

Symmetry == Permutations(Requests) \union Permutations(Receipts)
=============================================================================
