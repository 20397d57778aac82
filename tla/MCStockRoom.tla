---------------------------- MODULE MCStockRoom ----------------------------
(* Model checking of AccessoryStock, ConsumableStock and AssetRequests.    *)
(* They share no row and no property relates them, so they are explored    *)
(* one at a time: one moves only while the others rest, with nothing in    *)
(* stock and nothing asked for.                                            *)
EXTENDS AccessoryStock, ConsumableStock, AssetRequests, TLC

Symmetry ==
  Permutations(Requests) \union Permutations(Employees) \union Permutations(Checkouts)

\* A stock count may be typed in negative: the request's only check is that
\* it is an integer.
AnyCount == {-1, 0, 2}

AccessoryRests == Init /\ total = 0
ConsumableRests == ConsumableInit /\ quantityTotal = 0
RequestsRest == RequestInit /\ \A k \in KitItems : units[k] = 0

RoomInit ==
  \/ Init /\ ConsumableRests /\ RequestsRest
  \/ AccessoryRests /\ ConsumableInit /\ RequestsRest
  \/ AccessoryRests /\ ConsumableRests /\ RequestInit

RoomNext ==
  \/ ConsumableRests /\ RequestsRest /\ Next /\ UNCHANGED <<consumableVars, requestVars>>
  \/ AccessoryRests /\ RequestsRest /\ ConsumableNext /\ UNCHANGED <<vars, requestVars>>
  \/ AccessoryRests /\ ConsumableRests /\ RequestNext /\ UNCHANGED <<vars, consumableVars>>

RoomSpec == RoomInit /\ [][RoomNext]_<<vars, consumableVars, requestVars>>
=============================================================================
