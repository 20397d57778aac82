--------------------------- MODULE MCAssetCustody ---------------------------
(* Model checking of AssetCustody: ids are model values, and the ids of a  *)
(* kind are interchangeable.                                               *)
EXTENDS AssetCustody, TLC

Symmetry ==
  Permutations(Assets) \union Permutations(Employees)
    \union Permutations(Tickets) \union Permutations(Requests)
=============================================================================
