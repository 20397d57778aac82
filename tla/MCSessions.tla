----------------------------- MODULE MCSessions -----------------------------
(* Model checking of Sessions: slots and browsers are interchangeable.     *)
EXTENDS Sessions, TLC

Symmetry == Permutations(Requests) \union Permutations(Browsers)
=============================================================================
