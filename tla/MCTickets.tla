----------------------------- MODULE MCTickets -----------------------------
(* Model checking of Tickets: slots and staff are interchangeable.         *)
EXTENDS Tickets, TLC

Symmetry == Permutations(Requests) \union Permutations(Staff)
=============================================================================
