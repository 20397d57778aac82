--------------------------- MODULE MCVendorRecords ---------------------------
(* Model checking of VendorRecords: ids are interchangeable model values.  *)
EXTENDS VendorRecords, TLC

Symmetry == Permutations(Requests) \union Permutations(Users) \union Permutations(Accounts)

\* A role is given, or the login is taken away; a reinstatement gives it back.
MCUpdates ==
  {[role |-> ro, active |-> "keep"] : ro \in Roles} \union
  {[role |-> "keep", active |-> "off"]}
=============================================================================
