------------------------------ MODULE Personnel ------------------------------
(* The employees that stock rows and requests refer to by id.              *)

CONSTANTS
  Employees,
  NoOne          \* no employee: a null id, or a row that does not exist yet

ASSUME NobodyIsNoEmployee == NoOne \notin Employees
=============================================================================
