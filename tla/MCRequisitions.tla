--------------------------- MODULE MCRequisitions ---------------------------
(* Model checking of Requisitions: one approver for a small total, a second *)
(* one, of a later level, for a large one.                                  *)
EXTENDS Requisitions, TLC

CONSTANTS u1, u2

TwoUsers == {u1, u2}

Escalating == 1 :> {<<u1, 1>>} @@ 2 :> {<<u1, 1>>, <<u2, 2>>}

\* Two approvers, whatever the total: side by side, or one after the other.
Joint == 1 :> {<<u1, 1>>, <<u2, 1>>} @@ 2 :> {<<u1, 1>>, <<u2, 2>>}

LargeIsSequential == 1 :> "parallel" @@ 2 :> "sequential"
AllSequential == 1 :> "sequential" @@ 2 :> "sequential"

Symmetry == Permutations(Handlers)
=============================================================================
