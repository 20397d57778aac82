---------------------------- MODULE MCImportJobs ----------------------------
(* Model checking of ImportJobs, one file in each behaviour, as jobs of      *)
(* different kinds share no table.  The file of assets has a row without a   *)
(* serial number, one whose location is unknown and one that is repeated;    *)
(* the e-mails in the file of employees differ.  Runs fail, are tried again  *)
(* and overlap.                                                              *)
EXTENDS ImportJobs, TLC

CONSTANTS j1, j2, k1, k2

Good(k) == [key |-> k, valid |-> TRUE]

Files == j1 :> <<Good(NoKey), [key |-> k2, valid |-> FALSE], Good(k1), Good(k1)>>
      @@ j2 :> <<Good(k1), Good(k2), Good(k1)>>

Kinds == j1 :> "assets" @@ j2 :> "employees"

Twice == [j \in {j1, j2} |-> 2]

Untouched(j) == status[j] = "queued" /\ \A s \in Slots : slot[s].op = "idle" \/ slot[s].job # j

OneFile == \E j \in Jobs : \A k \in Jobs \ {j} : Untouched(k)

OneFileSpec == Init /\ [][Next /\ OneFile']_vars /\ \A s \in Slots : WF_vars(Continue(s))
=============================================================================
