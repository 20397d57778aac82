--------------------------- MODULE ConsumableStock ---------------------------
(***************************************************************************)
(* The stock of one consumable: quantity_total, quantity_available, and    *)
(* the units on its consumable_issues rows, which are only ever added.     *)
(* issue decrements quantity_available; update and adjustStock overwrite   *)
(* it with a value worked out from what they read.                         *)
(***************************************************************************)
EXTENDS Integers, FiniteSets

CONSTANTS
  Changes,    \* request slots: how many requests can be in flight at once
  MaxIssue,   \* bound: the units one issue may ask for
  MaxStock,   \* bound: the units a consumable is created with
  MaxIssued,  \* bound: the units issued over time
  Totals,     \* what an update may set quantityTotal to
  Recounts    \* what a stock adjustment may set quantityAvailable to

ASSUME ConsumableConstants ==
  /\ IsFiniteSet(Changes) /\ Changes # {}
  /\ MaxIssue \in Nat \ {0}
  /\ MaxStock \in Nat
  /\ MaxIssued \in Nat
  /\ Totals \subseteq Nat
  /\ Recounts \subseteq Int

VARIABLES
  quantityTotal,      \* quantity_total
  quantityAvailable,  \* quantity_available
  issued,             \* sum of quantity over the rows of consumable_issues
  change              \* change[r]: what the request in slot r is going to write

consumableVars == <<quantityTotal, quantityAvailable, issued, change>>
consumable == <<quantityTotal, quantityAvailable, issued>>

Change == [kind : {"idle", "issue", "update", "adjust"},
           quantity : 0..MaxIssue, total : Int, available : Int]

NoChange == [kind |-> "idle", quantity |-> 0, total |-> 0, available |-> 0]

ConsumableInit ==
  /\ quantityTotal \in 0..MaxStock
  /\ quantityAvailable = quantityTotal
  /\ issued = 0
  /\ change = [r \in Changes |-> NoChange]

-----------------------------------------------------------------------------
StartChange(r, p) ==
  /\ change[r].kind = "idle"
  /\ change' = [change EXCEPT ![r] = p]
  /\ UNCHANGED consumable

\* issue, up to its first write (to whom is not modelled here).
BeginIssue(r, q) ==
  /\ q <= quantityAvailable
  /\ StartChange(r, [kind |-> "issue", quantity |-> q, total |-> 0, available |-> 0])

\* Mutant: setting the total refills the shelf, whatever was issued.
BeginUpdateRefilling(r, n) ==
  /\ n >= quantityTotal - quantityAvailable
  /\ StartChange(r, [kind |-> "update", quantity |-> 0, total |-> n, available |-> n])

\* update that sets quantityTotal: what was issued so far is the difference
\* of the two columns, and both are overwritten.
BeginUpdate(r, n) ==
  LET issuedSoFar == quantityTotal - quantityAvailable
  IN /\ n >= issuedSoFar
     /\ StartChange(r, [kind |-> "update", quantity |-> 0,
                        total |-> n, available |-> n - issuedSoFar])

\* adjustStock decides nothing from what it reads.
BeginRecount(r, n) ==
  StartChange(r, [kind |-> "adjust", quantity |-> 0, total |-> 0, available |-> n])

FinishChange(r) == change' = [change EXCEPT ![r] = NoChange]

\* Mutant: the issue row is written and the quantity stays.
CommitIssueUntaken(r) ==
  /\ change[r].kind = "issue"
  /\ issued + change[r].quantity <= MaxIssued
  /\ issued' = issued + change[r].quantity
  /\ UNCHANGED <<quantityTotal, quantityAvailable>>
  /\ FinishChange(r)

CommitIssue(r) ==
  /\ change[r].kind = "issue"
  /\ issued + change[r].quantity <= MaxIssued
  /\ quantityAvailable' = quantityAvailable - change[r].quantity
  /\ issued' = issued + change[r].quantity
  /\ UNCHANGED quantityTotal
  /\ FinishChange(r)

CommitUpdate(r) ==
  /\ change[r].kind = "update"
  /\ quantityTotal' = change[r].total
  /\ quantityAvailable' = change[r].available
  /\ UNCHANGED issued
  /\ FinishChange(r)

CommitRecount(r) ==
  /\ change[r].kind = "adjust"
  /\ quantityAvailable' = change[r].available
  /\ UNCHANGED <<quantityTotal, issued>>
  /\ FinishChange(r)

AbortChange(r) ==
  /\ change[r].kind # "idle"
  /\ FinishChange(r)
  /\ UNCHANGED consumable

-----------------------------------------------------------------------------
ChangeStep(r) ==
  \/ \E q \in 1..MaxIssue : BeginIssue(r, q)
  \/ \E n \in Totals : BeginUpdate(r, n)
  \/ \E n \in Recounts : BeginRecount(r, n)
  \/ CommitIssue(r)
  \/ CommitUpdate(r)
  \/ CommitRecount(r)
  \/ AbortChange(r)

ConsumableNext == \E r \in Changes : ChangeStep(r)

ConsumableSpec == ConsumableInit /\ [][ConsumableNext]_consumableVars

-----------------------------------------------------------------------------
(* Properties.                                                             *)

ConsumableTypeOK ==
  /\ quantityTotal \in Int
  /\ quantityAvailable \in Int
  /\ issued \in Nat
  /\ change \in [Changes -> Change]

\* What is on the shelf and what was issued make up the total, or miss it by
\* what stock counts have left: only a count changes by how much they miss it
\* (where handlers do not overlap).
Imbalance == quantityAvailable + issued - quantityTotal

OnlyCountsUnbalance ==
  [][Imbalance' = Imbalance \/ \E r \in Changes : CommitRecount(r)]_consumableVars

\* One request slot: handlers run one after another.
OneAtATime == \A q, r \in Changes : q = r

\* In turn, what a request has read is still so when it writes: there is as
\* much as an issue takes, and an update keeps what total and shelf differ by.
InTurnInv ==
  \A r \in Changes :
    /\ change[r].kind = "issue" => change[r].quantity \in 1..quantityAvailable
    /\ change[r].kind = "update" =>
         /\ change[r].available \in Nat
         /\ change[r].total - change[r].available = quantityTotal - quantityAvailable
    /\ change[r].kind = "adjust" => change[r].available \in Recounts

\* The stock keeps the promises of the ledger (when handlers do not overlap).
ConsumableLedger == INSTANCE StockLedger WITH
                      Counts <- Nat \union Recounts, available <- quantityAvailable, out <- issued

ConsumableLedgerSpec == ConsumableLedger!Spec

=============================================================================
