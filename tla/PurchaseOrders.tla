---------------------------- MODULE PurchaseOrders ----------------------------
(***************************************************************************)
(* One purchase order after its conversion: sent, amended, cancelled,      *)
(* short-closed, received in several goods receipts, each of which hands   *)
(* its goods over to the inventory and can be voided again.                *)
(* purchase-orders.service.ts.                                             *)
(*                                                                         *)
(* Every handler reads the order first, outside its transaction, and       *)
(* checks that copy.  The statements of its transaction that read          *)
(* (deleteMany of the lines, liveReceived) are steps of their own; the     *)
(* rest becomes visible at once, at Commit.  Quantities are whole; prices, *)
(* revisions and invoices are left out.                                    *)
(***************************************************************************)
EXTENDS Naturals, Sequences, FiniteSets

CONSTANTS
  Requests,      \* request slots: how many requests can be in flight at once
  Receipts,      \* goods receipt ids
  Orders,        \* the line items an order may be given: sequences of items
  MaxReceived,   \* bound: the units of a line one receipt may record
  MaxLines,      \* bound: the lines of an order
  MaxBatches,    \* bound: how often the lines are written
  Keep,          \* a request that leaves the lines alone
  NoReceipt      \* a request about no goods receipt

Kinds == {"serialized", "stock"}

ASSUME OrderConstants ==
  /\ MaxReceived \in Nat /\ MaxLines \in Nat /\ MaxBatches \in Nat \ {0}
  /\ \A o \in Orders : o \in Seq([kind : Kinds, quantity : Nat]) /\ Len(o) <= MaxLines
  /\ Keep \notin Orders /\ NoReceipt \notin Receipts /\ IsFiniteSet(Receipts)

VARIABLES
  status,        \* purchase_orders.status
  located,       \* is its location_id set
  lines,         \* its purchase_order_lines
  batches,       \* how often lines were created
  receipt,       \* receipt[g]: the goods receipt g
  handoffs,      \* procurement_handoffs: <<receipt, line id>>
  flagged,       \* those that need reconciliation, and their assets with them
  job,           \* job[r]: what the request in slot r has read and will write
  overlapped     \* history: have two requests been in flight at once

order == <<status, located, lines, batches, receipt, handoffs, flagged>>
vars == <<status, located, lines, batches, receipt, handoffs, flagged, job, overlapped>>

Status == {"draft", "sent", "partially_received", "received", "closed", "cancelled"}

Open == {"sent", "partially_received"}

\* A line; its id is the batch it was created in and its place there.
LineId == (1..MaxBatches) \X (1..MaxLines)

Line == [id : LineId, kind : Kinds, quantity : Nat]

Numbered(o, n) ==
  {[id |-> <<n, i>>, kind |-> o[i].kind, quantity |-> o[i].quantity] : i \in DOMAIN o}

Ids(S) == {l.id : l \in S}

\* The quantities a goods receipt may record for the line ids S.
Quantities(S) == UNION {[T -> 0..MaxReceived] : T \in SUBSET S}

NoQuantities == [l \in {} |-> 0]

Unborn == [state |-> "unborn", got |-> NoQuantities]

ReceiptState == {"unborn", "live", "reversed"}

Op == {"idle", "send", "amend", "deleted", "cancel", "close",
       "receive", "received", "void", "voided"}

\* read, seen, was: the lines of the order as it was read, whether it had
\* hand-offs then, and its status; new: the lines to write; found: the lines
\* deleteMany found; receipt, got: the goods receipt; to: the status to write.
Idle == [op |-> "idle", read |-> {}, seen |-> FALSE, was |-> "draft", new |-> Keep,
         found |-> {}, receipt |-> NoReceipt, got |-> NoQuantities, to |-> "draft"]

Job == [op : Op, read : SUBSET Line, seen : BOOLEAN, was : Status, new : Orders \union {Keep},
        found : SUBSET Line, receipt : Receipts \union {NoReceipt},
        got : Quantities(LineId), to : Status]

Init ==
  /\ status = "draft"
  /\ located \in BOOLEAN
  /\ \E o \in Orders : lines = Numbered(o, 1)
  /\ batches = 1
  /\ receipt = [g \in Receipts |-> Unborn]
  /\ handoffs = {} /\ flagged = {}
  /\ job = [r \in Requests |-> Idle]
  /\ overlapped = FALSE

-----------------------------------------------------------------------------
(* Quantities received.                                                    *)

\* The units that receipts may record of a line: the u[2]-th of receipt u[1].
Units == Receipts \X (1..MaxReceived)

\* Mutant: voided receipts count as well.
ReceivedEver(rs, l) ==
  Cardinality({u \in Units : l \in DOMAIN rs[u[1]].got /\ u[2] <= rs[u[1]].got[l]})

\* receivedMap: what the live ones of the receipts rs record of line l.
Received(rs, l) ==
  Cardinality({u \in Units : /\ rs[u[1]].state = "live"
                             /\ l \in DOMAIN rs[u[1]].got /\ u[2] <= rs[u[1]].got[l]})

Complete(rs, S) == \A l \in S : Received(rs, l.id) >= l.quantity

Partial(rs) ==
  \E g \in Receipts : rs[g].state = "live" /\ \E l \in DOMAIN rs[g].got : rs[g].got[l] > 0

\* The status that a receipt or a void writes, for the lines S as it read them.
Progress(rs, S, none) ==
  IF Complete(rs, S) THEN "received" ELSE IF Partial(rs) THEN "partially_received" ELSE none

-----------------------------------------------------------------------------
(* Requests: the read of the order, the end.                               *)

Begin(r, j) ==
  /\ job[r].op = "idle"
  /\ job' = [job EXCEPT ![r] = [j EXCEPT !.read = lines, !.seen = (handoffs # {})]]
  /\ overlapped' = (overlapped \/ \E q \in Requests : job[q].op # "idle")
  /\ UNCHANGED order

Finish(r) ==
  /\ job' = [job EXCEPT ![r] = Idle]
  /\ UNCHANGED overlapped

\* An exception, a lost connection, a restart before the transaction commits.
Abort(r) ==
  /\ job[r].op # "idle"
  /\ Finish(r)
  /\ UNCHANGED order

-----------------------------------------------------------------------------
(* send, shortClose, cancel.                                               *)

BeginSend(r) == status = "draft" /\ Begin(r, [Idle EXCEPT !.op = "send"])

CommitSend(r) ==
  /\ job[r].op = "send"
  /\ status' = "sent"
  /\ Finish(r)
  /\ UNCHANGED <<located, lines, batches, receipt, handoffs, flagged>>

BeginShortClose(r) == status \in Open /\ Begin(r, [Idle EXCEPT !.op = "close"])

CommitShortClose(r) ==
  /\ job[r].op = "close"
  /\ status' = "closed"
  /\ Finish(r)
  /\ UNCHANGED <<located, lines, batches, receipt, handoffs, flagged>>

\* Mutant: a closed order may be cancelled too.
BeginCancelClosed(r) ==
  status \notin {"received", "cancelled"} /\ Begin(r, [Idle EXCEPT !.op = "cancel"])

BeginCancel(r) ==
  status \notin {"received", "closed", "cancelled"} /\ Begin(r, [Idle EXCEPT !.op = "cancel"])

\* Mutant: what was handed over so far is left alone.
CommitCancelQuietly(r) ==
  /\ job[r].op = "cancel"
  /\ status' = "cancelled"
  /\ Finish(r)
  /\ UNCHANGED <<located, lines, batches, receipt, handoffs, flagged>>

\* Hand-offs are flagged if the order had any when it was read.
CommitCancel(r) ==
  /\ job[r].op = "cancel"
  /\ status' = "cancelled"
  /\ flagged' = IF job[r].seen THEN handoffs ELSE flagged
  /\ Finish(r)
  /\ UNCHANGED <<located, lines, batches, receipt, handoffs>>

-----------------------------------------------------------------------------
(* amend.                                                                  *)

BeginAmend(r, new) ==
  /\ status \in Open \union {"draft"}
  /\ Begin(r, [Idle EXCEPT !.op = "amend", !.new = new])

\* deleteMany finds the lines that are committed when it runs.
DeleteLines(r) ==
  /\ job[r].op = "amend" /\ job[r].new # Keep
  /\ job' = [job EXCEPT ![r] = [@ EXCEPT !.op = "deleted", !.found = lines]]
  /\ UNCHANGED <<order, overlapped>>

\* Receipt lines keep the order lines they name (a foreign key), voided or not.
Recorded(S) == \E g \in Receipts : DOMAIN receipt[g].got \intersect Ids(S) # {}

CommitAmend(r) ==
  /\ \/ /\ job[r].op = "amend" /\ job[r].new = Keep
        /\ UNCHANGED <<lines, batches>>
     \/ /\ job[r].op = "deleted" /\ batches < MaxBatches
        /\ ~Recorded(job[r].found)
        /\ batches' = batches + 1
        /\ lines' = (lines \ job[r].found) \union Numbered(job[r].new, batches')
  /\ flagged' = IF job[r].seen THEN handoffs ELSE flagged
  /\ Finish(r)
  /\ UNCHANGED <<status, located, receipt, handoffs>>

-----------------------------------------------------------------------------
(* receive and voidReceipt.                                                *)

BeginReceive(r, g, got) ==
  /\ status \in Open
  /\ receipt[g].state = "unborn" /\ \A q \in Requests : job[q].receipt # g
  /\ Begin(r, [Idle EXCEPT !.op = "receive", !.receipt = g, !.got = got, !.was = status])

\* liveReceived, after the receipt's own rows are in.
CountReceived(r) ==
  LET rs == [receipt EXCEPT ![job[r].receipt] = [state |-> "live", got |-> job[r].got]]
  IN /\ job[r].op = "receive"
     /\ job' = [job EXCEPT ![r] =
          [@ EXCEPT !.op = "received", !.to = Progress(rs, job[r].read, job[r].was)]]
     /\ UNCHANGED <<order, overlapped>>

\* runHandoff: serialized units become assets, where there is a location to
\* number them for; anything else becomes one stock item, whatever the number.
HandedOver(j) ==
  {<<j.receipt, l.id>> : l \in {x \in j.read : x.id \in DOMAIN j.got /\
     (x.kind = "serialized" => located /\ j.got[x.id] > 0)}}

CommitReceive(r) ==
  /\ job[r].op = "received"
  /\ DOMAIN job[r].got \subseteq Ids(lines)
  /\ receipt' = [receipt EXCEPT ![job[r].receipt] = [state |-> "live", got |-> job[r].got]]
  /\ handoffs' = handoffs \union HandedOver(job[r])
  /\ status' = job[r].to
  /\ Finish(r)
  /\ UNCHANGED <<located, lines, batches, flagged>>

BeginVoid(r, g) ==
  /\ receipt[g].state = "live"
  /\ Begin(r, [Idle EXCEPT !.op = "void", !.receipt = g])

Voided(x) == [state |-> "reversed", got |-> x.got]

CountRemaining(r) ==
  LET rs == [receipt EXCEPT ![job[r].receipt] = Voided(@)]
  IN /\ job[r].op = "void"
     /\ job' = [job EXCEPT ![r] =
          [@ EXCEPT !.op = "voided", !.to = Progress(rs, job[r].read, "sent")]]
     /\ UNCHANGED <<order, overlapped>>

HandoffsOf(g) == {h \in handoffs : h[1] = g}

\* Mutant: what the receipt handed over is left alone.
CommitVoidQuietly(r) ==
  /\ job[r].op = "voided"
  /\ receipt' = [receipt EXCEPT ![job[r].receipt] = Voided(@)]
  /\ status' = job[r].to
  /\ Finish(r)
  /\ UNCHANGED <<located, lines, batches, handoffs, flagged>>

CommitVoid(r) ==
  /\ job[r].op = "voided"
  /\ receipt' = [receipt EXCEPT ![job[r].receipt] = Voided(@)]
  /\ flagged' = flagged \union HandoffsOf(job[r].receipt)
  /\ status' = job[r].to
  /\ Finish(r)
  /\ UNCHANGED <<located, lines, batches, handoffs>>

-----------------------------------------------------------------------------
Handle(r) ==
  \/ BeginSend(r)
  \/ BeginShortClose(r)
  \/ BeginCancel(r)
  \/ \E new \in Orders \union {Keep} : BeginAmend(r, new)
  \/ \E g \in Receipts, S \in (SUBSET Ids(lines)) \ {{}} :
       \E got \in [S -> 0..MaxReceived] : BeginReceive(r, g, got)
  \/ \E g \in Receipts : BeginVoid(r, g)
  \/ CommitSend(r)
  \/ CommitShortClose(r)
  \/ CommitCancel(r)
  \/ DeleteLines(r)
  \/ CommitAmend(r)
  \/ CountReceived(r)
  \/ CommitReceive(r)
  \/ CountRemaining(r)
  \/ CommitVoid(r)
  \/ Abort(r)

Next == \E r \in Requests : Handle(r)

Spec == Init /\ [][Next]_vars

-----------------------------------------------------------------------------
(* Properties.                                                             *)

\* Line items that are named by a receipt, and by a hand-off, are there: no
\* amendment takes them away.
TypeOK ==
  /\ status \in Status /\ located \in BOOLEAN
  /\ lines \in SUBSET Line /\ batches \in 1..MaxBatches
  /\ receipt \in [Receipts -> [state : ReceiptState, got : Quantities(Ids(lines))]]
  /\ \A h \in handoffs : h[1] \in Receipts /\ h[2] \in DOMAIN receipt[h[1]].got
  /\ flagged \subseteq handoffs
  /\ job \in [Requests -> Job]
  /\ overlapped \in BOOLEAN

\* What makes that inductive: a receipt that is being made is new, and nobody
\* else is at work on it; one that is being voided was made.
JobInv ==
  \A r \in Requests :
    /\ job[r].op = "deleted" => job[r].new \in Orders
    /\ job[r].op \in {"receive", "received"} =>
         /\ job[r].receipt \in Receipts
         /\ receipt[job[r].receipt].state = "unborn"
         /\ \A q \in Requests \ {r} : job[q].receipt # job[r].receipt
    /\ job[r].op \in {"void", "voided"} =>
         job[r].receipt \in Receipts /\ receipt[job[r].receipt].state # "unborn"

OrderInv ==
  /\ TypeOK
  /\ JobInv
  /\ \A g \in Receipts : receipt[g].state = "unborn" => receipt[g].got = NoQuantities

\* What a line has got, and what the order has got, from its live receipts.
Delivered(l) ==
  Cardinality({u \in Units : LET x == receipt[u[1]] IN
    x.state = "live" /\ l.id \in DOMAIN x.got /\ u[2] <= x.got[l.id]})

AllDelivered == \A l \in lines : Delivered(l) >= l.quantity

NoneDelivered == \A l \in lines : Delivered(l) = 0

\* Handlers that do not overlap: the progress an order claims is the progress its live
\* receipts make, on the lines it has.  Receipts that overlap lose sight of each other only
\* in one direction: while no receipt has been voided and the lines are of one amendment, an
\* order that counts as received is complete, whatever overlaps.
ProgressFollowsReceipts ==
  /\ ~overlapped =>
       /\ status = "received" => AllDelivered
       /\ status = "partially_received" => ~AllDelivered /\ ~NoneDelivered
       /\ status = "sent" => NoneDelivered
  /\ (/\ status = "received"
      /\ \A g \in Receipts : receipt[g].state # "reversed"
      /\ \A x, y \in lines : x.id[1] = y.id[1]) => AllDelivered

\* Whatever overlaps, the inventory that a voided receipt brought in is marked
\* for reconciliation.
VoidedIsFlagged ==
  \A h \in handoffs : receipt[h[1]].state = "reversed" => h \in flagged

\* Handlers that do not overlap: so is all that a cancelled order brought in.
CancelledIsFlagged == (~overlapped /\ status = "cancelled") => handoffs = flagged

\* Handlers that do not overlap: an order leaves cancelled or closed only when
\* one of its receipts is voided, which gives it back the progress that is left.
OnlyVoidReopens ==
  [][(~overlapped /\ status \in {"cancelled", "closed"} /\ status' # status)
       => \E r \in Requests : CommitVoid(r)]_vars
=============================================================================
