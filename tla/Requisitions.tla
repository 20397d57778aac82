---------------------------- MODULE Requisitions ----------------------------
(***************************************************************************)
(* One purchase requisition: drafted, submitted, decided on by the         *)
(* approvers that the approval matrix names, edited at any time before it  *)
(* becomes a purchase order, withdrawn.  requisitions.service.ts, and      *)
(* convert of purchase-orders.service.ts.                                  *)
(*                                                                         *)
(* The handlers read and write in separate database calls; each call is a  *)
(* step, and what a handler has read stays in its job.  The material part  *)
(* of a requisition is abstracted to two amounts: lines, what its line     *)
(* items and tax add up to, and total, its total cost, which a request may *)
(* set apart from the lines.  Revision numbers are left out.               *)
(***************************************************************************)
EXTENDS Naturals, Sequences, FiniteSets

CONSTANTS
  Handlers,      \* handler slots: how many HTTP requests can be in flight
  Exclusive,     \* kinds of requests that overlap with no other request
  Breaks,        \* may a handler stop half-way
  Users,         \* users that the matrix names
  Amounts,       \* what line items and tax may add up to
  Totals,        \* totals that a request may set apart from the lines
  Required,      \* Required[t]: the <<user, level>> that must approve total t
  RoutingFor,    \* RoutingFor[t]: sequential or parallel
  MaxRounds,     \* bound: how often the approver rows are rebuilt
  Keep           \* a field that a request leaves out

Kind == {"submit", "edit", "decide", "withdraw", "convert"}

Status == {"draft", "pending_approval", "approved", "rejected",
           "converted_to_po", "cancelled"}

ASSUME RequisitionConstants ==
  /\ Exclusive \subseteq Kind /\ Breaks \in BOOLEAN
  /\ Amounts # {} /\ Keep \notin Amounts \union Totals /\ Keep \notin Status
  /\ MaxRounds \in Nat
  /\ RoutingFor \in [Amounts \union Totals -> {"sequential", "parallel"}]
  /\ DOMAIN Required = Amounts \union Totals
  /\ \A t \in DOMAIN Required :
       /\ Required[t] \subseteq Users \X Nat
       /\ \A x, y \in Required[t] : x[1] = y[1] => x = y

VARIABLES
  status,        \* purchase_requisitions.status
  lines, total,  \* its amounts
  routing,       \* its routing
  approvers,     \* its requisition_approvers of kind required
  rounds,        \* how often such rows were created
  orders,        \* the amounts of each purchase order made from it
  job,           \* job[h]: what the handler in slot h has read and does next
  overlap        \* history: which requests have overlapped so far: "none", only
                 \* "decisions", or "any", also once a handler has broken off

row == <<status, lines, total, routing, approvers, rounds, orders>>
vars == <<status, lines, total, routing, approvers, rounds, orders, job, overlap>>

Editable == {"draft", "pending_approval", "approved", "rejected"}

Decision == {"pending", "approved", "rejected"}

Amount == Amounts \union Totals

\* round tells apart rows with equal columns, as their ids do; seen is a
\* history variable: the amounts the approver's decision was made on.
Approver == [user : Users, level : Nat, round : Nat, status : Decision,
             seen : (Amounts \X Amount) \union {<<>>}]

Op == {"idle", "matrix", "clear", "fill", "route", "submit", "edit", "mark",
       "reject", "count", "approve", "withdraw", "convert"}

Job == [op : Op, kind : Kind, lines : Amounts \union {Keep}, total : Amount \union {Keep},
        to : Status \union {Keep}, approver : Approver \union {Keep}, decision : Decision]

Idle == [op |-> "idle", kind |-> "edit", lines |-> Keep, total |-> Keep,
         to |-> Keep, approver |-> Keep, decision |-> "pending"]

Init ==
  /\ status = "draft"
  /\ lines \in Amounts
  /\ total \in {lines} \union Totals
  /\ routing = "parallel"
  /\ approvers = {} /\ rounds = 0
  /\ orders = <<>>
  /\ job = [h \in Handlers |-> Idle]
  /\ overlap = "none"

-----------------------------------------------------------------------------
(* Handlers: starting, going on, ending.                                   *)

InFlight == {h \in Handlers : job[h].op # "idle"}

MayStart(k) ==
  /\ k \in Exclusive => InFlight = {}
  /\ \A h \in InFlight : job[h].kind \notin Exclusive

Begin(h, k, j) ==
  /\ job[h].op = "idle" /\ MayStart(k)
  /\ job' = [job EXCEPT ![h] = [j EXCEPT !.kind = k]]
  /\ overlap' = IF InFlight = {} THEN overlap
                ELSE IF \E i \in InFlight : {k, job[i].kind} # {"decide"} THEN "any"
                ELSE IF overlap = "any" THEN "any" ELSE "decisions"
  /\ UNCHANGED row

Goto(h, op) == job' = [job EXCEPT ![h].op = op] /\ UNCHANGED overlap

Finish(h) == job' = [job EXCEPT ![h] = Idle] /\ UNCHANGED overlap

\* The handler fails or the process stops; what it has written stays.
Break(h) ==
  /\ Breaks /\ job[h].op # "idle"
  /\ job' = [job EXCEPT ![h] = Idle]
  /\ overlap' = "any"
  /\ UNCHANGED row

-----------------------------------------------------------------------------
(* rebuildApprovers, part of submit and of an edit that resets approval.   *)

\* It reads the requisition's total and the rules that apply to it.
ReadMatrix(h) ==
  /\ job[h].op = "matrix"
  /\ job' = [job EXCEPT ![h].op = "clear", ![h].total = total]
  /\ UNCHANGED <<row, overlap>>

ClearApprovers(h) ==
  /\ job[h].op = "clear"
  /\ approvers' = {}
  /\ Goto(h, "fill")
  /\ UNCHANGED <<status, lines, total, routing, rounds, orders>>

FillApprovers(h) ==
  /\ job[h].op = "fill"
  /\ rounds' = rounds + 1
  /\ approvers' = approvers \union
       { [user |-> x[1], level |-> x[2], round |-> rounds', status |-> "pending",
          seen |-> <<>>] : x \in Required[job[h].total] }
  /\ Goto(h, "route")
  /\ UNCHANGED <<status, lines, total, routing, orders>>

SetRouting(h) ==
  /\ job[h].op = "route"
  /\ routing' = RoutingFor[job[h].total]
  /\ IF job[h].kind = "submit" THEN Goto(h, "submit") ELSE Finish(h)
  /\ UNCHANGED <<status, lines, total, approvers, rounds, orders>>

-----------------------------------------------------------------------------
(* submit and update.                                                      *)

BeginSubmit(h) ==
  /\ status \in {"draft", "rejected"} /\ rounds < MaxRounds
  /\ Begin(h, "submit", [Idle EXCEPT !.op = "matrix"])

CommitSubmit(h) ==
  /\ job[h].op = "submit"
  /\ status' = "pending_approval"
  /\ UNCHANGED <<lines, total, routing, approvers, rounds, orders>>
  /\ Finish(h)

\* isMaterialRequisitionEdit: a line or a total that is given and differs.
Material(l, t) == l \notin {Keep, lines} \/ t \notin {Keep, total}

\* update: the total is the one given, or else what the lines add up to.  A
\* material edit takes an approved or pending requisition back to pending,
\* a rejected one back to draft.
BeginEdit(h, l, t) ==
  /\ status \in Editable /\ rounds < MaxRounds
  /\ Begin(h, "edit",
       [Idle EXCEPT
          !.op = "edit", !.lines = l,
          !.total = IF t # Keep THEN t ELSE IF l # Keep THEN l ELSE lines,
          !.to = IF ~Material(l, t) \/ status = "draft" THEN Keep
                 ELSE IF status = "rejected" THEN "draft" ELSE "pending_approval"])

\* Mutant: the approvers are kept when the approval is reset.
CommitEditOnly(h) ==
  LET j == job[h]
  IN /\ j.op = "edit"
     /\ lines' = IF j.lines = Keep THEN lines ELSE j.lines
     /\ total' = j.total
     /\ status' = IF j.to = Keep THEN status ELSE j.to
     /\ Finish(h)
     /\ UNCHANGED <<routing, approvers, rounds, orders>>

\* Its transaction; then, if that resets the approval, the new approvers.
CommitEdit(h) ==
  LET j == job[h]
  IN /\ j.op = "edit"
     /\ lines' = IF j.lines = Keep THEN lines ELSE j.lines
     /\ total' = j.total
     /\ status' = IF j.to = Keep THEN status ELSE j.to
     /\ IF j.to = "pending_approval" THEN Goto(h, "matrix") ELSE Finish(h)
     /\ UNCHANGED <<routing, approvers, rounds, orders>>

-----------------------------------------------------------------------------
(* decide, withdraw and convert.                                           *)

\* Mutant: sequential routing is not looked at.
MayDecideAnyTime(a) == a.status = "pending"

\* The approver has not decided; in sequential routing nobody of an earlier
\* level has yet to.
MayDecide(a) ==
  /\ a.status = "pending"
  /\ routing = "sequential" =>
       \A b \in approvers : b.level < a.level => b.status # "pending"

BeginDecide(h, a, d) ==
  /\ status = "pending_approval" /\ MayDecide(a)
  /\ Begin(h, "decide", [Idle EXCEPT !.op = "mark", !.approver = a, !.decision = d,
                                     !.lines = lines, !.total = total])

SameRow(a, b) == a.user = b.user /\ a.round = b.round

\* The approver's row is updated by its id, if it still exists.
MarkDecision(h) ==
  LET j == job[h]
  IN /\ j.op = "mark"
     /\ \E a \in approvers :
          /\ SameRow(a, j.approver)
          /\ approvers' = (approvers \ {a}) \union
               {[a EXCEPT !.status = j.decision, !.seen = <<j.lines, j.total>>]}
     /\ Goto(h, IF j.decision = "rejected" THEN "reject" ELSE "count")
     /\ UNCHANGED <<status, lines, total, routing, rounds, orders>>

\* It was deleted: the update fails.
MarkNothing(h) ==
  /\ job[h].op = "mark"
  /\ \A a \in approvers : ~SameRow(a, job[h].approver)
  /\ Finish(h)
  /\ UNCHANGED row

\* Mutant: one approval is enough.
CountAnyway(h) ==
  /\ job[h].op = "count"
  /\ Goto(h, "approve")
  /\ UNCHANGED row

\* Is any required approver left?
CountRemaining(h) ==
  /\ job[h].op = "count"
  /\ IF \E a \in approvers : a.status = "pending" THEN Finish(h) ELSE Goto(h, "approve")
  /\ UNCHANGED row

\* The requisition's status, by its id, whatever it has become.
WriteStatus(h, op, s) ==
  /\ job[h].op = op
  /\ status' = s
  /\ Finish(h)
  /\ UNCHANGED <<lines, total, routing, approvers, rounds, orders>>

Approve(h) == WriteStatus(h, "approve", "approved")

Reject(h) == WriteStatus(h, "reject", "rejected")

\* withdraw, by an admin: the requester may do less.
BeginWithdraw(h) ==
  /\ status \notin {"converted_to_po", "cancelled"}
  /\ Begin(h, "withdraw", [Idle EXCEPT !.op = "withdraw"])

Withdraw(h) == WriteStatus(h, "withdraw", "cancelled")

BeginConvert(h) ==
  /\ status = "approved"
  /\ Begin(h, "convert", [Idle EXCEPT !.op = "convert", !.lines = lines, !.total = total])

\* Mutant: the order is created and the requisition stays approved.
ConvertOnly(h) ==
  /\ job[h].op = "convert"
  /\ orders' = Append(orders, <<job[h].lines, job[h].total>>)
  /\ Finish(h)
  /\ UNCHANGED <<status, lines, total, routing, approvers, rounds>>

Convert(h) ==
  /\ job[h].op = "convert"
  /\ orders' = Append(orders, <<job[h].lines, job[h].total>>)
  /\ status' = "converted_to_po"
  /\ Finish(h)
  /\ UNCHANGED <<lines, total, routing, approvers, rounds>>

-----------------------------------------------------------------------------
Handle(h) ==
  \/ BeginSubmit(h)
  \/ \E l \in Amounts \union {Keep}, t \in Totals \union {Keep} : BeginEdit(h, l, t)
  \/ \E a \in approvers, d \in {"approved", "rejected"} : BeginDecide(h, a, d)
  \/ BeginWithdraw(h)
  \/ BeginConvert(h)
  \/ ReadMatrix(h)
  \/ ClearApprovers(h)
  \/ FillApprovers(h)
  \/ SetRouting(h)
  \/ CommitSubmit(h)
  \/ CommitEdit(h)
  \/ MarkDecision(h)
  \/ MarkNothing(h)
  \/ CountRemaining(h)
  \/ Approve(h)
  \/ Reject(h)
  \/ Withdraw(h)
  \/ Convert(h)

Next == \E h \in Handlers : Handle(h) \/ Break(h)

Spec == Init /\ [][Next]_vars

-----------------------------------------------------------------------------
(* Properties.                                                             *)

TypeOK ==
  /\ status \in Status
  /\ lines \in Amounts /\ total \in Amount
  /\ routing \in {"sequential", "parallel"}
  /\ approvers \subseteq Approver /\ rounds \in Nat
  /\ orders \in Seq(Amounts \X Amount)
  /\ job \in [Handlers -> Job]
  /\ overlap \in {"none", "decisions", "any"}
  /\ \A h \in Handlers : job[h].op \in {"clear", "fill", "route", "edit"} => job[h].total # Keep

\* The amounts that stand now.
Terms == <<lines, total>>

\* As long as no handler breaks off or overlaps another, an approved requisition
\* was approved by everybody the matrix asks for its total, each on the
\* amounts that stand now.
ApprovedOnCurrentTerms ==
  (overlap = "none" /\ status = "approved") =>
    /\ {<<a.user, a.level>> : a \in approvers} = Required[total]
    /\ \A a \in approvers : a.status = "approved" /\ a.seen = Terms

\* As long as conversions overlap nothing, and whatever else overlaps or breaks
\* off, there is one purchase order, and it is for the amounts that stand.
OneOrderAsApproved ==
  Len(orders) <= 1 /\ \A i \in DOMAIN orders : orders[i] = Terms

\* A pending requisition on which nobody is at work can be decided on by
\* somebody.
SomebodyCanDecide ==
  (status = "pending_approval" /\ InFlight = {}) => \E a \in approvers : MayDecide(a)

\* Decisions that overlap each other and nothing else: whatever their order, a
\* requisition is approved only after everybody has decided, and as long as it
\* is pending there is somebody left to decide, if the matrix asks somebody for
\* every total.
DecisionsMeet ==
  overlap # "any" =>
    /\ status = "approved" => \A a \in approvers : a.status # "pending"
    /\ SomebodyCanDecide

\* Where the matrix always routes sequentially, and whatever overlaps, nobody
\* decides before everybody of an earlier level in the same round has.
SequentialOrder ==
  \A a, b \in approvers :
    (a.round = b.round /\ a.level < b.level /\ b.status # "pending") => a.status # "pending"
=============================================================================
