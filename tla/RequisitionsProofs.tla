-------------------------- MODULE RequisitionsProofs --------------------------
(***************************************************************************)
(* Proofs about Requisitions, for any number of handlers, users, levels,   *)
(* amounts and rounds: what approvals stand for, in which order they come, *)
(* that somebody can give them, and the one order that is made of them.    *)
(***************************************************************************)
EXTENDS Requisitions, WellFoundedInduction, TLAPS

USE RequisitionConstants

-----------------------------------------------------------------------------
(* The handlers' jobs.                                                     *)

Deciding == {"mark", "count", "reject", "approve"}

Rebuilding == {"matrix", "clear", "fill", "route"}

\* What a handler of each kind does, and what its job then holds.
Shape(j) ==
  /\ j.op \in Deciding => j.kind = "decide"
  /\ j.op \in Rebuilding => j.kind \in {"submit", "edit"}
  /\ j.op = "edit" => j.kind = "edit" /\ j.to \in {Keep, "draft", "pending_approval"}
  /\ j.op = "submit" => j.kind = "submit"
  /\ j.op = "convert" => j.kind = "convert"
  /\ j.op \in {"mark", "convert"} => j.lines # Keep /\ j.total # Keep
  /\ j.op \in {"clear", "fill", "route", "edit"} => j.total # Keep
  /\ j.op = "mark" => j.approver \in Approver /\ j.decision \in {"approved", "rejected"}

TypeInv == TypeOK /\ \A h \in Handlers : Shape(job[h])

\* The other handlers' jobs stay.
Others(h) ==
  /\ job' \in [Handlers -> Job]
  /\ \A g \in Handlers \ {h} : job'[g] = job[g]

SameRequisition ==
  /\ status' = status /\ lines' = lines /\ total' = total /\ routing' = routing
  /\ approvers' = approvers /\ rounds' = rounds /\ orders' = orders

Ended(h) == Others(h) /\ job'[h] = Idle /\ job'[h].op = "idle"

\* Handler h goes on to op and keeps what it has read.
GoesOn(h, op) ==
  /\ Others(h)
  /\ job'[h].op = op
  /\ job'[h].kind = job[h].kind /\ job'[h].lines = job[h].lines /\ job'[h].total = job[h].total
  /\ job'[h].to = job[h].to /\ job'[h].approver = job[h].approver
  /\ job'[h].decision = job[h].decision

\* A request of kind k comes in: how it overlaps those in flight.
Started(h, k) ==
  /\ job[h].op = "idle" /\ MayStart(k)
  /\ Others(h) /\ job'[h].kind = k
  /\ SameRequisition
  /\ overlap' \in {"none", "decisions", "any"}
  /\ overlap' = "none" => overlap = "none" /\ InFlight = {}
  /\ overlap' # "any" =>
       /\ overlap # "any"
       /\ \A g \in InFlight : k = "decide" /\ job[g].kind = "decide"

LEMMA IdleTyped ==
  /\ Idle \in Job /\ Idle.op = "idle" /\ Idle.kind = "edit" /\ Idle.lines = Keep
  /\ Idle.total = Keep /\ Idle.to = Keep /\ Idle.approver = Keep /\ Idle.decision = "pending"
  /\ Shape(Idle)
  BY DEF Idle, Job, Op, Kind, Decision, Shape, Deciding, Rebuilding

LEMMA FinishDoes ==
  ASSUME TypeInv, NEW h \in Handlers, job' = [job EXCEPT ![h] = Idle]
  PROVE  Ended(h)
  BY IdleTyped DEF TypeInv, TypeOK, Ended, Others

LEMMA GotoDoes ==
  ASSUME TypeInv, NEW h \in Handlers, NEW op \in Op, Goto(h, op)
  PROVE  GoesOn(h, op) /\ overlap' = overlap
<1>1. job[h] \in Job
  BY DEF TypeInv, TypeOK
<1> DEFINE x == [job[h] EXCEPT !.op = op]
<1>2. x \in Job
  BY <1>1 DEF Job
<1>3. job' = [job EXCEPT ![h] = x] /\ overlap' = overlap
  BY DEF Goto
<1>4. Others(h) /\ job'[h] = x
  BY <1>2, <1>3 DEF TypeInv, TypeOK, Others
<1>5. /\ x.op = op /\ x.kind = job[h].kind /\ x.lines = job[h].lines /\ x.total = job[h].total
      /\ x.to = job[h].to /\ x.approver = job[h].approver /\ x.decision = job[h].decision
  BY <1>1 DEF Job
<1> QED
  BY <1>3, <1>4, <1>5 DEF GoesOn

LEMMA StartDoes ==
  ASSUME TypeInv, NEW h \in Handlers, NEW k \in Kind, NEW j \in Job, Begin(h, k, j)
  PROVE  /\ Started(h, k)
         /\ job'[h].op = j.op /\ job'[h].lines = j.lines /\ job'[h].total = j.total
         /\ job'[h].to = j.to /\ job'[h].approver = j.approver /\ job'[h].decision = j.decision
<1> DEFINE x == [j EXCEPT !.kind = k]
<1>1. x \in Job
  BY DEF Job
<1>2. /\ x.op = j.op /\ x.kind = k /\ x.lines = j.lines /\ x.total = j.total
      /\ x.to = j.to /\ x.approver = j.approver /\ x.decision = j.decision
  BY DEF Job
<1>3. job' = [job EXCEPT ![h] = x] /\ job[h].op = "idle" /\ MayStart(k)
  BY DEF Begin
<1>4. Others(h) /\ job'[h] = x
  BY <1>1, <1>3 DEF TypeInv, TypeOK, Others
<1>5. SameRequisition
  BY DEF Begin, row, SameRequisition
<1>6. /\ overlap' \in {"none", "decisions", "any"}
      /\ overlap' = "none" => overlap = "none" /\ InFlight = {}
      /\ overlap' # "any" => overlap # "any" /\ \A g \in InFlight : k = "decide" /\ job[g].kind = "decide"
  BY DEF Begin, TypeInv, TypeOK
<1> QED
  BY <1>2, <1>3, <1>4, <1>5, <1>6 DEF Started

-----------------------------------------------------------------------------
(* What each request starts with.                                          *)

LEMMA SubmitStarts ==
  ASSUME TypeInv, NEW h \in Handlers, BeginSubmit(h)
  PROVE  /\ Started(h, "submit") /\ status \in {"draft", "rejected"}
         /\ job'[h].op = "matrix" /\ job'[h].to = Keep
<1> DEFINE j == [Idle EXCEPT !.op = "matrix"]
<1>1. j \in Job
  BY IdleTyped DEF Job, Op
<1>2. j.op = "matrix" /\ j.to = Keep
  BY IdleTyped DEF Job
<1>3. Begin(h, "submit", j)
  BY DEF BeginSubmit
<1> HIDE DEF j
<1> QED
  BY <1>1, <1>2, <1>3, StartDoes DEF BeginSubmit, Kind

\* The total that an edit writes, and the status.
EditTotal(l, t) == IF t # Keep THEN t ELSE IF l # Keep THEN l ELSE lines

EditStatus(l, t) ==
  IF ~Material(l, t) \/ status = "draft" THEN Keep
  ELSE IF status = "rejected" THEN "draft" ELSE "pending_approval"

LEMMA EditStarts ==
  ASSUME TypeInv, NEW h \in Handlers, NEW l \in Amounts \union {Keep},
         NEW t \in Totals \union {Keep}, BeginEdit(h, l, t)
  PROVE  /\ Started(h, "edit") /\ status \in Editable
         /\ job'[h].op = "edit" /\ job'[h].lines = l /\ job'[h].total = EditTotal(l, t)
         /\ job'[h].to = EditStatus(l, t)
         /\ EditTotal(l, t) \in Amount
<1> DEFINE j == [Idle EXCEPT !.op = "edit", !.lines = l, !.total = EditTotal(l, t),
                             !.to = EditStatus(l, t)]
<1>1. EditTotal(l, t) \in Amount
  BY DEF EditTotal, Amount, TypeInv, TypeOK
<1>2. EditStatus(l, t) \in Status \union {Keep}
  BY DEF EditStatus, Status
<1>3. Begin(h, "edit", j) /\ status \in Editable
  BY DEF BeginEdit, EditTotal, EditStatus
<1>4. PICK n \in Amount, s \in Status \union {Keep} : n = EditTotal(l, t) /\ s = EditStatus(l, t)
  BY <1>1, <1>2
<1>5. j = [Idle EXCEPT !.op = "edit", !.lines = l, !.total = n, !.to = s]
  BY <1>4
<1>6. j \in Job
  BY <1>5, IdleTyped DEF Job, Op
<1>7. j.op = "edit" /\ j.lines = l /\ j.total = n /\ j.to = s
  BY <1>5, IdleTyped DEF Job
<1> HIDE DEF j
<1> QED
  BY <1>1, <1>3, <1>4, <1>6, <1>7, StartDoes DEF Kind

LEMMA DecideStarts ==
  ASSUME TypeInv, NEW h \in Handlers, NEW a \in approvers, NEW d \in {"approved", "rejected"},
         BeginDecide(h, a, d)
  PROVE  /\ Started(h, "decide") /\ status = "pending_approval" /\ MayDecide(a)
         /\ job'[h].op = "mark" /\ job'[h].lines = lines /\ job'[h].total = total
         /\ job'[h].approver = a /\ job'[h].decision = d /\ job'[h].to = Keep
<1> DEFINE j == [Idle EXCEPT !.op = "mark", !.approver = a, !.decision = d,
                             !.lines = lines, !.total = total]
<1>1. j \in Job
  BY IdleTyped DEF Job, Op, Decision, TypeInv, TypeOK
<1>2. Begin(h, "decide", j) /\ status = "pending_approval" /\ MayDecide(a)
  BY DEF BeginDecide
<1>3. /\ j.op = "mark" /\ j.lines = lines /\ j.total = total /\ j.approver = a
      /\ j.decision = d /\ j.to = Keep
  BY IdleTyped DEF Job
<1> HIDE DEF j
<1> QED
  BY <1>1, <1>2, <1>3, StartDoes DEF Kind

LEMMA WithdrawStarts ==
  ASSUME TypeInv, NEW h \in Handlers, BeginWithdraw(h)
  PROVE  /\ Started(h, "withdraw") /\ status \notin {"converted_to_po", "cancelled"}
         /\ job'[h].op = "withdraw" /\ job'[h].to = Keep
<1> DEFINE j == [Idle EXCEPT !.op = "withdraw"]
<1>1. j \in Job
  BY IdleTyped DEF Job, Op
<1>2. j.op = "withdraw" /\ j.to = Keep
  BY IdleTyped DEF Job
<1>3. Begin(h, "withdraw", j)
  BY DEF BeginWithdraw
<1> HIDE DEF j
<1> QED
  BY <1>1, <1>2, <1>3, StartDoes DEF BeginWithdraw, Kind

LEMMA ConvertStarts ==
  ASSUME TypeInv, NEW h \in Handlers, BeginConvert(h)
  PROVE  /\ Started(h, "convert") /\ status = "approved"
         /\ job'[h].op = "convert" /\ job'[h].lines = lines /\ job'[h].total = total
         /\ job'[h].to = Keep
<1> DEFINE j == [Idle EXCEPT !.op = "convert", !.lines = lines, !.total = total]
<1>1. j \in Job
  BY IdleTyped DEF Job, Op, Decision, TypeInv, TypeOK
<1>2. Begin(h, "convert", j) /\ status = "approved"
  BY DEF BeginConvert
<1>3. j.op = "convert" /\ j.lines = lines /\ j.total = total /\ j.to = Keep
  BY IdleTyped DEF Job
<1> HIDE DEF j
<1> QED
  BY <1>1, <1>2, <1>3, StartDoes DEF Kind

LEMMA MatrixRead ==
  ASSUME TypeInv, NEW h \in Handlers, ReadMatrix(h)
  PROVE  /\ job[h].op = "matrix" /\ Others(h) /\ SameRequisition /\ overlap' = overlap
         /\ job'[h].op = "clear" /\ job'[h].kind = job[h].kind /\ job'[h].total = total
         /\ job'[h].to = job[h].to
<1> DEFINE x == [job[h] EXCEPT !.op = "clear", !.total = total]
<1>1. job[h] \in Job
  BY DEF TypeInv, TypeOK
<1>2. x \in Job
  BY <1>1 DEF Job, Op, TypeInv, TypeOK
<1>3. x.op = "clear" /\ x.total = total /\ x.kind = job[h].kind /\ x.to = job[h].to
  BY <1>1 DEF Job
<1>4. job' = [job EXCEPT ![h] = x] /\ job[h].op = "matrix" /\ overlap' = overlap
  BY DEF ReadMatrix
<1>5. Others(h) /\ job'[h] = x
  BY <1>2, <1>4 DEF TypeInv, TypeOK, Others
<1>6. SameRequisition
  BY DEF ReadMatrix, row, SameRequisition
<1> QED
  BY <1>3, <1>4, <1>5, <1>6

-----------------------------------------------------------------------------
(* Type correctness.                                                       *)

LEMMA TypeKept ==
  ASSUME TypeInv, NEW h \in Handlers, Others(h), Shape(job'[h]),
         status' \in Status, lines' \in Amounts, total' \in Amount,
         routing' \in {"sequential", "parallel"}, approvers' \subseteq Approver, rounds' \in Nat,
         orders' \in Seq(Amounts \X Amount), overlap' \in {"none", "decisions", "any"}
  PROVE  TypeInv'
<1>1. \A g \in Handlers : Shape(job'[g])
  BY DEF Others, TypeInv
<1>2. \A g \in Handlers : job'[g].op \in {"clear", "fill", "route", "edit"} => job'[g].total # Keep
  BY <1>1 DEF Shape
<1> QED
  BY <1>1, <1>2 DEF TypeInv, TypeOK, Others

\* Nothing but the jobs changes.
LEMMA TypeKeptSame ==
  ASSUME TypeInv, NEW h \in Handlers, Others(h), Shape(job'[h]), SameRequisition,
         overlap' \in {"none", "decisions", "any"}
  PROVE  TypeInv'
  BY TypeKept DEF SameRequisition, TypeInv, TypeOK

LEMMA TypeInit == Init => TypeInv
<1> SUFFICES ASSUME Init PROVE TypeInv
  OBVIOUS
<1>1. /\ job \in [Handlers -> Job] /\ \A h \in Handlers : job[h] = Idle
  BY IdleTyped DEF Init
<1>2. \A h \in Handlers : Shape(job[h])
  BY <1>1, IdleTyped
<1>3. \A h \in Handlers : job[h].op \in {"clear", "fill", "route", "edit"} => job[h].total # Keep
  BY <1>1, IdleTyped
<1>4. orders \in Seq(Amounts \X Amount)
  BY DEF Init
<1> QED
  BY <1>1, <1>2, <1>3, <1>4 DEF Init, TypeInv, TypeOK, Status, Amount

LEMMA StartTyped ==
  ASSUME TypeInv, NEW h \in Handlers,
         \/ BeginSubmit(h)
         \/ \E l \in Amounts \union {Keep}, t \in Totals \union {Keep} : BeginEdit(h, l, t)
         \/ \E a \in approvers, d \in {"approved", "rejected"} : BeginDecide(h, a, d)
         \/ BeginWithdraw(h)
         \/ BeginConvert(h)
  PROVE  TypeInv'
<1>1. CASE BeginSubmit(h)
  <2>1. Started(h, "submit") /\ job'[h].op = "matrix"
    BY <1>1, SubmitStarts
  <2> QED
    BY <2>1, TypeKeptSame DEF Started, Shape, Deciding, Rebuilding
<1>2. ASSUME NEW l \in Amounts \union {Keep}, NEW t \in Totals \union {Keep}, BeginEdit(h, l, t)
      PROVE  TypeInv'
  <2>1. /\ Started(h, "edit") /\ job'[h].op = "edit" /\ job'[h].total = EditTotal(l, t)
        /\ job'[h].to = EditStatus(l, t) /\ EditTotal(l, t) \in Amount
    BY <1>2, EditStarts
  <2>2. job'[h].total # Keep /\ job'[h].to \in {Keep, "draft", "pending_approval"}
    BY <2>1 DEF Amount, EditStatus
  <2> QED
    BY <2>1, <2>2, TypeKeptSame DEF Started, Shape, Deciding, Rebuilding
<1>3. ASSUME NEW a \in approvers, NEW d \in {"approved", "rejected"}, BeginDecide(h, a, d)
      PROVE  TypeInv'
  <2>1. /\ Started(h, "decide") /\ job'[h].op = "mark" /\ job'[h].lines = lines
        /\ job'[h].total = total /\ job'[h].approver = a /\ job'[h].decision = d
    BY <1>3, DecideStarts
  <2>2. lines # Keep /\ total # Keep /\ a \in Approver
    BY DEF TypeInv, TypeOK, Amount
  <2> QED
    BY <2>1, <2>2, TypeKeptSame DEF Started, Shape, Deciding, Rebuilding
<1>4. CASE BeginWithdraw(h)
  <2>1. Started(h, "withdraw") /\ job'[h].op = "withdraw"
    BY <1>4, WithdrawStarts
  <2> QED
    BY <2>1, TypeKeptSame DEF Started, Shape, Deciding, Rebuilding
<1>5. CASE BeginConvert(h)
  <2>1. /\ Started(h, "convert") /\ job'[h].op = "convert" /\ job'[h].lines = lines
        /\ job'[h].total = total
    BY <1>5, ConvertStarts
  <2>2. lines # Keep /\ total # Keep
    BY DEF TypeInv, TypeOK, Amount
  <2> QED
    BY <2>1, <2>2, TypeKeptSame DEF Started, Shape, Deciding, Rebuilding
<1> QED
  BY <1>1, <1>2, <1>3, <1>4, <1>5

LEMMA RebuildTyped ==
  ASSUME TypeInv, NEW h \in Handlers,
         ReadMatrix(h) \/ ClearApprovers(h) \/ FillApprovers(h) \/ SetRouting(h)
  PROVE  TypeInv'
<1>0. Shape(job[h])
  BY DEF TypeInv
<1>1. CASE ReadMatrix(h)
  <2>1. /\ job[h].op = "matrix" /\ Others(h) /\ SameRequisition /\ overlap' = overlap
        /\ job'[h].op = "clear" /\ job'[h].kind = job[h].kind /\ job'[h].total = total
    BY <1>1, MatrixRead
  <2>2. total # Keep
    BY DEF TypeInv, TypeOK, Amount
  <2>3. Shape(job'[h])
    BY <1>0, <2>1, <2>2 DEF Shape, Deciding, Rebuilding
  <2> QED
    BY <2>1, <2>3, TypeKeptSame DEF TypeInv, TypeOK
<1>2. CASE ClearApprovers(h)
  <2>1. GoesOn(h, "fill") /\ overlap' = overlap
    BY <1>2, GotoDoes DEF ClearApprovers, Op
  <2>2. Shape(job'[h])
    BY <1>0, <1>2, <2>1 DEF ClearApprovers, GoesOn, Shape, Deciding, Rebuilding
  <2> QED
    BY <1>2, <2>1, <2>2, TypeKept DEF ClearApprovers, GoesOn, TypeInv, TypeOK
<1>3. CASE FillApprovers(h)
  <2>1. GoesOn(h, "route") /\ overlap' = overlap
    BY <1>3, GotoDoes DEF FillApprovers, Op
  <2>2. Shape(job'[h])
    BY <1>0, <1>3, <2>1 DEF FillApprovers, GoesOn, Shape, Deciding, Rebuilding
  <2>3. job[h].total \in Amount /\ rounds' = rounds + 1 /\ rounds' \in Nat
    BY <1>0, <1>3 DEF FillApprovers, Shape, TypeInv, TypeOK, Job
  <2>4. \A x \in Required[job[h].total] : x[1] \in Users /\ x[2] \in Nat
    BY <2>3 DEF Amount
  <2>5. { [user |-> x[1], level |-> x[2], round |-> rounds', status |-> "pending",
            seen |-> <<>>] : x \in Required[job[h].total] } \subseteq Approver
    BY <2>3, <2>4 DEF Approver, Decision
  <2>6. approvers' \subseteq Approver
    BY <1>3, <2>5 DEF FillApprovers, TypeInv, TypeOK
  <2> QED
    BY <1>3, <2>1, <2>2, <2>3, <2>6, TypeKept DEF FillApprovers, GoesOn, TypeInv, TypeOK
<1>4. CASE SetRouting(h)
  <2>1. job[h].total \in Amount
    BY <1>0, <1>4 DEF SetRouting, Shape, TypeInv, TypeOK, Job
  <2>2. routing' \in {"sequential", "parallel"}
    BY <1>4, <2>1 DEF SetRouting, Amount
  <2>3. Others(h) /\ Shape(job'[h]) /\ overlap' = overlap
    <3>1. CASE job[h].kind = "submit"
      <4>1. GoesOn(h, "submit") /\ overlap' = overlap
        BY <1>4, <3>1, GotoDoes DEF SetRouting, Op
      <4> QED
        BY <3>1, <4>1 DEF GoesOn, Shape, Deciding, Rebuilding
    <3>2. CASE job[h].kind # "submit"
      BY <1>4, <3>2, FinishDoes, IdleTyped DEF SetRouting, Finish, Ended
    <3> QED
      BY <3>1, <3>2
  <2> QED
    BY <1>4, <2>2, <2>3, TypeKept DEF SetRouting, TypeInv, TypeOK
<1> QED
  BY <1>1, <1>2, <1>3, <1>4

\* Either the last step of an edit, or on to the new approvers.
LEMMA EditDoes ==
  ASSUME TypeInv, NEW h \in Handlers, CommitEdit(h)
  PROVE  /\ job[h].to = "pending_approval" => GoesOn(h, "matrix")
         /\ job[h].to # "pending_approval" => Ended(h)
         /\ overlap' = overlap
<1>1. CASE job[h].to = "pending_approval"
  BY <1>1, GotoDoes DEF CommitEdit, Op
<1>2. CASE job[h].to # "pending_approval"
  BY <1>2, FinishDoes DEF CommitEdit, Finish
<1> QED
  BY <1>1, <1>2

LEMMA MarkDoes ==
  ASSUME TypeInv, NEW h \in Handlers, MarkDecision(h)
  PROVE  /\ job[h].decision = "rejected" => GoesOn(h, "reject")
         /\ job[h].decision # "rejected" => GoesOn(h, "count")
         /\ overlap' = overlap
<1>1. CASE job[h].decision = "rejected"
  BY <1>1, GotoDoes DEF MarkDecision, Op
<1>2. CASE job[h].decision # "rejected"
  BY <1>2, GotoDoes DEF MarkDecision, Op
<1> QED
  BY <1>1, <1>2

LEMMA CountDoes ==
  ASSUME TypeInv, NEW h \in Handlers, CountRemaining(h)
  PROVE  /\ (\E a \in approvers : a.status = "pending") => Ended(h)
         /\ (\A a \in approvers : a.status # "pending") => GoesOn(h, "approve")
         /\ overlap' = overlap /\ SameRequisition
<1>1. CASE \E a \in approvers : a.status = "pending"
  BY <1>1, FinishDoes DEF CountRemaining, Finish, SameRequisition, row
<1>2. CASE \A a \in approvers : a.status # "pending"
  BY <1>2, GotoDoes DEF CountRemaining, Op, SameRequisition, row
<1> QED
  BY <1>1, <1>2

LEMMA RouteDoes ==
  ASSUME TypeInv, NEW h \in Handlers, SetRouting(h)
  PROVE  /\ job[h].kind = "submit" => GoesOn(h, "submit")
         /\ job[h].kind # "submit" => Ended(h)
         /\ overlap' = overlap
<1>1. CASE job[h].kind = "submit"
  BY <1>1, GotoDoes DEF SetRouting, Op
<1>2. CASE job[h].kind # "submit"
  BY <1>2, FinishDoes DEF SetRouting, Finish
<1> QED
  BY <1>1, <1>2

\* The row of the approver who decides, before and after.
LEMMA RowMarked ==
  ASSUME TypeInv, NEW h \in Handlers, MarkDecision(h)
  PROVE  \E a \in approvers, b \in Approver :
           /\ SameRow(a, job[h].approver)
           /\ approvers' = (approvers \ {a}) \union {b}
           /\ b.user = a.user /\ b.level = a.level /\ b.round = a.round
           /\ b.status = job[h].decision /\ b.seen = <<job[h].lines, job[h].total>>
<1>1. PICK a \in approvers :
        /\ SameRow(a, job[h].approver)
        /\ approvers' = (approvers \ {a}) \union
             {[a EXCEPT !.status = job[h].decision, !.seen = <<job[h].lines, job[h].total>>]}
  BY DEF MarkDecision
<1>2. PICK d \in Decision, s \in Amounts \X Amount :
        d = job[h].decision /\ s = <<job[h].lines, job[h].total>>
  BY DEF MarkDecision, TypeInv, TypeOK, Shape, Job, Amount
<1> DEFINE b == [a EXCEPT !.status = d, !.seen = s]
<1>3. a \in Approver
  BY DEF TypeInv, TypeOK
<1>4. b \in Approver
  BY <1>3 DEF Approver
<1>5. b.user = a.user /\ b.level = a.level /\ b.round = a.round /\ b.status = d /\ b.seen = s
  BY <1>3 DEF Approver
<1>6. approvers' = (approvers \ {a}) \union {b}
  BY <1>1, <1>2
<1> HIDE DEF b
<1> QED
  BY <1>1, <1>2, <1>4, <1>5, <1>6

LEMMA CommitTyped ==
  ASSUME TypeInv, NEW h \in Handlers,
         CommitEdit(h) \/ MarkDecision(h) \/ MarkNothing(h) \/ CountRemaining(h)
  PROVE  TypeInv'
<1>0. Shape(job[h])
  BY DEF TypeInv
<1>1. CASE CommitEdit(h)
  <2>1. Others(h) /\ Shape(job'[h]) /\ overlap' = overlap
    BY <1>0, <1>1, EditDoes, IdleTyped DEF CommitEdit, GoesOn, Ended, Shape, Deciding, Rebuilding
  <2>2. status' \in Status /\ lines' \in Amounts /\ total' \in Amount
    BY <1>0, <1>1 DEF CommitEdit, Shape, TypeInv, TypeOK, Job, Status
  <2> QED
    BY <1>1, <2>1, <2>2, TypeKept DEF CommitEdit, TypeInv, TypeOK
<1>2. CASE MarkDecision(h)
  <2>1. Others(h) /\ Shape(job'[h]) /\ overlap' = overlap
    BY <1>0, <1>2, MarkDoes DEF MarkDecision, GoesOn, Shape, Deciding, Rebuilding
  <2>2. approvers' \subseteq Approver
    BY <1>2, RowMarked DEF TypeInv, TypeOK
  <2> QED
    BY <1>2, <2>1, <2>2, TypeKept DEF MarkDecision, TypeInv, TypeOK
<1>3. CASE MarkNothing(h)
  <2>1. Ended(h) /\ SameRequisition /\ overlap' = overlap
    BY <1>3, FinishDoes DEF MarkNothing, Finish, SameRequisition, row
  <2> QED
    BY <2>1, TypeKeptSame, IdleTyped DEF Ended, TypeInv, TypeOK
<1>4. CASE CountRemaining(h)
  <2>1. Others(h) /\ Shape(job'[h]) /\ overlap' = overlap /\ SameRequisition
    BY <1>0, <1>4, CountDoes, IdleTyped DEF CountRemaining, GoesOn, Ended, Shape, Deciding, Rebuilding
  <2> QED
    BY <2>1, TypeKeptSame DEF TypeInv, TypeOK
<1> QED
  BY <1>1, <1>2, <1>3, <1>4

LEMMA StatusTyped ==
  ASSUME TypeInv, NEW h \in Handlers,
         CommitSubmit(h) \/ Approve(h) \/ Reject(h) \/ Withdraw(h) \/ Convert(h) \/ Break(h)
  PROVE  TypeInv' /\ Ended(h)
<1>1. Ended(h)
  BY FinishDoes DEF CommitSubmit, Approve, Reject, Withdraw, WriteStatus, Convert, Finish, Break
<1>2. Shape(job'[h]) /\ Others(h)
  BY <1>1, IdleTyped DEF Ended
<1>3. overlap' \in {"none", "decisions", "any"}
  <2>1. CASE Break(h)
    BY <2>1 DEF Break
  <2>2. CASE ~Break(h)
    BY <2>2 DEF CommitSubmit, Approve, Reject, Withdraw, WriteStatus, Convert, Finish, TypeInv, TypeOK
  <2> QED
    BY <2>1, <2>2
<1>4. CASE CommitSubmit(h)
  BY <1>1, <1>2, <1>3, <1>4, TypeKept DEF CommitSubmit, Status, TypeInv, TypeOK
<1>5. CASE Approve(h) \/ Reject(h) \/ Withdraw(h)
  BY <1>1, <1>2, <1>3, <1>5, TypeKept DEF Approve, Reject, Withdraw, WriteStatus, Status, TypeInv, TypeOK
<1>6. CASE Convert(h)
  <2>1. <<job[h].lines, job[h].total>> \in Amounts \X Amount
    BY <1>6 DEF Convert, TypeInv, TypeOK, Shape, Job
  <2>2. orders' \in Seq(Amounts \X Amount)
    BY <1>6, <2>1 DEF Convert, TypeInv, TypeOK
  <2> QED
    BY <1>1, <1>2, <1>3, <1>6, <2>2, TypeKept DEF Convert, Status, TypeInv, TypeOK
<1>7. CASE Break(h)
  <2>1. SameRequisition
    BY <1>7 DEF Break, row, SameRequisition
  <2> QED
    BY <1>1, <1>2, <1>3, <2>1, TypeKeptSame
<1> QED
  BY <1>1, <1>4, <1>5, <1>6, <1>7

\* The actions by what they do.
Starts(h) ==
  \/ BeginSubmit(h)
  \/ \E l \in Amounts \union {Keep}, t \in Totals \union {Keep} : BeginEdit(h, l, t)
  \/ \E a \in approvers, d \in {"approved", "rejected"} : BeginDecide(h, a, d)
  \/ BeginWithdraw(h)
  \/ BeginConvert(h)

Rebuilds(h) == ReadMatrix(h) \/ ClearApprovers(h) \/ FillApprovers(h) \/ SetRouting(h)

Decides(h) == MarkDecision(h) \/ MarkNothing(h) \/ CountRemaining(h)

Ends(h) == CommitSubmit(h) \/ Approve(h) \/ Reject(h) \/ Withdraw(h) \/ Convert(h) \/ Break(h)

LEMMA NextIs ==
  Next => \E h \in Handlers : Starts(h) \/ Rebuilds(h) \/ CommitEdit(h) \/ Decides(h) \/ Ends(h)
  BY DEF Next, Handle, Starts, Rebuilds, Decides, Ends

LEMMA TypeNext == TypeInv /\ [Next]_vars => TypeInv'
<1> SUFFICES ASSUME TypeInv, [Next]_vars PROVE TypeInv'
  OBVIOUS
<1>1. ASSUME NEW h \in Handlers, Starts(h) PROVE TypeInv'
  BY <1>1, StartTyped DEF Starts
<1>2. ASSUME NEW h \in Handlers, Rebuilds(h) PROVE TypeInv'
  BY <1>2, RebuildTyped DEF Rebuilds
<1>3. ASSUME NEW h \in Handlers, CommitEdit(h) \/ Decides(h) PROVE TypeInv'
  BY <1>3, CommitTyped DEF Decides
<1>4. ASSUME NEW h \in Handlers, Ends(h) PROVE TypeInv'
  BY <1>4, StatusTyped DEF Ends
<1>5. CASE UNCHANGED vars
  BY <1>5 DEF vars, TypeInv, TypeOK
<1> QED
  BY <1>1, <1>2, <1>3, <1>4, <1>5, NextIs

\* Whatever overlaps and breaks off, the columns of the requisition and what its handlers
\* hold are of their types (requisitions.service.ts): no handler writes a field that it was
\* to leave out.
THEOREM TypeCorrect == Spec => []TypeOK
<1>1. TypeInv => TypeOK
  BY DEF TypeInv
<1> QED
  BY <1>1, TypeInit, TypeNext, PTL DEF Spec

-----------------------------------------------------------------------------
(* The order of levels.                                                    *)

AlwaysSequential == \A t \in Amount : RoutingFor[t] = "sequential"

\* A job that is about decisions, or leads to some.
Awaited(j) ==
  j.op \in Deciding \union {"submit"} \/ (j.op = "edit" /\ j.to = "pending_approval")

\* The routing has been set before anybody may decide.
RouteInv ==
  /\ status \in {"pending_approval", "approved"} => routing = "sequential"
  /\ \A h \in Handlers : Awaited(job[h]) => routing = "sequential"

LEMMA IdleAwaitsNothing == ~Awaited(Idle)
  BY IdleTyped DEF Awaited, Deciding

LEMMA RouteKept ==
  ASSUME RouteInv, NEW h \in Handlers, Others(h), routing' = routing,
         status' \in {"pending_approval", "approved"} => routing = "sequential",
         Awaited(job'[h]) => routing = "sequential"
  PROVE  RouteInv'
  BY DEF RouteInv, Others

LEMMA RouteStarts ==
  ASSUME TypeInv, RouteInv, NEW h \in Handlers, Starts(h)
  PROVE  RouteInv'
<1>1. CASE BeginSubmit(h)
  <2>1. Started(h, "submit") /\ job'[h].op = "matrix"
    BY <1>1, SubmitStarts
  <2>2. ~Awaited(job'[h])
    BY <2>1 DEF Awaited, Deciding
  <2> QED
    BY <2>1, <2>2, RouteKept DEF Started, SameRequisition, RouteInv
<1>2. ASSUME NEW l \in Amounts \union {Keep}, NEW t \in Totals \union {Keep}, BeginEdit(h, l, t)
      PROVE  RouteInv'
  <2>1. Started(h, "edit") /\ status \in Editable /\ job'[h].op = "edit" /\ job'[h].to = EditStatus(l, t)
    BY <1>2, EditStarts
  <2>2. job'[h].to = "pending_approval" => status \in {"pending_approval", "approved"}
    BY <2>1 DEF EditStatus, Editable, Status
  <2>3. Awaited(job'[h]) => routing = "sequential"
    BY <2>1, <2>2 DEF Awaited, Deciding, RouteInv
  <2> QED
    BY <2>1, <2>3, RouteKept DEF Started, SameRequisition, RouteInv
<1>3. ASSUME NEW a \in approvers, NEW d \in {"approved", "rejected"}, BeginDecide(h, a, d)
      PROVE  RouteInv'
  <2>1. Started(h, "decide") /\ status = "pending_approval"
    BY <1>3, DecideStarts
  <2> QED
    BY <2>1, RouteKept DEF Started, SameRequisition, RouteInv
<1>4. CASE BeginWithdraw(h)
  <2>1. Started(h, "withdraw") /\ job'[h].op = "withdraw"
    BY <1>4, WithdrawStarts
  <2>2. ~Awaited(job'[h])
    BY <2>1 DEF Awaited, Deciding
  <2> QED
    BY <2>1, <2>2, RouteKept DEF Started, SameRequisition, RouteInv
<1>5. CASE BeginConvert(h)
  <2>1. Started(h, "convert") /\ job'[h].op = "convert"
    BY <1>5, ConvertStarts
  <2>2. ~Awaited(job'[h])
    BY <2>1 DEF Awaited, Deciding
  <2> QED
    BY <2>1, <2>2, RouteKept DEF Started, SameRequisition, RouteInv
<1> QED
  BY <1>1, <1>2, <1>3, <1>4, <1>5 DEF Starts

LEMMA RouteRebuilds ==
  ASSUME AlwaysSequential, TypeInv, RouteInv, NEW h \in Handlers, Rebuilds(h)
  PROVE  RouteInv'
<1>1. CASE ReadMatrix(h)
  <2>1. Others(h) /\ SameRequisition /\ job'[h].op = "clear"
    BY <1>1, MatrixRead
  <2>2. ~Awaited(job'[h])
    BY <2>1 DEF Awaited, Deciding
  <2> QED
    BY <2>1, <2>2, RouteKept DEF SameRequisition, RouteInv
<1>2. CASE ClearApprovers(h)
  <2>1. Others(h) /\ job'[h].op = "fill"
    BY <1>2, GotoDoes DEF ClearApprovers, Op, GoesOn
  <2>2. ~Awaited(job'[h])
    BY <2>1 DEF Awaited, Deciding
  <2> QED
    BY <1>2, <2>1, <2>2, RouteKept DEF ClearApprovers, RouteInv
<1>3. CASE FillApprovers(h)
  <2>1. Others(h) /\ job'[h].op = "route"
    BY <1>3, GotoDoes DEF FillApprovers, Op, GoesOn
  <2>2. ~Awaited(job'[h])
    BY <2>1 DEF Awaited, Deciding
  <2> QED
    BY <1>3, <2>1, <2>2, RouteKept DEF FillApprovers, RouteInv
<1>4. CASE SetRouting(h)
  <2>1. job[h].total \in Amount
    BY <1>4 DEF SetRouting, Shape, TypeInv, TypeOK, Job
  <2>2. routing' = "sequential"
    BY <1>4, <2>1 DEF SetRouting, AlwaysSequential
  <2> QED
    BY <2>2 DEF RouteInv
<1> QED
  BY <1>1, <1>2, <1>3, <1>4 DEF Rebuilds

LEMMA RouteNext ==
  ASSUME AlwaysSequential, TypeInv, RouteInv, [Next]_vars
  PROVE  RouteInv'
<1>1. ASSUME NEW h \in Handlers, CommitEdit(h) PROVE RouteInv'
  <2>1. Others(h) /\ (job'[h].op = "matrix" \/ job'[h] = Idle)
    BY <1>1, EditDoes DEF GoesOn, Ended
  <2>2. ~Awaited(job'[h])
    BY <2>1, IdleAwaitsNothing DEF Awaited, Deciding
  <2>3. status' \in {"pending_approval", "approved"} => routing = "sequential"
    BY <1>1 DEF CommitEdit, RouteInv, Awaited, TypeInv, Shape
  <2> QED
    BY <1>1, <2>1, <2>2, <2>3, RouteKept DEF CommitEdit
<1>2. ASSUME NEW h \in Handlers, Decides(h) PROVE RouteInv'
  <2>1. CASE MarkDecision(h)
    <3>1. Others(h)
      BY <2>1, MarkDoes DEF GoesOn
    <3>2. routing = "sequential"
      BY <2>1 DEF MarkDecision, RouteInv, Awaited, Deciding
    <3> QED
      BY <2>1, <3>1, <3>2, RouteKept DEF MarkDecision, RouteInv
  <2>2. CASE MarkNothing(h)
    <3>1. Ended(h) /\ SameRequisition
      BY <2>2, FinishDoes DEF MarkNothing, Finish, SameRequisition, row
    <3> QED
      BY <3>1, IdleAwaitsNothing, RouteKept DEF Ended, SameRequisition, RouteInv
  <2>3. CASE CountRemaining(h)
    <3>1. Others(h) /\ SameRequisition
      BY <2>3, CountDoes DEF GoesOn, Ended
    <3>2. routing = "sequential"
      BY <2>3 DEF CountRemaining, RouteInv, Awaited, Deciding
    <3> QED
      BY <3>1, <3>2, RouteKept DEF SameRequisition, RouteInv
  <2> QED
    BY <1>2, <2>1, <2>2, <2>3 DEF Decides
<1>3. ASSUME NEW h \in Handlers, Ends(h) PROVE RouteInv'
  <2>1. Ended(h)
    BY <1>3, StatusTyped DEF Ends
  <2>2. ~Awaited(job'[h]) /\ Others(h)
    BY <2>1, IdleAwaitsNothing DEF Ended
  <2>3. routing' = routing
    BY <1>3 DEF Ends, CommitSubmit, Approve, Reject, Withdraw, WriteStatus, Convert, Break, row
  <2>4. CASE CommitSubmit(h) \/ Approve(h)
    <3>1. routing = "sequential"
      BY <2>4 DEF CommitSubmit, Approve, WriteStatus, RouteInv, Awaited, Deciding
    <3> QED
      BY <2>2, <2>3, <3>1, RouteKept
  <2>5. CASE Reject(h) \/ Withdraw(h) \/ Convert(h) \/ Break(h)
    <3>1. status' \in {"rejected", "cancelled", "converted_to_po", status}
      BY <2>5 DEF Reject, Withdraw, WriteStatus, Convert, Break, row
    <3> QED
      BY <2>2, <2>3, <3>1, RouteKept DEF RouteInv
  <2> QED
    BY <1>3, <2>4, <2>5 DEF Ends
<1>4. CASE UNCHANGED vars
  BY <1>4 DEF vars, RouteInv
<1> QED
  BY <1>1, <1>2, <1>3, <1>4, RouteStarts, RouteRebuilds, NextIs

\* Row x has had its turn, as far as it is still there: it keeps its level, and nobody of an
\* earlier level in its round has yet to decide.
Comes(x) ==
  /\ x.round <= rounds
  /\ \A a \in approvers : SameRow(a, x) => a.level = x.level
  /\ \A b \in approvers : b.round = x.round /\ b.level < x.level => b.status # "pending"

\* Rounds do not mix, a user has one row in each, and a decision on its way comes in turn.
LevelInv ==
  /\ \A a \in approvers : a.round <= rounds
  /\ \A a, b \in approvers : SameRow(a, b) => a = b
  /\ SequentialOrder
  /\ \A h \in Handlers : job[h].op = "mark" => Comes(job[h].approver)

LEMMA LevelKept ==
  ASSUME LevelInv, NEW h \in Handlers, Others(h), approvers' = approvers, rounds' = rounds,
         job'[h].op = "mark" => Comes(job'[h].approver)
  PROVE  LevelInv'
<1>1. \A g \in Handlers : job'[g].op = "mark" => Comes(job'[g].approver)
  BY DEF LevelInv, Others
<1>2. SequentialOrder'
  BY DEF LevelInv, SequentialOrder
<1>3. \A g \in Handlers : job'[g].op = "mark" => Comes(job[g].approver)'
  BY <1>1 DEF Comes, SameRow
<1> QED
  BY <1>2, <1>3 DEF LevelInv, SameRow

LEMMA LevelStarts ==
  ASSUME TypeInv, RouteInv, LevelInv, NEW h \in Handlers, Starts(h)
  PROVE  LevelInv'
<1>1. CASE BeginSubmit(h)
  BY <1>1, SubmitStarts, LevelKept DEF Started, SameRequisition
<1>2. ASSUME NEW l \in Amounts \union {Keep}, NEW t \in Totals \union {Keep}, BeginEdit(h, l, t)
      PROVE  LevelInv'
  BY <1>2, EditStarts, LevelKept DEF Started, SameRequisition
<1>3. ASSUME NEW a \in approvers, NEW d \in {"approved", "rejected"}, BeginDecide(h, a, d)
      PROVE  LevelInv'
  <2>1. /\ Started(h, "decide") /\ status = "pending_approval" /\ MayDecide(a)
        /\ job'[h].approver = a
    BY <1>3, DecideStarts
  <2>2. routing = "sequential"
    BY <2>1 DEF RouteInv
  <2>3. Comes(a)
    BY <2>1, <2>2 DEF Comes, LevelInv, MayDecide
  <2> QED
    BY <2>1, <2>3, LevelKept DEF Started, SameRequisition
<1>4. CASE BeginWithdraw(h)
  BY <1>4, WithdrawStarts, LevelKept DEF Started, SameRequisition
<1>5. CASE BeginConvert(h)
  BY <1>5, ConvertStarts, LevelKept DEF Started, SameRequisition
<1> QED
  BY <1>1, <1>2, <1>3, <1>4, <1>5 DEF Starts

\* A round of new rows: one for each user, all undecided.
LEMMA NewRound ==
  ASSUME TypeInv, NEW h \in Handlers, FillApprovers(h)
  PROVE  \E New \in SUBSET Approver :
           /\ approvers' = approvers \union New
           /\ \A a \in New : a.round = rounds + 1 /\ a.status = "pending"
           /\ \A a, b \in New : SameRow(a, b) => a = b
           /\ {<<a.user, a.level>> : a \in New} = Required[job[h].total]
           /\ job[h].total \in Amount
<1> DEFINE R == Required[job[h].total]
           RowOf(x) == [user |-> x[1], level |-> x[2], round |-> rounds', status |-> "pending",
                        seen |-> <<>>]
           New == {RowOf(x) : x \in R}
<1>1. job[h].total \in Amount /\ rounds' = rounds + 1 /\ rounds' \in Nat
  BY DEF FillApprovers, Shape, TypeInv, TypeOK, Job
<1>2. R \subseteq Users \X Nat /\ \A x, y \in R : x[1] = y[1] => x = y
  BY <1>1 DEF Amount
<1>3. New \subseteq Approver
  BY <1>1, <1>2 DEF Approver, Decision
<1>4. \A a \in New : a.round = rounds + 1 /\ a.status = "pending"
  BY <1>1
<1>5. \A a, b \in New : SameRow(a, b) => a = b
  BY <1>2 DEF SameRow
<1>6. {<<a.user, a.level>> : a \in New} = R
  <2>1. \A x \in R : <<RowOf(x).user, RowOf(x).level>> = x
    BY <1>2
  <2>2. \A a \in New : <<a.user, a.level>> \in R
    BY <2>1
  <2>3. \A x \in R : \E a \in New : <<a.user, a.level>> = x
    BY <2>1
  <2> HIDE DEF New, R
  <2> QED
    BY <2>2, <2>3
<1>7. approvers' = approvers \union New
  BY DEF FillApprovers
<1> HIDE DEF New
<1> QED
  BY <1>1, <1>3, <1>4, <1>5, <1>6, <1>7

LEMMA LevelRebuilds ==
  ASSUME TypeInv, LevelInv, NEW h \in Handlers, Rebuilds(h)
  PROVE  LevelInv'
<1>1. CASE ReadMatrix(h)
  BY <1>1, MatrixRead, LevelKept DEF SameRequisition
<1>2. CASE ClearApprovers(h)
  <2>1. Others(h) /\ job'[h].op = "fill" /\ approvers' = {} /\ rounds' = rounds
    BY <1>2, GotoDoes DEF ClearApprovers, Op, GoesOn
  <2>2. \A g \in Handlers : job'[g].op = "mark" => job'[g].approver.round <= rounds
    BY <2>1 DEF Others, LevelInv, Comes
  <2> QED
    BY <2>1, <2>2 DEF LevelInv, Comes, SequentialOrder
<1>3. CASE FillApprovers(h)
  <2>1. Others(h) /\ job'[h].op = "route" /\ rounds' = rounds + 1
    BY <1>3, GotoDoes DEF FillApprovers, Op, GoesOn
  <2>2. PICK New \in SUBSET Approver :
          /\ approvers' = approvers \union New
          /\ \A a \in New : a.round = rounds + 1 /\ a.status = "pending"
          /\ \A a, b \in New : SameRow(a, b) => a = b
    BY <1>3, NewRound
  <2>3. rounds \in Nat /\ \A a \in approvers : a.round \in Nat /\ a.round <= rounds
    BY DEF TypeInv, TypeOK, Approver, LevelInv
  <2>4. \A a \in approvers' : a.round <= rounds'
    BY <2>1, <2>2, <2>3
  <2>5. \A a, b \in approvers' : SameRow(a, b) => a = b
    BY <2>2, <2>3 DEF LevelInv, SameRow
  <2>6. SequentialOrder'
    BY <2>2, <2>3 DEF LevelInv, SequentialOrder
  <2>7. ASSUME NEW g \in Handlers, job'[g].op = "mark"
        PROVE  /\ job'[g].approver.round <= rounds'
               /\ \A a \in approvers' : SameRow(a, job'[g].approver) => a.level = job'[g].approver.level
               /\ \A b \in approvers' :
                    b.round = job'[g].approver.round /\ b.level < job'[g].approver.level
                      => b.status # "pending"
    <3>1. job'[g] = job[g] /\ job[g].op = "mark"
      BY <2>1, <2>7 DEF Others
    <3>2. job[g].approver \in Approver /\ Comes(job[g].approver)
      BY <3>1 DEF LevelInv, TypeInv, Shape
    <3>3. job[g].approver.round \in Nat /\ job[g].approver.round <= rounds
      BY <3>2 DEF Comes, Approver
    <3>4. \A a \in New : a.round # job[g].approver.round
      BY <2>2, <2>3, <3>3
    <3> QED
      BY <2>1, <2>2, <2>3, <3>1, <3>2, <3>3, <3>4 DEF Comes, SameRow
  <2>8. \A g \in Handlers : job'[g].op = "mark" => Comes(job[g].approver)'
    BY <2>7 DEF Comes, SameRow
  <2> QED
    BY <2>4, <2>5, <2>6, <2>8 DEF LevelInv, SameRow
<1>4. CASE SetRouting(h)
  BY <1>4, RouteDoes, IdleTyped, LevelKept DEF SetRouting, GoesOn, Ended
<1> QED
  BY <1>1, <1>2, <1>3, <1>4 DEF Rebuilds

LEMMA LevelMarks ==
  ASSUME TypeInv, LevelInv, NEW h \in Handlers, MarkDecision(h)
  PROVE  LevelInv'
<1> PICK a \in approvers, b \in Approver :
      /\ SameRow(a, job[h].approver)
      /\ approvers' = (approvers \ {a}) \union {b}
      /\ b.user = a.user /\ b.level = a.level /\ b.round = a.round
      /\ b.status = job[h].decision /\ b.seen = <<job[h].lines, job[h].total>>
  BY RowMarked
<1>1. Others(h) /\ job'[h].op # "mark" /\ rounds' = rounds
  BY MarkDoes DEF MarkDecision, GoesOn
<1>2. b.status # "pending" /\ a.level = job[h].approver.level /\ a.round = job[h].approver.round
  BY DEF MarkDecision, TypeInv, Shape, LevelInv, Comes, SameRow
<1>3. \A c \in approvers' : c.round <= rounds'
  BY <1>1 DEF LevelInv
<1>4. \A c, d \in approvers' : SameRow(c, d) => c = d
  BY DEF LevelInv, SameRow
<1>5. \A c \in approvers : c.round = a.round /\ c.level < a.level => c.status # "pending"
  BY <1>2 DEF LevelInv, Comes, MarkDecision
<1>6. SequentialOrder'
  <2> SUFFICES ASSUME NEW c \in approvers', NEW d \in approvers',
                      c.round = d.round, c.level < d.level, d.status # "pending"
               PROVE  c.status # "pending"
    BY DEF SequentialOrder
  <2>1. CASE c = b
    BY <1>2, <2>1
  <2>2. CASE c # b /\ d = b
    BY <1>5, <2>2
  <2>3. CASE c # b /\ d # b
    BY <2>3 DEF LevelInv, SequentialOrder
  <2> QED
    BY <2>1, <2>2, <2>3
<1>7. ASSUME NEW g \in Handlers, job'[g].op = "mark"
      PROVE  Comes(job[g].approver)' /\ job'[g] = job[g]
  <2>1. job'[g] = job[g] /\ Comes(job[g].approver)
    BY <1>1, <1>7 DEF Others, LevelInv
  <2>2. \A c \in approvers' : SameRow(c, job[g].approver) => c.level = job[g].approver.level
    BY <2>1 DEF Comes, SameRow
  <2>3. \A c \in approvers' :
          c.round = job[g].approver.round /\ c.level < job[g].approver.level => c.status # "pending"
    BY <1>2, <2>1 DEF Comes
  <2> QED
    BY <1>1, <2>1, <2>2, <2>3 DEF Comes, SameRow
<1> QED
  BY <1>3, <1>4, <1>6, <1>7 DEF LevelInv, SameRow

LEMMA LevelNext ==
  ASSUME TypeInv, RouteInv, LevelInv, [Next]_vars
  PROVE  LevelInv'
<1>1. ASSUME NEW h \in Handlers, CommitEdit(h) PROVE LevelInv'
  BY <1>1, EditDoes, IdleTyped, LevelKept DEF CommitEdit, GoesOn, Ended
<1>2. ASSUME NEW h \in Handlers, Decides(h) PROVE LevelInv'
  <2>1. CASE MarkNothing(h)
    BY <2>1, FinishDoes, IdleTyped, LevelKept DEF MarkNothing, Finish, Ended, row
  <2>2. CASE CountRemaining(h)
    BY <2>2, CountDoes, IdleTyped, LevelKept DEF GoesOn, Ended, SameRequisition
  <2> QED
    BY <1>2, <2>1, <2>2, LevelMarks DEF Decides
<1>3. ASSUME NEW h \in Handlers, Ends(h) PROVE LevelInv'
  <2>1. Ended(h)
    BY <1>3, StatusTyped DEF Ends
  <2>2. approvers' = approvers /\ rounds' = rounds
    BY <1>3 DEF Ends, CommitSubmit, Approve, Reject, Withdraw, WriteStatus, Convert, Break, row
  <2> QED
    BY <2>1, <2>2, LevelKept DEF Ended
<1>4. CASE UNCHANGED vars
  BY <1>4 DEF vars, LevelInv, SequentialOrder, Comes, SameRow
<1> QED
  BY <1>1, <1>2, <1>3, <1>4, LevelStarts, LevelRebuilds, NextIs

\* Where the approval matrix routes every total sequentially, and whatever overlaps or breaks
\* off, nobody decides before everybody of an earlier level in the same round has
\* (requisitions.service.ts decide, and rebuildApprovers, which may replace the rows in
\* between): for any number of handlers, users, levels and rounds.
THEOREM LevelsDecideInOrder ==
  ASSUME AlwaysSequential PROVE Spec => []SequentialOrder
<1> DEFINE Inv == TypeInv /\ RouteInv /\ LevelInv
<1>1. Init => Inv
  <2> SUFFICES ASSUME Init PROVE RouteInv /\ LevelInv
    BY TypeInit
  <2>1. \A h \in Handlers : job[h] = Idle
    BY DEF Init
  <2> QED
    BY <2>1, IdleTyped, IdleAwaitsNothing DEF Init, RouteInv, LevelInv, SequentialOrder
<1>2. Inv /\ [Next]_vars => Inv'
  BY TypeNext, RouteNext, LevelNext
<1>3. Inv => SequentialOrder
  BY DEF LevelInv
<1> QED
  BY <1>1, <1>2, <1>3, PTL DEF Spec

-----------------------------------------------------------------------------
(* The purchase order.                                                     *)

\* The first conversion is the last step of all: it ends the requisition, and runs alone.
OrderInv ==
  /\ orders # <<>> => orders = <<Terms>> /\ status = "converted_to_po" /\ InFlight = {}
  /\ \A h \in Handlers : job[h].op = "convert" =>
       /\ orders = <<>> /\ InFlight = {h}
       /\ <<job[h].lines, job[h].total>> = Terms

\* Nothing is ordered yet, and nobody is about to.
LEMMA NotYet ==
  ASSUME OrderInv, NEW h \in Handlers, job[h].op \notin {"idle", "convert"}
  PROVE  orders = <<>> /\ \A g \in Handlers : job[g].op # "convert"
<1>1. h \in InFlight
  BY DEF InFlight
<1> QED
  BY <1>1 DEF OrderInv

LEMMA OrderKept ==
  ASSUME OrderInv, NEW h \in Handlers, Others(h), job[h].op \notin {"idle", "convert"},
         orders' = orders, job'[h].op # "convert"
  PROVE  OrderInv'
<1>1. orders = <<>> /\ \A g \in Handlers : job[g].op # "convert"
  BY NotYet
<1>2. \A g \in Handlers : job'[g].op # "convert"
  BY <1>1 DEF Others
<1> QED
  BY <1>1, <1>2 DEF OrderInv

LEMMA OrderStarts ==
  ASSUME "convert" \in Exclusive, TypeInv, OrderInv, NEW h \in Handlers, Starts(h)
  PROVE  OrderInv'
<1>1. \E k \in Kind : Started(h, k) /\ status # "converted_to_po"
        /\ (job'[h].op = "convert" => k = "convert" /\ <<job'[h].lines, job'[h].total>> = Terms)
  <2>1. ASSUME NEW l \in Amounts \union {Keep}, NEW t \in Totals \union {Keep}, BeginEdit(h, l, t)
        PROVE  Started(h, "edit") /\ status # "converted_to_po" /\ job'[h].op = "edit"
    BY <2>1, EditStarts DEF Editable
  <2>2. ASSUME NEW a \in approvers, NEW d \in {"approved", "rejected"}, BeginDecide(h, a, d)
        PROVE  Started(h, "decide") /\ status # "converted_to_po" /\ job'[h].op = "mark"
    BY <2>2, DecideStarts
  <2> QED
    BY <2>1, <2>2, SubmitStarts, WithdrawStarts, ConvertStarts DEF Starts, Kind, Terms
<1> PICK k \in Kind : Started(h, k) /\ status # "converted_to_po"
        /\ (job'[h].op = "convert" => k = "convert" /\ <<job'[h].lines, job'[h].total>> = Terms)
  BY <1>1
<1>2. orders = <<>> /\ SameRequisition /\ Others(h) /\ MayStart(k)
  BY DEF OrderInv, Started
<1>3. \A g \in Handlers \ {h} : job'[g].op # "convert"
  <2> SUFFICES ASSUME NEW g \in Handlers \ {h}, job[g].op = "convert" PROVE FALSE
    BY <1>2 DEF Others
  <2>1. g \in InFlight /\ job[g].kind = "convert"
    BY DEF InFlight, TypeInv, Shape
  <2> QED
    BY <1>2, <2>1 DEF MayStart
<1>4. ASSUME job'[h].op = "convert"
      PROVE  InFlight' = {h} /\ <<job'[h].lines, job'[h].total>> = Terms'
  <2>1. InFlight = {}
    BY <1>2, <1>4 DEF MayStart
  <2>2. \A g \in Handlers \ {h} : job'[g].op = "idle"
    BY <1>2, <2>1 DEF Others, InFlight
  <2>3. InFlight' = {h}
    BY <1>4, <2>2 DEF InFlight
  <2>4. Terms' = Terms
    BY <1>2 DEF SameRequisition, Terms
  <2> QED
    BY <1>4, <2>3, <2>4
<1> QED
  BY <1>2, <1>3, <1>4 DEF OrderInv, SameRequisition

LEMMA OrderNext ==
  ASSUME "convert" \in Exclusive, TypeInv, OrderInv, [Next]_vars
  PROVE  OrderInv'
<1>1. ASSUME NEW h \in Handlers, Rebuilds(h) PROVE OrderInv'
  <2>1. CASE ReadMatrix(h)
    BY <2>1, MatrixRead, OrderKept DEF SameRequisition
  <2>2. CASE ClearApprovers(h)
    BY <2>2, GotoDoes, OrderKept DEF ClearApprovers, Op, GoesOn
  <2>3. CASE FillApprovers(h)
    BY <2>3, GotoDoes, OrderKept DEF FillApprovers, Op, GoesOn
  <2>4. CASE SetRouting(h)
    BY <2>4, RouteDoes, IdleTyped, OrderKept DEF SetRouting, GoesOn, Ended
  <2> QED
    BY <1>1, <2>1, <2>2, <2>3, <2>4 DEF Rebuilds
<1>2. ASSUME NEW h \in Handlers, CommitEdit(h) PROVE OrderInv'
  BY <1>2, EditDoes, IdleTyped, OrderKept DEF CommitEdit, GoesOn, Ended
<1>3. ASSUME NEW h \in Handlers, Decides(h) PROVE OrderInv'
  <2>1. CASE MarkDecision(h)
    BY <2>1, MarkDoes, OrderKept DEF MarkDecision, GoesOn
  <2>2. CASE MarkNothing(h)
    BY <2>2, FinishDoes, IdleTyped, OrderKept DEF MarkNothing, Finish, Ended, row
  <2>3. CASE CountRemaining(h)
    BY <2>3, CountDoes, IdleTyped, OrderKept DEF CountRemaining, GoesOn, Ended, SameRequisition
  <2> QED
    BY <1>3, <2>1, <2>2, <2>3 DEF Decides
<1>4. ASSUME NEW h \in Handlers, Ends(h) PROVE OrderInv'
  <2>1. Ended(h)
    BY <1>4, StatusTyped DEF Ends
  <2>2. CASE CommitSubmit(h) \/ Approve(h) \/ Reject(h) \/ Withdraw(h)
    <3>1. job[h].op \notin {"idle", "convert"} /\ orders' = orders
      BY <2>2 DEF CommitSubmit, Approve, Reject, Withdraw, WriteStatus
    <3> QED
      BY <2>1, <3>1, OrderKept DEF Ended
  <2>3. CASE Convert(h)
    <3>1. orders = <<>> /\ InFlight = {h} /\ <<job[h].lines, job[h].total>> = Terms
      BY <2>3 DEF Convert, OrderInv
    <3>2. orders' = <<Terms>> /\ status' = "converted_to_po" /\ Terms' = Terms
      BY <2>3, <3>1 DEF Convert, Terms
    <3>3. \A g \in Handlers : job'[g].op = "idle"
      BY <2>1, <3>1 DEF Ended, Others, InFlight
    <3>4. InFlight' = {}
      BY <3>3 DEF InFlight
    <3> QED
      BY <3>2, <3>3, <3>4 DEF OrderInv
  <2>4. CASE Break(h)
    <3>1. job[h].op # "idle" /\ SameRequisition
      BY <2>4 DEF Break, row, SameRequisition
    <3>2. orders = <<>>
      BY <3>1 DEF OrderInv, InFlight
    <3>3. \A g \in Handlers : job'[g].op # "convert"
      <4> SUFFICES ASSUME NEW g \in Handlers, g # h, job[g].op = "convert" PROVE FALSE
        BY <2>1 DEF Ended, Others
      <4> QED
        BY <3>1 DEF OrderInv, InFlight
    <3> QED
      BY <3>1, <3>2, <3>3 DEF OrderInv, SameRequisition
  <2> QED
    BY <1>4, <2>2, <2>3, <2>4 DEF Ends
<1>5. CASE UNCHANGED vars
  BY <1>5 DEF vars, OrderInv, InFlight, Terms
<1> QED
  BY <1>1, <1>2, <1>3, <1>4, <1>5, OrderStarts, NextIs

\* Where a conversion overlaps nothing else, and whatever the other requests do, overlap or
\* leave half-done, a requisition becomes one purchase order at most, for the amounts that
\* stand (purchase-orders.service.ts convert): whatever total a request may have set.
THEOREM OneOrder ==
  ASSUME "convert" \in Exclusive PROVE Spec => []OneOrderAsApproved
<1> DEFINE Inv == TypeInv /\ OrderInv
<1>1. Init => Inv
  <2> SUFFICES ASSUME Init PROVE OrderInv
    BY TypeInit
  <2> QED
    BY IdleTyped DEF Init, OrderInv
<1>2. Inv /\ [Next]_vars => Inv'
  BY TypeNext, OrderNext
<1>3. Inv => OneOrderAsApproved
  <2> SUFFICES ASSUME OrderInv, orders # <<>> PROVE OneOrderAsApproved
    BY DEF OneOrderAsApproved
  <2>1. orders = <<Terms>>
    BY DEF OrderInv
  <2> QED
    BY <2>1 DEF OneOrderAsApproved
<1> QED
  BY <1>1, <1>2, <1>3, PTL DEF Spec

-----------------------------------------------------------------------------
(* Decisions that overlap only each other.                                 *)

NoneLeft == \A a \in approvers : a.status # "pending"

\* What a job may rely on as long as nothing but decisions has overlapped.
Meets(j) ==
  /\ j.op = "mark" => \E a \in approvers : SameRow(a, j.approver)
  /\ j.op = "approve" => NoneLeft
  /\ j.op \in Rebuilding \union {"submit"} => status # "approved"
  /\ j.op \in {"route", "submit"} => ~NoneLeft
  /\ j.op = "edit" /\ status = "pending_approval" => ~NoneLeft

\* The last decision to be counted sees that none is left, and approves; nobody replaces the
\* rows while a decision is on its way.
Meeting ==
  /\ \A g, h \in InFlight : g = h \/ (job[g].kind = "decide" /\ job[h].kind = "decide")
  /\ status = "approved" => NoneLeft
  /\ status = "pending_approval" /\ InFlight = {} => ~NoneLeft
  /\ \A h \in Handlers : Meets(job[h])

MeetInv == overlap # "any" => Meeting

AsksSomebody == \A t \in Amount : Required[t] # {}

\* The only request in flight goes on, or a request comes in where none was.
LEMMA MeetAlone ==
  ASSUME NEW h \in Handlers, Others(h), \A g \in Handlers \ {h} : job[g].op = "idle",
         status' = "approved" => NoneLeft',
         job'[h].op = "idle" /\ status' = "pending_approval" => ~NoneLeft',
         Meets(job[h])'
  PROVE  Meeting'
<1>1. \A g \in Handlers \ {h} : job'[g].op = "idle"
  BY DEF Others
<1>2. \A g \in Handlers : Meets(job[g])'
  BY <1>1 DEF Meets, Rebuilding
<1>3. \A g \in InFlight' : g = h
  BY <1>1 DEF InFlight
<1>4. InFlight' = {} => job'[h].op = "idle"
  BY DEF InFlight
<1> QED
  BY <1>2, <1>3, <1>4 DEF Meeting

\* A request that is no decision is the only one in flight.
LEMMA MeetsNobody ==
  ASSUME Meeting, NEW h \in Handlers, job[h].op # "idle", job[h].kind # "decide"
  PROVE  \A g \in Handlers \ {h} : job[g].op = "idle"
  BY DEF Meeting, InFlight

\* A decision goes on among others: no row goes, and none is reopened.
LEMMA MeetAmong ==
  ASSUME TypeInv, Meeting, NEW h \in Handlers, Others(h), job[h].op # "idle",
         job[h].kind = "decide", job'[h].op # "idle" => job'[h].kind = "decide",
         status' = "approved" => NoneLeft',
         job'[h].op = "idle" /\ status' = "pending_approval" => ~NoneLeft',
         NoneLeft => NoneLeft',
         \A a \in approvers : \E b \in approvers' : SameRow(b, a),
         Meets(job[h])'
  PROVE  Meeting'
<1>1. \A g \in InFlight : job[g].kind = "decide"
  BY DEF Meeting, InFlight
<1>2. \A g \in InFlight' : job'[g].kind = "decide"
  BY <1>1 DEF InFlight, Others
<1>3. ASSUME NEW g \in Handlers \ {h} PROVE Meets(job[g])'
  <2>1. job'[g] = job[g] /\ Meets(job[g]) /\ Shape(job[g])
    BY DEF Others, Meeting, TypeInv
  <2>2. job[g].op # "idle" => job[g].kind = "decide"
    BY <1>1 DEF InFlight
  <2>3. job[g].op \notin Rebuilding \union {"submit", "edit"}
    BY <2>1, <2>2 DEF Shape, Rebuilding
  <2>4. job[g].op = "mark" => \E b \in approvers' : SameRow(b, job[g].approver)
    BY <2>1 DEF Meets, SameRow
  <2> QED
    BY <2>1, <2>3, <2>4 DEF Meets, SameRow, Rebuilding
<1>4. InFlight' = {} => job'[h].op = "idle"
  BY DEF InFlight
<1> QED
  BY <1>2, <1>3, <1>4 DEF Meeting

LEMMA MeetStarts ==
  ASSUME TypeInv, Meeting, NEW h \in Handlers, Starts(h), overlap' # "any"
  PROVE  Meeting'
<1>0. ASSUME NEW k \in Kind \ {"decide"}, Started(h, k), Meets(job[h])', job'[h].op # "idle"
      PROVE  Meeting'
  <2>1. InFlight = {} /\ Others(h) /\ SameRequisition
    BY <1>0 DEF Started
  <2>2. \A g \in Handlers \ {h} : job[g].op = "idle"
    BY <2>1 DEF InFlight
  <2>3. status' = "approved" => NoneLeft'
    BY <2>1 DEF Meeting, NoneLeft, SameRequisition
  <2> QED
    BY <1>0, <2>1, <2>2, <2>3, MeetAlone
<1>1. CASE BeginSubmit(h)
  <2>1. Started(h, "submit") /\ status \in {"draft", "rejected"} /\ job'[h].op = "matrix"
    BY <1>1, SubmitStarts
  <2>2. Meets(job[h])'
    BY <2>1 DEF Meets, Rebuilding, Started, SameRequisition
  <2> QED
    BY <1>0, <2>1, <2>2 DEF Kind
<1>2. ASSUME NEW l \in Amounts \union {Keep}, NEW t \in Totals \union {Keep}, BeginEdit(h, l, t)
      PROVE  Meeting'
  <2>1. Started(h, "edit") /\ job'[h].op = "edit"
    BY <1>2, EditStarts
  <2>2. InFlight = {}
    BY <2>1 DEF Started
  <2>3. status = "pending_approval" => ~NoneLeft
    BY <2>2 DEF Meeting
  <2>4. Meets(job[h])'
    BY <2>1, <2>3 DEF Meets, Rebuilding, Started, SameRequisition, NoneLeft
  <2> QED
    BY <1>0, <2>1, <2>4 DEF Kind
<1>3. ASSUME NEW a \in approvers, NEW d \in {"approved", "rejected"}, BeginDecide(h, a, d)
      PROVE  Meeting'
  <2>1. /\ Started(h, "decide") /\ status = "pending_approval" /\ job'[h].op = "mark"
        /\ job'[h].approver = a
    BY <1>3, DecideStarts
  <2>2. Others(h) /\ SameRequisition /\ \A g \in InFlight : job[g].kind = "decide"
    BY <2>1 DEF Started
  <2>3. job'[h].kind = "decide"
    BY <2>1 DEF Started
  <2>4. \A g \in InFlight' : job'[g].kind = "decide"
    BY <2>2, <2>3 DEF InFlight, Others
  <2>5. SameRow(a, a)
    BY DEF SameRow
  <2>6. Meets(job[h])'
    BY <2>1, <2>2, <2>5 DEF Meets, Rebuilding, SameRequisition, SameRow
  <2>7. ASSUME NEW g \in Handlers \ {h} PROVE Meets(job[g])'
    BY <2>2 DEF Others, SameRequisition, Meeting, Meets, SameRow, NoneLeft
  <2>8. h \in InFlight'
    BY <2>1 DEF InFlight
  <2> QED
    BY <2>1, <2>2, <2>4, <2>6, <2>7, <2>8 DEF Meeting, SameRequisition
<1>4. CASE BeginWithdraw(h)
  <2>1. Started(h, "withdraw") /\ job'[h].op = "withdraw"
    BY <1>4, WithdrawStarts
  <2>2. Meets(job[h])'
    BY <2>1 DEF Meets, Rebuilding
  <2> QED
    BY <1>0, <2>1, <2>2 DEF Kind
<1>5. CASE BeginConvert(h)
  <2>1. Started(h, "convert") /\ job'[h].op = "convert"
    BY <1>5, ConvertStarts
  <2>2. Meets(job[h])'
    BY <2>1 DEF Meets, Rebuilding
  <2> QED
    BY <1>0, <2>1, <2>2 DEF Kind
<1> QED
  BY <1>1, <1>2, <1>3, <1>4, <1>5 DEF Starts

LEMMA MeetRebuilds ==
  ASSUME AsksSomebody, TypeInv, Meeting, NEW h \in Handlers, Rebuilds(h)
  PROVE  Meeting'
<1>1. /\ job[h].op \in Rebuilding /\ job[h].kind # "decide" /\ job[h].op # "idle"
  BY DEF Rebuilds, ReadMatrix, ClearApprovers, FillApprovers, SetRouting, Rebuilding, TypeInv, Shape
<1>2. \A g \in Handlers \ {h} : job[g].op = "idle"
  BY <1>1, MeetsNobody
<1>3. status # "approved" /\ (job[h].op = "route" => ~NoneLeft)
  BY <1>1 DEF Meeting, Meets
<1>4. CASE ReadMatrix(h)
  <2>1. Others(h) /\ SameRequisition /\ job'[h].op = "clear"
    BY <1>4, MatrixRead
  <2>2. Meets(job[h])'
    BY <1>3, <2>1 DEF Meets, SameRequisition
  <2> QED
    BY <1>2, <1>3, <2>1, <2>2, MeetAlone DEF SameRequisition
<1>5. CASE ClearApprovers(h)
  <2>1. Others(h) /\ job'[h].op = "fill" /\ status' = status
    BY <1>5, GotoDoes DEF ClearApprovers, Op, GoesOn
  <2>2. Meets(job[h])'
    BY <1>3, <2>1 DEF Meets
  <2> QED
    BY <1>2, <1>3, <2>1, <2>2, MeetAlone
<1>6. CASE FillApprovers(h)
  <2>1. Others(h) /\ job'[h].op = "route" /\ status' = status
    BY <1>6, GotoDoes DEF FillApprovers, Op, GoesOn
  <2>2. PICK New \in SUBSET Approver :
          /\ approvers' = approvers \union New
          /\ \A a \in New : a.status = "pending"
          /\ {<<a.user, a.level>> : a \in New} = Required[job[h].total]
          /\ job[h].total \in Amount
    BY <1>6, NewRound
  <2>3. New # {}
    BY <2>2 DEF AsksSomebody
  <2>4. ~NoneLeft'
    BY <2>2, <2>3 DEF NoneLeft
  <2>5. Meets(job[h])'
    BY <1>3, <2>1, <2>4 DEF Meets
  <2> QED
    BY <1>2, <1>3, <2>1, <2>5, MeetAlone
<1>7. CASE SetRouting(h)
  <2>1. Others(h) /\ job'[h].op \in {"submit", "idle"} /\ status' = status /\ approvers' = approvers
    BY <1>7, RouteDoes DEF SetRouting, GoesOn, Ended
  <2>2. ~NoneLeft'
    BY <1>3, <1>7, <2>1 DEF SetRouting, NoneLeft
  <2>3. Meets(job[h])'
    BY <1>3, <2>1, <2>2 DEF Meets, Rebuilding
  <2> QED
    BY <1>2, <1>3, <2>1, <2>2, <2>3, MeetAlone
<1> QED
  BY <1>4, <1>5, <1>6, <1>7 DEF Rebuilds

LEMMA MeetDecides ==
  ASSUME TypeInv, Meeting, NEW h \in Handlers, Decides(h)
  PROVE  Meeting'
<1>1. job[h].op \in {"mark", "count"} /\ job[h].kind = "decide" /\ job[h].op # "idle"
  BY DEF Decides, MarkDecision, MarkNothing, CountRemaining, Deciding, TypeInv, Shape
<1>2. CASE MarkDecision(h)
  <2> PICK a \in approvers, b \in Approver :
        /\ SameRow(a, job[h].approver)
        /\ approvers' = (approvers \ {a}) \union {b}
        /\ b.user = a.user /\ b.round = a.round /\ b.status = job[h].decision
    BY <1>2, RowMarked
  <2>1. Others(h) /\ job'[h].op \in {"reject", "count"} /\ job'[h].kind = "decide" /\ status' = status
    BY <1>1, <1>2, MarkDoes DEF MarkDecision, GoesOn
  <2>2. b.status # "pending"
    BY <1>2 DEF MarkDecision, TypeInv, Shape
  <2>3. NoneLeft => NoneLeft'
    BY <2>2 DEF NoneLeft
  <2>4. \A c \in approvers : \E d \in approvers' : SameRow(d, c)
    BY DEF SameRow
  <2>5. Meets(job[h])'
    BY <2>1 DEF Meets, Rebuilding
  <2>6. status' = "approved" => NoneLeft'
    BY <2>1, <2>3 DEF Meeting
  <2> QED
    BY <1>1, <2>1, <2>3, <2>4, <2>5, <2>6, MeetAmong
<1>3. CASE MarkNothing(h)
  BY <1>3 DEF MarkNothing, Meeting, Meets
<1>4. CASE CountRemaining(h)
  <2>1. /\ SameRequisition /\ Others(h) /\ job'[h].op \in {"idle", "approve"}
        /\ job'[h].op = "idle" => ~NoneLeft
        /\ job'[h].op = "approve" => NoneLeft /\ job'[h].kind = "decide"
    BY <1>1, <1>4, CountDoes DEF GoesOn, Ended, NoneLeft
  <2>2. NoneLeft' = NoneLeft
    BY <2>1 DEF SameRequisition, NoneLeft
  <2>3. \A a \in approvers : \E b \in approvers' : SameRow(b, a)
    BY <2>1 DEF SameRequisition, SameRow
  <2>4. Meets(job[h])'
    BY <2>1, <2>2 DEF Meets, Rebuilding
  <2>5. status' = "approved" => NoneLeft'
    BY <2>1, <2>2 DEF Meeting, SameRequisition
  <2> QED
    BY <1>1, <2>1, <2>2, <2>3, <2>4, <2>5, MeetAmong
<1> QED
  BY <1>2, <1>3, <1>4 DEF Decides

LEMMA MeetEnds ==
  ASSUME TypeInv, Meeting, NEW h \in Handlers, Ends(h), ~Break(h)
  PROVE  Meeting'
<1>1. Others(h) /\ job'[h].op = "idle"
  BY StatusTyped DEF Ends, Ended
<1>2. Meets(job[h])'
  BY <1>1 DEF Meets, Rebuilding
<1>3. approvers' = approvers /\ job[h].op # "idle"
  BY DEF Ends, CommitSubmit, Approve, Reject, Withdraw, WriteStatus, Convert
<1>4. NoneLeft' = NoneLeft
  BY <1>3 DEF NoneLeft
<1>5. /\ status' = "approved" => NoneLeft
      /\ status' = "pending_approval" => ~NoneLeft
  BY DEF Ends, CommitSubmit, Approve, Reject, Withdraw, WriteStatus, Convert, Meeting, Meets
<1>6. CASE job[h].kind = "decide"
  <2>1. \A a \in approvers : \E b \in approvers' : SameRow(b, a)
    BY <1>3 DEF SameRow
  <2> QED
    BY <1>1, <1>2, <1>3, <1>4, <1>5, <1>6, <2>1, MeetAmong
<1>7. CASE job[h].kind # "decide"
  BY <1>1, <1>2, <1>3, <1>4, <1>5, <1>7, MeetsNobody, MeetAlone
<1> QED
  BY <1>6, <1>7

LEMMA MeetEdits ==
  ASSUME TypeInv, Meeting, NEW h \in Handlers, CommitEdit(h)
  PROVE  Meeting'
<1>1. job[h].op = "edit" /\ job[h].kind # "decide" /\ job[h].to \in {Keep, "draft", "pending_approval"}
  BY DEF CommitEdit, TypeInv, Shape
<1>2. \A g \in Handlers \ {h} : job[g].op = "idle"
  BY <1>1, MeetsNobody
<1>3. /\ Others(h) /\ job'[h].op \in {"matrix", "idle"}
      /\ job'[h].op = "matrix" => job[h].to = "pending_approval"
      /\ job'[h].op = "idle" => job[h].to # "pending_approval"
  BY EditDoes DEF GoesOn, Ended
<1>4. /\ approvers' = approvers /\ status' = IF job[h].to = Keep THEN status ELSE job[h].to
      /\ NoneLeft' = NoneLeft
  BY DEF CommitEdit, NoneLeft
<1>5. status' = "approved" => NoneLeft'
  BY <1>1, <1>4 DEF Meeting
<1>6. Meets(job[h])'
  BY <1>1, <1>3, <1>4 DEF Meets, Status, Rebuilding
<1>7. job'[h].op = "idle" /\ status' = "pending_approval" => ~NoneLeft'
  BY <1>1, <1>3, <1>4 DEF Meeting, Meets
<1> QED
  BY <1>2, <1>3, <1>5, <1>6, <1>7, MeetAlone

LEMMA MeetNext ==
  ASSUME AsksSomebody, TypeInv, MeetInv, [Next]_vars
  PROVE  MeetInv'
<1> SUFFICES ASSUME overlap' # "any" PROVE Meeting'
  BY DEF MeetInv
<1>1. ASSUME NEW h \in Handlers, Starts(h) PROVE Meeting'
  <2>1. overlap # "any"
    BY <1>1, SubmitStarts, EditStarts, DecideStarts, WithdrawStarts, ConvertStarts DEF Starts, Started
  <2> QED
    BY <1>1, <2>1, MeetStarts DEF MeetInv
<1>2. ASSUME NEW h \in Handlers, Rebuilds(h) PROVE Meeting'
  <2>1. overlap' = overlap
    BY <1>2 DEF Rebuilds, ReadMatrix, ClearApprovers, FillApprovers, SetRouting, Goto, Finish
  <2> QED
    BY <1>2, <2>1, MeetRebuilds DEF MeetInv
<1>3. ASSUME NEW h \in Handlers, CommitEdit(h) PROVE Meeting'
  BY <1>3, EditDoes, MeetEdits DEF MeetInv
<1>4. ASSUME NEW h \in Handlers, Decides(h) PROVE Meeting'
  <2>1. overlap' = overlap
    BY <1>4 DEF Decides, MarkDecision, MarkNothing, CountRemaining, Goto, Finish
  <2> QED
    BY <1>4, <2>1, MeetDecides DEF MeetInv
<1>5. ASSUME NEW h \in Handlers, Ends(h) PROVE Meeting'
  <2>1. ~Break(h)
    BY DEF Break
  <2>2. overlap' = overlap
    BY <1>5, <2>1 DEF Ends, CommitSubmit, Approve, Reject, Withdraw, WriteStatus, Convert, Finish
  <2> QED
    BY <1>5, <2>1, <2>2, MeetEnds DEF MeetInv
<1>6. CASE UNCHANGED vars
  BY <1>6 DEF vars, MeetInv, Meeting, Meets, NoneLeft, InFlight, SameRow
<1> QED
  BY <1>1, <1>2, <1>3, <1>4, <1>5, <1>6, NextIs

\* Of the rows that are pending, one of the earliest level may decide, whatever the routing.
LEMMA FirstMayDecide ==
  ASSUME TypeInv, ~NoneLeft
  PROVE  \E a \in approvers : MayDecide(a)
<1> DEFINE L == {a.level : a \in {b \in approvers : b.status = "pending"}}
           Less == {x \in Nat \X Nat : x[1] < x[2]}
<1>1. L \subseteq Nat /\ L # {}
  BY DEF NoneLeft, TypeInv, TypeOK, Approver
<1>2. IsWellFoundedOn(Less, Nat)
  BY NatLessThanWellFounded DEF OpToRel
<1>3. PICK n \in L : \A m \in L : ~(<<m, n>> \in Less)
  <2> HIDE DEF L, Less
  <2>1. \E n \in L : \A m \in L : ~(<<m, n>> \in Less)
    BY ONLY <1>1, <1>2, WFMin, Zenon
  <2> QED
    BY <2>1
<1>4. PICK a \in approvers : a.status = "pending" /\ a.level = n
  BY <1>3
<1>5. \A b \in approvers : b.status = "pending" => ~(b.level < n)
  BY <1>1, <1>3
<1> QED
  BY <1>4, <1>5 DEF MayDecide

\* As long as nothing but decisions has overlapped, and none broke off: whatever their order,
\* a requisition is approved only after everybody has decided, and while it is pending with
\* nobody at work on it somebody can decide (requisitions.service.ts decide), if the matrix
\* asks somebody for every total.
THEOREM DecisionsComeTogether ==
  ASSUME AsksSomebody PROVE Spec => []DecisionsMeet
<1> DEFINE Inv == TypeInv /\ MeetInv
<1>1. Init => Inv
  <2> SUFFICES ASSUME Init PROVE Meeting
    BY TypeInit DEF MeetInv
  <2>1. \A h \in Handlers : job[h].op = "idle"
    BY IdleTyped DEF Init
  <2>2. \A h \in Handlers : Meets(job[h])
    BY <2>1 DEF Meets, Rebuilding
  <2> QED
    BY <2>1, <2>2 DEF Init, Meeting, InFlight
<1>2. Inv /\ [Next]_vars => Inv'
  BY TypeNext, MeetNext
<1>3. Inv => DecisionsMeet
  BY FirstMayDecide DEF MeetInv, Meeting, DecisionsMeet, SomebodyCanDecide, NoneLeft
<1> QED
  BY <1>1, <1>2, <1>3, PTL DEF Spec

-----------------------------------------------------------------------------
(* What an approval stands for.                                            *)

\* The total is always what the lines add up to: requests set none apart.
NoTotalApart == Totals = {}

Named == {<<a.user, a.level>> : a \in approvers} = Required[total]

Signed(a) == a.status = "approved" /\ a.seen = Terms

Standing == Named /\ \A a \in approvers : a.status = "pending" \/ Signed(a)

Vouched == Named /\ \A a \in approvers : Signed(a)

\* What a job may rely on as long as nothing has overlapped it.
Fits(j) ==
  /\ j.op = "edit" =>
       /\ j.total = IF j.lines = Keep THEN lines ELSE j.lines
       /\ j.to = Keep /\ status # "draft" => j.lines \in {Keep, lines}
  /\ j.op \in Rebuilding \union {"submit"} => status # "approved"
  /\ j.op \in {"clear", "fill"} => j.total = total
  /\ j.op = "fill" => approvers = {}
  /\ j.op \in {"route", "submit", "count"} => Standing
  /\ j.op = "mark" => status = "pending_approval" /\ j.lines = lines /\ j.total = total
  /\ j.op = "approve" => Vouched

\* A pending requisition has the rows of its total, undecided or approved on its amounts,
\* unless the request at work on it is about to replace them or to reject it.
Sound ==
  /\ total = lines
  /\ \A g, h \in InFlight : g = h
  /\ status = "approved" => Vouched
  /\ (status = "pending_approval" /\ \A h \in Handlers : job[h].op \notin Rebuilding \union {"reject"})
       => Standing
  /\ \A h \in Handlers : Fits(job[h])

TermsInv == overlap = "none" => Sound

LEMMA TermsAlone ==
  ASSUME NEW h \in Handlers, Others(h), \A g \in Handlers \ {h} : job[g].op = "idle",
         total' = lines', status' = "approved" => Vouched',
         status' = "pending_approval" /\ job'[h].op \notin Rebuilding \union {"reject"} => Standing',
         Fits(job[h])'
  PROVE  Sound'
<1>1. \A g \in Handlers \ {h} : job'[g].op = "idle"
  BY DEF Others
<1>2. \A g \in Handlers : Fits(job[g])'
  BY <1>1 DEF Fits, Rebuilding
<1>3. \A g \in InFlight' : g = h
  BY <1>1 DEF InFlight
<1> QED
  BY <1>1, <1>2, <1>3 DEF Sound

\* What approvals stand for depends on the amounts and the approvers alone.
LEMMA SameTerms ==
  ASSUME lines' = lines, total' = total, approvers' = approvers
  PROVE  (Standing => Standing') /\ (Vouched => Vouched')
  BY DEF Standing, Vouched, Named, Signed, Terms

LEMMA AloneInFlight ==
  ASSUME Sound, NEW h \in Handlers, job[h].op # "idle"
  PROVE  /\ \A g \in Handlers \ {h} : job[g].op = "idle"
         /\ status = "pending_approval" /\ job[h].op \notin Rebuilding \union {"reject"} => Standing
         /\ Fits(job[h])
<1>1. \A g \in Handlers \ {h} : job[g].op = "idle"
  BY DEF Sound, InFlight
<1>2. ASSUME job[h].op \notin Rebuilding \union {"reject"}
      PROVE  \A g \in Handlers : job[g].op \notin Rebuilding \union {"reject"}
  BY <1>1, <1>2 DEF Rebuilding
<1> QED
  BY <1>1, <1>2 DEF Sound

LEMMA TermsStarts ==
  ASSUME NoTotalApart, TypeInv, Sound, NEW h \in Handlers, Starts(h), overlap' = "none"
  PROVE  Sound'
<1>0. ASSUME NEW k \in Kind, Started(h, k), Fits(job[h])' PROVE Sound'
  <2>1. InFlight = {} /\ Others(h) /\ SameRequisition
    BY <1>0 DEF Started
  <2>2. \A g \in Handlers : job[g].op = "idle"
    BY <2>1 DEF InFlight
  <2>3. status = "pending_approval" => Standing
    BY <2>2 DEF Sound, Rebuilding
  <2>4. status = "approved" => Vouched
    BY DEF Sound
  <2>5. total' = lines' /\ status' = status /\ (Standing => Standing') /\ (Vouched => Vouched')
    BY <2>1, SameTerms DEF Sound, SameRequisition
  <2> QED
    BY <1>0, <2>1, <2>2, <2>3, <2>4, <2>5, TermsAlone
<1>1. CASE BeginSubmit(h)
  <2>1. Started(h, "submit") /\ status \in {"draft", "rejected"} /\ job'[h].op = "matrix"
    BY <1>1, SubmitStarts
  <2>2. Fits(job[h])'
    BY <2>1 DEF Fits, Rebuilding, Started, SameRequisition
  <2> QED
    BY <1>0, <2>1, <2>2 DEF Kind
<1>2. ASSUME NEW l \in Amounts \union {Keep}, NEW t \in Totals \union {Keep}, BeginEdit(h, l, t)
      PROVE  Sound'
  <2>1. /\ Started(h, "edit") /\ status \in Editable
        /\ job'[h].op = "edit" /\ job'[h].lines = l /\ job'[h].total = EditTotal(l, t)
        /\ job'[h].to = EditStatus(l, t)
    BY <1>2, EditStarts
  <2>2. t = Keep
    BY DEF NoTotalApart
  <2>3. job'[h].total = IF l = Keep THEN lines ELSE l
    BY <2>1, <2>2 DEF EditTotal
  <2>4. job'[h].to = Keep /\ status # "draft" => l \in {Keep, lines}
    BY <2>1, <2>2 DEF EditStatus, Material, Status
  <2>5. lines' = lines /\ status' = status
    BY <2>1 DEF Started, SameRequisition
  <2>6. Fits(job[h])'
    BY <2>1, <2>3, <2>4, <2>5 DEF Fits, Rebuilding
  <2> QED
    BY <1>0, <2>1, <2>6 DEF Kind
<1>3. ASSUME NEW a \in approvers, NEW d \in {"approved", "rejected"}, BeginDecide(h, a, d)
      PROVE  Sound'
  <2>1. /\ Started(h, "decide") /\ status = "pending_approval" /\ job'[h].op = "mark"
        /\ job'[h].lines = lines /\ job'[h].total = total
    BY <1>3, DecideStarts
  <2>2. Fits(job[h])'
    BY <2>1 DEF Fits, Rebuilding, Started, SameRequisition
  <2> QED
    BY <1>0, <2>1, <2>2 DEF Kind
<1>4. CASE BeginWithdraw(h)
  <2>1. Started(h, "withdraw") /\ job'[h].op = "withdraw"
    BY <1>4, WithdrawStarts
  <2>2. Fits(job[h])'
    BY <2>1 DEF Fits, Rebuilding
  <2> QED
    BY <1>0, <2>1, <2>2 DEF Kind
<1>5. CASE BeginConvert(h)
  <2>1. Started(h, "convert") /\ job'[h].op = "convert"
    BY <1>5, ConvertStarts
  <2>2. Fits(job[h])'
    BY <2>1 DEF Fits, Rebuilding
  <2> QED
    BY <1>0, <2>1, <2>2 DEF Kind
<1> QED
  BY <1>1, <1>2, <1>3, <1>4, <1>5 DEF Starts

LEMMA TermsRebuilds ==
  ASSUME TypeInv, Sound, NEW h \in Handlers, Rebuilds(h)
  PROVE  Sound'
<1>1. job[h].op \in Rebuilding /\ job[h].op # "idle"
  BY DEF Rebuilds, ReadMatrix, ClearApprovers, FillApprovers, SetRouting, Rebuilding
<1>2. (\A g \in Handlers \ {h} : job[g].op = "idle") /\ Fits(job[h]) /\ status # "approved" /\ total = lines
  BY <1>1, AloneInFlight DEF Fits, Sound
<1>3. CASE ReadMatrix(h)
  <2>1. Others(h) /\ SameRequisition /\ job'[h].op = "clear" /\ job'[h].total = total
    BY <1>3, MatrixRead
  <2>2. Fits(job[h])'
    BY <1>2, <2>1 DEF Fits, SameRequisition
  <2> QED
    BY <1>2, <2>1, <2>2, TermsAlone DEF SameRequisition, Rebuilding
<1>4. CASE ClearApprovers(h)
  <2>1. /\ Others(h) /\ job'[h].op = "fill" /\ job'[h].total = job[h].total
        /\ status' = status /\ lines' = lines /\ total' = total /\ approvers' = {}
    BY <1>4, GotoDoes DEF ClearApprovers, Op, GoesOn
  <2>2. job[h].total = total
    BY <1>2, <1>4 DEF Fits, ClearApprovers
  <2>3. Fits(job[h])'
    BY <1>2, <2>1, <2>2 DEF Fits
  <2> QED
    BY <1>2, <2>1, <2>3, TermsAlone DEF Rebuilding
<1>5. CASE FillApprovers(h)
  <2>1. Others(h) /\ job'[h].op = "route" /\ status' = status /\ lines' = lines /\ total' = total
    BY <1>5, GotoDoes DEF FillApprovers, Op, GoesOn
  <2>2. PICK New \in SUBSET Approver :
          /\ approvers' = approvers \union New
          /\ \A a \in New : a.status = "pending"
          /\ {<<a.user, a.level>> : a \in New} = Required[job[h].total]
    BY <1>5, NewRound
  <2>3. job[h].total = total /\ approvers' = New
    BY <1>2, <1>5, <2>2 DEF Fits, FillApprovers
  <2>4. Standing'
    BY <2>1, <2>2, <2>3 DEF Standing, Named
  <2>5. Fits(job[h])'
    BY <1>2, <2>1, <2>4 DEF Fits
  <2> QED
    BY <1>2, <2>1, <2>4, <2>5, TermsAlone DEF Rebuilding
<1>6. CASE SetRouting(h)
  <2>1. /\ Others(h) /\ job'[h].op \in {"submit", "idle"}
        /\ status' = status /\ lines' = lines /\ total' = total /\ approvers' = approvers
    BY <1>6, RouteDoes DEF SetRouting, GoesOn, Ended
  <2>2. Standing'
    BY <1>2, <1>6, <2>1, SameTerms DEF Fits, SetRouting
  <2>3. Fits(job[h])'
    BY <1>2, <2>1, <2>2 DEF Fits, Rebuilding
  <2> QED
    BY <1>2, <2>1, <2>2, <2>3, TermsAlone
<1> QED
  BY <1>3, <1>4, <1>5, <1>6 DEF Rebuilds

LEMMA TermsDecides ==
  ASSUME TypeInv, Sound, NEW h \in Handlers, Decides(h)
  PROVE  Sound'
<1>1. job[h].op \in {"mark", "count"} /\ job[h].op # "idle"
  BY DEF Decides, MarkDecision, MarkNothing, CountRemaining
<1>2. /\ \A g \in Handlers \ {h} : job[g].op = "idle"
      /\ Fits(job[h]) /\ total = lines
      /\ status = "pending_approval" => Standing
  BY <1>1, AloneInFlight DEF Sound, Rebuilding
<1>3. status = "approved" => Vouched
  BY DEF Sound
<1>4. CASE MarkDecision(h)
  <2> PICK a \in approvers, b \in Approver :
        /\ approvers' = (approvers \ {a}) \union {b}
        /\ b.user = a.user /\ b.level = a.level
        /\ b.status = job[h].decision /\ b.seen = <<job[h].lines, job[h].total>>
    BY <1>4, RowMarked
  <2>1. /\ Others(h) /\ status' = status /\ lines' = lines /\ total' = total
        /\ job'[h].op = IF job[h].decision = "rejected" THEN "reject" ELSE "count"
    BY <1>4, MarkDoes DEF MarkDecision, GoesOn
  <2>2. /\ status = "pending_approval" /\ job[h].lines = lines /\ job[h].total = total
        /\ job[h].decision \in {"approved", "rejected"}
    BY <1>2, <1>4 DEF MarkDecision, Fits, TypeInv, Shape
  <2>3. Standing /\ Terms' = Terms
    BY <1>2, <2>1, <2>2 DEF Terms
  <2>4. Named'
    <3>1. {<<c.user, c.level>> : c \in approvers'} = {<<c.user, c.level>> : c \in approvers}
      <4>1. \A c \in approvers' : \E d \in approvers : d.user = c.user /\ d.level = c.level
        OBVIOUS
      <4>2. \A d \in approvers : \E c \in approvers' : c.user = d.user /\ c.level = d.level
        OBVIOUS
      <4> QED
        BY <4>1, <4>2
    <3> QED
      BY <2>1, <2>3, <3>1 DEF Standing, Named
  <2>5. ASSUME job[h].decision = "approved" PROVE Standing'
    <3>1. Signed(b)'
      BY <2>2, <2>3, <2>5 DEF Signed, Terms
    <3>2. \A c \in approvers : c.status = "pending" \/ Signed(c)'
      BY <2>3 DEF Standing, Signed
    <3> QED
      BY <2>4, <3>1, <3>2 DEF Standing
  <2>6. Fits(job[h])'
    BY <2>1, <2>2, <2>5 DEF Fits, Rebuilding
  <2> QED
    BY <1>2, <2>1, <2>2, <2>5, <2>6, TermsAlone
<1>5. CASE MarkNothing(h)
  <2>1. Others(h) /\ SameRequisition /\ job'[h].op = "idle"
    BY <1>5, FinishDoes DEF MarkNothing, Finish, Ended, SameRequisition, row
  <2>2. Fits(job[h])'
    BY <2>1 DEF Fits, Rebuilding
  <2> QED
    BY <1>2, <1>3, <2>1, <2>2, SameTerms, TermsAlone DEF SameRequisition
<1>6. CASE CountRemaining(h)
  <2>1. /\ SameRequisition /\ Others(h) /\ job'[h].op \in {"idle", "approve"}
        /\ job'[h].op = "approve" => \A a \in approvers : a.status # "pending"
    BY <1>6, CountDoes DEF GoesOn, Ended
  <2>2. Standing
    BY <1>2, <1>6 DEF Fits, CountRemaining
  <2>3. job'[h].op = "approve" => Vouched
    BY <2>1, <2>2 DEF Standing, Vouched
  <2>4. (Standing => Standing') /\ (Vouched => Vouched')
    BY <2>1, SameTerms DEF SameRequisition
  <2>5. Fits(job[h])'
    BY <2>1, <2>3, <2>4 DEF Fits, Rebuilding
  <2> QED
    BY <1>2, <1>3, <2>1, <2>2, <2>4, <2>5, TermsAlone DEF SameRequisition
<1> QED
  BY <1>4, <1>5, <1>6 DEF Decides

LEMMA TermsEnds ==
  ASSUME TypeInv, Sound, NEW h \in Handlers, Ends(h), ~Break(h)
  PROVE  Sound'
<1>1. Others(h) /\ job'[h].op = "idle"
  BY StatusTyped DEF Ends, Ended
<1>2. Fits(job[h])'
  BY <1>1 DEF Fits, Rebuilding
<1>3. /\ lines' = lines /\ total' = total /\ approvers' = approvers /\ job[h].op # "idle"
  BY DEF Ends, CommitSubmit, Approve, Reject, Withdraw, WriteStatus, Convert
<1>4. (\A g \in Handlers \ {h} : job[g].op = "idle") /\ Fits(job[h]) /\ total = lines
  BY <1>3, AloneInFlight DEF Sound
<1>5. /\ status' = "approved" => Vouched
      /\ status' = "pending_approval" => Standing
  BY <1>4 DEF Ends, CommitSubmit, Approve, Reject, Withdraw, WriteStatus, Convert, Fits
<1> QED
  BY <1>1, <1>2, <1>3, <1>4, <1>5, SameTerms, TermsAlone

LEMMA TermsEdits ==
  ASSUME TypeInv, Sound, NEW h \in Handlers, CommitEdit(h)
  PROVE  Sound'
<1>1. /\ job[h].op = "edit" /\ job[h].to \in {Keep, "draft", "pending_approval"}
      /\ Keep \notin {"draft", "pending_approval", "approved"}
  BY DEF CommitEdit, TypeInv, Shape, Status
<1>2. /\ \A g \in Handlers \ {h} : job[g].op = "idle"
      /\ Fits(job[h]) /\ total = lines
      /\ status = "pending_approval" => Standing
  BY <1>1, AloneInFlight DEF Sound, Rebuilding
<1>3. status = "approved" => Vouched
  BY DEF Sound
<1>4. /\ Others(h) /\ job'[h].op \in {"matrix", "idle"}
      /\ job'[h].op = "idle" => job[h].to # "pending_approval"
      /\ job'[h].op = "matrix" => job[h].to = "pending_approval"
  BY EditDoes DEF GoesOn, Ended
<1>5. /\ approvers' = approvers /\ status' = IF job[h].to = Keep THEN status ELSE job[h].to
      /\ lines' = (IF job[h].lines = Keep THEN lines ELSE job[h].lines) /\ total' = job[h].total
  BY DEF CommitEdit
<1>6. total' = lines'
  BY <1>1, <1>2, <1>5 DEF Fits
<1>7. Fits(job[h])'
  BY <1>1, <1>4, <1>5 DEF Fits, Rebuilding
<1>8. ASSUME job[h].to = Keep, status # "draft"
      PROVE  (Standing => Standing') /\ (Vouched => Vouched')
  <2>1. lines' = lines
    BY <1>1, <1>2, <1>5, <1>8 DEF Fits
  <2> QED
    BY <1>2, <1>5, <1>6, <2>1, SameTerms
<1>9. status' = "approved" => Vouched'
  BY <1>1, <1>3, <1>5, <1>8
<1>10. status' = "pending_approval" /\ job'[h].op \notin Rebuilding \union {"reject"} => Standing'
  BY <1>1, <1>2, <1>4, <1>5, <1>8 DEF Rebuilding
<1> QED
  BY <1>2, <1>4, <1>6, <1>7, <1>9, <1>10, TermsAlone

LEMMA TermsNext ==
  ASSUME NoTotalApart, TypeInv, TermsInv, [Next]_vars
  PROVE  TermsInv'
<1> SUFFICES ASSUME overlap' = "none" PROVE Sound'
  BY DEF TermsInv
<1>1. ASSUME NEW h \in Handlers, Starts(h) PROVE Sound'
  <2>1. overlap = "none"
    BY <1>1, SubmitStarts, EditStarts, DecideStarts, WithdrawStarts, ConvertStarts DEF Starts, Started
  <2> QED
    BY <1>1, <2>1, TermsStarts DEF TermsInv
<1>2. ASSUME NEW h \in Handlers, Rebuilds(h) PROVE Sound'
  <2>1. overlap' = overlap
    BY <1>2 DEF Rebuilds, ReadMatrix, ClearApprovers, FillApprovers, SetRouting, Goto, Finish
  <2> QED
    BY <1>2, <2>1, TermsRebuilds DEF TermsInv
<1>3. ASSUME NEW h \in Handlers, CommitEdit(h) PROVE Sound'
  BY <1>3, EditDoes, TermsEdits DEF TermsInv
<1>4. ASSUME NEW h \in Handlers, Decides(h) PROVE Sound'
  <2>1. overlap' = overlap
    BY <1>4 DEF Decides, MarkDecision, MarkNothing, CountRemaining, Goto, Finish
  <2> QED
    BY <1>4, <2>1, TermsDecides DEF TermsInv
<1>5. ASSUME NEW h \in Handlers, Ends(h) PROVE Sound'
  <2>1. ~Break(h)
    BY DEF Break
  <2>2. overlap' = overlap
    BY <1>5, <2>1 DEF Ends, CommitSubmit, Approve, Reject, Withdraw, WriteStatus, Convert, Finish
  <2> QED
    BY <1>5, <2>1, <2>2, TermsEnds DEF TermsInv
<1>6. CASE UNCHANGED vars
  BY <1>6 DEF vars, TermsInv, Sound, Fits, Standing, Vouched, Named, Signed, Terms, InFlight
<1> QED
  BY <1>1, <1>2, <1>3, <1>4, <1>5, <1>6, NextIs

\* Where no request sets the total apart from the lines, and as long as no request has
\* overlapped another or broken off, an approved requisition was approved by everybody the
\* matrix asks for its total, each on the amounts that stand now (requisitions.service.ts
\* update, submit and decide): every edit of the amounts has taken the approval back.
THEOREM ApprovedAsItStands ==
  ASSUME NoTotalApart PROVE Spec => []ApprovedOnCurrentTerms
<1> DEFINE Inv == TypeInv /\ TermsInv
<1>1. Init => Inv
  <2> SUFFICES ASSUME Init PROVE Sound
    BY TypeInit DEF TermsInv
  <2>1. \A h \in Handlers : job[h].op = "idle"
    BY IdleTyped DEF Init
  <2>2. \A h \in Handlers : Fits(job[h])
    BY <2>1 DEF Fits, Rebuilding
  <2> QED
    BY <2>1, <2>2 DEF Init, Sound, InFlight, NoTotalApart
<1>2. Inv /\ [Next]_vars => Inv'
  BY TypeNext, TermsNext
<1>3. Inv => ApprovedOnCurrentTerms
  BY DEF TermsInv, Sound, Vouched, Named, Signed, ApprovedOnCurrentTerms
<1> QED
  BY <1>1, <1>2, <1>3, PTL DEF Spec
=============================================================================
