------------------------- MODULE PurchaseOrdersProofs -------------------------
(***************************************************************************)
(* Proofs about PurchaseOrders, for any number of requests, goods receipts *)
(* and amendments: the line items that a receipt or a hand-off names are   *)
(* there (TypeOK), what a voided receipt brought in is flagged; then what  *)
(* holds in turn, and what a received order has got, whatever overlaps.    *)
(***************************************************************************)
EXTENDS PurchaseOrders, FiniteSetTheorems, TLAPS

USE OrderConstants

-----------------------------------------------------------------------------
(* Types of the values the handlers put together.                          *)

LEMMA NoQuantitiesFit ==
  ASSUME NEW S
  PROVE  NoQuantities \in Quantities(S) /\ DOMAIN NoQuantities = {}
  <1>1. NoQuantities \in [{} -> 0..MaxReceived]
    BY DEF NoQuantities
  <1> QED BY <1>1 DEF Quantities, NoQuantities

LEMMA IdleTyped ==
  Idle \in Job /\ Idle.op = "idle" /\ Idle.receipt = NoReceipt
  <1>1. "draft" \in Status /\ "idle" \in Op /\ {} \in SUBSET Line
    BY DEF Status, Op
  <1> QED BY <1>1, NoQuantitiesFit DEF Idle, Job

\* An element of a sequence.
LEMMA ItemOf ==
  ASSUME NEW X, NEW s \in Seq(X), NEW i \in DOMAIN s
  PROVE  i \in 1..Len(s) /\ s[i] \in X
  OBVIOUS

LEMMA NumberedTyped ==
  ASSUME NEW o \in Orders, NEW n \in 1..MaxBatches
  PROVE  Numbered(o, n) \in SUBSET Line
  <1> SUFFICES ASSUME NEW i \in DOMAIN o
               PROVE  [id |-> <<n, i>>, kind |-> o[i].kind, quantity |-> o[i].quantity] \in Line
    BY DEF Numbered
  <1>1. o \in Seq([kind : Kinds, quantity : Nat]) /\ Len(o) <= MaxLines
    OBVIOUS
  <1>2. i \in 1..Len(o) /\ o[i] \in [kind : Kinds, quantity : Nat]
    BY <1>1, ItemOf
  <1>3. <<n, i>> \in LineId
    BY <1>1, <1>2 DEF LineId
  <1> QED BY <1>2, <1>3 DEF Line

\* Progress writes a status.
LEMMA ProgressTyped ==
  ASSUME NEW rs, NEW S, NEW none \in Status
  PROVE  Progress(rs, S, none) \in Status
  BY DEF Progress, Status

\* Quantities for the line ids that are left are quantities for them.
LEMMA QuantitiesNarrow ==
  ASSUME NEW S, NEW T, NEW q \in Quantities(S), DOMAIN q \subseteq T
  PROVE  q \in Quantities(T)
  BY DEF Quantities

-----------------------------------------------------------------------------
(* Steps that leave the receipts alone.                                    *)

\* What JobInv asks of a job x that goes into slot r.
JobFits(r, x) ==
  /\ x.op = "deleted" => x.new \in Orders
  /\ x.op \in {"receive", "received"} =>
       x.receipt \in Receipts /\ receipt[x.receipt].state = "unborn"
  /\ x.op \in {"void", "voided"} =>
       x.receipt \in Receipts /\ receipt[x.receipt].state # "unborn"
  /\ x.receipt \in Receipts =>
       \A q \in Requests \ {r} :
         (job[q].op \in {"receive", "received"} \/ x.op \in {"receive", "received"})
           => job[q].receipt # x.receipt

LEMMA JobsKept ==
  ASSUME OrderInv, NEW r \in Requests, NEW x \in Job, JobFits(r, x),
         job' = [job EXCEPT ![r] = x], receipt' = receipt
  PROVE  job' \in [Requests -> Job] /\ JobInv'
  <1>1. job' \in [Requests -> Job] /\ job'[r] = x
    BY DEF OrderInv, TypeOK
  <1>2. \A q \in Requests \ {r} : job'[q] = job[q]
    BY DEF OrderInv, TypeOK
  <1>3. ASSUME NEW p \in Requests
        PROVE  /\ job'[p].op = "deleted" => job'[p].new \in Orders
               /\ job'[p].op \in {"receive", "received"} =>
                    /\ job'[p].receipt \in Receipts
                    /\ receipt'[job'[p].receipt].state = "unborn"
                    /\ \A q \in Requests \ {p} : job'[q].receipt # job'[p].receipt
               /\ job'[p].op \in {"void", "voided"} =>
                    job'[p].receipt \in Receipts /\ receipt'[job'[p].receipt].state # "unborn"
    <2>1. CASE p = r
      BY <1>1, <1>2, <2>1 DEF JobFits
    <2>2. CASE p # r
      <3>1. job'[p] = job[p]
        BY <1>2, <2>2
      <3>2. job[p].op \in {"receive", "received"} =>
              \A q \in Requests \ {p} : job'[q].receipt # job[p].receipt
        BY <1>1, <1>2, <2>2 DEF JobFits, OrderInv, JobInv
      <3> QED BY <3>1, <3>2 DEF OrderInv, JobInv
    <2> QED BY <2>1, <2>2
  <1> QED BY <1>1, <1>3 DEF JobInv

\* A step that changes a job and nothing of the order.
LEMMA JobStep ==
  ASSUME OrderInv, NEW r \in Requests, NEW x \in Job, JobFits(r, x),
         job' = [job EXCEPT ![r] = x], UNCHANGED order, overlapped' \in BOOLEAN
  PROVE  OrderInv'
  <1>1. job' \in [Requests -> Job] /\ JobInv'
    BY JobsKept DEF order
  <1> QED BY <1>1 DEF order, OrderInv, TypeOK

\* The read at the start keeps what JobFits asks of the job.
LEMMA BeginStep ==
  ASSUME OrderInv, NEW r \in Requests, NEW j \in Job, JobFits(r, j), Begin(r, j)
  PROVE  OrderInv'
  <1> DEFINE x == [j EXCEPT !.read = lines, !.seen = (handoffs # {})]
  <1>1. /\ x \in Job
        /\ x.op = j.op /\ x.new = j.new /\ x.receipt = j.receipt
    BY DEF Job, OrderInv, TypeOK
  <1>2. JobFits(r, x)
    BY <1>1 DEF JobFits
  <1>3. /\ job' = [job EXCEPT ![r] = x] /\ UNCHANGED order
        /\ overlapped' \in BOOLEAN
    BY DEF Begin
  <1> HIDE DEF x
  <1> QED BY <1>1, <1>2, <1>3, JobStep

\* A job about no receipt gets in nobody's way.
LEMMA NoReceiptFits ==
  ASSUME OrderInv, NEW r \in Requests, NEW x, x.receipt = NoReceipt,
         x.op \notin {"deleted", "receive", "received", "void", "voided"}
  PROVE  JobFits(r, x)
  BY DEF JobFits

LEMMA IdleFits ==
  ASSUME OrderInv, NEW r \in Requests
  PROVE  JobFits(r, Idle)
  BY IdleTyped, NoReceiptFits

-----------------------------------------------------------------------------
LEMMA InitInv == Init => OrderInv
  <1> SUFFICES ASSUME Init PROVE OrderInv
    OBVIOUS
  <1>1. status \in Status /\ located \in BOOLEAN /\ batches \in 1..MaxBatches
    BY DEF Init, Status
  <1>2. lines \in SUBSET Line
    BY NumberedTyped DEF Init
  <1>3. receipt \in [Receipts -> [state : ReceiptState, got : Quantities(Ids(lines))]]
    BY NoQuantitiesFit DEF Init, Unborn, ReceiptState
  <1>4. job \in [Requests -> Job]
    BY IdleTyped DEF Init
  <1>5. TypeOK
    BY <1>1, <1>2, <1>3, <1>4 DEF Init, TypeOK
  <1>6. JobInv
    BY IdleTyped DEF Init, JobInv
  <1> QED BY <1>5, <1>6 DEF OrderInv, Init, Unborn

\* Idle with an operation that is about no receipt.
LEMMA PlainStep ==
  ASSUME OrderInv, NEW r \in Requests,
         NEW o \in {"send", "close", "cancel"}, Begin(r, [Idle EXCEPT !.op = o])
  PROVE  OrderInv'
  <1>1. /\ [Idle EXCEPT !.op = o] \in Job
        /\ [Idle EXCEPT !.op = o].receipt = NoReceipt
        /\ [Idle EXCEPT !.op = o].op = o
    BY IdleTyped DEF Job, Op
  <1> QED BY <1>1, NoReceiptFits, BeginStep

LEMMA AmendBegins ==
  ASSUME OrderInv, NEW r \in Requests, NEW new \in Orders \union {Keep}, BeginAmend(r, new)
  PROVE  OrderInv'
  <1> DEFINE j == [Idle EXCEPT !.op = "amend", !.new = new]
  <1>1. j \in Job /\ j.receipt = NoReceipt /\ j.op = "amend"
    BY IdleTyped DEF Job, Op
  <1>2. Begin(r, j)
    BY DEF BeginAmend
  <1> HIDE DEF j
  <1> QED BY <1>1, <1>2, NoReceiptFits, BeginStep

LEMMA ReceiveBegins ==
  ASSUME OrderInv, NEW r \in Requests, NEW g \in Receipts,
         NEW S \in SUBSET Ids(lines), NEW got \in [S -> 0..MaxReceived], BeginReceive(r, g, got)
  PROVE  OrderInv'
  <1> DEFINE j == [Idle EXCEPT !.op = "receive", !.receipt = g, !.got = got, !.was = status]
  <1>1. got \in Quantities(LineId)
    <2>1. S \in SUBSET LineId
      BY DEF Ids, Line, OrderInv, TypeOK
    <2> QED BY <2>1 DEF Quantities
  <1>2. j \in Job /\ j.receipt = g /\ j.op = "receive"
    BY <1>1, IdleTyped DEF Job, Op, OrderInv, TypeOK
  <1>3. Begin(r, j) /\ receipt[g].state = "unborn" /\ \A q \in Requests : job[q].receipt # g
    BY DEF BeginReceive
  <1> HIDE DEF j
  <1>4. JobFits(r, j)
    BY <1>2, <1>3 DEF JobFits
  <1> QED BY <1>2, <1>3, <1>4, BeginStep

LEMMA VoidBegins ==
  ASSUME OrderInv, NEW r \in Requests, NEW g \in Receipts, BeginVoid(r, g)
  PROVE  OrderInv'
  <1> DEFINE j == [Idle EXCEPT !.op = "void", !.receipt = g]
  <1>1. j \in Job /\ j.receipt = g /\ j.op = "void"
    BY IdleTyped DEF Job, Op
  <1>2. Begin(r, j) /\ receipt[g].state = "live"
    BY DEF BeginVoid
  <1> HIDE DEF j
  <1>3. JobFits(r, j)
    BY <1>1, <1>2 DEF JobFits, OrderInv, JobInv
  <1> QED BY <1>1, <1>2, <1>3, BeginStep

\* A step inside a transaction keeps the job's receipt.
LEMMA InnerStep ==
  ASSUME OrderInv, NEW r \in Requests, NEW x \in Job, x.receipt = job[r].receipt,
         job' = [job EXCEPT ![r] = x], UNCHANGED <<order, overlapped>>,
         \/ job[r].op = "amend" /\ x.op = "deleted" /\ x.new \in Orders
         \/ job[r].op = "receive" /\ x.op = "received"
         \/ job[r].op = "void" /\ x.op = "voided"
  PROVE  OrderInv'
  <1>1. JobFits(r, x)
    BY DEF JobFits, OrderInv, JobInv
  <1>2. overlapped' \in BOOLEAN /\ UNCHANGED order
    BY DEF OrderInv, TypeOK
  <1> QED BY <1>1, <1>2, JobStep

LEMMA LinesDeleted ==
  ASSUME OrderInv, NEW r \in Requests, DeleteLines(r)
  PROVE  OrderInv'
  <1> DEFINE x == [job[r] EXCEPT !.op = "deleted", !.found = lines]
  <1>1. job[r] \in Job /\ lines \in SUBSET Line
    BY DEF OrderInv, TypeOK
  <1>2. job[r].op = "amend" /\ job[r].new \in Orders
    BY <1>1 DEF DeleteLines, Job
  <1>3. x \in Job /\ x.receipt = job[r].receipt /\ x.new = job[r].new /\ x.op = "deleted"
    BY <1>1 DEF Job, Op
  <1>4. job' = [job EXCEPT ![r] = x] /\ UNCHANGED <<order, overlapped>>
    BY DEF DeleteLines
  <1> HIDE DEF x
  <1> QED BY <1>2, <1>3, <1>4, InnerStep

\* CountReceived and CountRemaining: only the status to write is new.
LEMMA Counted ==
  ASSUME OrderInv, NEW r \in Requests, NEW to \in Status, NEW o \in {"received", "voided"},
         job[r].op = (IF o = "received" THEN "receive" ELSE "void"),
         job' = [job EXCEPT ![r] = [job[r] EXCEPT !.op = o, !.to = to]],
         UNCHANGED <<order, overlapped>>
  PROVE  OrderInv'
  <1> DEFINE x == [job[r] EXCEPT !.op = o, !.to = to]
  <1>1. job[r] \in Job
    BY DEF OrderInv, TypeOK
  <1>2. x \in Job /\ x.receipt = job[r].receipt /\ x.op = o
    BY <1>1 DEF Job, Op
  <1>3. job' = [job EXCEPT ![r] = x]
    OBVIOUS
  <1> HIDE DEF x
  <1> QED BY <1>2, <1>3, InnerStep

LEMMA ReceivedCounted ==
  ASSUME OrderInv, NEW r \in Requests, CountReceived(r)
  PROVE  OrderInv'
  <1> DEFINE rs == [receipt EXCEPT ![job[r].receipt] = [state |-> "live", got |-> job[r].got]]
             to == Progress(rs, job[r].read, job[r].was)
  <1>1. job[r].was \in Status
    BY DEF OrderInv, TypeOK, Job
  <1>2. to \in Status
    BY <1>1, ProgressTyped
  <1>3. /\ job[r].op = "receive"
        /\ job' = [job EXCEPT ![r] = [job[r] EXCEPT !.op = "received", !.to = to]]
        /\ UNCHANGED <<order, overlapped>>
    BY DEF CountReceived, OrderInv, TypeOK
  <1> HIDE DEF to
  <1> QED BY <1>2, <1>3, Counted

LEMMA RemainingCounted ==
  ASSUME OrderInv, NEW r \in Requests, CountRemaining(r)
  PROVE  OrderInv'
  <1> DEFINE rs == [receipt EXCEPT ![job[r].receipt] = Voided(@)]
             to == Progress(rs, job[r].read, "sent")
  <1>1. "sent" \in Status
    BY DEF Status
  <1>2. to \in Status
    BY <1>1, ProgressTyped
  <1>3. /\ job[r].op = "void"
        /\ job' = [job EXCEPT ![r] = [job[r] EXCEPT !.op = "voided", !.to = to]]
        /\ UNCHANGED <<order, overlapped>>
    BY DEF CountRemaining, OrderInv, TypeOK
  <1> HIDE DEF to
  <1> QED BY <1>2, <1>3, Counted

LEMMA Aborted ==
  ASSUME OrderInv, NEW r \in Requests, Abort(r)
  PROVE  OrderInv'
  <1>1. job' = [job EXCEPT ![r] = Idle] /\ UNCHANGED order /\ overlapped' \in BOOLEAN
    BY DEF Abort, Finish, OrderInv, TypeOK
  <1> QED BY <1>1, IdleTyped, IdleFits, JobStep

-----------------------------------------------------------------------------
(* Commits.                                                                *)

\* One that changes neither the receipts nor the lines.
LEMMA StatusCommitted ==
  ASSUME OrderInv, NEW r \in Requests, Finish(r), status' \in Status, flagged' \subseteq handoffs,
         UNCHANGED <<located, lines, batches, receipt, handoffs>>
  PROVE  OrderInv'
  <1>1. job' \in [Requests -> Job] /\ JobInv'
    BY IdleTyped, IdleFits, JobsKept DEF Finish
  <1>2. overlapped' \in BOOLEAN
    BY DEF Finish, OrderInv, TypeOK
  <1> QED BY <1>1, <1>2 DEF OrderInv, TypeOK

LEMMA SendShortCloseCancel ==
  ASSUME OrderInv, NEW r \in Requests, CommitSend(r) \/ CommitShortClose(r) \/ CommitCancel(r)
  PROVE  OrderInv'
  <1>1. /\ Finish(r) /\ status' \in Status
        /\ UNCHANGED <<located, lines, batches, receipt, handoffs>>
    BY DEF CommitSend, CommitShortClose, CommitCancel, Status
  <1>2. flagged' \subseteq handoffs
    BY DEF CommitSend, CommitShortClose, CommitCancel, OrderInv, TypeOK
  <1> QED BY <1>1, <1>2, StatusCommitted

\* The foreign key of the receipt lines keeps the lines they name.
LEMMA RecordedLinesStay ==
  ASSUME OrderInv, NEW S, NEW N, ~Recorded(S), NEW g \in Receipts
  PROVE  receipt[g].got \in Quantities(Ids((lines \ S) \union N))
  <1>1. receipt[g].got \in Quantities(Ids(lines))
    BY DEF OrderInv, TypeOK
  <1>2. DOMAIN receipt[g].got \subseteq Ids(lines)
    BY <1>1 DEF Quantities
  <1>3. DOMAIN receipt[g].got \intersect Ids(S) = {}
    BY DEF Recorded
  <1>4. DOMAIN receipt[g].got \subseteq Ids((lines \ S) \union N)
    BY <1>2, <1>3 DEF Ids
  <1> QED BY <1>1, <1>4, QuantitiesNarrow

LEMMA Amended ==
  ASSUME OrderInv, NEW r \in Requests, CommitAmend(r)
  PROVE  OrderInv'
  <1>1. Finish(r) /\ UNCHANGED <<status, located, receipt, handoffs>> /\ flagged' \subseteq handoffs
    BY DEF CommitAmend, OrderInv, TypeOK
  <1>2. CASE UNCHANGED <<lines, batches>>
    BY <1>1, <1>2, StatusCommitted DEF OrderInv, TypeOK
  <1>3. CASE /\ job[r].op = "deleted" /\ batches < MaxBatches
             /\ ~Recorded(job[r].found)
             /\ batches' = batches + 1
             /\ lines' = (lines \ job[r].found) \union Numbered(job[r].new, batches')
    <2>1. job' \in [Requests -> Job] /\ JobInv'
      BY <1>1, IdleTyped, IdleFits, JobsKept DEF Finish
    <2>2. batches' \in 1..MaxBatches
      BY <1>3 DEF OrderInv, TypeOK
    <2>3. job[r].new \in Orders
      BY <1>3 DEF OrderInv, JobInv
    <2>4. lines' \in SUBSET Line
      BY <1>3, <2>2, <2>3, NumberedTyped DEF OrderInv, TypeOK
    <2>5. \A g \in Receipts : receipt'[g].got \in Quantities(Ids(lines'))
      BY <1>1, <1>3, RecordedLinesStay
    <2>6. receipt' \in [Receipts -> [state : ReceiptState, got : Quantities(Ids(lines'))]]
      BY <1>1, <2>5 DEF OrderInv, TypeOK
    <2>7. overlapped' \in BOOLEAN
      BY <1>1 DEF Finish, OrderInv, TypeOK
    <2> QED BY <1>1, <2>1, <2>2, <2>4, <2>6, <2>7 DEF OrderInv, TypeOK
  <1> QED BY <1>2, <1>3 DEF CommitAmend

\* A receipt that is being made has handed over nothing.
LEMMA NothingYet ==
  ASSUME OrderInv, NEW g \in Receipts, receipt[g].state = "unborn"
  PROVE  \A h \in handoffs : h[1] # g
  <1>1. receipt[g].got = NoQuantities
    BY DEF OrderInv
  <1> QED BY <1>1, NoQuantitiesFit DEF OrderInv, TypeOK

\* The other jobs, when the one in slot r ends and its receipt g is there.
LEMMA OthersFit ==
  ASSUME OrderInv, NEW r \in Requests, NEW g \in Receipts, NEW x, x.state # "unborn",
         Finish(r), receipt' = [receipt EXCEPT ![g] = x],
         \A p \in Requests \ {r} : job[p].op \in {"receive", "received"} => job[p].receipt # g
  PROVE  job' \in [Requests -> Job] /\ JobInv'
  <1>1. job' \in [Requests -> Job] /\ job'[r] = Idle
    BY IdleTyped DEF Finish, OrderInv, TypeOK
  <1>2. \A q \in Requests \ {r} : job'[q] = job[q]
    BY DEF Finish, OrderInv, TypeOK
  <1>3. receipt'[g] = x /\ \A k \in Receipts \ {g} : receipt'[k] = receipt[k]
    BY DEF OrderInv, TypeOK
  <1>4. ASSUME NEW p \in Requests
        PROVE  /\ job'[p].op = "deleted" => job'[p].new \in Orders
               /\ job'[p].op \in {"receive", "received"} =>
                    /\ job'[p].receipt \in Receipts
                    /\ receipt'[job'[p].receipt].state = "unborn"
                    /\ \A q \in Requests \ {p} : job'[q].receipt # job'[p].receipt
               /\ job'[p].op \in {"void", "voided"} =>
                    job'[p].receipt \in Receipts /\ receipt'[job'[p].receipt].state # "unborn"
    <2>1. CASE p = r
      BY <1>1, <2>1, IdleTyped
    <2>2. CASE p # r
      <3>1. job'[p] = job[p]
        BY <1>2, <2>2
      <3>2. job[p].op \in {"receive", "received"} =>
              /\ job[p].receipt \in Receipts /\ job[p].receipt # g
              /\ receipt[job[p].receipt].state = "unborn"
              /\ \A q \in Requests \ {p} : job[q].receipt # job[p].receipt
        BY <2>2 DEF OrderInv, JobInv
      <3>3. job[p].op \in {"receive", "received"} =>
              \A q \in Requests \ {p} : job'[q].receipt # job[p].receipt
        BY <1>1, <1>2, <3>2, IdleTyped
      <3> QED BY <1>3, <3>1, <3>2, <3>3 DEF OrderInv, JobInv
    <2> QED BY <2>1, <2>2
  <1> QED BY <1>1, <1>4 DEF JobInv

LEMMA ReceiptCommitted ==
  ASSUME OrderInv, NEW r \in Requests, CommitReceive(r)
  PROVE  OrderInv'
  <1> DEFINE g == job[r].receipt
             x == [state |-> "live", got |-> job[r].got]
  <1>1. job[r].op = "received" /\ job[r] \in Job
    BY DEF CommitReceive, OrderInv, TypeOK
  <1>2. /\ g \in Receipts /\ receipt[g].state = "unborn"
        /\ \A p \in Requests \ {r} : job[p].receipt # g
    BY <1>1 DEF OrderInv, JobInv
  <1>3. /\ Finish(r) /\ receipt' = [receipt EXCEPT ![g] = x]
        /\ handoffs' = handoffs \union HandedOver(job[r]) /\ status' = job[r].to
        /\ UNCHANGED <<located, lines, batches, flagged>>
        /\ DOMAIN job[r].got \subseteq Ids(lines)
    BY DEF CommitReceive
  <1>4. job[r].got \in Quantities(Ids(lines)) /\ status' \in Status
    BY <1>1, <1>3, QuantitiesNarrow DEF Job
  <1>5. x \in [state : ReceiptState, got : Quantities(Ids(lines))] /\ x.state = "live"
        /\ x.got = job[r].got
    BY <1>4 DEF ReceiptState
  <1>6. \A h \in HandedOver(job[r]) : h[1] = g /\ h[2] \in DOMAIN job[r].got
    BY DEF HandedOver
  <1> HIDE DEF x
  <1>7. job' \in [Requests -> Job] /\ JobInv'
    <2>1. \A p \in Requests \ {r} :
            job[p].op \in {"receive", "received"} => job[p].receipt # g
      BY <1>2
    <2>2. x.state # "unborn"
      BY <1>5
    <2> HIDE DEF g
    <2> QED BY <1>2, <1>3, <2>1, <2>2, OthersFit
  <1>8. receipt' \in [Receipts -> [state : ReceiptState, got : Quantities(Ids(lines'))]]
    BY <1>2, <1>3, <1>5 DEF OrderInv, TypeOK
  <1>9. \A h \in handoffs' : h[1] \in Receipts /\ h[2] \in DOMAIN receipt'[h[1]].got
    <2> SUFFICES ASSUME NEW h \in handoffs'
                 PROVE  h[1] \in Receipts /\ h[2] \in DOMAIN receipt'[h[1]].got
      OBVIOUS
    <2>1. receipt'[g] = x /\ \A k \in Receipts \ {g} : receipt'[k] = receipt[k]
      BY <1>2, <1>3 DEF OrderInv, TypeOK
    <2>2. CASE h \in handoffs
      BY <1>2, <2>1, <2>2, NothingYet DEF OrderInv, TypeOK
    <2>3. CASE h \in HandedOver(job[r])
      BY <1>2, <1>5, <1>6, <2>1, <2>3
    <2> QED BY <1>3, <2>2, <2>3
  <1>10. flagged' \subseteq handoffs' /\ overlapped' \in BOOLEAN
    BY <1>3 DEF Finish, OrderInv, TypeOK
  <1>11. \A k \in Receipts : receipt'[k].state = "unborn" => receipt'[k].got = NoQuantities
    BY <1>2, <1>3, <1>5 DEF OrderInv, TypeOK
  <1>12. TypeOK'
    BY <1>3, <1>4, <1>7, <1>8, <1>9, <1>10 DEF OrderInv, TypeOK
  <1> QED BY <1>7, <1>11, <1>12 DEF OrderInv

LEMMA VoidCommitted ==
  ASSUME OrderInv, NEW r \in Requests, CommitVoid(r)
  PROVE  OrderInv'
  <1> DEFINE g == job[r].receipt
             x == Voided(receipt[g])
  <1>1. job[r].op = "voided" /\ job[r] \in Job
    BY DEF CommitVoid, OrderInv, TypeOK
  <1>2. /\ g \in Receipts /\ receipt[g].state # "unborn"
        /\ \A p \in Requests \ {r} : job[p].op \in {"receive", "received"} => job[p].receipt # g
    BY <1>1 DEF OrderInv, JobInv
  <1>3. /\ Finish(r) /\ receipt' = [receipt EXCEPT ![g] = x]
        /\ flagged' = flagged \union HandoffsOf(g) /\ status' = job[r].to
        /\ UNCHANGED <<located, lines, batches, handoffs>>
    BY <1>2 DEF CommitVoid, OrderInv, TypeOK
  <1>4. status' \in Status
    BY <1>1, <1>3 DEF Job
  <1>5. /\ x \in [state : ReceiptState, got : Quantities(Ids(lines))]
        /\ x.state = "reversed" /\ x.got = receipt[g].got
    BY <1>2 DEF Voided, ReceiptState, OrderInv, TypeOK
  <1> HIDE DEF x
  <1>6. job' \in [Requests -> Job] /\ JobInv'
    BY <1>2, <1>3, <1>5, OthersFit
  <1>7. /\ receipt' \in [Receipts -> [state : ReceiptState, got : Quantities(Ids(lines'))]]
        /\ \A k \in Receipts : receipt'[k].got = receipt[k].got
        /\ \A k \in Receipts : receipt'[k].state = "unborn" => receipt[k].state = "unborn"
    BY <1>2, <1>3, <1>5 DEF OrderInv, TypeOK
  <1>8. flagged' \subseteq handoffs' /\ overlapped' \in BOOLEAN
    BY <1>3 DEF Finish, HandoffsOf, OrderInv, TypeOK
  <1>9. TypeOK'
    BY <1>3, <1>4, <1>6, <1>7, <1>8 DEF OrderInv, TypeOK
  <1> QED BY <1>6, <1>7, <1>9 DEF OrderInv

-----------------------------------------------------------------------------
LEMMA HandleInv == ASSUME OrderInv, NEW r \in Requests, Handle(r) PROVE OrderInv'
  <1>1. CASE BeginSend(r) \/ BeginShortClose(r) \/ BeginCancel(r)
    BY <1>1, PlainStep DEF BeginSend, BeginShortClose, BeginCancel
  <1>2. CASE \E new \in Orders \union {Keep} : BeginAmend(r, new)
    BY <1>2, AmendBegins
  <1>3. CASE \E g \in Receipts, S \in (SUBSET Ids(lines)) \ {{}} :
               \E got \in [S -> 0..MaxReceived] : BeginReceive(r, g, got)
    BY <1>3, ReceiveBegins
  <1>4. CASE \E g \in Receipts : BeginVoid(r, g)
    BY <1>4, VoidBegins
  <1>5. CASE CommitSend(r) \/ CommitShortClose(r) \/ CommitCancel(r)
    BY <1>5, SendShortCloseCancel
  <1>6. CASE DeleteLines(r)
    BY <1>6, LinesDeleted
  <1>7. CASE CommitAmend(r)
    BY <1>7, Amended
  <1>8. CASE CountReceived(r)
    BY <1>8, ReceivedCounted
  <1>9. CASE CommitReceive(r)
    BY <1>9, ReceiptCommitted
  <1>10. CASE CountRemaining(r)
    BY <1>10, RemainingCounted
  <1>11. CASE CommitVoid(r)
    BY <1>11, VoidCommitted
  <1>12. CASE Abort(r)
    BY <1>12, Aborted
  <1> QED BY <1>1, <1>2, <1>3, <1>4, <1>5, <1>6, <1>7, <1>8, <1>9, <1>10, <1>11, <1>12 DEF Handle

LEMMA StutterInv == ASSUME OrderInv, UNCHANGED vars PROVE OrderInv'
  BY DEF vars, OrderInv, TypeOK, JobInv, Recorded

LEMMA NextInv == OrderInv /\ [Next]_vars => OrderInv'
  BY HandleInv, StutterInv DEF Next

\* The order lines that receipts and hand-offs name are never amended away, and
\* only a request at a receipt knows of it, whatever overlaps.
THEOREM TypeCorrect == Spec => []TypeOK
  <1>1. OrderInv => TypeOK
    BY DEF OrderInv
  <1> QED BY <1>1, InitInv, NextInv, PTL DEF Spec

\* The assets and stock that a voided receipt brought in are marked for
\* reconciliation, whatever requests overlap with the void.
THEOREM VoidedStaysFlagged == Spec => []VoidedIsFlagged
  <1>1. Init => VoidedIsFlagged
    BY DEF Init, VoidedIsFlagged
  <1>2. ASSUME OrderInv, VoidedIsFlagged, [Next]_vars
        PROVE  VoidedIsFlagged'
    <2>1. CASE \E r \in Requests : CommitVoid(r)
      <3>1. PICK r \in Requests : CommitVoid(r)
        BY <2>1
      <3>2. \A k \in Receipts \ {job[r].receipt} : receipt'[k] = receipt[k]
        BY <3>1 DEF CommitVoid, OrderInv, TypeOK
      <3> QED BY <1>2, <3>1, <3>2
           DEF CommitVoid, HandoffsOf, VoidedIsFlagged, OrderInv, TypeOK
    <2>2. CASE \E r \in Requests : CommitReceive(r)
      <3>1. PICK r \in Requests : CommitReceive(r)
        BY <2>2
      <3>2. job[r].receipt \in Receipts
        BY <1>2, <3>1 DEF CommitReceive, OrderInv, JobInv
      <3>3. /\ receipt'[job[r].receipt].state = "live"
            /\ \A k \in Receipts \ {job[r].receipt} : receipt'[k] = receipt[k]
        BY <1>2, <3>1, <3>2 DEF CommitReceive, OrderInv, TypeOK
      <3>4. \A h \in HandedOver(job[r]) : h[1] = job[r].receipt
        BY DEF HandedOver
      <3> QED BY <1>2, <3>1, <3>3, <3>4 DEF CommitReceive, VoidedIsFlagged, OrderInv, TypeOK
    <2>3. CASE /\ UNCHANGED <<receipt, handoffs>>
               /\ flagged' = flagged \/ flagged' = handoffs
      BY <1>2, <2>3 DEF VoidedIsFlagged
    <2>4. [Next]_vars => \/ \E r \in Requests : CommitVoid(r) \/ CommitReceive(r)
                         \/ /\ UNCHANGED <<receipt, handoffs>>
                            /\ flagged' = flagged \/ flagged' = handoffs
      BY DEF Next, Handle, vars, order, Begin, BeginSend, BeginShortClose, BeginCancel,
             BeginAmend, BeginReceive, BeginVoid, CommitSend, CommitShortClose, CommitCancel,
             DeleteLines, CommitAmend, CountReceived, CountRemaining, Abort
    <2> QED BY <1>2, <2>1, <2>2, <2>3, <2>4
  <1>3. OrderInv /\ VoidedIsFlagged /\ [Next]_vars => VoidedIsFlagged'
    BY <1>2
  <1> QED BY <1>1, <1>3, InitInv, NextInv, PTL DEF Spec

-----------------------------------------------------------------------------
(* What the steps do, field by field.                                      *)

Others(r) == \A q \in Requests \ {r} : job'[q] = job[q]

OrderSame ==
  /\ status' = status /\ located' = located /\ lines' = lines /\ batches' = batches
  /\ receipt' = receipt /\ handoffs' = handoffs /\ flagged' = flagged

Starts(r) ==
  \/ BeginSend(r)
  \/ BeginShortClose(r)
  \/ BeginCancel(r)
  \/ \E new \in Orders \union {Keep} : BeginAmend(r, new)
  \/ \E g \in Receipts, S \in (SUBSET Ids(lines)) \ {{}} :
       \E got \in [S -> 0..MaxReceived] : BeginReceive(r, g, got)
  \/ \E g \in Receipts : BeginVoid(r, g)

\* What a job has checked when it starts.
Checked(j) ==
  /\ j.op \in {"send", "amend", "cancel", "close", "receive", "void"}
  /\ j.op = "send" => status = "draft"
  /\ j.op = "close" => status \in Open
  /\ j.op = "cancel" => status \notin {"received", "closed", "cancelled"}
  /\ j.op = "amend" => status \in Open \union {"draft"}
  /\ j.op = "receive" =>
       /\ status \in Open /\ j.was = status
       /\ DOMAIN j.got # {} /\ DOMAIN j.got \subseteq Ids(lines)

Started(r, j) ==
  /\ Others(r) /\ OrderSame /\ Checked(job'[r])
  /\ job'[r].read = lines /\ job'[r].seen = (handoffs # {}) /\ job'[r].found = j.found
  /\ ~overlapped' => ~overlapped /\ \A q \in Requests : job[q].op = "idle"

LEMMA IdleFields ==
  /\ Idle.op = "idle" /\ Idle.read = {} /\ Idle.found = {} /\ Idle.receipt = NoReceipt
  BY DEF Idle

LEMMA StartDoes ==
  ASSUME OrderInv, NEW r \in Requests, NEW j \in Job, Checked(j), Begin(r, j)
  PROVE  Started(r, j)
<1> DEFINE x == [j EXCEPT !.read = lines, !.seen = (handoffs # {})]
<1>1. /\ x.op = j.op /\ x.was = j.was /\ x.got = j.got /\ x.found = j.found
      /\ x.read = lines /\ x.seen = (handoffs # {})
  BY DEF Job
<1>2. job' = [job EXCEPT ![r] = x] /\ OrderSame
  BY DEF Begin, order, OrderSame
<1>3. ~overlapped' => ~overlapped /\ \A q \in Requests : job[q].op = "idle"
  BY DEF Begin
<1>4. job'[r] = x /\ Others(r)
  BY <1>2 DEF OrderInv, TypeOK, Others
<1> HIDE DEF x
<1>5. Checked(x)
  BY <1>1 DEF Checked
<1> QED
  BY <1>1, <1>2, <1>3, <1>4, <1>5 DEF Started

LEMMA AllStart ==
  ASSUME OrderInv, NEW r \in Requests, Starts(r)
  PROVE  Started(r, Idle)
<1>1. ASSUME NEW o \in {"send", "close", "cancel"}, Begin(r, [Idle EXCEPT !.op = o]),
             o = "send" => status = "draft", o = "close" => status \in Open,
             o = "cancel" => status \notin {"received", "closed", "cancelled"}
      PROVE  Started(r, Idle)
  <2> DEFINE j == [Idle EXCEPT !.op = o]
  <2>1. j \in Job /\ j.op = o /\ j.found = Idle.found
    BY IdleTyped DEF Job, Op
  <2>2. Begin(r, j)
    BY <1>1
  <2> HIDE DEF j
  <2>3. Checked(j)
    BY <1>1, <2>1 DEF Checked
  <2> QED
    BY <2>1, <2>2, <2>3, StartDoes DEF Started
<1>2. ASSUME NEW new \in Orders \union {Keep}, BeginAmend(r, new)
      PROVE  Started(r, Idle)
  <2> DEFINE j == [Idle EXCEPT !.op = "amend", !.new = new]
  <2>1. j \in Job /\ j.op = "amend" /\ j.found = Idle.found
    BY IdleTyped DEF Job, Op
  <2>2. Begin(r, j) /\ status \in Open \union {"draft"}
    BY <1>2 DEF BeginAmend
  <2> HIDE DEF j
  <2>3. Checked(j)
    BY <2>1, <2>2 DEF Checked
  <2> QED
    BY <2>1, <2>2, <2>3, StartDoes DEF Started
<1>3. ASSUME NEW g \in Receipts, NEW S \in (SUBSET Ids(lines)) \ {{}},
             NEW got \in [S -> 0..MaxReceived], BeginReceive(r, g, got)
      PROVE  Started(r, Idle)
  <2> DEFINE j == [Idle EXCEPT !.op = "receive", !.receipt = g, !.got = got, !.was = status]
  <2>1. got \in Quantities(LineId)
    <3>1. S \in SUBSET LineId
      BY DEF Ids, Line, OrderInv, TypeOK
    <3> QED BY <3>1 DEF Quantities
  <2>2. j \in Job
    BY <2>1, IdleTyped DEF Job, Op, OrderInv, TypeOK
  <2>3. j.op = "receive" /\ j.found = Idle.found /\ j.got = got /\ j.was = status
    BY IdleTyped DEF Job
  <2>4. Begin(r, j) /\ status \in Open
    BY <1>3 DEF BeginReceive
  <2> HIDE DEF j
  <2>5. Checked(j)
    BY <2>3, <2>4 DEF Checked
  <2> QED
    BY <2>2, <2>3, <2>4, <2>5, StartDoes DEF Started
<1>4. ASSUME NEW g \in Receipts, BeginVoid(r, g)
      PROVE  Started(r, Idle)
  <2> DEFINE j == [Idle EXCEPT !.op = "void", !.receipt = g]
  <2>1. j \in Job /\ j.op = "void" /\ j.found = Idle.found
    BY IdleTyped DEF Job, Op
  <2>2. Begin(r, j)
    BY <1>4 DEF BeginVoid
  <2> HIDE DEF j
  <2>3. Checked(j)
    BY <2>1 DEF Checked
  <2> QED
    BY <2>1, <2>2, <2>3, StartDoes DEF Started
<1>5. CASE BeginSend(r) \/ BeginShortClose(r) \/ BeginCancel(r)
  BY <1>1, <1>5 DEF BeginSend, BeginShortClose, BeginCancel
<1> QED
  BY <1>2, <1>3, <1>4, <1>5 DEF Starts

LEMMA FinishDoes ==
  ASSUME OrderInv, NEW r \in Requests, Finish(r)
  PROVE  job'[r] = Idle /\ Others(r) /\ overlapped' = overlapped
  BY DEF Finish, Others, OrderInv, TypeOK

\* The receipts rs with the one that job j is about made, or voided.
Making(rs, j) == [rs EXCEPT ![j.receipt] = [state |-> "live", got |-> j.got]]

Voiding(rs, j) == [rs EXCEPT ![j.receipt] = Voided(rs[j.receipt])]

\* A statement of the transaction of slot r has read: what changes in its job.
Inside(r) ==
  /\ Others(r) /\ OrderSame /\ overlapped' = overlapped
  /\ job'[r].read = job[r].read /\ job'[r].seen = job[r].seen /\ job'[r].was = job[r].was
  /\ job'[r].receipt = job[r].receipt /\ job'[r].got = job[r].got

LEMMA DeleteDoes ==
  ASSUME OrderInv, NEW r \in Requests, DeleteLines(r)
  PROVE  /\ Inside(r) /\ job[r].op = "amend" /\ job'[r].op = "deleted"
         /\ job'[r].found = lines
<1> DEFINE x == [job[r] EXCEPT !.op = "deleted", !.found = lines]
<1>1. job[r] \in Job
  BY DEF OrderInv, TypeOK
<1>2. /\ x.op = "deleted" /\ x.found = lines /\ x.read = job[r].read /\ x.seen = job[r].seen
      /\ x.was = job[r].was /\ x.receipt = job[r].receipt /\ x.got = job[r].got
  BY <1>1 DEF Job
<1>3. job' = [job EXCEPT ![r] = x] /\ OrderSame /\ overlapped' = overlapped /\ job[r].op = "amend"
  BY DEF DeleteLines, order, OrderSame
<1>4. job'[r] = x /\ Others(r)
  BY <1>3 DEF OrderInv, TypeOK, Others
<1> QED
  BY <1>2, <1>3, <1>4 DEF Inside

LEMMA CountDoes ==
  ASSUME OrderInv, NEW r \in Requests, NEW to, NEW o,
         job' = [job EXCEPT ![r] = [job[r] EXCEPT !.op = o, !.to = to]],
         UNCHANGED <<order, overlapped>>
  PROVE  /\ Inside(r) /\ job'[r].op = o /\ job'[r].to = to
         /\ job'[r].found = job[r].found
<1> DEFINE x == [job[r] EXCEPT !.op = o, !.to = to]
<1>1. job[r] \in Job
  BY DEF OrderInv, TypeOK
<1>2. /\ x.op = o /\ x.to = to /\ x.found = job[r].found /\ x.read = job[r].read
      /\ x.seen = job[r].seen /\ x.was = job[r].was /\ x.receipt = job[r].receipt
      /\ x.got = job[r].got
  BY <1>1 DEF Job
<1>3. job'[r] = x /\ Others(r) /\ OrderSame
  BY DEF OrderInv, TypeOK, Others, order, OrderSame
<1> QED
  BY <1>2, <1>3 DEF Inside

LEMMA ReceivedCountDoes ==
  ASSUME OrderInv, NEW r \in Requests, CountReceived(r)
  PROVE  /\ Inside(r) /\ job[r].op = "receive" /\ job'[r].op = "received"
         /\ job'[r].found = job[r].found
         /\ job'[r].to = Progress(Making(receipt, job[r]), job[r].read, job[r].was)
<1> DEFINE to == Progress(Making(receipt, job[r]), job[r].read, job[r].was)
<1>1. /\ job[r].op = "receive"
      /\ job' = [job EXCEPT ![r] = [job[r] EXCEPT !.op = "received", !.to = to]]
      /\ UNCHANGED <<order, overlapped>>
  BY DEF CountReceived, Making, OrderInv, TypeOK
<1> HIDE DEF to
<1>2. /\ Inside(r) /\ job'[r].op = "received" /\ job'[r].to = to
      /\ job'[r].found = job[r].found
  BY <1>1, CountDoes
<1> QED
  BY <1>1, <1>2 DEF to

LEMMA RemainingCountDoes ==
  ASSUME OrderInv, NEW r \in Requests, CountRemaining(r)
  PROVE  /\ Inside(r) /\ job[r].op = "void" /\ job'[r].op = "voided"
         /\ job'[r].found = job[r].found
         /\ job'[r].to = Progress(Voiding(receipt, job[r]), job[r].read, "sent")
<1> DEFINE to == Progress(Voiding(receipt, job[r]), job[r].read, "sent")
<1>1. /\ job[r].op = "void"
      /\ job' = [job EXCEPT ![r] = [job[r] EXCEPT !.op = "voided", !.to = to]]
      /\ UNCHANGED <<order, overlapped>>
  BY DEF CountRemaining, Voiding, OrderInv, TypeOK
<1> HIDE DEF to
<1>2. /\ Inside(r) /\ job'[r].op = "voided" /\ job'[r].to = to
      /\ job'[r].found = job[r].found
  BY <1>1, CountDoes
<1> QED
  BY <1>1, <1>2 DEF to

\* The actions by what they do.
LEMMA NextIs ==
  ASSUME Next
  PROVE  \E r \in Requests :
           \/ Starts(r)
           \/ DeleteLines(r) \/ CountReceived(r) \/ CountRemaining(r)
           \/ CommitSend(r) \/ CommitShortClose(r) \/ CommitCancel(r)
           \/ CommitAmend(r) \/ CommitReceive(r) \/ CommitVoid(r) \/ Abort(r)
  BY DEF Next, Handle, Starts

-----------------------------------------------------------------------------
(* Quantities.                                                             *)

\* The units of line id l that the live ones of the receipts rs record.
UnitsOf(rs, l) ==
  {u \in Units : /\ rs[u[1]].state = "live"
                 /\ l \in DOMAIN rs[u[1]].got /\ u[2] <= rs[u[1]].got[l]}

LEMMA UnitsFinite ==
  ASSUME NEW T, T \subseteq Units
  PROVE  IsFiniteSet(T) /\ Cardinality(T) \in Nat
<1>1. IsFiniteSet(Receipts) /\ IsFiniteSet(1..MaxReceived)
  BY FS_Interval
<1>2. IsFiniteSet(Units)
  BY <1>1, FS_Product DEF Units
<1> QED
  BY <1>2, FS_Subset, FS_CardinalityType

LEMMA ReceivedUnits ==
  ASSUME NEW rs, NEW l
  PROVE  Received(rs, l) = Cardinality(UnitsOf(rs, l)) /\ Received(rs, l) \in Nat
<1>1. UnitsOf(rs, l) \subseteq Units
  BY DEF UnitsOf
<1> QED
  BY <1>1, UnitsFinite DEF Received, UnitsOf

\* Receipts that only add to the live ones take nothing away.
LEMMA ReceivedGrows ==
  ASSUME NEW rs, NEW qs, NEW l, \A g \in Receipts : rs[g].state = "live" => qs[g] = rs[g]
  PROVE  Received(rs, l) <= Received(qs, l)
<1>1. UnitsOf(rs, l) \subseteq UnitsOf(qs, l) /\ UnitsOf(qs, l) \subseteq Units
  BY DEF UnitsOf, Units
<1> QED
  BY <1>1, UnitsFinite, FS_Subset, ReceivedUnits

LEMMA CompleteGrows ==
  ASSUME NEW rs, NEW qs, NEW S \in SUBSET Line, Complete(rs, S),
         \A g \in Receipts : rs[g].state = "live" => qs[g] = rs[g]
  PROVE  Complete(qs, S)
<1> SUFFICES ASSUME NEW l \in S PROVE Received(qs, l.id) >= l.quantity
  BY DEF Complete
<1>1. Received(rs, l.id) >= l.quantity /\ l.quantity \in Nat
  BY DEF Complete, Line
<1>2. Received(rs, l.id) <= Received(qs, l.id)
  BY ReceivedGrows
<1> QED
  BY <1>1, <1>2, ReceivedUnits

LEMMA DeliveredUnits ==
  ASSUME NEW l
  PROVE  Delivered(l) = Received(receipt, l.id)
<1>1. {u \in Units : LET x == receipt[u[1]] IN
         x.state = "live" /\ l.id \in DOMAIN x.got /\ u[2] <= x.got[l.id]}
      = UnitsOf(receipt, l.id)
  BY DEF UnitsOf
<1> QED
  BY <1>1, ReceivedUnits DEF Delivered

LEMMA DeliveredIsComplete == AllDelivered <=> Complete(receipt, lines)
  BY DeliveredUnits DEF AllDelivered, Complete

\* Nothing is delivered if no live receipt records anything.
LEMMA NoneIsNotPartial ==
  ASSUME OrderInv
  PROVE  NoneDelivered <=> ~Partial(receipt)
<1>1. \A l : Delivered(l) = 0 <=> UnitsOf(receipt, l.id) = {}
  <2> TAKE l
  <2>1. UnitsOf(receipt, l.id) \subseteq Units
    BY DEF UnitsOf
  <2> QED
    BY <2>1, UnitsFinite, FS_EmptySet, DeliveredUnits, ReceivedUnits
<1>2. ASSUME NEW g \in Receipts, receipt[g].state = "live", NEW i \in DOMAIN receipt[g].got,
             receipt[g].got[i] > 0
      PROVE  ~NoneDelivered
  <2>1. receipt[g].got \in Quantities(Ids(lines))
    BY DEF OrderInv, TypeOK
  <2>2. i \in Ids(lines) /\ receipt[g].got[i] \in 0..MaxReceived
    BY <2>1 DEF Quantities
  <2>3. <<g, 1>> \in UnitsOf(receipt, i)
    BY <1>2, <2>2 DEF UnitsOf, Units
  <2> QED
    BY <1>1, <2>2, <2>3 DEF NoneDelivered, Ids
<1>3. ASSUME NEW l \in lines, NEW u \in UnitsOf(receipt, l.id)
      PROVE  Partial(receipt)
  <2>1. u[1] \in Receipts /\ u[2] \in 1..MaxReceived
    BY DEF UnitsOf, Units
  <2>2. receipt[u[1]].got \in Quantities(Ids(lines)) /\ l.id \in DOMAIN receipt[u[1]].got
    BY <2>1 DEF OrderInv, TypeOK, UnitsOf
  <2>3. receipt[u[1]].got[l.id] \in 0..MaxReceived
    BY <2>2 DEF Quantities
  <2> QED
    BY <2>1, <2>2, <2>3 DEF Partial, UnitsOf
<1> QED
  BY <1>1, <1>2, <1>3 DEF NoneDelivered, Partial

-----------------------------------------------------------------------------
(* Requests that do not overlap.                                           *)

\* What an order claims of its progress.
Claims ==
  /\ status = "received" => Complete(receipt, lines)
  /\ status = "partially_received" => ~Complete(receipt, lines) /\ Partial(receipt)
  /\ status \in {"draft", "sent"} => ~Partial(receipt)

\* In turn, what a request has read is still so.
Turn(j) ==
  j.op # "idle" =>
    /\ j.read = lines /\ j.seen = (handoffs # {})
    /\ j.op = "send" => status = "draft"
    /\ j.op = "close" => status \in Open
    /\ j.op = "cancel" => status \notin {"received", "closed", "cancelled"}
    /\ j.op \in {"amend", "deleted"} => status \in Open \union {"draft"}
    /\ j.op = "deleted" => j.found = lines
    /\ j.op \in {"receive", "received"} => status \in Open /\ j.was = status
    /\ j.op = "received" => j.to = Progress(Making(receipt, j), lines, status)
    /\ j.op = "voided" => j.to = Progress(Voiding(receipt, j), lines, "sent")

InTurn ==
  /\ \A q, r \in Requests : job[q].op # "idle" /\ job[r].op # "idle" => q = r
  /\ \A r \in Requests : Turn(job[r])
  /\ status = "cancelled" => handoffs = flagged
  /\ Claims

SerialInv == ~overlapped => InTurn

LEMMA TurnKept ==
  ASSUME NEW r \in Requests, Others(r), \A q \in Requests \ {r} : job[q].op = "idle",
         Turn(job[r])', status' = "cancelled" => handoffs' = flagged', Claims'
  PROVE  InTurn'
<1>1. \A q \in Requests \ {r} : job'[q].op = "idle"
  BY DEF Others
<1>2. \A q \in Requests : Turn(job[q])'
  BY <1>1 DEF Turn
<1> QED
  BY <1>1, <1>2 DEF InTurn

LEMMA TurnStarts ==
  ASSUME OrderInv, SerialInv, NEW r \in Requests, Starts(r), ~overlapped'
  PROVE  InTurn'
<1>1. Started(r, Idle)
  BY AllStart
<1>2. InTurn /\ \A q \in Requests : job[q].op = "idle"
  BY <1>1 DEF Started, SerialInv
<1>3. Turn(job[r])'
  BY <1>1 DEF Started, Checked, Turn, OrderSame
<1>4. Claims' /\ (status' = "cancelled" => handoffs' = flagged')
  BY <1>1, <1>2 DEF Started, OrderSame, InTurn, Claims
<1> QED
  BY <1>1, <1>2, <1>3, <1>4, TurnKept DEF Started

LEMMA TurnInside ==
  ASSUME OrderInv, InTurn, NEW r \in Requests,
         DeleteLines(r) \/ CountReceived(r) \/ CountRemaining(r)
  PROVE  InTurn'
<1>1. Inside(r) /\ job[r].op \in {"amend", "receive", "void"}
  BY DeleteDoes, ReceivedCountDoes, RemainingCountDoes
<1>2. (\A q \in Requests \ {r} : job[q].op = "idle") /\ Turn(job[r])
  BY <1>1 DEF InTurn
<1>3. Claims' /\ (status' = "cancelled" => handoffs' = flagged')
  BY <1>1 DEF Inside, OrderSame, InTurn, Claims
<1>4. CASE DeleteLines(r)
  <2>1. Turn(job[r])'
    BY <1>2, <1>4, DeleteDoes DEF Turn, Inside, OrderSame
  <2> QED
    BY <1>1, <1>2, <1>3, <2>1, TurnKept DEF Inside
<1>5. CASE CountReceived(r)
  <2>1. /\ job[r].op = "receive" /\ job'[r].op = "received"
        /\ job'[r].to = Progress(Making(receipt, job[r]), job[r].read, job[r].was)
    BY <1>5, ReceivedCountDoes
  <2>2. Making(receipt', job'[r]) = Making(receipt, job[r])
    BY <1>1 DEF Making, Inside, OrderSame
  <2>3. job[r].read = lines /\ job[r].was = status
    BY <1>2, <2>1 DEF Turn
  <2>4. job'[r].to = Progress(Making(receipt', job'[r]), lines', status')
    BY <1>1, <2>1, <2>2, <2>3 DEF Inside, OrderSame
  <2>5. Turn(job[r])'
    BY <1>1, <1>2, <2>1, <2>4 DEF Turn, Inside, OrderSame
  <2> QED
    BY <1>1, <1>2, <1>3, <2>5, TurnKept DEF Inside
<1>6. CASE CountRemaining(r)
  <2>1. /\ job[r].op = "void" /\ job'[r].op = "voided"
        /\ job'[r].to = Progress(Voiding(receipt, job[r]), job[r].read, "sent")
    BY <1>6, RemainingCountDoes
  <2>2. Voiding(receipt', job'[r]) = Voiding(receipt, job[r])
    BY <1>1 DEF Voiding, Voided, Inside, OrderSame
  <2>3. job[r].read = lines
    BY <1>2, <2>1 DEF Turn
  <2>4. job'[r].to = Progress(Voiding(receipt', job'[r]), lines', "sent")
    BY <1>1, <2>1, <2>2, <2>3 DEF Inside, OrderSame
  <2>5. Turn(job[r])'
    BY <1>1, <1>2, <2>1, <2>4 DEF Turn, Inside, OrderSame
  <2> QED
    BY <1>1, <1>2, <1>3, <2>5, TurnKept DEF Inside
<1> QED
  BY <1>4, <1>5, <1>6

\* What a receipt or a void writes is what the order may then claim.
LEMMA ProgressClaims ==
  ASSUME NEW rs, NEW S, NEW none \in {"sent", "partially_received"},
         none = "partially_received" => Partial(rs)
  PROVE  /\ Progress(rs, S, none) = "received" => Complete(rs, S)
         /\ Progress(rs, S, none) = "partially_received" => ~Complete(rs, S) /\ Partial(rs)
         /\ Progress(rs, S, none) = "sent" => ~Partial(rs)
         /\ Progress(rs, S, none) \in {"received", "partially_received", "sent"}
  BY DEF Progress

LEMMA TurnCommits ==
  ASSUME OrderInv, OrderInv', InTurn, NEW r \in Requests,
         \/ CommitSend(r) \/ CommitShortClose(r) \/ CommitCancel(r)
         \/ CommitAmend(r) \/ CommitReceive(r) \/ CommitVoid(r) \/ Abort(r)
  PROVE  InTurn'
<1>0. Finish(r) /\ job[r].op # "idle"
  BY DEF CommitSend, CommitShortClose, CommitCancel, CommitAmend, CommitReceive, CommitVoid, Abort
<1>1. job'[r].op = "idle" /\ Others(r)
  BY <1>0, FinishDoes, IdleFields
<1>2. (\A q \in Requests \ {r} : job[q].op = "idle") /\ Turn(job[r])
  BY <1>0 DEF InTurn
<1>3. Turn(job[r])'
  BY <1>1 DEF Turn
<1> SUFFICES Claims' /\ (status' = "cancelled" => handoffs' = flagged')
  BY <1>1, <1>2, <1>3, TurnKept
<1>4. Claims /\ (status = "cancelled" => handoffs = flagged) /\ flagged \subseteq handoffs
  BY DEF InTurn, OrderInv, TypeOK
<1>5. CASE CommitSend(r)
  BY <1>2, <1>4, <1>5 DEF CommitSend, Turn, Claims
<1>6. CASE CommitShortClose(r)
  BY <1>6 DEF CommitShortClose, Claims
<1>7. CASE CommitCancel(r)
  <2>1. job[r].seen = (handoffs # {})
    BY <1>2, <1>7 DEF CommitCancel, Turn
  <2> QED
    BY <1>4, <1>7, <2>1 DEF CommitCancel, Claims
<1>8. CASE CommitAmend(r)
  <2>1. status \in Open \union {"draft"} /\ status' = status /\ receipt' = receipt
    BY <1>2, <1>8 DEF CommitAmend, Turn
  <2>2. CASE lines' = lines
    BY <1>4, <2>1, <2>2 DEF Claims, Open
  <2>3. CASE job[r].op = "deleted" /\ ~Recorded(job[r].found)
    <3>1. job[r].found = lines
      BY <1>2, <2>3 DEF Turn
    <3>2. \A g \in Receipts : receipt[g].got \in Quantities(Ids(lines))
      BY DEF OrderInv, TypeOK
    <3>3. \A g \in Receipts : DOMAIN receipt[g].got = {}
      BY <2>3, <3>1, <3>2 DEF Recorded, Quantities
    <3>4. ~Partial(receipt)
      BY <3>3 DEF Partial
    <3> QED
      BY <1>4, <2>1, <3>4 DEF Claims, Open
  <2> QED
    BY <1>8, <2>2, <2>3 DEF CommitAmend
<1>9. CASE CommitReceive(r)
  <2>1. /\ status \in Open /\ job[r].to = Progress(Making(receipt, job[r]), lines, status)
    BY <1>2, <1>9 DEF CommitReceive, Turn
  <2>2. receipt' = Making(receipt, job[r]) /\ status' = job[r].to /\ lines' = lines
    BY <1>9 DEF CommitReceive, Making
  <2>3. job[r].receipt \in Receipts /\ receipt[job[r].receipt].state = "unborn"
    BY <1>9 DEF CommitReceive, OrderInv, JobInv
  <2>4. \A g \in Receipts : receipt[g].state = "live" => receipt'[g] = receipt[g]
    BY <2>2, <2>3 DEF Making, OrderInv, TypeOK
  <2>5. status = "partially_received" => Partial(receipt')
    BY <1>4, <2>4 DEF Claims, Partial
  <2>6. status' = Progress(receipt', lines', status)
    BY <2>1, <2>2
  <2> QED
    BY <2>1, <2>5, <2>6, ProgressClaims DEF Claims, Open
<1>10. CASE CommitVoid(r)
  <2>1. job[r].to = Progress(Voiding(receipt, job[r]), lines, "sent")
    BY <1>2, <1>10 DEF CommitVoid, Turn
  <2>2. receipt' = Voiding(receipt, job[r]) /\ status' = job[r].to /\ lines' = lines
    BY <1>10 DEF CommitVoid, Voiding
  <2>3. status' = Progress(receipt', lines', "sent")
    BY <2>1, <2>2
  <2> QED
    BY <2>3, ProgressClaims DEF Claims
<1>11. CASE Abort(r)
  BY <1>4, <1>11 DEF Abort, order, Claims
<1> QED
  BY <1>5, <1>6, <1>7, <1>8, <1>9, <1>10, <1>11

LEMMA SerialInit == Init => SerialInv
<1> SUFFICES ASSUME Init PROVE InTurn
  BY DEF SerialInv
<1>1. \A r \in Requests : job[r].op = "idle"
  BY IdleFields DEF Init
<1>2. ~Partial(receipt)
  BY DEF Init, Unborn, Partial
<1> QED
  BY <1>1, <1>2 DEF Init, InTurn, Turn, Claims

LEMMA SerialNext ==
  ASSUME OrderInv, OrderInv', SerialInv, [Next]_vars
  PROVE  SerialInv'
<1> SUFFICES ASSUME ~overlapped' PROVE InTurn'
  BY DEF SerialInv
<1>1. ASSUME NEW r \in Requests, DeleteLines(r) \/ CountReceived(r) \/ CountRemaining(r)
      PROVE  InTurn'
  <2>1. overlapped' = overlapped
    BY <1>1 DEF DeleteLines, CountReceived, CountRemaining
  <2> QED
    BY <1>1, <2>1, TurnInside DEF SerialInv
<1>2. ASSUME NEW r \in Requests,
             \/ CommitSend(r) \/ CommitShortClose(r) \/ CommitCancel(r)
             \/ CommitAmend(r) \/ CommitReceive(r) \/ CommitVoid(r) \/ Abort(r)
      PROVE  InTurn'
  <2>1. overlapped' = overlapped
    BY <1>2 DEF CommitSend, CommitShortClose, CommitCancel, CommitAmend, CommitReceive,
                CommitVoid, Abort, Finish
  <2> QED
    BY <1>2, <2>1, TurnCommits DEF SerialInv
<1>3. CASE UNCHANGED vars
  BY <1>3 DEF vars, SerialInv, InTurn, Turn, Claims
<1> QED
  BY <1>1, <1>2, <1>3, TurnStarts, NextIs

\* As long as requests have not overlapped, all that a cancelled order brought into the
\* inventory is marked for reconciliation (purchase-orders.service.ts cancel and amend): for
\* any number of receipts before the cancellation, and whatever is voided after it.
THEOREM CancelledStaysFlagged == Spec => []CancelledIsFlagged
<1>1. OrderInv /\ SerialInv => CancelledIsFlagged
  BY DEF SerialInv, InTurn, CancelledIsFlagged
<1>2. OrderInv /\ SerialInv /\ [Next]_vars => SerialInv'
  BY SerialNext, NextInv
<1> QED
  BY <1>1, <1>2, InitInv, SerialInit, NextInv, PTL DEF Spec

\* As long as requests have not overlapped, an order leaves cancelled or closed only when one
\* of its receipts is voided (purchase-orders.service.ts voidReceipt): every other handler
\* still finds the status it has checked.
THEOREM CancelledStaysShut == Spec => OnlyVoidReopens
<1> DEFINE Shut == (~overlapped /\ status \in {"cancelled", "closed"} /\ status' # status)
                     => \E r \in Requests : CommitVoid(r)
<1>1. ASSUME OrderInv, SerialInv, [Next]_vars PROVE [Shut]_vars
  <2> SUFFICES ASSUME ~overlapped, status \in {"cancelled", "closed"}, status' # status
               PROVE  \E r \in Requests : CommitVoid(r)
    OBVIOUS
  <2>1. PICK r \in Requests :
          CommitSend(r) \/ CommitShortClose(r) \/ CommitCancel(r) \/ CommitReceive(r) \/ CommitVoid(r)
    <3>1. \A r \in Requests : Starts(r) => status' = status
      BY <1>1, AllStart DEF Started, OrderSame
    <3>2. \A r \in Requests : DeleteLines(r) \/ CountReceived(r) \/ CountRemaining(r)
                                \/ CommitAmend(r) \/ Abort(r) => status' = status
      BY DEF DeleteLines, CountReceived, CountRemaining, CommitAmend, Abort, order
    <3>3. Next
      BY <1>1 DEF vars
    <3> QED
      BY <3>1, <3>2, <3>3, NextIs
  <2>2. Turn(job[r])
    BY <1>1 DEF SerialInv, InTurn
  <2>3. CASE CommitSend(r) \/ CommitShortClose(r) \/ CommitCancel(r) \/ CommitReceive(r)
    BY <2>2, <2>3 DEF CommitSend, CommitShortClose, CommitCancel, CommitReceive, Turn, Open
  <2> QED
    BY <2>1, <2>3
<1>2. OrderInv /\ SerialInv /\ [Next]_vars => SerialInv'
  BY SerialNext, NextInv
<1>3. OrderInv /\ SerialInv /\ [Next]_vars => [Shut]_vars
  BY <1>1
<1> QED
  BY <1>2, <1>3, InitInv, SerialInit, NextInv, PTL DEF Spec, OnlyVoidReopens

-----------------------------------------------------------------------------
(* A received order, whatever overlaps.                                    *)

\* The lines as they are, and as requests have read or found them.
Snapshots ==
  {lines} \union {job[r].read : r \in Requests} \union {job[r].found : r \in Requests}

\* Lines of one batch come and go together, and an id names one line.
Whole(S, T) == \A x \in S \intersect T, y \in S : y.id[1] = x.id[1] => y \in T

SameLines(S, T) == \A x \in S, y \in T : x.id = y.id => x = y

SnapInv ==
  /\ \A S \in Snapshots : \A x \in S : x.id[1] <= batches
  /\ \A S, T \in Snapshots : Whole(S, T) /\ SameLines(S, T)

NoneReversed == \A g \in Receipts : receipt[g].state # "reversed"

\* A receipt names lines that its request has read; if it is to complete the order, it does,
\* for those lines.
Seen(j) ==
  /\ j.op \in {"receive", "received"} =>
       /\ j.was \in Open
       /\ DOMAIN j.got # {} /\ DOMAIN j.got \subseteq Ids(j.read)
  /\ j.op = "received" /\ j.to = "received" /\ NoneReversed => Complete(Making(receipt, j), j.read)

\* One batch of the lines of a received order is complete, and stays: a receipt names it.
BatchDone ==
  \E x \in lines :
    /\ \E g \in Receipts : x.id \in DOMAIN receipt[g].got
    /\ \A y \in lines : y.id[1] = x.id[1] => Received(receipt, y.id) >= y.quantity

OverlapInv ==
  /\ SnapInv
  /\ \A r \in Requests : Seen(job[r])
  /\ status = "received" /\ NoneReversed => BatchDone

LEMMA SnapshotsAre ==
  /\ lines \in Snapshots
  /\ \A r \in Requests : job[r].read \in Snapshots /\ job[r].found \in Snapshots
  BY DEF Snapshots

LEMMA LineNumbers ==
  ASSUME OrderInv, NEW S \in Snapshots, NEW x \in S
  PROVE  /\ x \in Line /\ x.id \in LineId /\ x.id[1] \in 1..MaxBatches /\ x.quantity \in Nat
         /\ batches \in Nat
<1>1. S \in SUBSET Line
  BY DEF Snapshots, OrderInv, TypeOK, Job
<1> QED
  BY <1>1 DEF Line, LineId, OrderInv, TypeOK

\* No lines are written.
LEMMA SnapKept ==
  ASSUME SnapInv, NEW r \in Requests, Others(r), lines' = lines, batches' = batches,
         job'[r].read \in Snapshots \union {{}}, job'[r].found \in Snapshots \union {{}}
  PROVE  SnapInv'
<1>1. \A S \in Snapshots' : S \in Snapshots \union {{}}
  <2>1. \A q \in Requests \ {r} : job'[q].read \in Snapshots /\ job'[q].found \in Snapshots
    BY SnapshotsAre DEF Others
  <2>2. \A q \in Requests : /\ job'[q].read \in Snapshots \union {{}}
                            /\ job'[q].found \in Snapshots \union {{}}
    BY <2>1
  <2>3. lines' \in Snapshots
    BY SnapshotsAre
  <2> HIDE DEF Snapshots
  <2>4. Snapshots' = {lines'} \union {job'[q].read : q \in Requests}
                       \union {job'[q].found : q \in Requests}
    BY DEF Snapshots
  <2> QED
    BY <2>2, <2>3, <2>4
<1>2. \A S \in Snapshots' : \A x \in S : x.id[1] <= batches'
  BY <1>1 DEF SnapInv
<1>3. ASSUME NEW S \in Snapshots', NEW T \in Snapshots' PROVE Whole(S, T) /\ SameLines(S, T)
  <2>1. CASE S = {} \/ T = {}
    BY <2>1 DEF Whole, SameLines
  <2>2. CASE S \in Snapshots /\ T \in Snapshots
    BY <2>2 DEF SnapInv
  <2> QED
    BY <1>1, <2>1, <2>2
<1> QED
  BY <1>2, <1>3 DEF SnapInv, Whole, SameLines

\* No receipt is voided, and those that are live stay as they are.
LEMMA SeenKept ==
  ASSUME OrderInv, OrderInv', \A r \in Requests : Seen(job[r]), NEW r \in Requests, Others(r),
         NoneReversed' =>
           NoneReversed /\ \A g \in Receipts : receipt[g].state = "live" => receipt'[g] = receipt[g],
         Seen(job[r])'
  PROVE  \A q \in Requests : Seen(job[q])'
<1> SUFFICES ASSUME NEW q \in Requests \ {r} PROVE Seen(job[q])'
  OBVIOUS
<1>1. job'[q] = job[q] /\ Seen(job[q])
  BY DEF Others
<1>2. ASSUME job[q].op = "received", job[q].to = "received", NoneReversed'
      PROVE  Complete(Making(receipt', job[q]), job[q].read)
  <2> DEFINE rs == Making(receipt, job[q])
             qs == Making(receipt', job[q])
  <2>1. Complete(rs, job[q].read)
    BY <1>1, <1>2 DEF Seen
  <2>2. job[q].read \in SUBSET Line
    BY DEF OrderInv, TypeOK, Job
  <2>3. \A g \in Receipts : rs[g].state = "live" => qs[g] = rs[g]
    BY <1>2 DEF Making, OrderInv, TypeOK
  <2> HIDE DEF rs, qs
  <2>4. Complete(qs, job[q].read)
    BY <2>1, <2>2, <2>3, CompleteGrows
  <2> QED
    BY <2>4 DEF qs
<1> QED
  BY <1>1, <1>2 DEF Seen

LEMMA OverlapStarts ==
  ASSUME OrderInv, OrderInv', OverlapInv, NEW r \in Requests, Starts(r)
  PROVE  OverlapInv'
<1>1. Started(r, Idle)
  BY AllStart
<1>2. Others(r) /\ OrderSame /\ Checked(job'[r]) /\ job'[r].read = lines /\ job'[r].found = {}
  BY <1>1, IdleFields DEF Started
<1>3. SnapInv'
  BY <1>2, SnapKept, SnapshotsAre DEF OverlapInv, OrderSame
<1>4. Seen(job[r])'
  BY <1>2 DEF Seen, Checked
<1>5. \A q \in Requests : Seen(job[q])'
  BY <1>2, <1>4, SeenKept DEF OverlapInv, OrderSame, NoneReversed
<1>6. status' = "received" /\ NoneReversed' => BatchDone'
  BY <1>2 DEF OverlapInv, OrderSame, NoneReversed, BatchDone
<1> QED
  BY <1>3, <1>5, <1>6 DEF OverlapInv

LEMMA OverlapInside ==
  ASSUME OrderInv, OrderInv', OverlapInv, NEW r \in Requests,
         DeleteLines(r) \/ CountReceived(r) \/ CountRemaining(r)
  PROVE  OverlapInv'
<1>1. Inside(r) /\ (job'[r].found = lines \/ job'[r].found = job[r].found)
  BY DeleteDoes, ReceivedCountDoes, RemainingCountDoes
<1>2. Others(r) /\ OrderSame /\ Seen(job[r])
  BY <1>1 DEF Inside, OverlapInv
<1>3. SnapInv'
  BY <1>1, <1>2, SnapKept, SnapshotsAre DEF Inside, OverlapInv, OrderSame
<1>4. Seen(job[r])'
  <2>1. CASE DeleteLines(r)
    BY <2>1, DeleteDoes DEF Seen
  <2>2. CASE CountRemaining(r)
    BY <2>2, RemainingCountDoes DEF Seen
  <2>3. CASE CountReceived(r)
    <3>1. /\ job[r].op = "receive" /\ job'[r].op = "received"
          /\ job'[r].to = Progress(Making(receipt, job[r]), job[r].read, job[r].was)
      BY <2>3, ReceivedCountDoes
    <3>2. Making(receipt', job'[r]) = Making(receipt, job[r])
      BY <1>1 DEF Making, Inside, OrderSame
    <3>3. job[r].was \in Open
      BY <1>2, <3>1 DEF Seen
    <3>4. job'[r].to = "received" => Complete(Making(receipt, job[r]), job[r].read)
      BY <3>1, <3>3 DEF Progress, Open
    <3>5. job'[r].to = "received" => Complete(Making(receipt', job'[r]), job'[r].read)
      BY <1>1, <3>2, <3>4 DEF Inside
    <3> QED
      BY <1>1, <1>2, <3>1, <3>5 DEF Seen, Inside
  <2> QED
    BY <2>1, <2>2, <2>3
<1>5. \A q \in Requests : Seen(job[q])'
  BY <1>2, <1>4, SeenKept DEF OverlapInv, OrderSame, NoneReversed
<1>6. status' = "received" /\ NoneReversed' => BatchDone'
  BY <1>2 DEF OverlapInv, OrderSame, NoneReversed, BatchDone
<1> QED
  BY <1>3, <1>5, <1>6 DEF OverlapInv

\* A commit that leaves lines and receipts alone, and makes no order received.
LEMMA OverlapEnds ==
  ASSUME OrderInv, OrderInv', OverlapInv, NEW r \in Requests, Finish(r),
         lines' = lines, batches' = batches, receipt' = receipt,
         status' = "received" => status = "received"
  PROVE  OverlapInv'
<1>1. Others(r) /\ job'[r].op = "idle" /\ job'[r].read = {} /\ job'[r].found = {}
  BY FinishDoes, IdleFields
<1>2. SnapInv'
  BY <1>1, SnapKept DEF OverlapInv
<1>3. Seen(job[r])'
  BY <1>1 DEF Seen
<1>4. \A q \in Requests : Seen(job[q])'
  BY <1>1, <1>3, SeenKept DEF OverlapInv, NoneReversed
<1>5. status' = "received" /\ NoneReversed' => BatchDone'
  BY DEF OverlapInv, NoneReversed, BatchDone
<1> QED
  BY <1>2, <1>4, <1>5 DEF OverlapInv

\* New lines: a batch that no snapshot has; of the old ones, whole batches go.
LEMMA LinesReplaced ==
  ASSUME OrderInv, SnapInv, NEW r \in Requests, job[r].op = "deleted", Finish(r),
         batches' = batches + 1,
         lines' = (lines \ job[r].found) \union Numbered(job[r].new, batches')
  PROVE  SnapInv'
<1> DEFINE N == Numbered(job[r].new, batches')
           Old == lines \ job[r].found
<1>1. Others(r) /\ job'[r].read = {} /\ job'[r].found = {}
  BY FinishDoes, IdleFields
<1>2. \A S \in Snapshots' : S \in Snapshots \/ S = {} \/ S = lines'
  <2>1. \A q \in Requests : /\ job'[q].read \in Snapshots \union {{}}
                            /\ job'[q].found \in Snapshots \union {{}}
    BY <1>1, SnapshotsAre DEF Others
  <2>2. Snapshots' = {lines'} \union {job'[q].read : q \in Requests}
                       \union {job'[q].found : q \in Requests}
    BY DEF Snapshots
  <2> HIDE DEF Snapshots
  <2> QED
    BY <2>1, <2>2
<1>3. batches \in Nat /\ \A S \in Snapshots : \A x \in S : x.id[1] \in Nat /\ x.id[1] <= batches
  BY LineNumbers DEF SnapInv, OrderInv, TypeOK
<1>4. \A x \in N : x.id[1] = batches + 1
  BY DEF Numbered
<1>5. \A x, y \in N : x.id = y.id => x = y
  BY DEF Numbered
<1>6. lines' = Old \union N /\ lines \in Snapshots /\ job[r].found \in Snapshots
  BY SnapshotsAre
<1> HIDE DEF N
<1>7. ASSUME NEW T \in Snapshots PROVE Whole(lines', T) /\ Whole(T, lines')
  <2>1. \A x \in lines' \intersect T : x \in Old
    BY <1>3, <1>4, <1>6
  <2>2. ASSUME NEW x \in Old, NEW y \in lines', y.id[1] = x.id[1] PROVE y \in Old
    BY <1>3, <1>4, <1>6, <2>2
  <2>3. Whole(lines, T) /\ Whole(T, lines) /\ Whole(lines, job[r].found)
    BY <1>6 DEF SnapInv
  <2>4. ASSUME NEW x \in Old, NEW y \in lines, y.id[1] = x.id[1] PROVE y \in Old
    BY <2>3, <2>4 DEF Whole
  <2>5. Whole(lines', T)
    BY <2>1, <2>2, <2>3 DEF Whole
  <2>6. Whole(T, lines')
    BY <1>6, <2>1, <2>3, <2>4 DEF Whole
  <2> QED
    BY <2>5, <2>6
<1>8. ASSUME NEW T \in Snapshots PROVE SameLines(lines', T) /\ SameLines(T, lines')
  <2>1. SameLines(lines, T) /\ SameLines(T, lines)
    BY <1>6 DEF SnapInv
  <2>2. \A x \in N, y \in T : x.id # y.id
    BY <1>3, <1>4
  <2> QED
    BY <1>6, <2>1, <2>2 DEF SameLines
<1>9. Whole(lines', lines') /\ SameLines(lines', lines')
  <2>1. SameLines(lines, lines)
    BY <1>6 DEF SnapInv
  <2>2. \A x \in N, y \in Old : x.id # y.id
    BY <1>3, <1>4, <1>6
  <2> QED
    BY <1>5, <1>6, <2>1, <2>2 DEF SameLines, Whole
<1>10. \A S \in Snapshots' : \A x \in S : x.id[1] <= batches'
  BY <1>2, <1>3, <1>4, <1>6
<1>11. ASSUME NEW S \in Snapshots', NEW T \in Snapshots' PROVE Whole(S, T) /\ SameLines(S, T)
  <2>1. CASE S = {} \/ T = {}
    BY <2>1 DEF Whole, SameLines
  <2>2. CASE S \in Snapshots /\ T \in Snapshots
    BY <2>2 DEF SnapInv
  <2>3. CASE S = lines' \/ T = lines'
    BY <1>2, <1>7, <1>8, <1>9, <2>1, <2>3
  <2> QED
    BY <1>2, <2>1, <2>2, <2>3
<1> QED
  BY <1>10, <1>11 DEF SnapInv, Whole, SameLines

LEMMA OverlapAmends ==
  ASSUME OrderInv, OrderInv', OverlapInv, NEW r \in Requests, CommitAmend(r)
  PROVE  OverlapInv'
<1>1. Finish(r) /\ status' = status /\ receipt' = receipt
  BY DEF CommitAmend
<1>2. CASE UNCHANGED <<lines, batches>>
  BY <1>1, <1>2, OverlapEnds
<1>3. CASE /\ job[r].op = "deleted" /\ ~Recorded(job[r].found) /\ batches' = batches + 1
           /\ lines' = (lines \ job[r].found) \union Numbered(job[r].new, batches')
  <2>1. SnapInv'
    BY <1>1, <1>3, LinesReplaced DEF OverlapInv
  <2>2. Others(r) /\ job'[r].op = "idle"
    BY <1>1, FinishDoes, IdleFields
  <2>3. Seen(job[r])'
    BY <2>2 DEF Seen
  <2>4. \A q \in Requests : Seen(job[q])'
    BY <1>1, <2>2, <2>3, SeenKept DEF OverlapInv, NoneReversed
  <2>5. ASSUME status' = "received", NoneReversed' PROVE BatchDone'
    <3>1. BatchDone
      BY <1>1, <2>5 DEF OverlapInv, NoneReversed
    <3>2. PICK x \in lines :
            /\ \E g \in Receipts : x.id \in DOMAIN receipt[g].got
            /\ \A y \in lines : y.id[1] = x.id[1] => Received(receipt, y.id) >= y.quantity
      BY <3>1 DEF BatchDone
    <3>3. x \notin job[r].found
      BY <1>3, <3>2 DEF Recorded, Ids
    <3>4. x \in lines'
      BY <1>3, <3>3
    <3>5. \A y \in Numbered(job[r].new, batches') : y.id[1] = batches + 1
      BY <1>3 DEF Numbered
    <3>6. batches \in Nat /\ x.id[1] \in Nat /\ x.id[1] <= batches
      BY LineNumbers, SnapshotsAre DEF OverlapInv, SnapInv
    <3>7. \A y \in lines' : y.id[1] = x.id[1] => y \in lines
      BY <1>3, <3>5, <3>6
    <3> QED
      BY <1>1, <3>2, <3>4, <3>7 DEF BatchDone
  <2> QED
    BY <2>1, <2>4, <2>5 DEF OverlapInv
<1> QED
  BY <1>2, <1>3 DEF CommitAmend

LEMMA OverlapReceives ==
  ASSUME OrderInv, OrderInv', OverlapInv, NEW r \in Requests, CommitReceive(r)
  PROVE  OverlapInv'
<1>1. /\ job[r].op = "received" /\ Finish(r) /\ status' = job[r].to
      /\ lines' = lines /\ batches' = batches /\ receipt' = Making(receipt, job[r])
      /\ DOMAIN job[r].got \subseteq Ids(lines)
  BY DEF CommitReceive, Making
<1>2. job[r].receipt \in Receipts /\ receipt[job[r].receipt].state = "unborn"
  BY <1>1 DEF OrderInv, JobInv
<1>3. \A g \in Receipts \ {job[r].receipt} : receipt'[g] = receipt[g]
  BY <1>1 DEF Making, OrderInv, TypeOK
<1>4. receipt'[job[r].receipt].state = "live" /\ receipt'[job[r].receipt].got = job[r].got
  BY <1>1, <1>2 DEF Making, OrderInv, TypeOK
<1>5. NoneReversed' =>
        NoneReversed /\ \A g \in Receipts : receipt[g].state = "live" => receipt'[g] = receipt[g]
  BY <1>2, <1>3 DEF NoneReversed
<1>6. Others(r) /\ job'[r].op = "idle" /\ job'[r].read = {} /\ job'[r].found = {}
  BY <1>1, FinishDoes, IdleFields
<1>7. SnapInv'
  BY <1>1, <1>6, SnapKept DEF OverlapInv
<1>8. Seen(job[r])'
  BY <1>6 DEF Seen
<1>9. \A q \in Requests : Seen(job[q])'
  BY <1>5, <1>6, <1>8, SeenKept DEF OverlapInv
<1>10. ASSUME status' = "received", NoneReversed' PROVE BatchDone'
  <2>1. /\ Complete(receipt', job[r].read)
        /\ DOMAIN job[r].got # {} /\ DOMAIN job[r].got \subseteq Ids(job[r].read)
    BY <1>1, <1>5, <1>10 DEF OverlapInv, Seen
  <2>2. PICK x \in job[r].read, z \in lines : x.id \in DOMAIN job[r].got /\ z.id = x.id
    BY <1>1, <2>1 DEF Ids
  <2>3. Whole(lines, job[r].read) /\ SameLines(lines, job[r].read)
    BY SnapshotsAre DEF OverlapInv, SnapInv
  <2>4. x \in lines
    BY <2>2, <2>3 DEF SameLines
  <2>5. \A y \in lines : y.id[1] = x.id[1] => y \in job[r].read
    BY <2>3, <2>4 DEF Whole
  <2>6. \A y \in lines : y.id[1] = x.id[1] => Received(receipt', y.id) >= y.quantity
    BY <2>1, <2>5 DEF Complete
  <2>7. \E g \in Receipts : x.id \in DOMAIN receipt'[g].got
    BY <1>2, <1>4, <2>2
  <2> QED
    BY <1>1, <2>4, <2>6, <2>7 DEF BatchDone
<1> QED
  BY <1>7, <1>9, <1>10 DEF OverlapInv

LEMMA OverlapVoids ==
  ASSUME OrderInv, OrderInv', OverlapInv, NEW r \in Requests, CommitVoid(r)
  PROVE  OverlapInv'
<1>1. /\ Finish(r) /\ lines' = lines /\ batches' = batches
      /\ receipt' = Voiding(receipt, job[r]) /\ job[r].receipt \in Receipts
  BY DEF CommitVoid, Voiding, OrderInv, JobInv
<1>2. receipt'[job[r].receipt].state = "reversed"
  BY <1>1 DEF Voiding, Voided, OrderInv, TypeOK
<1>3. ~NoneReversed'
  BY <1>1, <1>2 DEF NoneReversed
<1>4. Others(r) /\ job'[r].op = "idle" /\ job'[r].read = {} /\ job'[r].found = {}
  BY <1>1, FinishDoes, IdleFields
<1>5. SnapInv'
  BY <1>1, <1>4, SnapKept DEF OverlapInv
<1>6. Seen(job[r])'
  BY <1>4 DEF Seen
<1>7. \A q \in Requests : Seen(job[q])'
  BY <1>3, <1>4, <1>6, SeenKept DEF OverlapInv
<1> QED
  BY <1>3, <1>5, <1>7 DEF OverlapInv

LEMMA OverlapInit == Init => OverlapInv
<1> SUFFICES ASSUME Init PROVE OverlapInv
  OBVIOUS
<1>1. \A r \in Requests : job[r].op = "idle" /\ job[r].read = {} /\ job[r].found = {}
  BY IdleFields DEF Init
<1>2. \A S \in Snapshots : S = lines \/ S = {}
  BY <1>1 DEF Snapshots
<1>3. (\A x \in lines : x.id[1] = 1) /\ \A x, y \in lines : x.id = y.id => x = y
  BY DEF Init, Numbered
<1>4. SnapInv
  <2>1. \A S \in Snapshots : \A x \in S : x.id[1] = 1 /\ x \in lines
    BY <1>2, <1>3
  <2>2. \A S \in Snapshots : \A x \in S : x.id[1] <= batches
    BY <2>1 DEF Init
  <2>3. ASSUME NEW S \in Snapshots, NEW T \in Snapshots PROVE Whole(S, T)
    <3>1. CASE S = {} \/ T = {}
      BY <3>1 DEF Whole
    <3>2. CASE S = lines /\ T = lines
      BY <3>2 DEF Whole
    <3> QED
      BY <1>2, <3>1, <3>2
  <2>4. ASSUME NEW S \in Snapshots, NEW T \in Snapshots PROVE SameLines(S, T)
    BY <1>3, <2>1 DEF SameLines
  <2> QED
    BY <2>2, <2>3, <2>4 DEF SnapInv
<1> QED
  BY <1>1, <1>4 DEF OverlapInv, Seen, Init

LEMMA OverlapNext ==
  ASSUME OrderInv, OrderInv', OverlapInv, [Next]_vars
  PROVE  OverlapInv'
<1>1. ASSUME NEW r \in Requests, CommitSend(r) \/ CommitShortClose(r) \/ CommitCancel(r)
      PROVE  OverlapInv'
  BY <1>1, OverlapEnds DEF CommitSend, CommitShortClose, CommitCancel
<1>2. ASSUME NEW r \in Requests, Abort(r) PROVE OverlapInv'
  BY <1>2, OverlapEnds DEF Abort, order
<1>3. CASE UNCHANGED vars
  BY <1>3 DEF vars, OverlapInv, SnapInv, Snapshots, Whole, SameLines, Seen, NoneReversed, BatchDone
<1> QED
  BY <1>1, <1>2, <1>3, OverlapStarts, OverlapInside, OverlapAmends, OverlapReceives, OverlapVoids,
     NextIs

\* The progress an order claims is the progress its live receipts make on the lines it has, as
\* long as requests have not overlapped; and an order that counts as received is complete
\* whatever overlaps, while no receipt has been voided and its lines are of one amendment
\* (purchase-orders.service.ts receive and liveReceived): for any number of receipts, lines
\* and amendments, and any quantities.
THEOREM ProgressIsDelivered == Spec => []ProgressFollowsReceipts
<1>1. OrderInv /\ SerialInv /\ OverlapInv => ProgressFollowsReceipts
  <2> SUFFICES ASSUME OrderInv, SerialInv, OverlapInv PROVE ProgressFollowsReceipts
    OBVIOUS
  <2>1. ASSUME ~overlapped
        PROVE  /\ status = "received" => AllDelivered
               /\ status = "partially_received" => ~AllDelivered /\ ~NoneDelivered
               /\ status = "sent" => NoneDelivered
    BY <2>1, DeliveredIsComplete, NoneIsNotPartial DEF SerialInv, InTurn, Claims
  <2>2. ASSUME status = "received", \A g \in Receipts : receipt[g].state # "reversed",
               \A x, y \in lines : x.id[1] = y.id[1]
        PROVE  AllDelivered
    <3>1. BatchDone
      BY <2>2 DEF OverlapInv, NoneReversed
    <3>2. Complete(receipt, lines)
      BY <2>2, <3>1 DEF BatchDone, Complete
    <3> QED
      BY <3>2, DeliveredIsComplete
  <2> QED
    BY <2>1, <2>2 DEF ProgressFollowsReceipts
<1>2. OrderInv /\ SerialInv /\ [Next]_vars => SerialInv'
  BY SerialNext, NextInv
<1>3. OrderInv /\ OverlapInv /\ [Next]_vars => OverlapInv'
  BY OverlapNext, NextInv
<1> QED
  BY <1>1, <1>2, <1>3, InitInv, SerialInit, OverlapInit, NextInv, PTL DEF Spec
=============================================================================
