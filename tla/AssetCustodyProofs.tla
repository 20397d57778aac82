------------------------- MODULE AssetCustodyProofs -------------------------
(***************************************************************************)
(* Theorems about AssetCustody for every set of assets, employees, repair  *)
(* tickets and request slots.                                              *)
(***************************************************************************)
EXTENDS AssetCustody, TLAPS

-----------------------------------------------------------------------------
(* Writes and plans are well formed.                                       *)

\* Every shape of write the handlers use is a write.
LEMMA WriteTypes ==
  /\ NoWrite \in Write
  /\ CloseOnly \in Write
  /\ \A s \in AssetStatus : Restate(s) \in Write /\ Vacate(s) \in Write
  /\ \A e \in Employees, s \in AssetStatus : HandOver(e, s) \in Write
  /\ \A h \in Employees \union {NoOne}, s \in AssetStatus : Rewrite(h, s) \in Write
  BY DEF Write, NoWrite, CloseOnly, Restate, Vacate, HandOver, Rewrite

\* ... and every shape of plan a plan.
LEMMA PlanTypes ==
  /\ NoPlan \in Plan
  /\ \A k \in Kind, a \in Assets, w \in Write : AssetPlan(k, a, w) \in Plan
  /\ \A t \in Tickets, s \in RepairStatus, a \in Assets, w \in Write :
       RepairPlan(t, s, a, w) \in Plan
  /\ \A k \in Kind, e \in Employees, S \in SUBSET Assets, f \in [Assets -> Write] :
       EmployeePlan(k, e, S, f) \in Plan
  <1>1. "reported" \in RepairStatus /\ "none" \in Kind /\ "repair" \in Kind
    BY DEF RepairStatus, Kind
  <1>2. \A a \in Assets, w \in Write :
          [b \in Assets |-> IF b = a THEN w ELSE NoWrite] \in [Assets -> Write]
    BY WriteTypes
  <1>3. NoPlan \in Plan
    BY <1>1, WriteTypes DEF NoPlan, Plan
  <1>4. ASSUME NEW k \in Kind, NEW a \in Assets, NEW w \in Write
        PROVE  AssetPlan(k, a, w) \in Plan
    BY <1>1, <1>2 DEF AssetPlan, Plan
  <1>5. ASSUME NEW t \in Tickets, NEW s \in RepairStatus, NEW a \in Assets, NEW w \in Write
        PROVE  RepairPlan(t, s, a, w) \in Plan
    BY <1>1, <1>2 DEF RepairPlan, Plan
  <1>6. ASSUME NEW k \in Kind, NEW e \in Employees, NEW S \in SUBSET Assets,
               NEW f \in [Assets -> Write]
        PROVE  EmployeePlan(k, e, S, f) \in Plan
    BY <1>1 DEF EmployeePlan, Plan
  <1> QED
    BY <1>3, <1>4, <1>5, <1>6

\* What a repair step writes to an asset is a write.
LEMMA RepairWriteType ==
  ASSUME TypeOK, NEW a \in Assets, NEW s \in RepairStatus, NEW e \in Employees \union {NoOne}
  PROVE  RepairWrite(a, s, e) \in Write
  <1>1. {"available", "assigned", "under_repair"} \subseteq AssetStatus
    BY DEF AssetStatus
  <1>2. holder[a] \in Employees \union {NoOne}
    BY DEF TypeOK
  <1>3. ReassignWrite(a, e) \in Write
    BY <1>1, <1>2, WriteTypes DEF ReassignWrite
  <1> QED
    BY <1>1, <1>3, WriteTypes DEF RepairWrite

\* What an offboarding writes to an asset is a write.
LEMMA OffboardWriteType ==
  ASSUME NEW a \in Assets, NEW k \in Offboarding, NEW target \in Employees
  PROVE  OffboardWrite(a, k, target) \in Write
  <1>1. {"available", "assigned", "under_repair"} \subseteq AssetStatus
    BY DEF AssetStatus
  <1> QED
    BY <1>1, WriteTypes DEF OffboardWrite, Offboarding

\* The shapes of write that the handlers plan for an asset all pass PlanShape
\* and PlanFits.
LEMMA WriteShapes ==
  /\ NoWrite.opened = NoOne /\ ~NoWrite.close /\ NoWrite.holder = Keep /\ NoWrite.status = Keep
  /\ CloseOnly.opened = NoOne /\ CloseOnly.close /\ CloseOnly.holder = Keep
  /\ CloseOnly.status = Keep
  /\ \A s : Restate(s).opened = NoOne /\ ~Restate(s).close /\ Restate(s).holder = Keep
  /\ \A s : Vacate(s).opened = NoOne /\ Vacate(s).close /\ Vacate(s).holder = NoOne
  /\ \A e, s : HandOver(e, s).close /\ HandOver(e, s).holder = e /\ HandOver(e, s).opened = e
  /\ \A h, s : Rewrite(h, s).opened = NoOne /\ ~Rewrite(h, s).close /\ Rewrite(h, s).holder = h
  BY DEF NoWrite, CloseOnly, Restate, Vacate, HandOver, Rewrite

\* A well-formed plan, made from the rows as they are now.
GoodPlan(p) == p \in Plan /\ PlanShape(p) /\ PlanFits(p)

LEMMA UnbornIsNoStatus ==
  /\ "unborn" \notin AssetStatus /\ "deleted" \notin AssetStatus
  /\ "unborn" \notin RepairStatus /\ "deleted" \notin RepairStatus
  BY DEF AssetStatus, RepairStatus

LEMMA AssetPlanGood ==
  ASSUME NEW k \in Kind \ Offboarding, NEW a \in Assets, NEW w \in Write,
         Exists(a),
         w.opened # NoOne => w.close /\ w.holder = w.opened,
         w.close /\ w.opened = NoOne => w.holder = NoOne,
         ~w.close /\ w.holder # Keep => w.holder = holder[a]
  PROVE  GoodPlan(AssetPlan(k, a, w))
  BY PlanTypes, UnbornIsNoStatus DEF Exists, GoodPlan, AssetPlan, Offboarding, PlanShape, PlanFits

LEMMA RepairPlanGood ==
  ASSUME NEW t \in Tickets, NEW s \in RepairStatus, NEW a \in Assets, NEW w \in Write,
         Exists(a),
         w.opened # NoOne => w.close /\ w.holder = w.opened,
         w.close /\ w.opened = NoOne => w.holder = NoOne,
         ~w.close /\ w.holder # Keep => w.holder = holder[a]
  PROVE  GoodPlan(RepairPlan(t, s, a, w))
  BY PlanTypes, UnbornIsNoStatus DEF Exists, GoodPlan, RepairPlan, Offboarding, PlanShape, PlanFits

LEMMA NoPlanGood == GoodPlan(NoPlan)
  BY PlanTypes DEF GoodPlan, NoPlan, PlanShape, PlanFits, Offboarding

\* Whatever a request begins, it begins with a good plan.
LEMMA BeginGood ==
  ASSUME TypeOK, NEW r \in Requests, Begin(r)
  PROVE  \E p : GoodPlan(p) /\ Start(r, p)
  <1>0. {"asset", "remove"} \subseteq Kind \ Offboarding /\ "reinstate" \in Kind /\ Offboarding \subseteq Kind
    BY DEF Kind, Offboarding
  <1>s. {"assigned", "retired"} \subseteq AssetStatus
    BY DEF AssetStatus
  <1>1. ASSUME NEW a \in Assets, NEW s \in AssetStatus, BeginUpdate(r, a, s)
        PROVE  \E p : GoodPlan(p) /\ Start(r, p)
    BY <1>1, <1>0, WriteTypes, WriteShapes, AssetPlanGood DEF BeginUpdate
  <1>2. ASSUME NEW a \in Assets, NEW e \in Employees, BeginAssign(r, a, e)
        PROVE  \E p : GoodPlan(p) /\ Start(r, p)
    BY <1>2, <1>0, <1>s, WriteTypes, WriteShapes, AssetPlanGood DEF BeginAssign
  <1>3. ASSUME NEW a \in Assets, NEW e \in Employees, BeginTransfer(r, a, e)
        PROVE  \E p : GoodPlan(p) /\ Start(r, p)
    BY <1>3, <1>0, <1>s, WriteTypes, WriteShapes, AssetPlanGood DEF BeginTransfer
  <1>4. ASSUME NEW a \in Assets, BeginRelocate(r, a)
        PROVE  \E p : GoodPlan(p) /\ Start(r, p)
    BY <1>4, <1>0, WriteTypes, WriteShapes, AssetPlanGood DEF BeginRelocate, Exists, TypeOK
  <1>5. ASSUME NEW a \in Assets, BeginRetire(r, a)
        PROVE  \E p : GoodPlan(p) /\ Start(r, p)
    BY <1>5, <1>0, <1>s, WriteTypes, WriteShapes, AssetPlanGood DEF BeginRetire
  <1>6. ASSUME NEW a \in Assets, NEW s \in AssetStatus, BeginChangeStatus(r, a, s)
        PROVE  \E p : GoodPlan(p) /\ Start(r, p)
    BY <1>6, <1>0, WriteTypes, WriteShapes, AssetPlanGood DEF BeginChangeStatus
  <1>7. ASSUME NEW a \in Assets, BeginRemove(r, a)
        PROVE  \E p : GoodPlan(p) /\ Start(r, p)
    BY <1>7, <1>0, WriteTypes, WriteShapes, AssetPlanGood DEF BeginRemove, Exists, AssetStatus
  <1>8. ASSUME NEW t \in Tickets, NEW s \in RepairStatus, NEW e \in Employees \union {NoOne},
               BeginRepairStep(r, t, s, e)
        PROVE  \E p : GoodPlan(p) /\ Start(r, p)
    <2> DEFINE a == ticketAsset[t]
               w == RepairWrite(a, s, e)
    <2>1. a \in Assets /\ Exists(a)
      BY <1>8, UnbornIsNoStatus DEF BeginRepairStep, TypeOK
    <2>2. w \in Write
      BY <2>1, RepairWriteType
    <2>3. w.opened # NoOne => w.close /\ w.holder = w.opened
      BY WriteShapes DEF RepairWrite, ReassignWrite
    <2>4. ~w.close /\ w.holder # Keep => w.holder = holder[a]
      BY WriteShapes DEF RepairWrite, ReassignWrite
    <2>5. w.close /\ w.opened = NoOne => w.holder = NoOne
      BY WriteShapes DEF RepairWrite, ReassignWrite
    <2>6. GoodPlan(RepairPlan(t, s, a, w))
      BY <2>1, <2>2, <2>3, <2>4, <2>5, RepairPlanGood
    <2> QED
      BY <2>6, <1>8 DEF BeginRepairStep
  <1>9. ASSUME NEW e \in Employees, NEW target \in Employees, NEW k \in OffboardModes,
               BeginOffboard(r, e, k, target)
        PROVE  \E p : GoodPlan(p) /\ Start(r, p)
    <2>1. k \in Offboarding
      BY CustodyConstants
    <2> DEFINE held == {a \in Assets : Exists(a) /\ holder[a] = e}
               f == [a \in Assets |-> IF a \in held THEN OffboardWrite(a, k, target) ELSE NoWrite]
    <2>2. f \in [Assets -> Write]
      BY <2>1, WriteTypes, OffboardWriteType
    <2>3. EmployeePlan(k, e, held, f) \in Plan
      BY <2>1, <2>2, <1>0, PlanTypes
    <2>4. ASSUME NEW a \in held
          PROVE  /\ f[a].opened # NoOne => f[a].close /\ f[a].holder = f[a].opened
                 /\ f[a].close
                 /\ k # "keep" /\ f[a].opened = NoOne => f[a].holder = NoOne
                 /\ k = "keep" => f[a] = CloseOnly
      <3>1. f[a] = OffboardWrite(a, k, target)
        OBVIOUS
      <3>2. CASE k = "return"
        BY <3>1, <3>2, WriteShapes DEF OffboardWrite
      <3>3. CASE k = "reassign"
        BY <3>1, <3>3, WriteShapes, CustodyConstants DEF OffboardWrite
      <3>4. CASE k = "keep"
        BY <3>1, <3>4, WriteShapes DEF OffboardWrite
      <3> QED
        BY <2>1, <3>2, <3>3, <3>4 DEF Offboarding
    <2>5. GoodPlan(EmployeePlan(k, e, held, f))
      BY <2>3, <2>4, WriteShapes, UnbornIsNoStatus DEF Exists, GoodPlan, EmployeePlan, PlanShape, PlanFits
    <2> QED
      BY <2>5, <1>9 DEF BeginOffboard
  <1>10. ASSUME NEW e \in Employees, BeginReinstate(r, e)
         PROVE  \E p : GoodPlan(p) /\ Start(r, p)
    <2>1. EmployeePlan("reinstate", e, {}, NoPlan.write) \in Plan
      BY <1>0, PlanTypes, WriteTypes DEF NoPlan
    <2>2. GoodPlan(EmployeePlan("reinstate", e, {}, NoPlan.write))
      BY <2>1 DEF GoodPlan, EmployeePlan, PlanShape, PlanFits, Offboarding
    <2> QED
      BY <2>2, <1>10 DEF BeginReinstate
  <1> QED
    BY <1>1, <1>2, <1>3, <1>4, <1>5, <1>6, <1>7, <1>8, <1>9, <1>10 DEF Begin

-----------------------------------------------------------------------------
(* Type correctness.                                                       *)

LEMMA TypeInit == Init => TypeOK
  BY PlanTypes DEF Init, TypeOK, RepairStatus

LEMMA TypeStep == TypeOK /\ [Next]_vars => TypeOK'
  <1> SUFFICES ASSUME TypeOK, [Next]_vars PROVE TypeOK'
    OBVIOUS
  <1> USE UnbornIsNoStatus DEF Exists
  <1>s. {"available", "pending_assignment"} \subseteq AssetStatus /\ "reported" \in RepairStatus
        /\ "deleted" \notin RepairStatus
    BY DEF AssetStatus, RepairStatus
  <1>1. ASSUME NEW a \in Assets, CreateAsset(a) PROVE TypeOK'
    BY <1>1, <1>s DEF CreateAsset, inflight, TypeOK
  <1>2. ASSUME NEW a \in Assets, Delete(a), TypeOK PROVE
               /\ status' \in [Assets -> AssetStatus \union {"unborn", "deleted"}]
               /\ holder' \in [Assets -> Employees \union {NoOne}]
               /\ rows' \subseteq Row
               /\ active' \in [Employees -> BOOLEAN]
               /\ ticketStatus' \in [Tickets -> RepairStatus \union {"unborn", "deleted"}]
               /\ ticketAsset' \in [Tickets -> Assets \union {NoAsset}]
               /\ \A t \in Tickets : ticketStatus'[t] # "unborn" => ticketAsset'[t] \in Assets
               /\ \A t \in Tickets : ticketStatus'[t] \in RepairStatus => Exists(ticketAsset[t])'
    BY <1>2, <1>s DEF Delete, TypeOK, RowsOf
  <1>3. ASSUME NEW r \in Requests, Finish(r), TypeOK PROVE
               /\ phase' \in [Requests -> {"idle", "planned", "closed"}]
               /\ plan' \in [Requests -> Plan]
               /\ closing' \in [Requests -> SUBSET Row]
               /\ raced' \subseteq Assets
    BY <1>3, PlanTypes DEF Finish, TypeOK
  <1>4. ASSUME NEW a \in Assets, ImportRollback(a) PROVE TypeOK'
    BY <1>4, <1>2 DEF ImportRollback, inflight, TypeOK
  <1>5. ASSUME NEW t \in Tickets, NEW a \in Assets, ReportIssue(t, a) PROVE TypeOK'
    BY <1>5, <1>s DEF ReportIssue, inflight, TypeOK
  <1>6. ASSUME NEW e \in Employees, NEW b \in BOOLEAN, SetEmployeeActive(e, b) PROVE TypeOK'
    BY <1>6 DEF SetEmployeeActive, inflight, TypeOK
  <1>7. ASSUME NEW r \in Requests, Begin(r) PROVE TypeOK'
    <2>1. PICK p : p \in Plan /\ Start(r, p)
      BY <1>7, BeginGood DEF GoodPlan
    <2>2. raced' \subseteq Assets
      BY <2>1 DEF Start, TypeOK, Plan
    <2> QED
      BY <2>1, <2>2 DEF Start, tables, TypeOK
  <1>8. ASSUME NEW r \in Requests, Close(r) PROVE TypeOK'
    BY <1>8 DEF Close, ToClose, tables, TypeOK
  <1>9. ASSUME NEW r \in Requests, Commit(r) PROVE TypeOK'
    <2> DEFINE p == plan[r]
    <2>1. p \in Plan
      BY DEF TypeOK
    <2>2. \A a \in Assets : p.write[a] \in Write
      BY <2>1 DEF Plan
    <2>3. /\ status' \in [Assets -> AssetStatus \union {"unborn", "deleted"}]
          /\ holder' \in [Assets -> Employees \union {NoOne}]
      BY <1>9, <2>2 DEF Commit, TypeOK, Write
    <2>4. rows' \subseteq Row
      BY <1>9 DEF Commit, Inserted, TypeOK
    <2>5. active' \in [Employees -> BOOLEAN]
      BY <1>9, <2>1 DEF Commit, TypeOK, Plan
    <2>6. /\ ticketStatus' \in [Tickets -> RepairStatus \union {"unborn", "deleted"}]
          /\ ticketAsset' \in [Tickets -> Assets \union {NoAsset}]
          /\ \A t \in Tickets : ticketStatus'[t] # "unborn" => ticketAsset'[t] \in Assets
          /\ \A t \in Tickets : ticketStatus'[t] \in RepairStatus => Exists(ticketAsset[t])'
      BY <1>9, <2>1, <2>2 DEF Commit, TargetsExist, TypeOK, Plan, Write
    <2> QED
      BY <1>9, <1>3, <2>3, <2>4, <2>5, <2>6 DEF Commit, TypeOK
  <1>10. ASSUME NEW r \in Requests, CommitRemove(r) PROVE TypeOK'
    <2>1. PICK a \in plan[r].on : Delete(a)
      BY <1>10 DEF CommitRemove
    <2>2. a \in Assets
      BY DEF TypeOK, Plan
    <2> QED
      BY <1>10, <2>1, <2>2, <1>2, <1>3 DEF CommitRemove, TypeOK
  <1>11. ASSUME NEW r \in Requests, Abort(r) PROVE TypeOK'
    BY <1>11, <1>3 DEF Abort, tables, TypeOK
  <1>12. CASE UNCHANGED vars
    BY <1>12 DEF vars, TypeOK
  <1> QED
    BY <1>1, <1>4, <1>5, <1>6, <1>7, <1>8, <1>9, <1>10, <1>11, <1>12 DEF Next

\* Every reachable state is well typed: in particular every plan in flight,
\* and every open assignment, names existing assets, employees and tickets.
THEOREM TypeCorrect == Spec => []TypeOK
  BY TypeInit, TypeStep, PTL DEF Spec

-----------------------------------------------------------------------------
(* One open assignment per slot.                                           *)

\* Between two slots nothing is shared but the tables: a step of slot r leaves
\* the plan of every other slot, and what it has found, as they are.
LEMMA OthersKeep ==
  ASSUME TypeOK, NEW r \in Requests, NEW q \in Requests, q # r,
         Begin(r) \/ Close(r) \/ Commit(r) \/ CommitRemove(r) \/ Abort(r)
  PROVE  phase'[q] = phase[q] /\ plan'[q] = plan[q] /\ closing'[q] = closing[q]
  <1>1. ASSUME NEW p, Start(r, p)
        PROVE  phase'[q] = phase[q] /\ plan'[q] = plan[q] /\ closing'[q] = closing[q]
    BY <1>1 DEF Start, TypeOK
  <1>2. ASSUME Finish(r)
        PROVE  phase'[q] = phase[q] /\ plan'[q] = plan[q] /\ closing'[q] = closing[q]
    BY <1>2 DEF Finish, TypeOK
  <1>3. ASSUME Close(r)
        PROVE  phase'[q] = phase[q] /\ plan'[q] = plan[q] /\ closing'[q] = closing[q]
    BY <1>3 DEF Close, TypeOK
  <1> QED
    BY <1>1, <1>2, <1>3, BeginGood DEF Commit, CommitRemove, Abort

\* What slot r inserts on an asset it has first closed there, own rows included.
LEMMA CommitSlot ==
  ASSUME TypeOK, SlotInv, NEW r \in Requests, Commit(r)
  PROVE  OneRowPerSlot'
  <1> DEFINE p == plan[r]
  <1>1. p \in Plan /\ PlanShape(p)
    BY DEF SlotInv, TypeOK
  <1>2. rows' = (rows \ closing[r]) \union Inserted(r)
    BY DEF Commit
  <1>3. ASSUME NEW x \in Inserted(r), NEW y \in rows \ closing[r], x.asset = y.asset, x.by = y.by
        PROVE  FALSE
    <2>1. x.by = r /\ x.asset \in p.on /\ x.employee \in Employees
          /\ p.write[x.asset].opened = x.employee
      BY <1>3 DEF Inserted, Row
    <2>2. p.write[x.asset].close
      BY <2>1, <1>1, CustodyConstants DEF PlanShape
    <2>3. phase[r] = "closed"
      BY <2>1, <2>2 DEF Commit, NeedsClose
    <2>4. y \in ToClose(r) /\ y.by = r
      BY <2>1, <2>2, <1>3 DEF ToClose
    <2> QED
      BY <2>3, <2>4, <1>3 DEF SlotInv
  <1>4. ASSUME NEW x \in Inserted(r), NEW y \in Inserted(r), x.asset = y.asset PROVE x = y
    BY <1>4 DEF Inserted, Row
  <1>5. ASSUME NEW x \in rows, NEW y \in rows, x.asset = y.asset, x.by = y.by PROVE x = y
    BY <1>5 DEF SlotInv, OneRowPerSlot
  <1>6. \A x, y : x \in rows' /\ y \in rows' /\ x.asset = y.asset /\ x.by = y.by => x = y
    BY <1>2, <1>3, <1>4, <1>5
  <1> QED
    BY <1>6 DEF OneRowPerSlot

LEMMA SlotInit == Init => SlotInv
  BY NoPlanGood DEF Init, SlotInv, OneRowPerSlot, GoodPlan

\* A step that adds no row and changes no slot keeps the invariant.
LEMMA SlotUnchanged ==
  ASSUME SlotInv, rows' \subseteq rows, UNCHANGED inflight
  PROVE  SlotInv'
  BY DEF SlotInv, OneRowPerSlot, ToClose, PlanShape, inflight

LEMMA SlotStep == TypeOK /\ SlotInv /\ [Next]_vars => SlotInv'
  <1> SUFFICES ASSUME TypeOK, SlotInv, [Next]_vars PROVE SlotInv'
    OBVIOUS
  <1>1. CASE \/ \E a \in Assets : CreateAsset(a) \/ ImportRollback(a)
             \/ \E t \in Tickets, a \in Assets : ReportIssue(t, a)
             \/ \E e \in Employees, b \in BOOLEAN : SetEmployeeActive(e, b)
             \/ UNCHANGED vars
    <2>1. rows' \subseteq rows /\ UNCHANGED inflight
      BY <1>1 DEF CreateAsset, ImportRollback, Delete, ReportIssue, SetEmployeeActive, vars, inflight
    <2> QED
      BY <2>1, SlotUnchanged
  <1>2. ASSUME NEW r \in Requests, Begin(r) PROVE SlotInv'
    <2>1. PICK p : GoodPlan(p) /\ Start(r, p)
      BY <1>2, BeginGood
    <2>2. ASSUME NEW q \in Requests
          PROVE  /\ PlanShape(plan'[q])
                 /\ phase'[q] = "closed" => \A x \in ToClose(q)' : x.by = q => x \in closing'[q]
      <3>1. CASE q = r
        BY <3>1, <2>1 DEF Start, GoodPlan, TypeOK
      <3>2. CASE q # r
        BY <3>2, <1>2, <2>1, OthersKeep DEF SlotInv, ToClose, Start, tables
      <3> QED
        BY <3>1, <3>2
    <2> QED
      BY <2>1, <2>2 DEF SlotInv, OneRowPerSlot, Start, tables
  <1>3. ASSUME NEW r \in Requests, Close(r) PROVE SlotInv'
    <2>1. ASSUME NEW q \in Requests
          PROVE  /\ PlanShape(plan'[q])
                 /\ phase'[q] = "closed" => \A x \in ToClose(q)' : x.by = q => x \in closing'[q]
      <3>1. CASE q = r
        BY <3>1, <1>3 DEF Close, ToClose, tables, TypeOK, SlotInv
      <3>2. CASE q # r
        BY <3>2, <1>3, OthersKeep DEF SlotInv, ToClose, Close, tables
      <3> QED
        BY <3>1, <3>2
    <2> QED
      BY <1>3, <2>1 DEF SlotInv, OneRowPerSlot, Close, tables
  <1>4. ASSUME NEW r \in Requests, Finish(r),
               OneRowPerSlot',
               \A x \in rows' : x \in rows \/ x.by = r,
               \A q \in Requests : q # r =>
                 phase'[q] = phase[q] /\ plan'[q] = plan[q] /\ closing'[q] = closing[q]
        PROVE SlotInv'
    <2>1. ASSUME NEW q \in Requests
          PROVE  /\ PlanShape(plan'[q])
                 /\ phase'[q] = "closed" => \A x \in ToClose(q)' : x.by = q => x \in closing'[q]
      <3>1. CASE q = r
        BY <3>1, <1>4, NoPlanGood DEF Finish, GoodPlan, TypeOK
      <3>2. CASE q # r
        BY <3>2, <1>4 DEF SlotInv, ToClose
      <3> QED
        BY <3>1, <3>2
    <2> QED
      BY <1>4, <2>1 DEF SlotInv
  <1>5. ASSUME NEW r \in Requests, Commit(r) PROVE SlotInv'
    <2>1. \A x \in rows' : x \in rows \/ x.by = r
      BY <1>5 DEF Commit, Inserted
    <2> QED
      BY <1>4, <1>5, <2>1, CommitSlot, OthersKeep DEF Commit
  <1>6. ASSUME NEW r \in Requests, CommitRemove(r) \/ Abort(r) PROVE SlotInv'
    <2>1. rows' \subseteq rows
      BY <1>6 DEF CommitRemove, Abort, Delete, tables
    <2>2. OneRowPerSlot'
      BY <2>1 DEF SlotInv, OneRowPerSlot
    <2> QED
      BY <1>4, <1>6, <2>1, <2>2, OthersKeep DEF CommitRemove, Abort
  <1> QED
    BY <1>1, <1>2, <1>3, <1>5, <1>6 DEF Next

\* However many requests overlap, and however they interleave, no slot ever
\* leaves two open assignments on one asset.
THEOREM OneOpenRowPerSlot == Spec => []OneRowPerSlot
  <1>1. Init => TypeOK /\ SlotInv
    BY TypeInit, SlotInit
  <1>2. TypeOK /\ SlotInv /\ [Next]_vars => (TypeOK /\ SlotInv)'
    BY TypeStep, SlotStep
  <1>3. SlotInv => OneRowPerSlot
    BY DEF SlotInv
  <1> QED
    BY <1>1, <1>2, <1>3, PTL DEF Spec

-----------------------------------------------------------------------------
(* One open assignment, until two requests in flight share the asset.      *)

LEMMA RaceInit == Init => RaceInv
  BY DEF Init, RaceInv, OneOpenRow, OneRowPerSlot, NoPlan

\* A step that adds no row and changes no slot keeps the invariant.
LEMMA RaceUnchanged ==
  ASSUME RaceInv, rows' \subseteq rows, UNCHANGED inflight
  PROVE  RaceInv'
  BY DEF RaceInv, OneOpenRow, OneRowPerSlot, ToClose, inflight

\* So does the end of a request, when the rows still satisfy the property and
\* every new one is on an asset of its plan.
LEMMA RaceFinish ==
  ASSUME TypeOK, RaceInv, NEW r \in Requests, Finish(r), OneOpenRow',
         \A x \in rows' : x \in rows \/ x.asset \in plan[r].on
  PROVE  RaceInv'
  <1>1. /\ phase'[r] = "idle" /\ plan'[r].on = {} /\ raced' = raced
        /\ \A q \in Requests : q # r =>
             phase'[q] = phase[q] /\ plan'[q] = plan[q] /\ closing'[q] = closing[q]
    BY DEF Finish, TypeOK, NoPlan
  <1>2. \A q, s \in Requests : q # s => plan'[q].on \intersect plan'[s].on \subseteq raced'
    BY <1>1 DEF RaceInv
  <1>3. ASSUME NEW q \in Requests, phase'[q] = "closed", NEW x \in ToClose(q)'
        PROVE  x \in closing'[q] \/ x.asset \in raced'
    <2>1. q # r
      BY <1>1, <1>3
    <2>2. CASE x \in rows
      BY <2>1, <2>2, <1>1, <1>3 DEF RaceInv, ToClose
    <2>3. CASE x.asset \in plan[r].on
      BY <2>1, <2>3, <1>1, <1>3 DEF RaceInv, ToClose
    <2> QED
      BY <2>2, <2>3, <1>3 DEF ToClose
  <1> QED
    BY <1>2, <1>3 DEF RaceInv

\* What a commit leaves beside the row it inserts, it has not found: another
\* request in flight has put it there.
LEMMA CommitRace ==
  ASSUME TypeOK, SlotInv, RaceInv, NEW r \in Requests, Commit(r)
  PROVE  OneOpenRow'
  <1>1. /\ rows' = (rows \ closing[r]) \union Inserted(r)
        /\ raced' = raced
    BY DEF Commit, Finish
  <1>2. ASSUME NEW x \in Inserted(r), NEW y \in rows \ closing[r], x.asset = y.asset
        PROVE  x.asset \in raced
    <2>1. x.asset \in plan[r].on /\ plan[r].write[x.asset].opened # NoOne
      BY CustodyConstants DEF Inserted, Row
    <2>2. plan[r].write[x.asset].close
      BY <2>1 DEF SlotInv, PlanShape
    <2>3. phase[r] = "closed"
      BY <2>1, <2>2 DEF Commit, NeedsClose
    <2>4. y \in ToClose(r)
      BY <2>1, <2>2, <1>2 DEF ToClose
    <2> QED
      BY <2>3, <2>4, <1>2 DEF RaceInv
  <1>3. ASSUME NEW x \in Inserted(r), NEW y \in Inserted(r), x.asset = y.asset PROVE x = y
    BY <1>3 DEF Inserted, Row
  <1>4. ASSUME NEW x \in rows, NEW y \in rows, x.asset = y.asset, x # y
        PROVE  x.asset \in raced
    BY <1>4 DEF RaceInv, OneOpenRow
  <1>5. \A x, y : x \in rows' /\ y \in rows' /\ x.asset = y.asset /\ x # y
                  => x.asset \in raced'
    BY <1>1, <1>2, <1>3, <1>4
  <1> QED
    BY <1>5, CommitSlot DEF OneOpenRow

LEMMA RaceStep == TypeOK /\ SlotInv /\ RaceInv /\ [Next]_vars => RaceInv'
  <1> SUFFICES ASSUME TypeOK, SlotInv, RaceInv, [Next]_vars PROVE RaceInv'
    OBVIOUS
  <1>1. CASE \/ \E a \in Assets : CreateAsset(a) \/ ImportRollback(a)
             \/ \E t \in Tickets, a \in Assets : ReportIssue(t, a)
             \/ \E e \in Employees, b \in BOOLEAN : SetEmployeeActive(e, b)
             \/ UNCHANGED vars
    <2>1. rows' \subseteq rows /\ UNCHANGED inflight
      BY <1>1 DEF CreateAsset, ImportRollback, Delete, ReportIssue, SetEmployeeActive, vars, inflight
    <2> QED
      BY <2>1, RaceUnchanged
  <1>2. ASSUME NEW r \in Requests, Begin(r) PROVE RaceInv'
    <2>1. PICK p : p \in Plan /\ Start(r, p)
      BY <1>2, BeginGood DEF GoodPlan
    <2>2. /\ rows' = rows /\ phase'[r] = "planned" /\ plan'[r] = p
          /\ raced' = raced \union {a \in p.on : \E q \in Requests : a \in plan[q].on}
      BY <2>1 DEF Start, tables, TypeOK
    <2>3. \A q \in Requests : q # r =>
            phase'[q] = phase[q] /\ plan'[q] = plan[q] /\ closing'[q] = closing[q]
      BY <1>2, OthersKeep
    <2>4. ASSUME NEW q \in Requests, NEW s \in Requests, q # s,
                 NEW a \in plan'[q].on \intersect plan'[s].on
          PROVE  a \in raced'
      BY <2>2, <2>3, <2>4 DEF RaceInv
    <2>5. ASSUME NEW q \in Requests, phase'[q] = "closed", NEW x \in ToClose(q)'
          PROVE  x \in closing'[q] \/ x.asset \in raced'
      BY <2>2, <2>3, <2>5 DEF RaceInv, ToClose
    <2>6. OneOpenRow'
      BY <2>2 DEF RaceInv, OneOpenRow, OneRowPerSlot
    <2> QED
      BY <2>4, <2>5, <2>6 DEF RaceInv
  <1>3. ASSUME NEW r \in Requests, Close(r) PROVE RaceInv'
    <2>1. rows' = rows /\ plan' = plan /\ raced' = raced /\ closing'[r] = ToClose(r)
      BY <1>3 DEF Close, tables, TypeOK
    <2>2. ASSUME NEW q \in Requests, phase'[q] = "closed", NEW x \in ToClose(q)'
          PROVE  x \in closing'[q] \/ x.asset \in raced'
      <3>1. ToClose(q)' = ToClose(q)
        BY <2>1 DEF ToClose
      <3> QED
        BY <3>1, <2>1, <2>2, <1>3, OthersKeep DEF RaceInv
    <2> QED
      BY <2>1, <2>2 DEF RaceInv, OneOpenRow, OneRowPerSlot
  <1>4. ASSUME NEW r \in Requests, Commit(r) PROVE RaceInv'
    <2>1. \A x \in rows' : x \in rows \/ x.asset \in plan[r].on
      BY <1>4 DEF Commit, Inserted
    <2> QED
      BY <1>4, <2>1, CommitRace, RaceFinish DEF Commit
  <1>5. ASSUME NEW r \in Requests, CommitRemove(r) \/ Abort(r) PROVE RaceInv'
    <2>1. rows' \subseteq rows /\ Finish(r)
      BY <1>5 DEF CommitRemove, Abort, Delete, tables
    <2>2. OneOpenRow'
      BY <2>1 DEF Finish, RaceInv, OneOpenRow, OneRowPerSlot
    <2> QED
      BY <2>1, <2>2, RaceFinish
  <1> QED
    BY <1>1, <1>2, <1>3, <1>4, <1>5 DEF Next

\* However many requests overlap, and however they interleave, an asset has
\* one open assignment at most unless two requests in flight have dealt with
\* it at once, and then one per slot.
THEOREM SecondRowNeedsARace == Spec => []OneOpenRow
  <1>1. Init => TypeOK /\ SlotInv /\ RaceInv
    BY TypeInit, SlotInit, RaceInit
  <1>2. TypeOK /\ SlotInv /\ RaceInv /\ [Next]_vars => (TypeOK /\ SlotInv /\ RaceInv)'
    BY TypeStep, SlotStep, RaceStep
  <1>3. RaceInv => OneOpenRow
    BY DEF RaceInv
  <1> QED
    BY <1>1, <1>2, <1>3, PTL DEF Spec

-----------------------------------------------------------------------------
(* One request at a time: the assignment history agrees with the assets.   *)

\* A step that only removes rows, keeps the assignee of every asset it leaves
\* and touches no slot keeps the ledger.
LEMMA LedgerShrinks ==
  ASSUME TypeOK, LedgerInv, UNCHANGED inflight, rows' \subseteq rows,
         \A x \in rows' : Exists(x.asset)' /\ holder'[x.asset] = holder[x.asset],
         \A a \in Assets : status[a] # "unborn" => status'[a] # "unborn",
         \A a \in Assets : status[a] # "unborn" /\ Exists(a)'
                         => Exists(a) /\ holder'[a] = holder[a]
  PROVE  LedgerInv'
  <1>1. OpenRowsNameHolder'
    BY DEF LedgerInv, OpenRowsNameHolder
  <1>2. ASSUME NEW r \in Requests
        PROVE  /\ PlanShape(plan[r])'
               /\ PlanFits(plan[r])'
               /\ phase'[r] = "closed" => ToClose(r)' \subseteq closing'[r]
    <2>1. plan[r] \in Plan /\ plan[r].on \subseteq Assets
      BY DEF TypeOK, Plan
    <2>2. PlanShape(plan[r])'
      BY DEF LedgerInv, PlanShape, inflight
    <2>3. PlanFits(plan[r])'
      BY <2>1 DEF LedgerInv, PlanFits, inflight
    <2>4. phase'[r] = "closed" => ToClose(r)' \subseteq closing'[r]
      BY DEF LedgerInv, ToClose, inflight
    <2> QED
      BY <2>2, <2>3, <2>4
  <1> QED
    BY <1>1, <1>2 DEF LedgerInv

\* Once a request is over, nothing of it is left to agree with the tables.
LEMMA LedgerFinish ==
  ASSUME TypeOK, OneAtATime, NEW r \in Requests, Finish(r), OpenRowsNameHolder'
  PROVE  LedgerInv'
  <1>1. \A q \in Requests : q = r
    BY DEF OneAtATime
  <1>2. plan'[r] = NoPlan /\ phase'[r] = "idle"
    BY DEF Finish, TypeOK
  <1> QED
    BY <1>1, <1>2, NoPlanGood DEF LedgerInv, GoodPlan, PlanShape, PlanFits, NoPlan, Offboarding

\* The commit: a row is either inserted now, with its asset's new assignee, or
\* was there before and is on an asset whose assignee stays.
LEMMA LedgerCommit ==
  ASSUME TypeOK, LedgerInv, NEW r \in Requests, Commit(r)
  PROVE  OpenRowsNameHolder'
  <1> DEFINE p == plan[r]
  <1>1. p \in Plan /\ PlanShape(p) /\ PlanFits(p) /\ \A a \in Assets : p.write[a] \in Write
    BY DEF LedgerInv, TypeOK, Plan
  <1>2. ASSUME NEW a \in Assets, Exists(a) PROVE Exists(a)'
    BY <1>1, <1>2 DEF Commit, Exists, Write
  <1>3. ASSUME NEW x \in Inserted(r)
        PROVE  Exists(x.asset)' /\ x.employee = holder'[x.asset]
    <2> DEFINE w == p.write[x.asset]
    <2>1. x \in Row /\ x.asset \in p.on /\ x.employee = w.opened /\ w.opened # NoOne
      BY CustodyConstants DEF Inserted, Row
    <2>2. w.holder = x.employee /\ p.kind # "keep"
      BY <2>1, <1>1 DEF PlanShape
    <2>3. Exists(x.asset)'
      BY <2>1, <2>2, <1>2 DEF Commit, TargetsExist, Row
    <2> QED
      BY <2>1, <2>2, <2>3, CustodyConstants DEF Commit, Row
  <1>4. ASSUME NEW x \in rows, x \notin closing[r]
        PROVE  Exists(x.asset)' /\ x.employee = holder'[x.asset]
    <2>1. x.asset \in Assets /\ Exists(x.asset) /\ x.employee = holder[x.asset]
      BY DEF LedgerInv, OpenRowsNameHolder, TypeOK, Row
    <2>2. CASE x.asset \notin p.on
      BY <2>1, <2>2, <1>2 DEF Commit
    <2>3. CASE x.asset \in p.on
      <3>1. ~p.write[x.asset].close
        BY <2>3, <1>4 DEF Commit, NeedsClose, LedgerInv, ToClose
      <3> QED
        BY <3>1, <2>1, <2>3, <1>1, <1>2 DEF Commit, PlanFits
    <2> QED
      BY <2>2, <2>3
  <1>5. rows' = (rows \ closing[r]) \union Inserted(r)
    BY DEF Commit
  <1> QED
    BY <1>3, <1>4, <1>5 DEF OpenRowsNameHolder

LEMMA LedgerInit == Init => LedgerInv
  BY NoPlanGood DEF Init, LedgerInv, OpenRowsNameHolder, GoodPlan, NoPlan, PlanFits, PlanShape

\* Deleting an asset deletes its assignments with it.
LEMMA LedgerDelete ==
  ASSUME TypeOK, OpenRowsNameHolder, NEW a \in Assets, Delete(a)
  PROVE  /\ OpenRowsNameHolder'
         /\ rows' \subseteq rows
         /\ \A x \in rows' : Exists(x.asset)' /\ holder'[x.asset] = holder[x.asset]
         /\ \A b \in Assets : status[b] # "unborn" => status'[b] # "unborn"
         /\ \A b \in Assets : Exists(b)' => Exists(b) /\ holder'[b] = holder[b]
  <1>1. rows' \subseteq rows /\ \A x \in rows' : x \in rows /\ x.asset \in Assets /\ x.asset # a
    BY DEF Delete, RowsOf, TypeOK, Row
  <1>2. \A b \in Assets : b # a => status'[b] = status[b] /\ holder'[b] = holder[b]
    BY DEF Delete, TypeOK
  <1>3. status'[a] = "deleted" /\ ~Exists(a)'
    BY UnbornIsNoStatus DEF Delete, TypeOK, Exists
  <1> QED
    BY <1>1, <1>2, <1>3 DEF OpenRowsNameHolder, Exists

LEMMA LedgerStep ==
  ASSUME OneAtATime PROVE TypeOK /\ LedgerInv /\ [Next]_vars => LedgerInv'
  <1> SUFFICES ASSUME TypeOK, LedgerInv, [Next]_vars PROVE LedgerInv'
    OBVIOUS
  <1>1. ASSUME NEW a \in Assets, CreateAsset(a) PROVE LedgerInv'
    <2>1. \A x \in rows : x.asset \in Assets /\ x.asset # a
      BY <1>1, UnbornIsNoStatus DEF CreateAsset, LedgerInv, OpenRowsNameHolder, Exists, TypeOK, Row
    <2>2. \A b \in Assets : b # a => status'[b] = status[b]
      BY <1>1 DEF CreateAsset, TypeOK
    <2>3. status[a] = "unborn" /\ UNCHANGED <<holder, rows, inflight>>
      BY <1>1 DEF CreateAsset
    <2>4. \A x \in rows' : Exists(x.asset)' /\ holder'[x.asset] = holder[x.asset]
      BY <2>1, <2>2, <2>3 DEF Exists, LedgerInv, OpenRowsNameHolder
    <2> QED
      BY <2>2, <2>3, <2>4, LedgerShrinks DEF Exists
  <1>2. ASSUME NEW a \in Assets, ImportRollback(a) PROVE LedgerInv'
    BY <1>2, LedgerDelete, LedgerShrinks DEF ImportRollback, LedgerInv
  <1>3. CASE \/ \E t \in Tickets, a \in Assets : ReportIssue(t, a)
             \/ \E e \in Employees, b \in BOOLEAN : SetEmployeeActive(e, b)
             \/ UNCHANGED vars
    <2>1. UNCHANGED <<status, holder, rows, inflight>>
      BY <1>3 DEF ReportIssue, SetEmployeeActive, vars, inflight
    <2>2. \A x \in rows : x.asset \in Assets /\ Exists(x.asset)
      BY DEF LedgerInv, OpenRowsNameHolder, TypeOK, Row
    <2> QED
      BY <2>1, <2>2, LedgerShrinks DEF Exists
  <1>4. ASSUME NEW r \in Requests, Begin(r) PROVE LedgerInv'
    <2>1. PICK p : GoodPlan(p) /\ Start(r, p)
      BY <1>4, BeginGood
    <2>2. \A q \in Requests : q = r
      BY DEF OneAtATime
    <2>3. plan'[r] = p /\ phase'[r] = "planned" /\ UNCHANGED tables
      BY <2>1 DEF Start, TypeOK
    <2>4. PlanShape(p)' /\ PlanFits(p)'
      BY <2>1, <2>3 DEF GoodPlan, PlanShape, PlanFits, Exists, tables
    <2> QED
      BY <2>2, <2>3, <2>4 DEF LedgerInv, OpenRowsNameHolder, PlanShape, PlanFits, Exists, tables
  <1>5. ASSUME NEW r \in Requests, Close(r) PROVE LedgerInv'
    <2>1. \A q \in Requests : q = r
      BY DEF OneAtATime
    <2>2. UNCHANGED <<tables, plan>> /\ closing'[r] = ToClose(r)
      BY <1>5 DEF Close, TypeOK
    <2> QED
      BY <2>1, <2>2 DEF LedgerInv, OpenRowsNameHolder, PlanShape, PlanFits, ToClose, Exists, tables
  <1>6. ASSUME NEW r \in Requests, Commit(r) PROVE LedgerInv'
    BY <1>6, LedgerCommit, LedgerFinish DEF Commit
  <1>7. ASSUME NEW r \in Requests, CommitRemove(r) PROVE LedgerInv'
    <2>1. PICK a \in plan[r].on : Delete(a)
      BY <1>7 DEF CommitRemove
    <2>2. a \in Assets
      BY DEF TypeOK, Plan
    <2> QED
      BY <1>7, <2>1, <2>2, LedgerDelete, LedgerFinish DEF CommitRemove, LedgerInv
  <1>8. ASSUME NEW r \in Requests, Abort(r) PROVE LedgerInv'
    <2>1. OpenRowsNameHolder'
      BY <1>8 DEF Abort, tables, LedgerInv, OpenRowsNameHolder, Exists
    <2> QED
      BY <1>8, <2>1, LedgerFinish DEF Abort
  <1> QED
    BY <1>1, <1>2, <1>3, <1>4, <1>5, <1>6, <1>7, <1>8 DEF Next

\* When the handlers do not overlap, every open assignment is on an existing
\* asset and names the employee the asset is assigned to.
THEOREM SerialLedger ==
  ASSUME OneAtATime PROVE Spec => []OpenRowsNameHolder
  <1>1. Init => TypeOK /\ LedgerInv
    BY TypeInit, LedgerInit
  <1>2. TypeOK /\ LedgerInv /\ [Next]_vars => (TypeOK /\ LedgerInv)'
    BY TypeStep, LedgerStep
  <1>3. LedgerInv => OpenRowsNameHolder
    BY DEF LedgerInv
  <1> QED
    BY <1>1, <1>2, <1>3, PTL DEF Spec

-----------------------------------------------------------------------------
(* A deleted asset stays gone, whatever was in flight when it went.        *)

LEMMA DeletedStep ==
  TypeOK /\ SlotInv /\ DeletedLeavesNothing /\ [Next]_vars => DeletedLeavesNothing'
  <1> SUFFICES ASSUME TypeOK, SlotInv, DeletedLeavesNothing, [Next]_vars
               PROVE  DeletedLeavesNothing'
    OBVIOUS
  <1> USE UnbornIsNoStatus
  <1>1. ASSUME NEW a \in Assets, CreateAsset(a) PROVE DeletedLeavesNothing'
    BY <1>1 DEF CreateAsset, DeletedLeavesNothing, RowsOf, TypeOK
  <1>2. ASSUME NEW a \in Assets, Delete(a) PROVE DeletedLeavesNothing'
    BY <1>2 DEF Delete, DeletedLeavesNothing, RowsOf, TypeOK
  <1>3. ASSUME NEW t \in Tickets, NEW a \in Assets, ReportIssue(t, a)
        PROVE  DeletedLeavesNothing'
    BY <1>3 DEF ReportIssue, Exists, DeletedLeavesNothing, RowsOf, TypeOK
  <1>4. CASE UNCHANGED <<status, holder, rows, ticketStatus, ticketAsset>>
    BY <1>4 DEF DeletedLeavesNothing, RowsOf
  <1>5. ASSUME NEW r \in Requests, Commit(r) PROVE DeletedLeavesNothing'
    <2> DEFINE p == plan[r]
    <2>1. p \in Plan /\ PlanShape(p) /\ \A a \in Assets : p.write[a] \in Write
      BY DEF SlotInv, TypeOK, Plan
    <2>2. rows' = (rows \ closing[r]) \union Inserted(r)
      BY <1>5 DEF Commit
    <2>3. ASSUME NEW a \in Assets, status'[a] = "deleted"
          PROVE  /\ holder'[a] = NoOne
                 /\ RowsOf(a)' = {}
                 /\ \A t \in Tickets : ticketAsset'[t] = a => ticketStatus'[t] = "deleted"
      <3>1. status[a] = "deleted" /\ ~Exists(a)
        BY <2>1, <2>3, <1>5, CustodyConstants DEF Commit, Write, Exists
      <3>2. a \in p.on => p.kind = "keep"
        BY <3>1, <1>5 DEF Commit, TargetsExist
      <3>3. holder'[a] = NoOne
        BY <3>1, <3>2, <2>1, <1>5 DEF Commit, PlanShape, DeletedLeavesNothing
      <3>4. \A x \in Inserted(r) : x.asset # a
        BY <3>2, <2>1, CustodyConstants DEF Inserted, Row, PlanShape
      <3>5. RowsOf(a)' = {}
        BY <3>1, <3>4, <2>2 DEF RowsOf, DeletedLeavesNothing
      <3>6. \A t \in Tickets : ticketAsset'[t] = a => ticketStatus'[t] = "deleted"
        BY <3>1, <1>5, <2>1 DEF Commit, TargetsExist, DeletedLeavesNothing, TypeOK, Plan
      <3> QED
        BY <3>3, <3>5, <3>6
    <2> QED
      BY <2>3 DEF DeletedLeavesNothing
  <1>6. ASSUME NEW r \in Requests, CommitRemove(r) PROVE DeletedLeavesNothing'
    <2>1. PICK a \in plan[r].on : Delete(a)
      BY <1>6 DEF CommitRemove
    <2>2. a \in Assets
      BY DEF TypeOK, Plan
    <2> QED
      BY <2>1, <2>2, <1>2
  <1>7. ASSUME NEW r \in Requests, Begin(r)
        PROVE  UNCHANGED <<status, holder, rows, ticketStatus, ticketAsset>>
    BY <1>7, BeginGood DEF Start, tables
  <1> QED
    BY <1>1, <1>2, <1>3, <1>4, <1>5, <1>6, <1>7
    DEF Next, ImportRollback, SetEmployeeActive, Close, Abort, tables, vars

\* An asset that was removed, or rolled back with its import, keeps no
\* assignee, no open assignment and no live repair ticket, however many
\* requests had read it before it went.
THEOREM DeletedStaysGone == Spec => []DeletedLeavesNothing
  <1>1. Init => TypeOK /\ SlotInv /\ DeletedLeavesNothing
    BY TypeInit, SlotInit DEF Init, DeletedLeavesNothing
  <1>2. TypeOK /\ SlotInv /\ DeletedLeavesNothing /\ [Next]_vars
          => (TypeOK /\ SlotInv /\ DeletedLeavesNothing)'
    BY TypeStep, SlotStep, DeletedStep
  <1> QED
    BY <1>1, <1>2, PTL DEF Spec

-----------------------------------------------------------------------------
(* One request at a time: what a request has read still holds when it      *)
(* commits.                                                                *)

\* A plan made from the statuses and the assignees as they are now.
Current(p) == PlanLawful(p) /\ PlanDetaches(p)

LEMMA NoPlanCurrent == Current(NoPlan)
  BY DEF Current, PlanLawful, PlanDetaches, NoPlan, Offboarding

LEMMA AssetPlanCurrent ==
  ASSUME NEW k \in {"asset", "remove"}, NEW a \in Assets, NEW w \in Write,
         w.status # Keep => CanTransition(status[a], w.status)
  PROVE  Current(AssetPlan(k, a, w))
  BY DEF Current, PlanLawful, PlanDetaches, AssetPlan, Offboarding

LEMMA RepairPlanCurrent ==
  ASSUME NEW t \in Tickets, NEW s \in RepairStatus, NEW a \in Assets, NEW w \in Write,
         w.status # Keep => CanTransition(status[a], w.status)
  PROVE  Current(RepairPlan(t, s, a, w))
  BY DEF Current, PlanLawful, PlanDetaches, RepairPlan, Offboarding

\* The status each shape of write leaves behind.
LEMMA WriteStatus ==
  /\ NoWrite.status = Keep
  /\ \A s : Restate(s).status = s /\ Vacate(s).status = s
  /\ \A e, s : HandOver(e, s).status = s /\ Rewrite(e, s).status = s
  BY DEF NoWrite, Restate, Vacate, HandOver, Rewrite

\* A handler checks the lifecycle against the row it has read, and writes what
\* it has checked.
LEMMA BeginCurrent ==
  ASSUME TypeOK, CurrentInv, NEW r \in Requests, Begin(r)
  PROVE  \E p : Current(p) /\ Start(r, p)
  <1>s. {"assigned", "retired"} \subseteq AssetStatus
    BY DEF AssetStatus
  <1>1. ASSUME NEW a \in Assets, NEW s \in AssetStatus, BeginUpdate(r, a, s)
        PROVE  \E p : Current(p) /\ Start(r, p)
    BY <1>1, WriteTypes, WriteStatus, AssetPlanCurrent DEF BeginUpdate
  <1>2. ASSUME NEW a \in Assets, NEW e \in Employees, BeginAssign(r, a, e)
        PROVE  \E p : Current(p) /\ Start(r, p)
    BY <1>2, <1>s, WriteTypes, WriteStatus, AssetPlanCurrent DEF BeginAssign
  <1>3. ASSUME NEW a \in Assets, NEW e \in Employees, BeginTransfer(r, a, e)
        PROVE  \E p : Current(p) /\ Start(r, p)
    BY <1>3, <1>s, WriteTypes, WriteStatus, AssetPlanCurrent DEF BeginTransfer
  <1>4. ASSUME NEW a \in Assets, BeginRelocate(r, a)
        PROVE  \E p : Current(p) /\ Start(r, p)
    <2>1. status[a] \in AssetStatus /\ holder[a] \in Employees \union {NoOne}
      BY <1>4 DEF BeginRelocate, Exists, TypeOK
    <2>2. CanTransition(status[a], status[a])
      BY DEF CanTransition
    <2> QED
      BY <1>4, <2>1, <2>2, WriteTypes, WriteStatus, AssetPlanCurrent DEF BeginRelocate
  <1>5. ASSUME NEW a \in Assets, BeginRetire(r, a)
        PROVE  \E p : Current(p) /\ Start(r, p)
    BY <1>5, <1>s, WriteTypes, WriteStatus, AssetPlanCurrent DEF BeginRetire
  <1>6. ASSUME NEW a \in Assets, NEW s \in AssetStatus, BeginChangeStatus(r, a, s)
        PROVE  \E p : Current(p) /\ Start(r, p)
    BY <1>6, WriteTypes, WriteStatus, AssetPlanCurrent DEF BeginChangeStatus
  <1>7. ASSUME NEW a \in Assets, BeginRemove(r, a)
        PROVE  \E p : Current(p) /\ Start(r, p)
    BY <1>7, WriteTypes, WriteStatus, AssetPlanCurrent DEF BeginRemove
  <1>8. ASSUME NEW t \in Tickets, NEW s \in RepairStatus, NEW e \in Employees \union {NoOne},
               BeginRepairStep(r, t, s, e)
        PROVE  \E p : Current(p) /\ Start(r, p)
    <2> DEFINE a == ticketAsset[t]
               w == RepairWrite(a, s, e)
    <2>1. a \in Assets
      BY <1>8, UnbornIsNoStatus DEF BeginRepairStep, TypeOK
    <2>2. w \in Write
      BY <2>1, RepairWriteType
    <2>3. /\ w.status # Keep => CanTransition(status[a], w.status)
          /\ Start(r, RepairPlan(t, s, a, w))
      BY <1>8 DEF BeginRepairStep
    <2> QED
      BY <2>1, <2>2, <2>3, RepairPlanCurrent
  <1>9. ASSUME NEW e \in Employees, NEW target \in Employees, NEW k \in OffboardModes,
               BeginOffboard(r, e, k, target)
        PROVE  \E p : Current(p) /\ Start(r, p)
    <2> DEFINE held == {a \in Assets : Exists(a) /\ holder[a] = e}
               f == [a \in Assets |-> IF a \in held THEN OffboardWrite(a, k, target) ELSE NoWrite]
               p == EmployeePlan(k, e, held, f)
    <2>1. k \in Offboarding /\ (k = "reassign" => target # e) /\ Start(r, p) /\ e # NoOne
      BY <1>9, CustodyConstants DEF BeginOffboard
    <2>2. p.kind = k /\ p.on = held /\ p.write = f /\ p.employee = e
      BY DEF EmployeePlan
    <2>3. ASSUME NEW a \in held, k \in {"return", "reassign"}
          PROVE  f[a].holder \notin {Keep, e}
      <3>1. f[a] = OffboardWrite(a, k, target)
        OBVIOUS
      <3> QED
        BY <2>1, <2>3, <3>1, WriteShapes, CustodyConstants DEF OffboardWrite
    <2>4. \A a \in Assets : holder[a] = e => a \in held
      BY <2>1 DEF CurrentInv
    <2> HIDE DEF held, f, p
    <2>5. PlanLawful(p)
      BY <2>1, <2>2 DEF PlanLawful
    <2>6. PlanDetaches(p)
      BY <2>1, <2>2, <2>3, <2>4 DEF PlanDetaches
    <2> QED
      BY <2>1, <2>5, <2>6 DEF Current
  <1>10. ASSUME NEW e \in Employees, BeginReinstate(r, e)
         PROVE  \E p : Current(p) /\ Start(r, p)
    <2>1. Current(EmployeePlan("reinstate", e, {}, NoPlan.write))
      BY DEF Current, PlanLawful, PlanDetaches, EmployeePlan
    <2> QED
      BY <2>1, <1>10 DEF BeginReinstate
  <1> QED
    BY <1>1, <1>2, <1>3, <1>4, <1>5, <1>6, <1>7, <1>8, <1>9, <1>10 DEF Begin

\* The new status of an asset a committed plan touches, and of one it does not.
LEMMA CommitWrites ==
  ASSUME TypeOK, LedgerInv, NEW r \in Requests, Commit(r), NEW a \in Assets
  PROVE  LET p == plan[r]
             w == p.write[a]
         IN /\ w \in Write
            /\ a \in p.on /\ p.kind # "keep" => Exists(a)
            /\ a \in p.on /\ p.kind = "keep"
                 => w.opened = NoOne /\ w.status = Keep /\ w.holder = Keep
            /\ status'[a] = IF a \in p.on /\ w.status # Keep THEN w.status ELSE status[a]
            /\ holder'[a] = IF a \in p.on /\ w.holder # Keep THEN w.holder ELSE holder[a]
  <1>1. plan[r] \in Plan /\ PlanShape(plan[r])
    BY DEF TypeOK, LedgerInv
  <1>2. plan[r].write[a] \in Write
    BY <1>1 DEF Plan
  <1>3. a \in plan[r].on /\ plan[r].kind # "keep" => Exists(a)
    BY DEF Commit, TargetsExist
  <1>4. a \in plan[r].on /\ plan[r].kind = "keep"
          => /\ plan[r].write[a].opened = NoOne
             /\ plan[r].write[a].status = Keep
             /\ plan[r].write[a].holder = Keep
    BY <1>1 DEF PlanShape
  <1>5. /\ status'[a] = IF a \in plan[r].on /\ plan[r].write[a].status # Keep
                        THEN plan[r].write[a].status ELSE status[a]
        /\ holder'[a] = IF a \in plan[r].on /\ plan[r].write[a].holder # Keep
                        THEN plan[r].write[a].holder ELSE holder[a]
    BY DEF Commit
  <1> QED
    BY <1>2, <1>3, <1>4, <1>5

LEMMA CurrentInit == Init => CurrentInv
  BY NoPlanCurrent DEF Init, CurrentInv, Current

\* Deleting an asset, or making one, takes no plan in flight by surprise.
LEMMA CurrentUndisturbed ==
  ASSUME TypeOK, CurrentInv, UNCHANGED plan,
         \A a \in Assets : Exists(a)' => status'[a] = status[a] \/ status[a] = "unborn",
         \A r \in Requests : \A a \in plan[r].on : status[a] # "unborn",
         \A a \in Assets : holder'[a] = holder[a] \/ holder'[a] = NoOne,
         \A a \in Assets : holder'[a] # NoOne => Exists(a)'
  PROVE  CurrentInv'
  <1> SUFFICES ASSUME NEW r \in Requests
               PROVE  PlanLawful(plan[r])' /\ PlanDetaches(plan[r])'
    BY DEF CurrentInv
  <1>0. plan'[r] = plan[r] /\ plan[r].on \subseteq Assets
    BY DEF TypeOK, Plan
  <1>1. PlanLawful(plan[r])'
    BY <1>0 DEF CurrentInv, PlanLawful, Exists
  <1>2. PlanDetaches(plan[r])'
    BY <1>0 DEF CurrentInv, PlanDetaches
  <1> QED
    BY <1>1, <1>2

\* Once the only request is over, there is no plan left to go stale.
LEMMA CurrentFinish ==
  ASSUME TypeOK, OneAtATime, NEW r \in Requests, Finish(r),
         \A a \in Assets : holder'[a] # NoOne => Exists(a)'
  PROVE  CurrentInv'
  <1>1. \A q \in Requests : plan'[q] = NoPlan
    BY DEF OneAtATime, Finish, TypeOK
  <1> QED
    BY <1>1 DEF CurrentInv, PlanLawful, PlanDetaches, NoPlan, Offboarding

\* Deleting an asset clears its assignee and touches no other.
LEMMA CurrentDelete ==
  ASSUME TypeOK, CurrentInv, NEW a \in Assets, Delete(a)
  PROVE  /\ \A b \in Assets : Exists(b)' => status'[b] = status[b]
         /\ \A b \in Assets : holder'[b] = holder[b] \/ holder'[b] = NoOne
         /\ \A b \in Assets : holder'[b] # NoOne => Exists(b)'
  <1>1. \A b \in Assets : b # a => status'[b] = status[b] /\ holder'[b] = holder[b]
    BY DEF Delete, TypeOK
  <1>2. status'[a] = "deleted" /\ holder'[a] = NoOne
    BY DEF Delete, TypeOK
  <1> QED
    BY <1>1, <1>2, UnbornIsNoStatus DEF CurrentInv, Exists

LEMMA CurrentStep ==
  ASSUME OneAtATime PROVE TypeOK /\ LedgerInv /\ CurrentInv /\ [Next]_vars => CurrentInv'
  <1> SUFFICES ASSUME TypeOK, LedgerInv, CurrentInv, [Next]_vars PROVE CurrentInv'
    OBVIOUS
  <1>0. \A r \in Requests : \A a \in plan[r].on : status[a] # "unborn"
    BY DEF LedgerInv, PlanFits
  <1>1. ASSUME NEW a \in Assets, CreateAsset(a) PROVE CurrentInv'
    <2>1. UNCHANGED <<holder, plan>> /\ status[a] = "unborn"
      BY <1>1 DEF CreateAsset, inflight
    <2>2. \A b \in Assets : b # a => status'[b] = status[b]
      BY <1>1 DEF CreateAsset, TypeOK
    <2>3. holder[a] = NoOne
      BY <2>1, UnbornIsNoStatus DEF CurrentInv, Exists
    <2> QED
      BY <1>0, <2>1, <2>2, <2>3, CurrentUndisturbed DEF CurrentInv, Exists
  <1>2. ASSUME NEW a \in Assets, ImportRollback(a) PROVE CurrentInv'
    <2>1. UNCHANGED plan /\ Delete(a)
      BY <1>2 DEF ImportRollback, inflight
    <2> QED
      BY <1>0, <2>1, CurrentDelete, CurrentUndisturbed
  <1>3. CASE \/ \E t \in Tickets, a \in Assets : ReportIssue(t, a)
             \/ \E e \in Employees, b \in BOOLEAN : SetEmployeeActive(e, b)
             \/ \E r \in Requests : Close(r)
             \/ UNCHANGED vars
    <2>1. UNCHANGED <<status, holder, plan>>
      BY <1>3 DEF ReportIssue, SetEmployeeActive, Close, tables, vars, inflight
    <2> QED
      BY <1>0, <2>1, CurrentUndisturbed DEF CurrentInv, Exists
  <1>4. ASSUME NEW r \in Requests, Begin(r) PROVE CurrentInv'
    <2>1. PICK p : Current(p) /\ Start(r, p)
      BY <1>4, BeginCurrent
    <2>2. UNCHANGED <<status, holder>> /\ \A q \in Requests : plan'[q] = p
      BY <2>1 DEF Start, tables, OneAtATime, TypeOK
    <2> QED
      BY <2>1, <2>2 DEF CurrentInv, Current, PlanLawful, PlanDetaches, Exists
  <1>5. ASSUME NEW r \in Requests, Commit(r) PROVE CurrentInv'
    <2>1. \A a \in Assets : holder'[a] # NoOne => Exists(a)'
      BY <1>5, CommitWrites DEF CurrentInv, Exists, Write
    <2> QED
      BY <1>5, <2>1, CurrentFinish DEF Commit
  <1>6. ASSUME NEW r \in Requests, CommitRemove(r) PROVE CurrentInv'
    <2>1. PICK a \in plan[r].on : Delete(a)
      BY <1>6 DEF CommitRemove
    <2>2. a \in Assets
      BY DEF TypeOK, Plan
    <2> QED
      BY <1>6, <2>1, <2>2, CurrentDelete, CurrentFinish DEF CommitRemove
  <1>7. ASSUME NEW r \in Requests, Abort(r) PROVE CurrentInv'
    <2>1. \A a \in Assets : holder'[a] # NoOne => Exists(a)'
      BY <1>7 DEF Abort, tables, CurrentInv, Exists
    <2> QED
      BY <1>7, <2>1, CurrentFinish DEF Abort
  <1> QED
    BY <1>1, <1>2, <1>3, <1>4, <1>5, <1>6, <1>7 DEF Next

\* What every state is like when requests do not overlap.
SerialInv == TypeOK /\ LedgerInv /\ CurrentInv

LEMMA SerialIsInvariant == ASSUME OneAtATime PROVE Spec => []SerialInv
  <1>1. Init => SerialInv
    BY TypeInit, LedgerInit, CurrentInit DEF SerialInv
  <1>2. SerialInv /\ [Next]_vars => SerialInv'
    BY TypeStep, LedgerStep, CurrentStep DEF SerialInv
  <1> QED
    BY <1>1, <1>2, PTL DEF Spec

\* Outside the commit of a plan, no asset goes from one status to another.
LEMMA StatusMoves ==
  ASSUME TypeOK, [Next]_vars, NEW a \in Assets, Exists(a), Exists(a)',
         status'[a] # status[a]
  PROVE  \E r \in Requests : Commit(r)
  <1>1. ASSUME NEW b \in Assets, CreateAsset(b) PROVE status'[a] = status[a]
    BY <1>1, UnbornIsNoStatus DEF CreateAsset, TypeOK, Exists
  <1>2. ASSUME NEW b \in Assets, Delete(b) PROVE status'[a] = status[a]
    BY <1>2, UnbornIsNoStatus DEF Delete, TypeOK, Exists
  <1>3. ASSUME NEW r \in Requests, CommitRemove(r) PROVE status'[a] = status[a]
    BY <1>3, <1>2 DEF CommitRemove, TypeOK, Plan
  <1>4. ASSUME NEW r \in Requests, Begin(r) PROVE status' = status
    BY <1>4, BeginGood DEF Start, tables
  <1> QED
    BY <1>1, <1>2, <1>3, <1>4
    DEF Next, ImportRollback, ReportIssue, SetEmployeeActive, Close, Abort, tables, vars

\* When requests do not overlap, "Asset lifecycle table is law" for everything
\* but an offboarding: no other request moves an asset between two statuses
\* that ALLOWED_TRANSITIONS does not connect.
THEOREM LifecycleIsLaw ==
  ASSUME OneAtATime PROVE Spec => LifecycleOutsideOffboarding
  <1> DEFINE Law == \A a \in Assets :
               Exists(a) /\ Exists(a)' /\ ~CanTransition(status[a], status'[a])
                 => \E r \in Requests : plan[r].kind \in Offboarding /\ Commit(r)
  <1>1. SerialInv /\ [Next]_vars => [Law]_vars
    <2> SUFFICES ASSUME SerialInv, [Next]_vars, NEW a \in Assets,
                        Exists(a), Exists(a)', ~CanTransition(status[a], status'[a])
                 PROVE  \E r \in Requests : plan[r].kind \in Offboarding /\ Commit(r)
      OBVIOUS
    <2>1. status'[a] # status[a]
      BY DEF CanTransition
    <2>2. PICK r \in Requests : Commit(r)
      BY <2>1, StatusMoves DEF SerialInv
    <2>3. a \in plan[r].on /\ plan[r].write[a].status # Keep
          /\ status'[a] = plan[r].write[a].status
      BY <2>1, <2>2, CommitWrites DEF SerialInv
    <2>4. plan[r].kind \in Offboarding
      BY <2>3 DEF SerialInv, CurrentInv, PlanLawful
    <2> QED
      BY <2>2, <2>4
  <1> QED
    BY <1>1, SerialIsInvariant, PTL DEF Spec, LifecycleOutsideOffboarding

\* When requests do not overlap, an offboarding that returns or reassigns the
\* kit leaves nothing pointing at the leaver: no asset assigned to them and no
\* open assignment.
THEOREM LeaverDetached ==
  ASSUME OneAtATime PROVE Spec => OffboardDetachesLeaver
  <1> DEFINE Detached == \A r \in Requests :
               /\ plan[r].kind \in {"return", "reassign"}
               /\ Commit(r)
               => /\ \A a \in Assets : holder'[a] # plan[r].employee
                  /\ \A x \in rows' : x.employee # plan[r].employee
  <1>1. SerialInv /\ [Next]_vars => [Detached]_vars
    <2> SUFFICES ASSUME SerialInv, [Next]_vars, NEW r \in Requests,
                        plan[r].kind \in {"return", "reassign"}, Commit(r)
                 PROVE  /\ \A a \in Assets : holder'[a] # plan[r].employee
                        /\ \A x \in rows' : x.employee # plan[r].employee
      OBVIOUS
    <2>1. PlanDetaches(plan[r])
      BY DEF SerialInv, CurrentInv
    <2>2. \A a \in Assets : holder'[a] # plan[r].employee
      BY <2>1, CommitWrites DEF SerialInv, PlanDetaches
    <2>3. OpenRowsNameHolder'
      BY LedgerCommit DEF SerialInv
    <2>4. \A x \in rows' : x.asset \in Assets
      BY TypeStep DEF SerialInv, TypeOK, Row
    <2> QED
      BY <2>2, <2>3, <2>4 DEF OpenRowsNameHolder
  <1> QED
    BY <1>1, SerialIsInvariant, PTL DEF Spec, OffboardDetachesLeaver

-----------------------------------------------------------------------------
(* ... and only a leaver who keeps the kit is left without a record of it. *)

\* What a request has found to close is on assets of its plan.
FoundInPlan ==
  \A r \in Requests :
    /\ phase[r] # "closed" => closing[r] = {}
    /\ \A x \in closing[r] : x.asset \in plan[r].on /\ plan[r].write[x.asset].close

LEMMA FoundStep ==
  ASSUME OneAtATime PROVE TypeOK /\ FoundInPlan /\ [Next]_vars => FoundInPlan'
  <1> SUFFICES ASSUME TypeOK, FoundInPlan, [Next]_vars PROVE FoundInPlan'
    OBVIOUS
  <1>0. ASSUME NEW r \in Requests, Finish(r) PROVE FoundInPlan'
    <2>1. \A q \in Requests : closing'[q] = {}
      BY <1>0 DEF OneAtATime, Finish, TypeOK
    <2> QED
      BY <2>1 DEF FoundInPlan
  <1>1. CASE UNCHANGED inflight
    BY <1>1 DEF FoundInPlan, inflight
  <1>2. ASSUME NEW r \in Requests, Begin(r) PROVE FoundInPlan'
    <2>1. PICK p : Start(r, p)
      BY <1>2, BeginGood
    <2>2. phase[r] = "idle" /\ UNCHANGED closing /\ \A q \in Requests : q = r
      BY <2>1 DEF Start, OneAtATime
    <2>3. \A q \in Requests : closing'[q] = {}
      BY <2>2 DEF FoundInPlan
    <2> QED
      BY <2>3 DEF FoundInPlan
  <1>3. ASSUME NEW r \in Requests, Close(r) PROVE FoundInPlan'
    <2>1. \A q \in Requests : q = r
      BY DEF OneAtATime
    <2> QED
      BY <1>3, <2>1 DEF Close, ToClose, FoundInPlan, TypeOK
  <1> QED
    BY <1>0, <1>1, <1>2, <1>3
    DEF Next, CreateAsset, ImportRollback, ReportIssue, SetEmployeeActive, Commit, CommitRemove,
        Abort, vars, inflight

\* A commit that keeps no kit leaves an assignee with an open assignment: it
\* has just opened one, or the asset had one that it does not close.
LEMMA CommitRecords ==
  ASSUME TypeOK, LedgerInv, FoundInPlan, NEW r \in Requests, Commit(r), plan[r].kind # "keep",
         NEW a \in Assets, holder[a] # NoOne => OnRecord(a), holder'[a] # NoOne
  PROVE  OnRecord(a)'
  <1> DEFINE w == plan[r].write[a]
  <1>1. PlanShape(plan[r]) /\ PlanFits(plan[r])
    BY DEF LedgerInv
  <1>2. rows' = (rows \ closing[r]) \union Inserted(r)
    BY DEF Commit
  <1>3. ASSUME holder'[a] = holder[a], a \in plan[r].on => ~w.close
        PROVE  OnRecord(a)'
    <2>1. PICK x \in rows : x.asset = a /\ x.employee = holder[a]
      BY <1>3 DEF OnRecord
    <2>2. x \notin closing[r]
      BY <1>3, <2>1 DEF FoundInPlan
    <2> QED
      BY <1>2, <1>3, <2>1, <2>2 DEF OnRecord
  <1>4. CASE a \notin plan[r].on
    BY <1>3, <1>4, CommitWrites
  <1>5. CASE a \in plan[r].on /\ ~w.close
    <2>1. holder'[a] = holder[a]
      BY <1>5, <1>1, CommitWrites DEF PlanFits
    <2> QED
      BY <1>3, <1>5, <2>1
  <1>6. CASE a \in plan[r].on /\ w.close
    <2>1. w \in Write /\ holder'[a] = IF w.holder # Keep THEN w.holder ELSE holder[a]
      BY <1>6, CommitWrites
    <2>2. w.opened # NoOne
      BY <1>6, <1>1, <2>1, CustodyConstants DEF PlanShape
    <2>3. w.holder = w.opened /\ w.opened \in Employees
      BY <1>6, <1>1, <2>1, <2>2 DEF PlanShape, Write
    <2>4. holder'[a] = w.opened
      BY <2>1, <2>3, CustodyConstants
    <2> DEFINE x == [asset |-> a, employee |-> w.opened, by |-> r]
    <2>5. x \in Inserted(r)
      BY <1>6, <2>3 DEF Inserted, Row
    <2> QED
      BY <1>2, <2>4, <2>5 DEF OnRecord
  <1> QED
    BY <1>4, <1>5, <1>6

\* Deleting an asset takes its assignee with its record.
LEMMA DeleteRecords ==
  ASSUME TypeOK, NEW b \in Assets, Delete(b),
         NEW a \in Assets, holder[a] # NoOne => OnRecord(a), holder'[a] # NoOne
  PROVE  OnRecord(a)'
  <1>1. a # b /\ holder'[a] = holder[a]
    BY DEF Delete, TypeOK
  <1>2. PICK x \in rows : x.asset = a /\ x.employee = holder[a]
    BY <1>1 DEF OnRecord
  <1>3. x \in rows'
    BY <1>1, <1>2 DEF Delete, RowsOf
  <1> QED
    BY <1>1, <1>2, <1>3 DEF OnRecord

\* When requests do not overlap, only an offboarding that keeps the kit leaves
\* an asset with its assignee and without the open assignment that says so.
THEOREM OnlyKeepersSever ==
  ASSUME OneAtATime PROVE Spec => OnlyKeepingSevers
  <1> DEFINE Kept == \A a \in Assets :
               (holder[a] # NoOne => OnRecord(a)) /\ holder'[a] # NoOne /\ ~OnRecord(a)'
                 => \E r \in Requests : plan[r].kind = "keep" /\ Commit(r)
  <1>1. SerialInv /\ FoundInPlan /\ [Next]_vars => [Kept]_vars
    <2> SUFFICES ASSUME SerialInv, FoundInPlan, [Next]_vars, NEW a \in Assets,
                        holder[a] # NoOne => OnRecord(a), holder'[a] # NoOne, ~OnRecord(a)'
                 PROVE  \E r \in Requests : plan[r].kind = "keep" /\ Commit(r)
      OBVIOUS
    <2>0. TypeOK /\ LedgerInv
      BY DEF SerialInv
    <2>1. ~UNCHANGED <<holder, rows>>
      BY DEF OnRecord
    <2>2. ASSUME NEW b \in Assets PROVE ~Delete(b)
      BY <2>0, DeleteRecords
    <2>3. ASSUME NEW r \in Requests PROVE ~CommitRemove(r)
      BY <2>0, <2>2 DEF CommitRemove, TypeOK, Plan
    <2>4. ASSUME NEW r \in Requests PROVE ~Begin(r)
      BY <2>0, <2>1, BeginGood DEF Start, tables
    <2>5. PICK r \in Requests : Commit(r)
      BY <2>1, <2>2, <2>3, <2>4
      DEF Next, CreateAsset, ImportRollback, ReportIssue, SetEmployeeActive, Close, Abort, tables,
          vars
    <2>6. plan[r].kind = "keep"
      BY <2>0, <2>5, CommitRecords
    <2> QED
      BY <2>5, <2>6
  <1>2. Init => FoundInPlan
    BY DEF Init, FoundInPlan
  <1>3. SerialInv /\ FoundInPlan /\ [Next]_vars => FoundInPlan'
    BY FoundStep DEF SerialInv
  <1> QED
    BY <1>1, <1>2, <1>3, SerialIsInvariant, PTL DEF Spec, OnlyKeepingSevers

-----------------------------------------------------------------------------
(* Unless kit is kept by leavers, the assets agree with the history.       *)

LEMMA HolderInit == Init => HolderInv
  BY DEF Init, HolderInv, HolderHasOpenRow

\* The assignee of an asset after a commit has just been given an open
\* assignment, or had one that the commit leaves open.
LEMMA HolderCommit ==
  ASSUME TypeOK, LedgerInv, HolderInv, "keep" \notin OffboardModes,
         NEW r \in Requests, Commit(r)
  PROVE  HolderHasOpenRow'
  <1>1. FoundInPlan
    BY DEF HolderInv, FoundInPlan
  <1>2. plan[r].kind # "keep"
    BY DEF LedgerInv, PlanShape, Offboarding
  <1>3. \A a \in Assets : holder'[a] # NoOne => OnRecord(a)'
    BY <1>1, <1>2, CommitRecords DEF HolderInv, HolderHasOpenRow, OnRecord
  <1> QED
    BY <1>3 DEF HolderHasOpenRow, OnRecord

LEMMA HolderFinish ==
  ASSUME TypeOK, OneAtATime, NEW r \in Requests, Finish(r), HolderHasOpenRow'
  PROVE  HolderInv'
  BY DEF OneAtATime, HolderInv, Finish, TypeOK

\* Deleting an asset clears its assignee, and no other asset's row.
LEMMA HolderDelete ==
  ASSUME TypeOK, HolderHasOpenRow, NEW a \in Assets, Delete(a)
  PROVE  HolderHasOpenRow'
  BY DEF HolderHasOpenRow, Delete, RowsOf, TypeOK

LEMMA HolderStep ==
  ASSUME OneAtATime, "keep" \notin OffboardModes
  PROVE  TypeOK /\ LedgerInv /\ HolderInv /\ [Next]_vars => HolderInv'
  <1> SUFFICES ASSUME TypeOK, LedgerInv, HolderInv, [Next]_vars PROVE HolderInv'
    OBVIOUS
  <1>1. CASE \/ \E a \in Assets : CreateAsset(a)
             \/ \E t \in Tickets, a \in Assets : ReportIssue(t, a)
             \/ \E e \in Employees, b \in BOOLEAN : SetEmployeeActive(e, b)
             \/ UNCHANGED vars
    <2>1. UNCHANGED <<holder, rows, inflight>>
      BY <1>1 DEF CreateAsset, ReportIssue, SetEmployeeActive, vars, inflight
    <2> QED
      BY <2>1 DEF HolderInv, HolderHasOpenRow, inflight
  <1>2. ASSUME NEW a \in Assets, ImportRollback(a) PROVE HolderInv'
    BY <1>2, HolderDelete DEF ImportRollback, HolderInv, inflight
  <1>3. ASSUME NEW r \in Requests, Begin(r) PROVE HolderInv'
    <2>1. PICK p : Start(r, p)
      BY <1>3, BeginGood
    <2>2. \A q \in Requests : q = r
      BY DEF OneAtATime
    <2> QED
      BY <2>1, <2>2 DEF Start, tables, HolderInv, HolderHasOpenRow, TypeOK
  <1>4. ASSUME NEW r \in Requests, Close(r) PROVE HolderInv'
    <2>1. \A q \in Requests : q = r
      BY DEF OneAtATime
    <2> QED
      BY <1>4, <2>1 DEF Close, ToClose, tables, HolderInv, HolderHasOpenRow, TypeOK
  <1>5. ASSUME NEW r \in Requests, Commit(r) PROVE HolderInv'
    BY <1>5, HolderCommit, HolderFinish DEF Commit
  <1>6. ASSUME NEW r \in Requests, CommitRemove(r) PROVE HolderInv'
    <2>1. PICK a \in plan[r].on : Delete(a)
      BY <1>6 DEF CommitRemove
    <2>2. a \in Assets
      BY DEF TypeOK, Plan
    <2> QED
      BY <1>6, <2>1, <2>2, HolderDelete, HolderFinish DEF CommitRemove, HolderInv
  <1>7. ASSUME NEW r \in Requests, Abort(r) PROVE HolderInv'
    <2>1. HolderHasOpenRow'
      BY <1>7 DEF Abort, tables, HolderInv, HolderHasOpenRow
    <2> QED
      BY <1>7, <2>1, HolderFinish DEF Abort
  <1> QED
    BY <1>1, <1>2, <1>3, <1>4, <1>5, <1>6, <1>7 DEF Next

\* When the handlers do not overlap and no offboarding keeps the kit, whoever
\* an asset is assigned to has an open assignment row for it.
THEOREM SerialHolders ==
  ASSUME OneAtATime, "keep" \notin OffboardModes
  PROVE  Spec => []HolderHasOpenRow
  <1>1. Init => TypeOK /\ LedgerInv /\ HolderInv
    BY TypeInit, LedgerInit, HolderInit
  <1>2. TypeOK /\ LedgerInv /\ HolderInv /\ [Next]_vars => (TypeOK /\ LedgerInv /\ HolderInv)'
    BY TypeStep, LedgerStep, HolderStep
  <1>3. HolderInv => HolderHasOpenRow
    BY DEF HolderInv
  <1> QED
    BY <1>1, <1>2, <1>3, PTL DEF Spec
=============================================================================
