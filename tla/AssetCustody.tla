---------------------------- MODULE AssetCustody ----------------------------
(***************************************************************************)
(* Who holds which asset.  The rows of the tables assets, employees,       *)
(* asset_assignments (only the open ones: returnedAt null) and             *)
(* asset_maintenance, and the HTTP requests that change them.              *)
(*                                                                         *)
(* A request runs one Prisma interactive transaction at PostgreSQL's       *)
(* default isolation, READ COMMITTED, without locking reads.  It is        *)
(* modelled by the three moments at which it meets the other requests:     *)
(*   Begin   the row it reads, the checks on it, and the writes they lead  *)
(*           to, kept as the request's plan                                *)
(*   Close   updateMany(returnedAt null): the open assignments that are    *)
(*           committed, hence visible, when the statement runs             *)
(*   Commit  the writes become visible, all at once                        *)
(* A request may instead fail at any point before Commit (Abort).          *)
(* With one request slot the handlers run one at a time; with two or more  *)
(* they overlap in every way the database lets them.                       *)
(***************************************************************************)
EXTENDS AssetLifecycle

CONSTANTS
  Assets,        \* asset ids
  Employees,     \* employee ids
  Tickets,       \* repair ticket ids
  Requests,      \* request slots: how many requests can be in flight at once
  OffboardModes, \* what an offboarding may ask for: return, reassign, keep
  NoOne,         \* assignedEmployeeId null
  NoAsset,       \* a ticket that does not exist yet has no asset
  NoTicket,      \* a plan that writes no ticket
  Keep           \* a column the UPDATE leaves out

\* The three kinds of offboarding go by what is asked of the kit.
Offboarding == {"return", "reassign", "keep"}

ASSUME CustodyConstants ==
  /\ NoOne \notin Employees
  /\ Keep \notin Employees \union {NoOne} \union AssetStatus
  /\ NoAsset \notin Assets
  /\ NoTicket \notin Tickets
  /\ OffboardModes \subseteq Offboarding

VARIABLES
  status,        \* status[a]: assets.status, or unborn / deleted
  holder,        \* holder[a]: assets.assigned_employee_id
  rows,          \* the open rows of asset_assignments
  active,        \* active[e]: employees.is_active
  ticketStatus,  \* ticketStatus[t]: asset_maintenance.status, or unborn / deleted
  ticketAsset,   \* ticketAsset[t]: asset_maintenance.asset_id
  phase,         \* phase[r]: how far the request in slot r has got
  plan,          \* plan[r]: the writes it is going to commit
  closing,       \* closing[r]: the open rows its updateMany has found
  raced          \* history: assets two requests in flight have dealt with at once

tables == <<status, holder, rows, active, ticketStatus, ticketAsset>>
inflight == <<phase, plan, closing, raced>>
vars == <<status, holder, rows, active, ticketStatus, ticketAsset,
          phase, plan, closing, raced>>

-----------------------------------------------------------------------------
(* Rows, writes and plans.                                                 *)

\* An open assignment row; "by" is the slot whose request inserted it and
\* stands for the row's id: it tells apart rows with equal columns.
Row == [asset : Assets, employee : Employees, by : Requests]

RowsOf(a) == {x \in rows : x.asset = a}

\* What one transaction does to one asset: close its open assignments or
\* not, insert an assignment to "opened" (unless NoOne), and UPDATE the
\* status and the holder (each unless Keep).
Write == [close : BOOLEAN, opened : Employees \union {NoOne},
          status : AssetStatus \union {Keep},
          holder : Employees \union {NoOne, Keep}]

Kind == {"none", "asset", "remove", "repair", "reinstate"} \union Offboarding

\* A plan: the assets it touches, what it writes to each, and the employee
\* or the ticket it updates as well.
Plan == [kind : Kind, on : SUBSET Assets, write : [Assets -> Write],
         employee : Employees \union {NoOne},
         ticket : Tickets \union {NoTicket}, ticketTo : RepairStatus]

NoWrite == [close |-> FALSE, opened |-> NoOne, status |-> Keep, holder |-> Keep]

\* Mutant: the open assignment is closed, the assignee stays.
RestateClosing(s) == [close |-> TRUE, opened |-> NoOne, status |-> s, holder |-> Keep]

\* UPDATE of the status alone.
Restate(s) == [close |-> FALSE, opened |-> NoOne, status |-> s, holder |-> Keep]

\* Mutant: the assignee is cleared, the open assignment stays.
VacateWithoutClose(s) == [close |-> FALSE, opened |-> NoOne, status |-> s, holder |-> NoOne]

\* Close what is open and clear the assignee.
Vacate(s) == [close |-> TRUE, opened |-> NoOne, status |-> s, holder |-> NoOne]

\* Mutant: the updateMany before the create is missing.
HandOverWithoutClose(e, s) == [close |-> FALSE, opened |-> e, status |-> s, holder |-> e]

\* Close what is open and open an assignment to e, the new assignee.
HandOver(e, s) == [close |-> TRUE, opened |-> e, status |-> s, holder |-> e]

\* Write the assignee that is there already once more.
Rewrite(h, s) == [close |-> FALSE, opened |-> NoOne, status |-> s, holder |-> h]

\* Close what is open and leave the asset row alone.
CloseOnly == [close |-> TRUE, opened |-> NoOne, status |-> Keep, holder |-> Keep]

NoPlan == [kind |-> "none", on |-> {}, write |-> [b \in Assets |-> NoWrite],
           employee |-> NoOne, ticket |-> NoTicket, ticketTo |-> "reported"]

\* The plan of a handler that updates, or removes, one asset.
AssetPlan(k, a, w) ==
  [kind |-> k, on |-> {a}, write |-> [b \in Assets |-> IF b = a THEN w ELSE NoWrite],
   employee |-> NoOne, ticket |-> NoTicket, ticketTo |-> "reported"]

\* ... that moves ticket t to s and updates the ticket's asset.
RepairPlan(t, s, a, w) ==
  [kind |-> "repair", on |-> {a}, write |-> [b \in Assets |-> IF b = a THEN w ELSE NoWrite],
   employee |-> NoOne, ticket |-> t, ticketTo |-> s]

\* ... that updates employee e and the assets S.
EmployeePlan(k, e, S, f) ==
  [kind |-> k, on |-> S, write |-> f,
   employee |-> e, ticket |-> NoTicket, ticketTo |-> "reported"]

Exists(a) == status[a] \in AssetStatus

-----------------------------------------------------------------------------
Init ==
  /\ status = [a \in Assets |-> "unborn"]
  /\ holder = [a \in Assets |-> NoOne]
  /\ rows = {}
  /\ active = [e \in Employees |-> TRUE]
  /\ ticketStatus = [t \in Tickets |-> "unborn"]
  /\ ticketAsset = [t \in Tickets |-> NoAsset]
  /\ phase = [r \in Requests |-> "idle"]
  /\ plan = [r \in Requests |-> NoPlan]
  /\ closing = [r \in Requests |-> {}]
  /\ raced = {}

-----------------------------------------------------------------------------
(* Handlers that decide nothing from a row they read: one step each.       *)

\* createOnce, and the assets an import or the goods-receipt hand-off makes.
CreateAsset(a) ==
  /\ status[a] = "unborn"
  /\ \E s \in {"available", "pending_assignment"} :
       status' = [status EXCEPT ![a] = s]
  /\ UNCHANGED <<holder, rows, active, ticketStatus, ticketAsset, inflight>>

\* Maintenance create: a ticket says nothing about the asset's status yet.
ReportIssue(t, a) ==
  /\ ticketStatus[t] = "unborn"
  /\ Exists(a)
  /\ ticketStatus' = [ticketStatus EXCEPT ![t] = "reported"]
  /\ ticketAsset' = [ticketAsset EXCEPT ![t] = a]
  /\ UNCHANGED <<status, holder, rows, active, inflight>>

\* Employee update may set is_active directly, with no look at what is held.
SetEmployeeActive(e, b) ==
  /\ active[e] # b
  /\ active' = [active EXCEPT ![e] = b]
  /\ UNCHANGED <<status, holder, rows, ticketStatus, ticketAsset, inflight>>

-----------------------------------------------------------------------------
(* Begin: the reads, the checks and the plan of each handler.              *)

Start(r, p) ==
  /\ phase[r] = "idle"
  /\ phase' = [phase EXCEPT ![r] = "planned"]
  /\ plan' = [plan EXCEPT ![r] = p]
  /\ raced' = raced \union {a \in p.on : \E q \in Requests : a \in plan[q].on}
  /\ UNCHANGED <<tables, closing>>

\* Mutant: update without assertValidTransition.
BeginUpdateUnchecked(r, a, s) ==
  /\ Exists(a)
  /\ Start(r, AssetPlan("asset", a, Restate(s)))

\* update: the status alone; assignee and assignments are left as they are.
BeginUpdate(r, a, s) ==
  /\ Exists(a) /\ CanTransition(status[a], s)
  /\ Start(r, AssetPlan("asset", a, Restate(s)))

\* assign: an asset that is already assigned passes the lifecycle check.
BeginAssign(r, a, e) ==
  /\ Exists(a) /\ CanTransition(status[a], "assigned")
  /\ active[e]
  /\ Start(r, AssetPlan("asset", a, HandOver(e, "assigned")))

\* transfer to a person.
BeginTransfer(r, a, e) ==
  /\ Exists(a) /\ CanTransition(status[a], "assigned")
  /\ active[e]
  /\ Start(r, AssetPlan("asset", a,
       IF e = holder[a] THEN Rewrite(e, "assigned") ELSE HandOver(e, "assigned")))

\* transfer to a location: the status and the assignee that were read are
\* written back.
BeginRelocate(r, a) ==
  /\ Exists(a)
  /\ Start(r, AssetPlan("asset", a, Rewrite(holder[a], status[a])))

\* retire.
BeginRetire(r, a) ==
  /\ Exists(a) /\ CanTransition(status[a], "retired")
  /\ Start(r, AssetPlan("asset", a, Vacate("retired")))

\* changeStatus.
BeginChangeStatus(r, a, s) ==
  /\ Exists(a) /\ CanTransition(status[a], s)
  /\ Start(r, AssetPlan("asset", a,
       IF s \in ClearsHolder THEN Vacate(s) ELSE Restate(s)))

\* remove: the row goes, with its assignments and repair tickets.
BeginRemove(r, a) ==
  /\ status[a] \in {"retired", "disposed"}
  /\ Start(r, AssetPlan("remove", a, NoWrite))

\* The case 'reassigned': to e, else back to the assignee, else to the pool.
ReassignWrite(a, e) ==
  LET target == IF e # NoOne THEN e ELSE holder[a]
  IN IF target = NoOne THEN Rewrite(NoOne, "available")
     ELSE IF target = holder[a] THEN Rewrite(target, "assigned")
     ELSE HandOver(target, "assigned")

\* applyAssetSideEffect: what moving a ticket of asset a to s writes to the
\* asset (e is dto.toEmployeeId, or NoOne).
RepairWrite(a, s, e) ==
  IF s = "under_repair" /\ status[a] # "under_repair" THEN Restate("under_repair")
  ELSE IF s = "reassigned" THEN ReassignWrite(a, e)
  ELSE IF s = "cancelled" /\ status[a] = "under_repair"
       THEN Restate(IF holder[a] # NoOne THEN "assigned" ELSE "available")
  ELSE NoWrite

\* Maintenance transition: the ticket and its asset in one transaction, both
\* under their transition tables.  The target of a reassignment need not be
\* active.
BeginRepairStep(r, t, s, e) ==
  LET a == ticketAsset[t]
      w == RepairWrite(a, s, e)
  IN /\ ticketStatus[t] \in RepairStatus
     /\ CanRepairTransition(ticketStatus[t], s)
     /\ s # "reassigned" => e = NoOne
     /\ w.status # Keep => CanTransition(status[a], w.status)
     /\ Start(r, RepairPlan(t, s, a, w))

\* Mutant: a return that closes the assignment and forgets the assignee.
OffboardWriteHalf(a, k, target) ==
  IF k = "reassign" THEN HandOver(target, "assigned") ELSE CloseOnly

\* offboard: what the leaver holds is read before the transaction starts.
OffboardWrite(a, k, target) ==
  LET back(s) == IF status[a] = "under_repair" THEN "under_repair" ELSE s
  IN IF k = "return" THEN Vacate(back("available"))
     ELSE IF k = "reassign" THEN HandOver(target, back("assigned"))
     ELSE CloseOnly

BeginOffboard(r, e, k, target) ==
  LET held == {a \in Assets : Exists(a) /\ holder[a] = e}
  IN /\ active[e]
     /\ k = "reassign" => target # e /\ active[target]
     /\ Start(r, EmployeePlan(k, e, held,
          [a \in Assets |-> IF a \in held THEN OffboardWrite(a, k, target) ELSE NoWrite]))

\* reinstate.
BeginReinstate(r, e) ==
  /\ ~active[e]
  /\ Start(r, EmployeePlan("reinstate", e, {}, NoPlan.write))

-----------------------------------------------------------------------------
(* Close, Commit, Abort.                                                   *)

NeedsClose(p) == \E a \in p.on : p.write[a].close

\* The open rows that the updateMany of request r selects.
ToClose(r) == {x \in rows : x.asset \in plan[r].on /\ plan[r].write[x.asset].close}

\* updateMany where assetId and returnedAt null: only committed rows.
Close(r) ==
  /\ phase[r] = "planned"
  /\ NeedsClose(plan[r])
  /\ phase' = [phase EXCEPT ![r] = "closed"]
  /\ closing' = [closing EXCEPT ![r] = ToClose(r)]
  /\ UNCHANGED <<tables, plan, raced>>

Finish(r) ==
  /\ phase' = [phase EXCEPT ![r] = "idle"]
  /\ plan' = [plan EXCEPT ![r] = NoPlan]
  /\ closing' = [closing EXCEPT ![r] = {}]
  /\ UNCHANGED raced

\* The rows the transaction inserts.
Inserted(r) ==
  {x \in Row : /\ x.by = r
               /\ x.asset \in plan[r].on
               /\ x.employee = plan[r].write[x.asset].opened}

\* Mutant: an UPDATE of a deleted row goes unnoticed.
TargetsUnchecked(p) == p.on \subseteq Assets

\* Every UPDATE is by id and every inserted row has a foreign key, so the
\* transaction fails when the asset or the ticket has been deleted meanwhile;
\* a plan that only closes assignments of the asset does not notice.
TargetsExist(p) ==
  /\ \A a \in p.on : Exists(a) \/ p.kind = "keep"
  /\ p.ticket # NoTicket => ticketStatus[p.ticket] \in RepairStatus

Commit(r) ==
  LET p == plan[r] IN
  /\ phase[r] = IF NeedsClose(p) THEN "closed" ELSE "planned"
  /\ p.kind # "remove"
  /\ TargetsExist(p)
  /\ status' = [a \in Assets |->
       IF a \in p.on /\ p.write[a].status # Keep THEN p.write[a].status ELSE status[a]]
  /\ holder' = [a \in Assets |->
       IF a \in p.on /\ p.write[a].holder # Keep THEN p.write[a].holder ELSE holder[a]]
  /\ rows' = (rows \ closing[r]) \union Inserted(r)
  /\ active' = IF p.employee # NoOne
               THEN [active EXCEPT ![p.employee] = (p.kind = "reinstate")]
               ELSE active
  /\ ticketStatus' = IF p.ticket # NoTicket
                     THEN [ticketStatus EXCEPT ![p.ticket] = p.ticketTo]
                     ELSE ticketStatus
  /\ UNCHANGED ticketAsset
  /\ Finish(r)

\* The deletes of one asset and of everything that refers to it.
Delete(a) ==
  /\ status' = [status EXCEPT ![a] = "deleted"]
  /\ holder' = [holder EXCEPT ![a] = NoOne]
  /\ rows' = rows \ RowsOf(a)
  /\ ticketStatus' = [t \in Tickets |->
       IF ticketAsset[t] = a THEN "deleted" ELSE ticketStatus[t]]
  /\ UNCHANGED <<active, ticketAsset>>

CommitRemove(r) ==
  /\ phase[r] = "planned"
  /\ plan[r].kind = "remove"
  /\ TargetsExist(plan[r])
  /\ \E a \in plan[r].on : Delete(a)
  /\ Finish(r)

\* Rolling back an import deletes the assets it made, whatever became of them.
ImportRollback(a) ==
  /\ Exists(a)
  /\ Delete(a)
  /\ UNCHANGED inflight

\* An exception, a lost connection or a restart before COMMIT.
Abort(r) ==
  /\ phase[r] # "idle"
  /\ Finish(r)
  /\ UNCHANGED tables

-----------------------------------------------------------------------------
Begin(r) ==
  \/ \E a \in Assets, s \in AssetStatus : BeginUpdate(r, a, s)
  \/ \E a \in Assets, e \in Employees : BeginAssign(r, a, e)
  \/ \E a \in Assets, e \in Employees : BeginTransfer(r, a, e)
  \/ \E a \in Assets : BeginRelocate(r, a)
  \/ \E a \in Assets : BeginRetire(r, a)
  \/ \E a \in Assets, s \in AssetStatus : BeginChangeStatus(r, a, s)
  \/ \E a \in Assets : BeginRemove(r, a)
  \/ \E t \in Tickets, s \in RepairStatus, e \in Employees \union {NoOne} :
       BeginRepairStep(r, t, s, e)
  \/ \E e, target \in Employees, k \in OffboardModes : BeginOffboard(r, e, k, target)
  \/ \E e \in Employees : BeginReinstate(r, e)

Next ==
  \/ \E a \in Assets : CreateAsset(a)
  \/ \E a \in Assets : ImportRollback(a)
  \/ \E t \in Tickets, a \in Assets : ReportIssue(t, a)
  \/ \E e \in Employees, b \in BOOLEAN : SetEmployeeActive(e, b)
  \/ \E r \in Requests : Begin(r)
  \/ \E r \in Requests : Close(r)
  \/ \E r \in Requests : Commit(r)
  \/ \E r \in Requests : CommitRemove(r)
  \/ \E r \in Requests : Abort(r)

Spec == Init /\ [][Next]_vars

-----------------------------------------------------------------------------
(* Properties.                                                             *)

TypeOK ==
  /\ status \in [Assets -> AssetStatus \union {"unborn", "deleted"}]
  /\ holder \in [Assets -> Employees \union {NoOne}]
  /\ rows \subseteq Row
  /\ active \in [Employees -> BOOLEAN]
  /\ ticketStatus \in [Tickets -> RepairStatus \union {"unborn", "deleted"}]
  /\ ticketAsset \in [Tickets -> Assets \union {NoAsset}]
  /\ \A t \in Tickets : ticketStatus[t] # "unborn" => ticketAsset[t] \in Assets
  /\ \A t \in Tickets : ticketStatus[t] \in RepairStatus => Exists(ticketAsset[t])
  /\ phase \in [Requests -> {"idle", "planned", "closed"}]
  /\ plan \in [Requests -> Plan]
  /\ closing \in [Requests -> SUBSET Row]
  /\ raced \subseteq Assets

\* One slot never leaves two open assignments on one asset: the updateMany
\* before each create closes whatever the slot's own earlier requests opened.
OneRowPerSlot ==
  \A x, y \in rows : x.asset = y.asset /\ x.by = y.by => x = y

\* An asset has one open assignment at most, until two requests in flight deal
\* with it at once: then each may leave its own, and never more than one each.
\* Requests that overlap on other assets, fail between their updateMany and
\* their create, or find the asset deleted, do not make a second one.
OneOpenRow ==
  /\ OneRowPerSlot
  /\ \A x, y \in rows : x.asset = y.asset /\ x # y => x.asset \in raced

\* An open assignment names the asset's current assignee: the history table
\* and assets.assigned_employee_id never tell two stories.
OpenRowsNameHolder ==
  \A x \in rows : Exists(x.asset) /\ x.employee = holder[x.asset]

\* The other direction: whoever an asset is assigned to has an open row.
HolderHasOpenRow ==
  \A a \in Assets : holder[a] # NoOne =>
     \E x \in rows : x.asset = a /\ x.employee = holder[a]

\* The assignment that says who an asset's assignee is, open.
OnRecord(a) == \E x \in rows : x.asset = a /\ x.employee = holder[a]

\* Only an offboarding that keeps the kit leaves an asset with its assignee
\* and without the open assignment that says so.
OnlyKeepingSevers ==
  [][\A a \in Assets :
       (holder[a] # NoOne => OnRecord(a)) /\ holder'[a] # NoOne /\ ~OnRecord(a)'
         => \E r \in Requests : plan[r].kind = "keep" /\ Commit(r)]_vars

\* An asset that was removed, or rolled back with its import, stays gone:
\* no request that was in flight brings back its assignee, its assignments
\* or its repair tickets.
DeletedLeavesNothing ==
  \A a \in Assets : status[a] = "deleted" =>
     /\ holder[a] = NoOne
     /\ RowsOf(a) = {}
     /\ \A t \in Tickets : ticketAsset[t] = a => ticketStatus[t] = "deleted"

\* "Asset lifecycle table is law": only an offboarding moves an asset
\* between two statuses that ALLOWED_TRANSITIONS does not connect.
LifecycleOutsideOffboarding ==
  [][\A a \in Assets :
       Exists(a) /\ Exists(a)' /\ ~CanTransition(status[a], status'[a])
         => \E r \in Requests : plan[r].kind \in Offboarding /\ Commit(r)]_vars

\* An offboarding that returns or reassigns the kit leaves nothing pointing
\* at the leaver: no asset assigned to them, no open assignment.
OffboardDetachesLeaver ==
  [][\A r \in Requests :
       /\ plan[r].kind \in {"return", "reassign"}
       /\ Commit(r)
       => /\ \A a \in Assets : holder'[a] # plan[r].employee
          /\ \A x \in rows' : x.employee # plan[r].employee]_vars

-----------------------------------------------------------------------------
(* Inductive strengthenings of the two ledger invariants.                  *)

\* A plan that opens an assignment closes the open ones first, and writes the
\* new assignee; one that closes without opening clears the assignee, except
\* that an offboarding that keeps the kit only closes.
PlanShape(p) ==
  /\ p.kind \in Offboarding => p.kind \in OffboardModes
  /\ \A a \in p.on : LET w == p.write[a] IN
       /\ w.opened # NoOne => w.close /\ w.holder = w.opened
       /\ w.close /\ w.opened = NoOne /\ p.kind # "keep" => w.holder = NoOne
       /\ p.kind = "keep" => w.opened = NoOne /\ w.status = Keep /\ w.holder = Keep

\* A plan that closes nothing rewrites at most the assignee that is there.
PlanFits(p) ==
  \A a \in p.on : LET w == p.write[a] IN
     /\ status[a] # "unborn"
     /\ Exists(a) /\ ~w.close /\ w.holder # Keep => w.holder = holder[a]

\* Of those, whatever slot r inserted earlier has been found.
SlotInv ==
  /\ OneRowPerSlot
  /\ \A r \in Requests :
       /\ PlanShape(plan[r])
       /\ phase[r] = "closed" => \A x \in ToClose(r) : x.by = r => x \in closing[r]

\* Two requests in flight share assets that are raced only; on any other, a
\* request that has closed has found every open row.
RaceInv ==
  /\ OneOpenRow
  /\ \A q, r \in Requests : q # r => plan[q].on \intersect plan[r].on \subseteq raced
  /\ \A r \in Requests : phase[r] = "closed" =>
       \A x \in ToClose(r) : x \in closing[r] \/ x.asset \in raced

\* Alone, a request's plan still fits the rows it was made from when it
\* commits: it rewrites the assignee that is there, and has found every open
\* assignment.
LedgerInv ==
  /\ OpenRowsNameHolder
  /\ \A r \in Requests :
       /\ PlanShape(plan[r])
       /\ PlanFits(plan[r])
       /\ phase[r] = "closed" => ToClose(r) \subseteq closing[r]

\* What a request closes is on the assets of its plan.
HolderInv ==
  /\ HolderHasOpenRow
  /\ \A r \in Requests :
       /\ phase[r] # "closed" => closing[r] = {}
       /\ \A x \in closing[r] :
            x.asset \in plan[r].on /\ plan[r].write[x.asset].close

\* Outside an offboarding, every status a plan writes is one the lifecycle
\* allows from the status the asset has.
PlanLawful(p) ==
  p.kind \notin Offboarding =>
    \A a \in p.on : p.write[a].status # Keep /\ Exists(a)
                     => CanTransition(status[a], p.write[a].status)

\* An offboarding that returns or reassigns the kit takes in whatever the
\* leaver holds, and gives each asset to somebody else or to nobody.
PlanDetaches(p) ==
  p.kind \in {"return", "reassign"} =>
    /\ p.employee # NoOne
    /\ \A a \in Assets : holder[a] = p.employee => a \in p.on
    /\ \A a \in p.on : p.write[a].holder \notin {Keep, p.employee}

\* Alone, a request commits on the statuses and the assignees it has read.
CurrentInv ==
  /\ \A a \in Assets : holder[a] # NoOne => Exists(a)
  /\ \A r \in Requests : PlanLawful(plan[r]) /\ PlanDetaches(plan[r])

\* One request slot: handlers run one after another.
OneAtATime == \A q, r \in Requests : q = r

-----------------------------------------------------------------------------
(* What the documentation says and the code does not do.                   *)

\* disposed is a terminal state of the asset lifecycle.
DisposedIsTerminal ==
  [][\A a \in Assets : status[a] = "disposed" => status'[a] \in {"disposed", "deleted"}]_vars
=============================================================================
