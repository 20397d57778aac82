---------------------------- MODULE VendorRecords ----------------------------
(***************************************************************************)
(* One vendor under the requests of administrators, whose roles change     *)
(* meanwhile (Administrators): its status, and its bank account, which a   *)
(* second administrator confirms.  Who made what is read back from the     *)
(* activity log, and a log row is a statement of its own, after the change *)
(* it tells of.  Requests read (Begin), look the maker up (CheckMaker),    *)
(* write, and log.                                                         *)
(***************************************************************************)
EXTENDS Administrators

CONSTANTS
  Accounts,     \* bank accounts
  NoAccount,    \* none on record, or no change pending
  Statuses,     \* environment: the statuses that requests give
  Exclusive     \* environment: the operations that overlap no other one on the vendor

ASSUME VendorConstants ==
  /\ NoAccount \notin Accounts
  /\ Statuses \subseteq {"draft", "pending_approval", "active", "suspended", "blacklisted"}

VARIABLES
  status,       \* "none": not created yet
  bank,         \* bankAccountNumber and its IFSC code
  pending,      \* the pending bank details, while bankChangePending
  creator,      \* the actor of the log's "create" row, if there is one
  maker,        \* the actor of the log's latest "bank_change_pending" row, if there is one
  plan,         \* plan[r]: what the request in slot r is about to do
  drafter,      \* history: who created the vendor
  submitter,    \* history: who submitted the bank details that are pending
  past          \* history: what has happened to the vendor

row == <<status, bank, pending>>
log == <<creator, maker>>
history == <<drafter, submitter, past>>
vars == <<adminVars, row, log, plan, history>>

Status == {"draft"} \union Statuses

\* "overlapped": two requests about the vendor were in flight at once, after which nothing
\* else is noted; "unlogged": a bank change was made and its log row was not; "self-approved",
\* "self-activated": one person, not the only administrator, made it and confirmed it.
Event == {"overlapped", "unlogged", "self-approved", "self-activated"}

Overlapped == "overlapped" \in past

\* Event e is noted if c holds.
Note(e, c) == past' = IF c /\ ~Overlapped THEN past \union {e} ELSE past

Plan ==
  [step : {"idle", "check", "write", "log"}, op : {"create", "change", "approve", "status"},
   actor : Users \union {NoUser}, super : BOOLEAN, account : Accounts \union {NoAccount},
   status : Status, own : BOOLEAN]

NoPlan ==
  [step |-> "idle", op |-> "create", actor |-> NoUser, super |-> FALSE,
   account |-> NoAccount, status |-> "draft", own |-> FALSE]

Init ==
  /\ AdminInit
  /\ status = "none"
  /\ bank = NoAccount /\ pending = NoAccount
  /\ creator = NoUser /\ maker = NoUser
  /\ plan = [r \in Requests |-> NoPlan]
  /\ drafter = NoUser /\ submitter = NoUser
  /\ past = {}

-----------------------------------------------------------------------------
InFlight(r) == plan[r].step # "idle"

\* A request of administrator u comes in, and what it has read is in p.
Begin(r, u, p) ==
  /\ ~InFlight(r) /\ ~Editing(r)
  /\ Manages(u)
  /\ \A q \in Requests : InFlight(q) => {p.op, plan[q].op} \cap Exclusive = {}
  /\ plan' = [plan EXCEPT ![r] =
                [p EXCEPT !.actor = u, !.super = role[u] = "SUPER_ADMIN"]]
  /\ past' = IF \E q \in Requests : InFlight(q) THEN {"overlapped"} ELSE past

\* create; what is checked before its INSERT refuses it or has no effect here.
BeginCreate(r, u, account) ==
  /\ status = "none"
  /\ Begin(r, u, [NoPlan EXCEPT !.step = "log"])
  /\ status' = "draft"
  /\ bank' = account
  /\ drafter' = u
  /\ UNCHANGED <<adminVars, pending, log, submitter>>

\* update that gives bank details other than those on record.
BeginBankChange(r, u, account) ==
  /\ status # "none"
  /\ account # bank
  /\ Begin(r, u, [NoPlan EXCEPT !.step = "write", !.op = "change", !.account = account])
  /\ UNCHANGED <<adminVars, row, log, drafter, submitter>>

\* approveBank reads the pending details.
BeginApproveBank(r, u) ==
  /\ pending # NoAccount
  /\ Begin(r, u, [NoPlan EXCEPT !.step = "check", !.op = "approve", !.account = pending,
                    !.own = submitter = u])
  /\ UNCHANGED <<adminVars, row, log, drafter, submitter>>

Awaiting == {"draft", "pending_approval"}

\* changeStatus; the maker is looked up for the activation of a vendor that awaits it.
BeginChangeStatus(r, u, s) ==
  /\ status \notin {"none", s}
  /\ Begin(r, u, [NoPlan EXCEPT
       !.step = IF s = "active" /\ status \in Awaiting THEN "check" ELSE "write",
       !.op = "status", !.status = s, !.own = drafter = u])
  /\ UNCHANGED <<adminVars, row, log, drafter, submitter>>

Alone == Cardinality({u \in Users : Manages(u)}) <= 1

\* Mutant: any Super Admin may confirm what he made.
NotSamePersonOrSuper(p, m) == m = NoUser \/ m # p.actor \/ p.super

\* assertNotSamePerson: the maker m does not confirm, but as the only administrator.
NotSamePerson(p, m) == m = NoUser \/ m # p.actor \/ (p.super /\ Alone)

\* The maker is looked up in the log.
CheckMaker(r) ==
  LET p == plan[r] IN
  /\ p.step = "check"
  /\ NotSamePerson(p, IF p.op = "approve" THEN maker ELSE creator)
  /\ plan' = [plan EXCEPT ![r] = [p EXCEPT !.step = "write", !.own = p.own /\ ~Alone]]
  /\ UNCHANGED <<adminVars, row, log, history>>

At(r, op, step) == plan[r].op = op /\ plan[r].step = step

Finish(r) == plan' = [plan EXCEPT ![r] = NoPlan]

\* The new details wait beside those on record.
WriteBankChange(r) ==
  /\ At(r, "change", "write")
  /\ pending' = plan[r].account
  /\ submitter' = plan[r].actor
  /\ plan' = [plan EXCEPT ![r] = [@ EXCEPT !.step = "log"]]
  /\ UNCHANGED <<adminVars, status, bank, log, drafter, past>>

\* The details that were read become those on record (its log row is not read again).
WriteApproval(r) ==
  /\ At(r, "approve", "write")
  /\ bank' = plan[r].account
  /\ pending' = NoAccount
  /\ submitter' = NoUser
  /\ Note("self-approved", plan[r].own)
  /\ Finish(r)
  /\ UNCHANGED <<adminVars, status, log, drafter>>

WriteStatus(r) ==
  LET s == plan[r].status IN
  /\ At(r, "status", "write")
  /\ status' = s
  /\ Note("self-activated", status \in Awaiting /\ s = "active" /\ plan[r].own)
  /\ Finish(r)
  /\ UNCHANGED <<adminVars, bank, pending, log, drafter, submitter>>

\* log.write, after a creation or a bank change.
Log(r) ==
  /\ plan[r].step = "log"
  /\ IF plan[r].op = "create"
     THEN creator' = plan[r].actor /\ UNCHANGED maker
     ELSE maker' = plan[r].actor /\ UNCHANGED creator
  /\ Finish(r)
  /\ UNCHANGED <<adminVars, row, history>>

\* A check refuses the request, a database call fails, or the process ends.
Stop(r) ==
  /\ InFlight(r)
  /\ Note("unlogged", At(r, "change", "log"))
  /\ Finish(r)
  /\ UNCHANGED <<adminVars, row, log, drafter, submitter>>

VendorStep(r) ==
  \/ \E u \in Users, a \in Accounts \union {NoAccount} : BeginCreate(r, u, a)
  \/ \E u \in Users, a \in Accounts : BeginBankChange(r, u, a)
  \/ \E u \in Users : BeginApproveBank(r, u)
  \/ \E u \in Users, s \in Statuses : BeginChangeStatus(r, u, s)
  \/ CheckMaker(r)
  \/ WriteBankChange(r)
  \/ WriteApproval(r)
  \/ WriteStatus(r)
  \/ Log(r)
  \/ Stop(r)

\* The administration of logins goes on beside the vendor's requests; a slot is at one
\* of the two.
LoginStep ==
  /\ AdminNext
  /\ \A r \in Requests : edit'[r] # edit[r] => ~InFlight(r)
  /\ UNCHANGED <<row, log, plan, history>>

Next == LoginStep \/ \E r \in Requests : VendorStep(r)

Spec == Init /\ [][Next]_vars

-----------------------------------------------------------------------------
(* Properties.                                                             *)

TypeOK ==
  /\ AdminTypeOK
  /\ status \in Status \union {"none"}
  /\ {bank, pending} \subseteq Accounts \union {NoAccount}
  /\ {creator, maker, drafter, submitter} \subseteq Users \union {NoUser}
  /\ plan \in [Requests -> Plan]
  /\ past \subseteq Event

\* Bank details are confirmed by somebody other than the one who submitted them, and a
\* vendor that waits for its activation is activated by somebody other than its creator,
\* unless that is the only administrator.  Where requests take turns, only what the log does
\* not tell escapes this: a change, or a creation, whose log row was lost.  (A vendor that
\* was suspended before it was ever active does not wait for its activation any more.)
MakerIsNotChecker ==
  /\ "self-approved" \in past => "unlogged" \in past
  /\ "self-activated" \in past => creator = NoUser
=============================================================================
