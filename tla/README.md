# A TLA+ model of the NewVision IT-admin back end

The system is an inventory and help-desk service for one IT department per tenant:
a NestJS back end on PostgreSQL through Prisma (`src/backend/src`), and a React front
end that calls it (`src/frontend`). This directory holds TLA+ modules of the back end's
record-keeping core, TLC runs that check them on small instances, and proofs, checked by
TLAPS, of what holds for instances of every size.

The modules describe the code as it is. Where the code keeps a promise only under a
condition, the property states the condition; where a document or a comment promises
more than the code keeps, a run that finds the violation says so (see *Findings*).

## The system

### Parts, their state, and what makes them correct

| Part | State | Operations | Correct when |
|---|---|---|---|
| Assets (`assets/`) | `assets.status`, `assigned_employee_id`, the open rows of `asset_assignments` | create, update, remove, assign, transfer, retire, change status, bulk forms of these | the history table and the asset row tell one story; statuses follow the lifecycle table |
| Maintenance (`maintenance/`) | `asset_maintenance.status`, and the asset's status through it | report, transition | a repair moves its asset as the two tables allow |
| Employees (`employees/`) | `is_active`; through offboarding, everything that points at the employee | create, update, offboard, reinstate, delete | nothing is left assigned to somebody who left |
| Accessories (`accessories/`) | `total_quantity`, the `checked_out` counter, checkout rows | create, check out, check in, adjust | the counter is what the open rows add up to, and within the total |
| Consumables (`consumables/`) | `total_quantity`, `available`, issue rows | create, update, issue, adjust | what is on the shelf and what was issued make up the total |
| Asset requests (`asset-requests/`), issue kits | `asset_requests.status`, what was handed out | create, review, edit, fulfil | only approved requests are fulfilled, once, and with what was asked for |
| Requisitions (`procurement/`) | status, lines and total, the approver rows of the current round | submit, edit, decide, withdraw, convert | approvals stand for the amounts that stand, levels decide in order, somebody can decide |
| Purchase orders and receipts | status, lines, goods receipts, hand-offs to the inventory | send, amend, cancel, short-close, receive, void | the status follows what was received; inventory that came in and should not have is flagged |
| Invoices and payments | match status, payment status | record, set payment | an invoice that does not match is not paid without a note |
| Vendors, contracts | status, bank details and a pending change, the log rows that name the makers | create, change status, propose and approve a bank change | maker and checker differ |
| Import jobs | job status, created ids | create, preview, commit, run, roll back | a completed job's counts and rows agree, what it created can be removed again, and a run ends |
| Tickets | status, assignee, waiting clock, end dates | create, assign, unassign, transition, comment, canned response, close in bulk, mark as duplicate | the waiting time is real, the columns of a row agree, a requester's answer is heard |
| Background jobs of the help desk | the marks for escalation and overdue mail | hourly escalation, overdue mails (two cron entries) | every overdue ticket is escalated, and told once |
| E-mail to ticket | messages stored by Message-ID | poll, webhook | one mail, one comment or ticket |
| Sessions | two refresh-token columns per user, the browsers' cookies | sign in, refresh, sign out, change the password | a session that was ended stays ended, and no other ends |
| Users and roles | role, active flag | update, offboard, reinstate | a Super Admin remains |
| Webhooks, notifications, mail | last delivery result | emit | best effort only |
| Tenancy | tenant id on every row | scoping of every query | no request sees another tenant |
| Audit log, audit cycles, reconciliation, reports, chat, notes, search, reference data | their own rows | simple reads and writes | see `PROJECT.json`, which lists every part |

### How the parts interact

Everything meets in the database. There are no locks and no queue: a handler reads rows,
checks them, and writes, mostly in one Prisma transaction at PostgreSQL's default
isolation, READ COMMITTED. An offboarding writes assets, assignments, accessory
checkouts and the employee in one transaction. A repair step writes the ticket and its
asset. Fulfilling a request calls the asset service, or an issue kit that calls the asset
and the accessory services, and each of these commits on its own. A requisition becomes
a purchase order; a goods receipt creates assets and stock in the same transaction. An
import runs in the process that took the request, after the response. Webhooks and mails
go out after the commit. Cron calls the help desk's jobs again and again, and a run that is slow meets the
next one; a mail that answers a ticket goes through the same code as a comment. Who may
confirm a vendor's bank details depends on the roles that administrators give each other
meanwhile. Offboarding an employee takes the login away, and so may end an administrator.

### What is hard about it

* **Check, then write.** READ COMMITTED without locking reads means that what a handler
  checked may have changed when it writes. In most modules a request is therefore
  a `Begin` (the read and the checks) and a `Commit` (the writes), with other requests in
  between.
* **Statements that look again.** An `updateMany`, a `deleteMany` or a `findMany` inside a transaction sees what
  is committed when it runs, not what the handler read before. Those are steps of their own.
* **Handlers that are no transaction.** Fulfilment, rebuilding and counting approvers, a
  comment and the status it changes, a vendor's change and its log row run
  as separate statements, and may stop after any of them.
* **A mark and a message.** A job marks a ticket and tells somebody, in one order or the other; a stop in
  between loses the message or sends it twice.
* **A token that is on its way.** A refresh replaces the token before the browser has the new one; a sign-out may
  be overtaken by the refresh that began before it.
* **Legal calls in an unexpected order**: disposing of an assigned asset and then offboarding
  its assignee, voiding a receipt of a cancelled order, editing a requisition whose total was
  overridden.
* **Deleting while others work**: removing an asset or rolling back an import while an
  assignment is in flight.

`PROJECT.json` lists these hazards at their lines, with the properties that guard them, or
the reason why none does.

## The modules

| Module | Models | Kind |
|---|---|---|
| `AssetLifecycle` | the two transition tables | constant operators |
| `AssetCustody` | assets, assignments, repairs, offboarding, import rollback | state machine |
| `AssetCustodyProofs` | | proofs |
| `StockLedger` | what a stock promises: issue what is there, take back what is out, count | abstract specification |
| `AccessoryStock` | one accessory; implements `StockLedger` until requests overlap | state machine |
| `ConsumableStock` | one consumable; implements `StockLedger` when requests do not overlap | state machine |
| `StockProofs` | about both stocks | proofs |
| `AssetRequests` | requests, their review and fulfilment, issue kits | state machine |
| `Personnel` | the employees that an accessory's rows and requests refer to | constants |
| `Requisitions` | one requisition, its approvers, its conversion | state machine |
| `RequisitionsProofs` | | proofs |
| `PurchaseOrders` | one order, its receipts and their hand-offs | state machine |
| `PurchaseOrdersProofs` | | proofs |
| `ImportJobs` | an import job: preview, commit, background run, roll-back, faults | state machine with fairness |
| `ImportJobsProofs` | | proofs |
| `Tickets` | one support ticket, its waiting clock and its end dates | state machine |
| `HelpdeskJobs` | escalation, overdue mails, mailbox poll and mail webhook, faults | state machine with fairness |
| `ServiceDeskProofs` | about `AssetRequests`, `Tickets` and `HelpdeskJobs` | proofs |
| `SessionTable` | what the two token columns promise: two sessions, of which a third ends the oldest | abstract specification |
| `Sessions` | the sessions of one user and its browsers; implements `SessionTable` until requests overlap | state machine |
| `SessionsProofs` | | proofs |
| `Administrators` | logins, their roles and the rule of the last Super Admin | state machine |
| `VendorRecords` | one vendor and its bank account, composed with `Administrators` | state machine |
| `VendorRecordsProofs` | about both | proofs |
| `MC...` | model values, small sets and symmetry for TLC | instances |

`AssetLifecycle` is extended by `AssetCustody` and `AssetRequests`; `StockLedger` is instantiated by
both stock modules, `SessionTable` by `Sessions`; `AccessoryStock` and `AssetRequests` extend `Personnel`; `VendorRecords` extends `Administrators` and runs its steps beside its own. Definitions whose comment starts with *Mutant* belong to no behaviour:
each is a plausible slip in the definition below it, and is used to see that a property
would notice.

### AssetCustody

A request occupies a slot `r \in Requests` from its first read to its end. `Begin...` reads the
rows, checks them as the handler does and records the writes they lead to in `plan[r]`;
`Close(r)` is `updateMany({returnedAt: null})`, which finds the open assignments that are
committed at that moment; `Commit(r)` makes all writes visible, if the rows it updates are
still there: an UPDATE of a deleted row fails the transaction, which is `Abort(r)`. With one slot
handlers run one after another; with several they overlap in every way READ COMMITTED lets
them. Handlers of one write (creating an asset, reporting an issue, the active flag, an
import rollback) are one step. Ids are never used again: a row is `unborn`, then there,
then `deleted`. `raced` remembers the assets that two requests in flight have dealt with at once; nothing reads it.

Abstracted: an offboarding closes assignments asset by asset, the model closes all of them at one
moment (its writes to different assets do not depend on each other). Bulk operations are
sequences of the single ones. Locations matter only in that a transfer may change nothing else (`BeginRelocate`).

### The stocks

One accessory, and one consumable: requests on different rows do not meet. In
`AccessoryStock` the counter is written by increments, so overlapping requests spoil only the
*checks*; in `ConsumableStock` an update of the total and a hand count write absolute numbers
that were computed from what was read. The quantity a request asks for is bounded by
`MaxQuantity` (`MaxIssue`), the totals by `MaxTotal` (`MaxStock`) or the set `Totals`, hand counts by `Stocktakes` (`Recounts`). The
two modules share no name, so that one module of proofs can be about both; so do `AssetRequests`, `Tickets` and `HelpdeskJobs`.

### AssetRequests

Each database call of the review, the edit and the fulfilment is a step, because nothing holds
them together; `AssetService.assign` is one step here (its inside is `AssetCustody`).
`BreakOff(h)` is a handler that stops half way. `failures[q]` counts the fulfilments of `q` that stopped
after they had assigned an asset; `handed[q]` is the set of assets assigned for `q`. Both are
history, nothing reads them. The rest of the system is represented by assignments, status changes and
restocking that happen in between.

### Requisitions

One requisition. `approvers` holds the rows of the current round and, between two statements of
a rebuild, of none; each row remembers in `seen` the terms that stood when it was decided.
The constants say what the environment is like: `Exclusive`, the kinds of requests that overlap
nothing, and `Breaks`, whether a handler may stop half way. `overlap` remembers what has overlapped so far:
`"none"`, only `"decisions"`, or `"any"`, which includes a handler that stopped. Line items and totals are members of `Amounts`:
`lines` stands for the line items by the total they add up to, `total` for the column, which a
request may also set by itself. `MaxRounds` bounds how often approvers are built.

### PurchaseOrders

One order after its conversion. Every handler reads the order first, outside its transaction,
and decides from that copy (`read`, `seen`, `was`); the statements inside the transaction that read
again are `DeleteLines`, `CountReceived` and `CountRemaining`. A line's id is the batch of lines it was
created in and its place there, so that lines written by an amendment are new lines. `overlapped`
remembers whether two requests were ever in flight at once, and lets one run state both what
holds of handlers that take turns and what holds whatever overlaps. A receipt's lines keep
the order lines they name (a foreign key): an amendment that would delete one fails.

### ImportJobs

A slot holds a request and then, after `WriteCommit`, the run that `commit` starts in the same process
(`setImmediate`). The run scans for duplicates once, then imports row by row in batches, and only its last update stores what it
created; until then the ids are in memory. An asset and its audit entry are one transaction (`ImportAsset`); an employee and its audit entry
are two statements (`CreateEmployee`, `AuditEmployee`). Both are inside the try block of the row: a row that is not acceptable (`RefuseRow`) and a
row of which any call fails (`RowFails`: a lost connection, a code or number that somebody else took meanwhile) are counted as failed, and the run goes on.
An employee whose audit entry fails is then in the table, counted as failed and in no list of ids (`Stray`). `Throw` is an exception where the run
calls the database outside those try blocks (`MayThrow`), `WriteFailed` the catch block around the whole run, `LoseRun` a failure of either
that nothing catches, `Crash` the end of the process. A failed call is taken to have changed nothing. A row is its key and whether its other columns are accepted;
the scan compares normalised keys and so does the model, which leaves out two serial numbers that differ in case only. `removed`, `raced`, `broken`, `lost` and `faulted` are
history. `MaxRuns` bounds how often a job is committed.

### Tickets

One ticket: no handler looks at another one. Every handler reads the row first and computes its whole UPDATE
from that copy (`plan[r]`); nothing is checked again when the UPDATE runs (`Update`). A comment's
row is a statement before it (`StoreComment`); taking a ticket, a canned response and closing in bulk go on with a
second read (`Resume`), which the transition table may refuse by then. `Stop` is a failed call or
the end of the process at any of these points. The clock (`now`) moves in ticks, `Minute` of them to the minute, and only while no request is in flight; each wait
is rounded to whole minutes when it ends, as `Math.round` does (`Rounded`). `past`
notes what has happened until requests first overlap. Left out are watchers, ratings, attachments and the texts; a
watcher's comment or an internal note changes no column kept here.

`waited` counts the ticks the ticket really waited, `waits` the waits that were rounded, `adrift` the ticks that the clock has run while nothing
waited. That happens in two ways: an assignment that has read a ticket before it began to wait writes the old status over it, or a waiting ticket is unassigned
or marked as a duplicate; neither touches `waitingSince`, and `computeSla` (`ticket-sla.ts:43-47`) goes on subtracting the time since. The first needs an overlap; calls of the
second kind, and the unassignment of a resolved ticket, which leaves its dates, are named `severed` by the properties (see *Findings* too).

### HelpdeskJobs

A run occupies a slot from its query to its end, works on the items it has read (`todo`) one after the other, and each write is a step.
A mail without a source is passed over
(`SkipMail`) and stays unseen. The flag is a command inside the loop that fetches the mails, which the IMAP client may hold back until the loop is done: a poll
may hang there (`HangOnFlag`) until the connection is given up (`LoseConnection`). What people do to tickets is any change of stage or due date. `Break` ends a run anywhere, `FailMail` is an error
that the poll catches. Reopened tickets are never escalated (`ToEscalate`), as the query says. `made` and `letters` count, as history,
what went out; `raced` and `broken` say on which item runs met or stopped. Mails that the filter or the rate limit discards are not
among `Mails`. (The help text, `articles.ts:798`, says that there is no escalation engine; there is this one.)

### Sessions

Tokens are numbered in the order in which they are signed, which is the order in which they expire; the choice of a column compares
expiry dates, so numbers serve (two tokens of one millisecond are not told apart by the code either, and are left out). Signing
and reading the columns are one step, since nothing runs in between that another request could see.
A request ends when its answer has set the cookie of its browser (`Answer`), or `Stop` loses it. Passwords, one-time codes, the identity
provider, reset links, access tokens and the rate limit decide only whether a request gets to its `Begin`.

### Administrators and VendorRecords

`Administrators` has the update of a login in two steps, the check and the write, and what an offboarding does to a login, which
checks nothing about the last Super Admin. `VendorRecords` is one vendor among these administrators: who created it and who submitted the pending bank
details is read back from the activity log (`CheckMaker`), whose rows are written after the change they tell of (`Log`). An administrator
who is the only one may confirm his own change. The creator is looked up only when a vendor goes from draft or pending
approval to active; the service also takes a draft to suspended and from there to active (the front end does not
offer it), and then nobody is looked up.

## The runs

| Run | Question | Bounds |
|---|---|---|
| `custody_serial` | Handlers one at a time, with failures: do the rows agree, are lifecycle jumps only an offboarding's, does a deletion leave nothing behind? | 2 assets, 2 employees, 1 repair ticket, 1 slot |
| `custody_races` | With two requests at once: when does an asset get a second open assignment? | 1 asset, 2 employees, 2 slots, all three kinds of offboarding |
| `custody_disposed` | Is `disposed` terminal? (It is not.) | 1 asset, 2 employees, 1 slot |
| `stock_room` | Is the accessory counter exact and the ledger implemented until requests overlap, and what is left after that? Does only a hand count unbalance a consumable's books? When does a request get two assets? | accessory: 3 checkout rows, 2 employees, total to 2, 2 slots; consumable: totals 0, 1, 3, 6, issues of 1 or 2, 1 slot; 2 requests, 2 assets, 1 kit accessory, 1 handler; one of the three moves in a behaviour |
| `requisition_races` | Submissions, edits and decisions overlap and stop half way: does the order of levels hold, do overlapping decisions meet, is there one order, and, without overlap, is every approval for the amounts that stand? | 2 handlers, 2 amounts, 2 approvers, 2 rounds; withdrawals and conversions overlap nothing |
| `order_races` | What holds of an order, whatever overlaps, and what more while nothing has? | 2 receipts, 2 slots, orders of 1 or 2 lines, 2 batches of lines |
| `import_races` | Whatever overlaps, fails or crashes: are a completed job's counts and keys right, and does a job that is not lost end? | a file of 4 assets (one without a number, one refused, one repeated) or one of 3 employees (one repeated), in batches of 2, committed up to twice, 2 slots; one file in a behaviour |
| `ticket_races` | Two requests on one ticket, which may stop half way: is the waiting time real, do the columns agree, is an answer heard? | 2 slots, 1 assignee, 2 ticks of a third of a minute; taking and bulk closing overlap nothing |
| `ticket_sla` | Is only waiting left out of the first-response time? (It is not.) | 1 slot, 1 assignee, 2 ticks |
| `helpdesk_jobs` | Is each notice, mail and entry made once, and does every overdue ticket and every mail get its turn? | 1 ticket, 1 mail that answers it and 1 without a source, 2 runs, 2 stops or failures; a behaviour is about overdue tickets or about mails |
| `session_races` | Is a session that was ended ended, does a browser stay signed in, are the columns a table of two sessions? | 2 browsers, 4 tokens, 2 slots |
| `vendor_races` | Does a Super Admin remain, and does nobody confirm his own change? | 2 administrators of 3 roles, 1 account, 2 statuses (draft and active), 2 slots; creation and status changes overlap no other request on the vendor |

Why these bounds are enough for the cases that matter: a race needs two slots; that damage adds up per slot is
proved for any number (`BoundedOverIssue`). A reassignment or a
transfer needs two employees; a second asset shows that writes stay on their
asset; a partial receipt needs a line of two units or two lines, a progress that shrinks again needs a second receipt; a
material edit needs two totals, an order of levels two approvers. In `order_races` two batches of lines let
an amendment happen once. In `ticket_races` a wait of one tick is rounded away, one of two ticks is rounded up to a minute, and two
waits of one tick show that rounding adds up per wait. A third sign-in needs three tokens, and a fourth
lets one of them be renewed. Two administrators are enough to demote each other, and to make and check. Model values of one kind are interchangeable, and the symmetry sets say so; the
approvers of a requisition are not, because their levels differ. The two runs
that check liveness, `import_races` and `helpdesk_jobs`, use no symmetry. Three runs explore parts of their model one at a time, because what they leave out is no new case:
the three stocks of `stock_room` share no row; the two files of `import_races` are for different tables, and another job for the same table meets a job only in the
keys of the table, as its own earlier run does; and what a mail does to its ticket in `helpdesk_jobs` is a change of stage, which the behaviours without mails have anyway. The theorems are
for the whole specifications. Where a set `Exclusive` (or `Mixed = FALSE`) keeps some operations apart, it is to keep
the run small; the theorems of the same module are for any such set.

Deadlock is checked in every run but those of `Requisitions`, `PurchaseOrders` and `ImportJobs`, which really
end: an import job when it is rolled back or its bounded commits are used up, a requisition when it is converted, withdrawn or rejected for the last of its bounded rounds, an order when it is
closed or cancelled and has no receipt to void.

**Fairness.** Requests are sent by people, so no fairness is assumed of any `Begin` action, and in
most modules nothing runs by itself and no liveness is stated. Two modules differ. An import run, once
committed, goes on by itself: `ImportJobs` assumes weak fairness of `Continue(s)` for each slot, since Node's event loop runs
what is queued, and a database call returns or fails. In `HelpdeskJobs` a run that has begun goes on in the same way (weak fairness of `Continue(w)`), and cron calls each job
at every tick of its schedule: strong fairness of starting it, because a call that finds the job's query empty, or its slots taken, is followed by
another. Failures are part of `Continue`, so fairness does
not promise success, and nothing is assumed of `Crash` and `Break`. Nor is it promised that a poll gets past its flag: `HangOnFlag` is as fair a continuation as `Flag`, and the
only thing assumed of a poll that hangs is that the client gives up a silent connection in the end.

**Mutants.** For every property of every passing run there is a variant of one definition
(a missing guard, a missing reset, a forgotten write) under which TLC finds the property violated.

### What the properties say

* *Custody.* `OneOpenRow`: an asset gets a second open assignment only after two requests in flight have dealt with
  it at once (`raced`), and never more than one per slot; overlap on other assets, failures between the closing and the insertion, and deletions do not make one. `OpenRowsNameHolder`: when handlers take turns, an open
  assignment always names the current assignee. The converse fails by design: an offboarding that
  keeps the kit closes the rows and leaves the assignee, and `OnlyKeepingSevers` says that nothing else
  does. `LifecycleOutsideOffboarding` and `OffboardDetachesLeaver` are about steps.
  `DeletedLeavesNothing` holds whatever overlaps.
* *Stock.* `CounterExact`, `OffboardReturnsAll` and the refinement `LedgerSpec` of an accessory hold until requests overlap; `CounterNeverOverstates` and
  `OverIssueBounded` are what remains then. A hand
  count of a consumable may be negative: nothing in the request's validation refuses it, and the ledger of
  `ConsumableLedgerSpec` is instantiated with that set of counts.
* *Requests.* A fulfilled asset request has an asset that
  is in the requester's hands (`FulfilledInHand`); nothing goes out for a rejected request, and a second asset only after a fulfilment that stopped half way
  (`ExtraAssetsNeedFailures`).
* *Requisitions.* An approved requisition was approved by everybody the matrix asks, on the terms
  that stand (`ApprovedOnCurrentTerms`); decisions that overlap each other neither skip an approver nor leave a
  requisition that nobody can decide (`DecisionsMeet`). With edits and submissions that overlap decisions neither holds, and
  only the order of levels inside one round remains (`SequentialOrder`).
* *Orders.* Whatever overlaps, inventory of a voided receipt is flagged.
  Taking turns, the status is exactly the progress of the live receipts, a cancelled order has all its inventory flagged, and only voiding
  a receipt reopens a closed or cancelled order.
* *Import jobs.* `CountsAddUp` and `CompletionImportsAll` hold whatever overlaps, fails or is retried; the latter excepts a key at whose row a call failed in that
  run (`KeyFaulted`), which is counted as failed and may be missing.
  `RollbackRemovesAll` leaves only stray employees (`Stray`). It needs requests that do not overlap on the job (the status `running` is the lock, but it is read before it is
  written) and no run that ended early after it had created a row, because only the last update
  of a run stores the ids. `JobEnds` excepts a run that was lost: after a restart the job stays `running`, and no
  request is accepted for it any more.
* *Tickets.* `NeverOvercounts` holds whatever overlaps: a race can lose a wait, never record one twice, and the record exceeds what was waited by rounding alone, half a
  minute for each wait; what `computeSla` leaves out exceeds it further only by the run of a clock that was left behind (`adrift`). `RowTellsItsStory`
  is the account while requests take turns and nothing severs the clock from the status: every wait once, to within half a minute each. `ReplyIsHeard`: a requester who has answered is
  not left with a ticket that rests, but by a stop between the comment and the status or by an overlap.
* *Jobs.* The order of the two writes of a job decides what a stop costs. The escalation marks first: `EscalationIsToldOnce` says a notice may be
  lost by a stop and is never doubled by one. The overdue mail goes out first: `OverdueIsMailed` says that one may be doubled and is never lost. `OneEntryPerMail` is the
  latter for mails, whose mark is the stored Message-ID. `EscalationComes` and `MailIsSeen` are the liveness of both;
  `MailIsSeen` is about mails with a source, and excepts polls that hang on their flags for ever and ever.
* *Sessions.* `SignedOutStaysOut` has one exception, a sign-in or a refresh that began before the sign-out and writes after it. `BrowsersStaySignedIn` and
  `KeepsTable` need requests that take turns: a second tab that refreshes at the same moment signs the browser out.
* *Administrators and vendors.* `SuperAdminRemains` needs that no two updates that take something away cross, and that no Super Admin is offboarded.
  `MakerIsNotChecker` needs requests on the vendor that take turns, while administration may overlap them freely, and a log that lost no row.

### Findings

| Run | What the code does |
|---|---|
| `custody_disposed` | An assigned asset can be disposed of through `update`, which leaves its assignee; offboarding the assignee then makes it available again. The lifecycle table has no way out of `disposed`. |
| `ticket_sla` | Unassigning a waiting ticket sets it to open and leaves `waitingSince` (`tickets.service.ts:443`); `computeSla` then goes on subtracting the time since, so the first-response target of an open ticket moves away as fast as time passes. The comment above it (`ticket-sla.ts:19-20`) has it subtract the current wait "if status is waiting_on_employee". |

Two more disagreements with a sentence of the repository have no run of their own; the properties except them by name. Two Super Admins who demote each other at the
same moment leave none: both counts (`users.controller.ts:167`) precede both writes, although the comment there (`:159-161`) says "never let this endpoint leave the
tenant with zero active Super Admins" (`SuperAdminRemains` excepts it as `crossed`). An imported employee whose audit entry fails survives the roll-back of its job, although
the help text says that "Rollback deletes rows **this job created**" (`articles.ts:457`; `RollbackRemovesAll` excepts it as `Stray`).

Three more behaviours of the code contradict no sentence of the repository that a run could be held against, and are stated
as conditions of the properties instead. Two fulfilments of one request at once assign two assets
(`asset-requests.service.ts:289`). An edit of a requisition's title recomputes a total that was set by hand, under the approvals given for
it (`requisitions.service.ts:227`); the runs take requisitions whose total is what their lines add up to. Two
conversions at once make two orders (`purchase-orders.service.ts:98`).

## The proofs

Every theorem is about the specification for all values of the constants, under the
named assumptions on them (`CustodyConstants`, `OrderConstants`, ...: null values are no
ids, bounds are naturals). TLC evaluates these assumptions in the runs. Where a theorem has a hypothesis of its own
(one slot, an exclusive conversion), the run that checks its property has it too (no run checks `HolderHasOpenRow`), and the paragraph says
which hazard of the code makes it necessary. All proofs are by an inductive invariant; each of those was first checked
by TLC on the run of its module. Every safety and step property of a passing run is proved. The states are well typed whatever overlaps
(`StockTyped` for accessories, `RequestsTyped`, `TicketTyped`, `JobsAreTyped`, and `TypeCorrect` in each other module; of consumables it is proved
as a part of `ConsumableInv`, one request at a time).

**`AssetCustodyProofs`.**
`TypeCorrect` is inductive once it says that live tickets refer to existing assets.
`OneOpenRowPerSlot`, for any number of overlapping requests, needs `SlotInv`: a plan that opens an
assignment also closes (`PlanShape`), and in the phase `closed` a request has found every row its
slot inserted earlier, since nobody else inserts with that slot. `SecondRowNeedsARace` adds `RaceInv`: two requests in flight share only assets that
are `raced`, and on any other asset a request that has closed has found every open row.
`SerialLedger`, with one slot (`OneAtATime`), needs `LedgerInv`: while a request is in flight its plan
still fits the rows it was made from. `SerialHolders` is the converse for systems that never keep the kit
(`"keep" \notin OffboardModes`), which the runs' systems do.
The step properties `LifecycleIsLaw`, `LeaverDetached` and `OnlyKeepersSever`, with one slot, need `CurrentInv`: what a plan
would write is a lawful move from the status the asset still has (`PlanLawful`), the plan of an offboarding has every asset of
its leaver and takes each away (`PlanDetaches`), and an asset with an assignee exists.
`DeletedStaysGone`, for any number of overlapping requests, follows from the guard of `Commit`
on the rows it updates.

**`StockProofs`.**
`NeverOverstates`: increments of the counter and of the open rows agree except where
two requests close the same row, and then the counter loses more. The sums are sets of units
(`Units`), so that they can be reasoned about with cardinalities.
`BoundedOverIssue` needs `BoundInv`, which counts the units that checkouts in flight are about to take.
`SerialExact` needs `SerialInv`, that what a request read is still so when it writes.
`ImplementsLedger` uses it step by step: each action is an action of `StockLedger` or changes nothing there.
`LeaverReturnsAll` adds `LeaverInv`: an offboarding in flight has read every open row of its leaver, until requests overlap.
For consumables, one request at a time, `InTurnInv` plays the part of `SerialInv`: `CountsAloneUnbalance` and the refinement
`ConsumableImplementsLedger` follow from what a step does to the three counts (`InTurnCounts`).

**`ServiceDeskProofs`: asset requests.** `RequestsTyped` holds for any number of overlapping handlers. With one handler
(`OneHandler`; two fulfilments at once do hand out two assets, `asset-requests.service.ts:289`), `InHandInv` says that what a fulfilment has
read of the request and of its asset still stands at each of its calls, and `MarkedInHand` follows. `AssetsAccountedFor`
needs `ReadInv` (reviews and fulfilments still find the status they have read) and `HandedInv`: a request has at most as many assets as
fulfilments of it broke off, and at most one more while it is being fulfilled or when it is at an end. It also needs `NoStatusEdits`: an edit by hand may set any
status, also that of a rejected request with an asset.

**`ServiceDeskProofs`: tickets.** `CountInv` is inductive for any overlap: an UPDATE in flight that would stop the clock carries no total above the time
really waited, and one that would leave a ticket waiting does so only while the wait on record fits (`PlanCounts`), each up to the rounding of the waits so far. `WaitNeverInvented` follows.
While requests take turns (`Turns`) every UPDATE in flight leaves a row that tells its story (`Story`), and a requester's comment on a resting ticket comes
with a status that wakes it (`AnswerStands`); `SerialInv` puts these together, for `RowIsTrue` and `RequesterIsHeard`.

**`ServiceDeskProofs`: jobs.** `JobsInv` has, for each ticket and mail, how what was made relates to the mark and to the runs that are between their two writes
(`EscInv`, `OverInv`, `MailInv`). Two runs that hold the same item are in `raced` (`Met`), which is what makes a doubled notice
traceable to an overlap. The fairness in `JobsSpec` is not needed for safety.

**`RequisitionsProofs`.** `TypeInv` adds to the types which fields each step of a handler still leaves out (`Shape`). Four theorems, each with
an invariant of its own. `LevelsDecideInOrder`, whatever overlaps or breaks off: `LevelInv` says that rows of different rounds do not mix, a
user has one row in each, and a decision on its way comes in turn of its level; `RouteInv` that the routing is set before anybody decides. Its hypothesis
`AlwaysSequential` is the matrix that the property is about.
`OneOrder`: with conversions that overlap nothing (`"convert" \in Exclusive`; two at once make two orders, `purchase-orders.service.ts:98`),
the first conversion is the last step of all (`OrderInv`), whatever else overlaps and whatever totals are set.
`DecisionsComeTogether`: as long as only decisions overlap (`MeetInv`), rows and decisions in flight make up all that are asked. `AsksSomebody` says
that no total is approved by nobody. `ApprovedAsItStands`: while requests take turns (`TermsInv`), every row decided in this round was decided on the terms that
stand. `NoTotalApart` (no request sets a total apart from its lines) is there because an edit of a title recomputes the total, under the approvals given
(`requisitions.service.ts:227`).

**`PurchaseOrdersProofs`.**
`TypeCorrect` says more than types: the lines that receipts and hand-offs name exist. Its inductive form
`OrderInv` adds that a receipt in the making is unborn, has no quantities, and belongs to one
request alone (`JobInv`); the foreign key (`Recorded`) keeps amendments away from lines with receipts.
`VoidedStaysFlagged` follows: a new hand-off is of a live receipt, and the void of a
receipt flags all there are, whatever else is in flight.
`CancelledStaysFlagged`, `CancelledStaysShut` and the exact half of `ProgressIsDelivered` are for requests that take turns:
`SerialInv` says that the one in flight still finds the status, lines and receipts it has read, and that the status claims what the live receipts deliver.
The other half holds whatever overlaps: what counts as received is complete until a receipt is voided or lines are amended. `OverlapInv` needs that
a line's id determines the line in every copy a handler holds. Quantities received are cardinalities of sets of units, since sums over receipts
would need induction.

**`ImportJobsProofs`.** `BaseInv` has the types, that a row id names its job and its place in the file (`RowsInv`), and that of the rows a run
has done with each is counted once, as created or as failed (`CountInv`): `EveryRowReported`, for files of any length, whatever overlaps or fails.
`KeysAreImported` needs `PlacedInv`: while a run imports, each acceptable key of its file is in the table, was removed from it, or is the key of a row that is left to import or whose call failed; an employee between its two statements is in the table.
The scan keeps the first row of a key; that a key has a first row is where well-foundedness comes in. `RolledBackIsGone` needs `LockInv`, which reads the status as a lock: while requests on a job take turns, `running` belongs to the one
run of the job, and a completed job's rows are those it reports, but for stray employees.

**`SessionsProofs`.** `SessionInv` says that numbers are bounded by the tokens signed, that without a crossing every column and every token about to be
written is newer than the last sign-out (`Newer`), and that a lone request still fits the columns it read (`Turns`). `SignOutIsFinal` needs the first two, the refinement
`ColumnsAreTable` the last: a step of the columns is a `SignIn`, `Renew`, `Expire` or `SignOut` of `SessionTable`. `NobodyIsSignedOut` adds what
each cookie stands for (`Kept`).

**`VendorRecordsProofs`.** `AdministratorsKeepOne`: a Super Admin is left beside the one that the only taking update in flight is about. The vendor's
specification implements that of the administration (`VendorsRefineAdministrators`), step by step, so the theorem carries over to the
composition (`VendorsKeepSuperAdmin`). `MakerIsChecked` needs `VendorInv`: while requests take turns and no log row is missing, the log names the one who submitted
the pending details and the one who created the vendor.

**Only model-checked.** Liveness (`JobEnds`, `EscalationComes`, `MailIsSeen`): it rests on fairness, hence on `ENABLED`, which the prover
does not reason about. `custody_disposed` and `ticket_sla` are counterexamples, found by TLC. That `File` is a sequence over what it holds is assumed of the constant
(`ImportConstants`) and evaluated by TLC.

## Not modelled

`PROJECT.json` gives the reason part by part. In short: the manual edits of `records.service` can write any
field of any record, so the properties are about systems where a super administrator does not;
tenancy is one tenant; who may call what is assumed granted by the guards, except where a service itself decides on
the actor (approvers); prices, dates, texts, audit rows, mails and webhooks are left out; indexes that refuse a
duplicate number are an `Abort`.

Of the parts that are modelled: one-time codes, reset links, the check of access tokens and the rate limit of a sign-in; contacts, documents and score cards of
a vendor; custom roles and the seat cap; ticket playbooks, exports and digests; the mails of the warranty, contract and report runs. The web front end, half of the code by
lines, renders what the API returns and decides nothing that the back end does not decide again.

## Plan

Done, in this order: 1 `AssetLifecycle`, 2 `AssetCustody`, 3 the stocks and `StockLedger`, 4 `AssetRequests`,
5 `Requisitions`, 6 `PurchaseOrders`, 7 `ImportJobs`, 8 `Tickets`, 9 `HelpdeskJobs`, 10 `Sessions` and `SessionTable`, 11 `Administrators` and `VendorRecords`,
with proofs for each of 2 to 11.

What is left:

* the row numbers in an import job's errors. The comment at
  `import-jobs.service.ts:189` says they are rewritten to original positions; the code concatenates the lists as they are, and every
  batch counts from the top again. A run for it needs the errors as state.
* `AssetCodes`: allocation from the maximum, the unique index, three attempts, shared by `create` and the goods
  receipt; a bound on concurrent creators under which nobody fails.
* `Invoices`: the three-way match and payment against receipts that are voided later.
* vendor contracts and their reminders, custom roles and the seat cap, audit cycles.
* two repair tickets on one asset, as a property of the repair ticket.
* proofs: what is left of asset requests when handlers overlap: how many assets go out for a request, by fulfilments in flight.
