------------------------------ MODULE Tickets ------------------------------
(***************************************************************************)
(* One support ticket under the requests of IT staff and of its requester. *)
(* A handler reads the row, checks it and computes its UPDATE from that    *)
(* copy (plan[r]); nothing is looked at again when the UPDATE runs.  Some  *)
(* handlers go on with a second read (Resume).  The columns kept are the   *)
(* status, the assignee, the waiting clock behind the first-response       *)
(* target, and the two end dates.                                          *)
(***************************************************************************)
EXTENDS Integers, FiniteSets

CONSTANTS
  Requests,     \* request slots: how many requests can be in flight at once
  Staff,        \* the users a ticket can be assigned to
  Nobody,       \* assignedToId null
  Exclusive,    \* environment: the handlers that overlap no other request
  Minute,       \* the ticks of the clock that make a minute
  MaxTime       \* bound: the last tick of the clock

ASSUME TicketConstants ==
  /\ Requests # {}
  /\ Minute \in Nat \ {0}
  /\ MaxTime \in Nat
  /\ Nobody \notin Staff
  /\ "keep" \notin Staff \union {Nobody}

VARIABLES
  now,          \* the time, in ticks
  status,
  assignee,
  since,        \* waitingSince
  total,        \* waitingTotalMinutes, in ticks
  dates,        \* which of resolvedAt and closedAt are set
  plan,         \* plan[r]: the UPDATE of slot r, and what its handler does after it
  waited,       \* history: the ticks the ticket really spent waiting
  waits,        \* history: how often a running clock was stopped, or set anew, after a tick or more
  adrift,       \* history: the ticks the clock has run since it was set while nothing waited
  past          \* history: what has happened to the ticket, until requests overlap

row == <<status, assignee, since, total, dates>>
clocked == <<waited, waits, adrift>>
vars == <<now, row, plan, clocked, past>>

\* "unheard": the requester has written and the ticket still rests; "severed": a
\* resting ticket was unassigned, or a waiting one marked duplicate; "stopped": a
\* handler stopped half way; "overlapped": two requests were in flight at once,
\* after which nothing else is noted.
Event == {"unheard", "severed", "stopped", "overlapped"}

Overlapped == "overlapped" \in past

\* Event e is noted if c holds.
Note(e, c) == past' = IF c /\ ~Overlapped THEN past \union {e} ELSE past

Waiting == "waiting_on_employee"
Never == -1

\* The transition table.
Allowed ==
  [open |-> {"assigned", "in_progress", Waiting, "resolved", "closed"},
   assigned |-> {"in_progress", "open", Waiting, "resolved"},
   in_progress |-> {"assigned", Waiting, "resolved"},
   waiting_on_employee |-> {"in_progress", "assigned", "resolved"},
   resolved |-> {"closed", "reopened"},
   reopened |-> {"assigned", "in_progress", "open"},
   closed |-> {"reopened"}]

Status == DOMAIN Allowed
Resting == {Waiting, "resolved", "closed"}

CanMove(s) == s = status \/ s \in Allowed[status]

\* Who writes a public comment: IT staff, the requester, or one person who is both.
\* A watcher's comment and an internal note change no column kept here.
Author == {"staff", "requester", "both"}
IsRequester(a) == a \in {"requester", "both"}

Plan ==
  [step : {"idle", "update", "comment", "between"},
   op : {"assign", "take", "unassign", "transition", "comment", "macro", "bulk",
         "duplicate"},
   status : Status \union {"keep"}, assignee : Staff \union {Nobody, "keep"},
   clock : {"keep", "start", "stop"}, total : Nat,
   dates : {"keep", "resolved", "closed", "clear"}, author : Author,
   then : {"end", "in_progress", Waiting, "resolved", "resolve", "close", "note"}]

NoPlan ==
  [step |-> "idle", op |-> "assign", status |-> "keep", assignee |-> "keep",
   clock |-> "keep", total |-> 0, dates |-> "keep", author |-> "staff", then |-> "end"]

Init ==
  /\ now = 0
  /\ \/ status = "open" /\ assignee = Nobody
     \/ status = "assigned" /\ assignee \in Staff
  /\ since = Never
  /\ total = 0
  /\ dates = {}
  /\ plan = [r \in Requests |-> NoPlan]
  /\ waited = 0 /\ waits = 0 /\ adrift = 0
  /\ past = {}

-----------------------------------------------------------------------------
(* The UPDATEs, computed from the row as it is when it is read.            *)

\* Math.round to whole minutes: half a minute or more counts as one.
Rounded(d) == Minute * ((2 * d + Minute) \div (2 * Minute))

\* The waiting time after a wait that ends now.
Counted == total + (IF since = Never THEN 0 ELSE Rounded(now - since))

\* Mutant: a clock that was started before is not started again.
ClockOfFirstStart(s) ==
  IF s = Waiting /\ since = Never THEN "start"
  ELSE IF status = Waiting /\ s # Waiting THEN "stop" ELSE "keep"

\* What the clock does when the status becomes s.
Clock(s) ==
  IF s = Waiting /\ status # Waiting THEN "start"
  ELSE IF status = Waiting /\ s # Waiting THEN "stop" ELSE "keep"

Clocked(p, s) ==
  [p EXCEPT !.status = s, !.clock = Clock(s),
            !.total = IF Clock(s) = "stop" THEN Counted ELSE 0]

\* Setting an end date, or clearing both.
DateUpdate(s) ==
  IF s \in {"resolved", "closed"} THEN s ELSE IF s = "reopened" THEN "clear" ELSE "keep"

\* Mutant: the status changes and the waiting clock is left alone.
MoveUnclocked(p, s, goal) ==
  [p EXCEPT !.step = "update", !.status = s, !.dates = DateUpdate(s), !.then = goal]

\* transition: the status, the clock and the date that go together.
Move(p, s, goal) ==
  [Clocked(p, s) EXCEPT !.step = "update", !.dates = DateUpdate(s), !.then = goal]

\* Mutant: a closed ticket is not reopened by its requester's comment.
ReplyOnResolved(p, a, goal) ==
  LET q == [p EXCEPT !.step = "comment", !.author = a, !.then = goal] IN
  IF ~IsRequester(a) THEN q
  ELSE IF status = Waiting THEN
    Clocked(q, IF assignee = Nobody THEN "assigned" ELSE "in_progress")
  ELSE IF status = "resolved" THEN
    [q EXCEPT !.status = "reopened", !.dates = "clear"]
  ELSE q

\* addPublicOrInternalComment: the requester's public comment resumes a
\* waiting ticket and reopens a resolved or closed one.
Reply(p, a, goal) ==
  LET q == [p EXCEPT !.step = "comment", !.author = a, !.then = goal] IN
  IF ~IsRequester(a) THEN q
  ELSE IF status = Waiting THEN
    Clocked(q, IF assignee = Nobody THEN "assigned" ELSE "in_progress")
  ELSE IF status \in {"resolved", "closed"} THEN
    [q EXCEPT !.status = "reopened", !.dates = "clear"]
  ELSE q

-----------------------------------------------------------------------------
(* Handlers, up to their first write.                                      *)

InFlight(r) == plan[r].step # "idle"

\* sever: whether the UPDATE of p leaves the clock or the dates of a resting ticket behind.
BeginSevering(r, p, sever) ==
  /\ ~InFlight(r)
  /\ \A q \in Requests : InFlight(q) => {p.op, plan[q].op} \cap Exclusive = {}
  /\ plan' = [plan EXCEPT ![r] = p]
  /\ IF \E q \in Requests : InFlight(q) THEN past' = {"overlapped"} ELSE Note("severed", sever)
  /\ UNCHANGED <<now, row, clocked>>

Begin(r, p) == BeginSevering(r, p, FALSE)

\* assign writes the status it has read back, except that open becomes assigned.
BeginAssign(r, u, op) ==
  Begin(r, [NoPlan EXCEPT !.step = "update", !.op = op, !.assignee = u,
              !.status = IF status = "open" THEN "assigned" ELSE status,
              !.then = IF op = "take" THEN "in_progress" ELSE "end"])

\* assign with no user: back to open, whatever the status was.
BeginUnassign(r) ==
  BeginSevering(r, [NoPlan EXCEPT !.step = "update", !.op = "unassign",
                      !.assignee = Nobody, !.status = "open"], status \in Resting)

BeginTransition(r, s) ==
  /\ CanMove(s)
  /\ Begin(r, Move([NoPlan EXCEPT !.op = "transition"], s, "end"))

\* comment, with a canned response that may set a status when staff send it.
BeginComment(r, a, goal) ==
  /\ goal = "end" \/ a \in {"staff", "both"}
  /\ Begin(r, Reply([NoPlan EXCEPT !.op = IF goal = "end" THEN "comment" ELSE "macro"], a, goal))

\* bulkClose, for one of its tickets; its author is staff.
BeginBulkClose(r, a) ==
  /\ a \in {"staff", "both"}
  /\ Begin(r, [NoPlan EXCEPT !.step = "between", !.op = "bulk", !.author = a,
                 !.then = IF status = "closed" THEN "note"
                          ELSE IF CanMove("resolved") THEN "resolve" ELSE "close"])

\* markDuplicate closes any ticket that is not closed, and leaves its clock alone.
BeginDuplicate(r) ==
  /\ status # "closed"
  /\ BeginSevering(r, [NoPlan EXCEPT !.step = "update", !.op = "duplicate",
                         !.status = "closed", !.dates = "closed"], status = Waiting)

-----------------------------------------------------------------------------
(* The writes.                                                             *)

\* The comment row is a statement of its own, before the UPDATE of the ticket.
StoreComment(r) ==
  /\ plan[r].step = "comment"
  /\ plan' = [plan EXCEPT ![r].step = "update"]
  /\ Note("unheard", IsRequester(plan[r].author) /\ status \in Resting)
  /\ UNCHANGED <<now, row, clocked>>

\* Where a handler is after its UPDATE.
After(p) ==
  IF p.then = "end" \/ (p.op = "take" /\ p.status \notin {"open", "assigned"})
  THEN NoPlan
  ELSE [NoPlan EXCEPT !.step = "between", !.op = p.op, !.author = p.author, !.then = p.then]

Write(old, new) == IF new = "keep" THEN old ELSE new

Update(r) ==
  LET p == plan[r] IN
  /\ p.step = "update"
  /\ status' = Write(status, p.status)
  /\ assignee' = Write(assignee, p.assignee)
  /\ since' = IF p.clock = "start" THEN now ELSE IF p.clock = "stop" THEN Never ELSE since
  /\ total' = IF p.clock = "stop" THEN p.total ELSE total
  /\ dates' = IF p.dates = "clear" THEN {}
              ELSE IF p.dates = "keep" THEN dates ELSE dates \union {p.dates}
  /\ past' = IF status' \in Resting THEN past ELSE past \ {"unheard"}
  /\ plan' = [plan EXCEPT ![r] = After(p)]
  /\ waits' = IF p.clock # "keep" /\ since # Never /\ since < now THEN waits + 1 ELSE waits
  /\ adrift' = IF p.clock = "keep" THEN adrift ELSE 0
  /\ UNCHANGED <<now, waited>>

\* assignToMe starts the work; a canned response sets its status; bulkClose
\* resolves, then closes by the table or by force, then comments.  A step that
\* the table refuses by then ends the handler with an error.
NextStep(p) ==
  IF p.then = "note" THEN Reply(p, p.author, "end")
  ELSE IF p.then = "resolve" THEN
    IF CanMove("resolved") THEN Move(p, "resolved", "close") ELSE NoPlan
  ELSE IF p.then = "close" THEN
    IF CanMove("closed") THEN Move(p, "closed", "note")
    ELSE [p EXCEPT !.step = "update", !.status = "closed", !.dates = "closed", !.then = "note"]
  ELSE IF (p.op = "take" \/ p.then # status) /\ CanMove(p.then)
       THEN Move(p, p.then, "end") ELSE NoPlan

Resume(r) ==
  /\ plan[r].step = "between"
  /\ plan' = [plan EXCEPT ![r] = NextStep(plan[r])]
  /\ UNCHANGED <<now, row, clocked, past>>

\* A database call fails, or the process ends.
Stop(r) ==
  /\ InFlight(r)
  /\ plan' = [plan EXCEPT ![r] = NoPlan]
  /\ Note("stopped", TRUE)
  /\ UNCHANGED <<now, row, clocked>>

\* A tick passes; a request takes less than that.
Tick ==
  /\ now < MaxTime
  /\ \A r \in Requests : ~InFlight(r)
  /\ now' = now + 1
  /\ waited' = IF status = Waiting THEN waited + 1 ELSE waited
  /\ adrift' = IF since # Never /\ status # Waiting THEN adrift + 1 ELSE adrift
  /\ UNCHANGED <<row, plan, waits, past>>

-----------------------------------------------------------------------------
Step(r) ==
  \/ \E u \in Staff, op \in {"assign", "take"} : BeginAssign(r, u, op)
  \/ BeginUnassign(r)
  \/ \E s \in Status : BeginTransition(r, s)
  \/ \E a \in Author, goal \in {"end", Waiting, "resolved"} : BeginComment(r, a, goal)
  \/ \E a \in Author : BeginBulkClose(r, a)
  \/ BeginDuplicate(r)
  \/ StoreComment(r)
  \/ Update(r)
  \/ Resume(r)
  \/ Stop(r)

Next == Tick \/ \E r \in Requests : Step(r)

Spec == Init /\ [][Next]_vars

-----------------------------------------------------------------------------
(* Properties.                                                             *)

TypeOK ==
  /\ now \in Nat
  /\ status \in Status
  /\ assignee \in Staff \union {Nobody}
  /\ since \in Nat \union {Never}
  /\ {total, waited, waits, adrift} \subseteq Nat
  /\ dates \subseteq {"resolved", "closed"}
  /\ plan \in [Requests -> Plan]
  /\ past \subseteq Event

\* Whatever overlaps, each wait adds at most half a minute, by rounding, to the time
\* the ticket has really waited: racing requests can lose a wait, never record one
\* twice or record the time that a forgotten clock has run.  The time that the
\* first-response target leaves out (computeSla) exceeds that by no more than the run
\* of the forgotten clock, and of none while the ticket waits.
NeverOvercounts ==
  /\ 2 * total <= 2 * waited + Minute * waits
  /\ since # Never => 2 * Counted <= 2 * (waited + adrift) + Minute * (waits + 1)
  /\ status = Waiting => adrift = 0

\* When requests take turns and nobody unassigns a resting ticket or marks a waiting
\* one as a duplicate, every wait is counted once, to within half a minute, the clock
\* runs while the ticket waits and only then, and the end dates are those of the status.
RowTellsItsStory ==
  past \cap {"overlapped", "severed"} = {} =>
    LET ended == waited - (IF since = Never THEN 0 ELSE now - since) IN
    /\ (since # Never) = (status = Waiting)
    /\ 2 * (total - ended) \in -(Minute * waits)..(Minute * waits)
    /\ ("closed" \in dates) = (status = "closed")
    /\ "resolved" \in dates => status \in {"resolved", "closed"}

\* A requester who has written is not left with a ticket that waits for the
\* requester, or is over: only a handler that stopped between the comment and the
\* UPDATE, or a request that overlapped it, can leave the ticket there.
ReplyIsHeard ==
  "unheard" \in past => "stopped" \in past \/ \E r \in Requests : IsRequester(plan[r].author)

-----------------------------------------------------------------------------
(* What the documentation says and the code does not do.                   *)

\* The statuses in which the first-response clock is shown.
SlaActive == {"open", "assigned", "in_progress", "reopened"}

\* The first-response clock leaves out "the current wait if status is
\* waiting_on_employee": while the ticket is worked on, it leaves out the total alone.
OnlyWaitsAreExcused == status \in SlaActive => Counted = total
=============================================================================
