-------------------------- MODULE ServiceDeskProofs --------------------------
(***************************************************************************)
(* Proofs about what an employee meets of the service desk.                *)
(*   Tickets        the waiting clock and the row of a ticket, for any     *)
(*                  number of requests and of staff, however long the      *)
(*                  clock runs                                             *)
(*   HelpdeskJobs   what each job promises of the notices, letters and     *)
(*                  entries it makes, for any number of runs and of mails  *)
(*   AssetRequests  what is handed out for a request, for any number of    *)
(*                  requests, assets and handlers                          *)
(***************************************************************************)
EXTENDS Tickets, HelpdeskJobs, AssetRequests, FiniteSetTheorems, TLAPS

------------------------------------------------------------------------------
(* Tickets.                                                                   *)

\* The transition table, one row at a time.
LEMMA Table ==
  /\ Status = {"open", "assigned", "in_progress", "waiting_on_employee", "resolved",
               "reopened", "closed"}
  /\ Allowed["open"] = {"assigned", "in_progress", Waiting, "resolved", "closed"}
  /\ Allowed["assigned"] = {"in_progress", "open", Waiting, "resolved"}
  /\ Allowed["in_progress"] = {"assigned", Waiting, "resolved"}
  /\ Allowed["waiting_on_employee"] = {"in_progress", "assigned", "resolved"}
  /\ Allowed["resolved"] = {"closed", "reopened"}
  /\ Allowed["reopened"] = {"assigned", "in_progress", "open"}
  /\ Allowed["closed"] = {"reopened"}
  BY DEF Allowed, Status

\* By how much rounding may have put n waits off, twice over.
Slack(n) == Minute * n

LEMMA SlackGrows ==
  ASSUME NEW n \in Nat
  PROVE  Slack(n) \in Nat /\ Slack(n + 1) = Slack(n) + Minute
<1>1. Minute * n \in Nat /\ Minute * (n + 1) = Minute * n + Minute
  BY TicketConstants
<1> QED
  BY <1>1 DEF Slack

\* Rounding moves a wait by half a minute at most, and none to none.
LEMMA RoundedNear ==
  ASSUME NEW d \in Nat
  PROVE  /\ Rounded(d) \in Nat
         /\ 2 * Rounded(d) <= 2 * d + Minute /\ 2 * d <= 2 * Rounded(d) + Minute
         /\ d = 0 => Rounded(d) = 0
<1> DEFINE b == 2 * Minute
           a == 2 * d + Minute
           q == a \div b
<1>1. Minute \in Nat /\ Minute > 0 /\ a \in Nat /\ b \in Nat /\ b > 0
  BY TicketConstants
<1> HIDE DEF a, b
<1>2. q \in Int /\ a = b * q + (a % b) /\ a % b \in 0..(b - 1)
  BY <1>1
<1> HIDE DEF q
<1>3. b * q = 2 * (Minute * q) /\ Minute * q \in Int
  BY <1>1, <1>2 DEF b
<1>4. Rounded(d) = Minute * q
  BY DEF Rounded, a, b, q
<1>5. /\ 2 * (Minute * q) <= 2 * d + Minute
      /\ 2 * d + Minute <= 2 * (Minute * q) + 2 * Minute - 1
  BY <1>1, <1>2, <1>3 DEF a, b
<1>6. q >= 0
  <2> SUFFICES ASSUME q <= -1 PROVE FALSE
    BY <1>2
  <2>1. Minute * q <= -Minute
    BY <1>1, <1>2
  <2> QED
    BY <1>1, <1>3, <1>5, <2>1
<1>7. Minute * q \in Nat
  BY <1>1, <1>2, <1>3, <1>6
<1>8. d = 0 => q = 0
  <2> SUFFICES ASSUME d = 0, q >= 1 PROVE FALSE
    BY <1>2, <1>6
  <2>1. Minute * q >= Minute
    BY <1>1, <1>2
  <2> QED
    BY <1>1, <1>3, <1>5, <2>1
<1>9. q = 0 => Minute * q = 0
  BY <1>1
<1> QED
  BY <1>1, <1>3, <1>4, <1>5, <1>7, <1>8, <1>9

\* The clock adds to the time on record no more than the ticket has waited and the
\* clock has been adrift.
Span == since # Never => 2 * total + 2 * (now - since) <= 2 * (waited + adrift) + Slack(waits)

\* What the wait that the clock is in may yet be put off by.
Pending == IF since # Never /\ since < now THEN Minute ELSE 0

Typed ==
  /\ now \in Nat /\ waited \in Nat /\ total \in Nat /\ waits \in Nat /\ adrift \in Nat
  /\ since \in Nat \union {Never} /\ since <= now
  /\ status \in Status
  /\ plan \in [Requests -> Plan]

\* What an UPDATE would put on record is not too much either.
PlanCounts(p) ==
  /\ p.clock = "stop" => 2 * p.total <= 2 * waited + Slack(waits) + Pending
  /\ p.clock = "keep" /\ p.status = Waiting => adrift = 0

\* A slot that is idle or between two steps of its handler has no UPDATE.
Rests(p) ==
  p.step \in {"idle", "between"} => p.status = "keep" /\ p.clock = "keep" /\ p.dates = "keep"

CountInv ==
  /\ Typed
  /\ 2 * total <= 2 * waited + Slack(waits)
  /\ Span
  /\ status = Waiting => adrift = 0
  /\ \A r \in Requests : PlanCounts(plan[r]) /\ Rests(plan[r])

\* What the columns tell, and the columns an UPDATE leaves behind.
Tells(st, si, to, da, sl) ==
  /\ (si # Never) <=> (st = Waiting)
  /\ 2 * (to + (IF si = Never THEN 0 ELSE now - si)) <= 2 * waited + sl
  /\ 2 * waited <= 2 * (to + (IF si = Never THEN 0 ELSE now - si)) + sl
  /\ ("closed" \in da) <=> (st = "closed")
  /\ "resolved" \in da => st \in {"resolved", "closed"}

NewSince(p) == IF p.clock = "start" THEN now ELSE IF p.clock = "stop" THEN Never ELSE since
NewTotal(p) == IF p.clock = "stop" THEN p.total ELSE total
NewDates(p) ==
  IF p.dates = "clear" THEN {} ELSE IF p.dates = "keep" THEN dates ELSE dates \union {p.dates}

NewSlack(p) == IF p.clock # "keep" THEN Slack(waits) + Pending ELSE Slack(waits)

TellsNow == Tells(status, since, total, dates, Slack(waits))

\* The UPDATE of p leaves a row that tells its story, and bulkClose gets to its
\* forced closing only with a ticket that does not wait.
Story(p) ==
  /\ p.step \in {"update", "comment"} =>
       /\ Tells(Write(status, p.status), NewSince(p), NewTotal(p), NewDates(p), NewSlack(p))
       /\ p.then = "close" => Write(status, p.status) # Waiting
  /\ p.step = "between" /\ p.then = "close" => status # Waiting

\* A comment of the requester on a resting ticket comes with a status that is awake.
Heard(p) == IsRequester(p.author) /\ p.status \notin Resting \union {"keep"}
AnswerStands(p) ==
  p.step = "comment" /\ IsRequester(p.author) /\ status \in Resting => Heard(p)

\* What a handler goes on to.
Goals == {"end", "in_progress", Waiting, "resolved", "resolve", "close", "note"}

LEMMA GoalIn ==
  /\ "end" \in Goals /\ "in_progress" \in Goals /\ Waiting \in Goals /\ "resolved" \in Goals
  /\ "resolve" \in Goals /\ "close" \in Goals /\ "note" \in Goals
  /\ \A p \in Plan : p.then \in Goals
  BY DEF Goals, Plan

LEMMA NoPlanTyped ==
  /\ NoPlan \in Plan /\ NoPlan.step = "idle" /\ NoPlan.status = "keep" /\ NoPlan.clock = "keep"
  /\ NoPlan.dates = "keep" /\ NoPlan.author = "staff" /\ NoPlan.then = "end" /\ NoPlan.total = 0
  /\ NoPlan.assignee = "keep"
  BY DEF NoPlan, Plan, Author

\* The fields that a computed clock fills in, one after the other.
LEMMA ClockFields ==
  /\ \A q \in Plan, s \in Status : [q EXCEPT !.status = s] \in Plan
  /\ \A q \in Plan, c \in {"keep", "start", "stop"} : [q EXCEPT !.clock = c] \in Plan
  /\ \A q \in Plan, n \in Nat : [q EXCEPT !.total = n] \in Plan
<1>1. ASSUME NEW q \in Plan, NEW s \in Status PROVE [q EXCEPT !.status = s] \in Plan
  BY DEF Plan
<1>2. ASSUME NEW q \in Plan, NEW c \in {"keep", "start", "stop"}
      PROVE  [q EXCEPT !.clock = c] \in Plan
  BY DEF Plan
<1>3. ASSUME NEW q \in Plan, NEW n \in Nat PROVE [q EXCEPT !.total = n] \in Plan
  BY DEF Plan
<1> QED
  BY <1>1, <1>2, <1>3

\* The waiting time after a wait that ends now, against the time on record.
LEMMA CountedNear ==
  ASSUME Typed
  PROVE  LET d == IF since = Never THEN 0 ELSE now - since IN
         /\ Counted \in Nat
         /\ 2 * Counted <= 2 * (total + d) + Pending
         /\ 2 * (total + d) <= 2 * Counted + Pending
         /\ d <= 0 => Pending = 0
<1>0. Minute \in Nat /\ now \in Nat /\ total \in Nat /\ since \in Nat \union {Never} /\ since <= now
  BY TicketConstants DEF Typed
<1>1. CASE since = Never
  BY <1>0, <1>1 DEF Counted, Pending
<1>2. CASE since # Never
  <2>1. PICK d \in Nat : d = now - since
    BY <1>0, <1>2
  <2>2. PICK n \in Nat : n = Rounded(d)
    BY RoundedNear
  <2>3. /\ 2 * n <= 2 * d + Minute /\ 2 * d <= 2 * n + Minute
        /\ d = 0 => n = 0
    BY <2>2, RoundedNear
  <2>4. Counted = total + n
    BY <1>2, <2>1, <2>2 DEF Counted
  <2> QED
    BY <1>0, <1>2, <2>1, <2>3, <2>4 DEF Pending
<1> QED
  BY <1>1, <1>2

LEMMA CountedBound ==
  ASSUME CountInv
  PROVE  /\ Counted \in Nat /\ Slack(waits) \in Nat /\ Pending \in Nat
         /\ 2 * Counted <= 2 * (waited + adrift) + Slack(waits) + Pending
         /\ status = Waiting => 2 * Counted <= 2 * waited + Slack(waits) + Pending
<1>0. /\ now \in Nat /\ total \in Nat /\ waited \in Nat /\ adrift \in Nat
      /\ since \in Nat \union {Never} /\ Slack(waits) \in Nat /\ Pending \in Nat
  BY SlackGrows, TicketConstants DEF CountInv, Typed, Pending
<1>1. /\ Counted \in Nat
      /\ 2 * Counted <= 2 * (total + (IF since = Never THEN 0 ELSE now - since)) + Pending
  BY CountedNear DEF CountInv
<1> QED
  BY <1>0, <1>1 DEF CountInv, Span

\* The clock of an UPDATE that is computed from the row.
LEMMA ClockedPlan ==
  ASSUME CountInv, NEW p \in Plan, NEW s \in Status
  PROVE  /\ Clocked(p, s) \in Plan /\ PlanCounts(Clocked(p, s))
         /\ Clocked(p, s).status = s /\ Clocked(p, s).clock = Clock(s)
         /\ Clocked(p, s).total = IF Clock(s) = "stop" THEN Counted ELSE 0
         /\ Clocked(p, s).step = p.step /\ Clocked(p, s).op = p.op
         /\ Clocked(p, s).dates = p.dates /\ Clocked(p, s).author = p.author
         /\ Clocked(p, s).then = p.then
<1>1. Clock(s) \in {"keep", "start", "stop"}
  BY DEF Clock
<1>2. /\ Counted \in Nat
      /\ Clock(s) = "stop" => 2 * Counted <= 2 * waited + Slack(waits) + Pending
  BY CountedBound DEF Clock
<1> PICK c \in {"keep", "start", "stop"} : c = Clock(s)
  BY <1>1
<1> PICK n \in Nat : n = IF Clock(s) = "stop" THEN Counted ELSE 0
  BY <1>2
<1> DEFINE q == [p EXCEPT !.status = s, !.clock = c, !.total = n]
<1>3. /\ q \in Plan /\ q.status = s /\ q.clock = c /\ q.total = n /\ q.step = p.step
      /\ q.op = p.op /\ q.dates = p.dates /\ q.author = p.author /\ q.then = p.then
  <2>1. [p EXCEPT !.status = s] \in Plan
    BY ClockFields
  <2>2. [[p EXCEPT !.status = s] EXCEPT !.clock = c] \in Plan
    BY <2>1, ClockFields
  <2>3. [[[p EXCEPT !.status = s] EXCEPT !.clock = c] EXCEPT !.total = n] \in Plan
    BY <2>2, ClockFields
  <2>4. q \in Plan
    BY <2>3
  <2>5. q.status = s /\ q.clock = c /\ q.total = n
    BY DEF Plan
  <2>6. q.step = p.step /\ q.op = p.op /\ q.dates = p.dates
    BY DEF Plan
  <2>7. q.author = p.author /\ q.then = p.then
    BY DEF Plan
  <2> QED
    BY <2>4, <2>5, <2>6, <2>7
<1>4. Clocked(p, s) = q
  BY DEF Clocked
<1> HIDE DEF q
<1>5. PlanCounts(q)
  BY <1>2, <1>3 DEF PlanCounts, Clock, CountInv
<1> QED
  BY <1>3, <1>4, <1>5

\* One field of a plan after the other.
LEMMA Fields ==
  /\ \A q \in Plan : [q EXCEPT !.step = "update"] \in Plan
  /\ \A q \in Plan, d \in {"keep", "resolved", "closed", "clear"} : [q EXCEPT !.dates = d] \in Plan
  /\ \A q \in Plan,
        goal \in Goals :
       [q EXCEPT !.then = goal] \in Plan
  /\ \A q \in Plan :
       [NoPlan EXCEPT !.step = "between", !.op = q.op, !.author = q.author, !.then = q.then]
         \in Plan
<1>1. ASSUME NEW q \in Plan PROVE [q EXCEPT !.step = "update"] \in Plan
  BY DEF Plan
<1>2. ASSUME NEW q \in Plan, NEW d \in {"keep", "resolved", "closed", "clear"}
      PROVE  [q EXCEPT !.dates = d] \in Plan
  BY DEF Plan
<1>3. ASSUME NEW q \in Plan,
             NEW goal \in Goals
      PROVE  [q EXCEPT !.then = goal] \in Plan
  BY DEF Plan, Goals
<1>4. ASSUME NEW q \in Plan
      PROVE  [NoPlan EXCEPT !.step = "between", !.op = q.op, !.author = q.author, !.then = q.then]
               \in Plan
  <2>1. ASSUME NEW x \in Plan
        PROVE  [x EXCEPT !.step = "between"] \in Plan /\ [x EXCEPT !.op = q.op] \in Plan
               /\ [x EXCEPT !.author = q.author] \in Plan /\ [x EXCEPT !.then = q.then] \in Plan
    <3>1. [x EXCEPT !.step = "between"] \in Plan
      BY DEF Plan
    <3>2. [x EXCEPT !.op = q.op] \in Plan
      BY DEF Plan
    <3>3. [x EXCEPT !.author = q.author] \in Plan
      BY DEF Plan
    <3>4. [x EXCEPT !.then = q.then] \in Plan
      BY DEF Plan
    <3> QED
      BY <3>1, <3>2, <3>3, <3>4
  <2> QED
    BY <2>1, NoPlanTyped
<1> QED
  BY <1>1, <1>2, <1>3, <1>4

\* An UPDATE with its step, its date and what comes after it.
LEMMA MovePlan ==
  ASSUME CountInv, NEW p \in Plan, NEW s \in Status,
         NEW goal \in Goals
  PROVE  /\ Move(p, s, goal) \in Plan /\ PlanCounts(Move(p, s, goal))
         /\ Move(p, s, goal).status = s /\ Move(p, s, goal).clock = Clock(s)
         /\ Move(p, s, goal).total = IF Clock(s) = "stop" THEN Counted ELSE 0
         /\ Move(p, s, goal).step = "update" /\ Move(p, s, goal).dates = DateUpdate(s)
         /\ Move(p, s, goal).then = goal
<1> PICK q \in Plan : q = Clocked(p, s)
  BY ClockedPlan
<1>1. /\ PlanCounts(q) /\ q.status = s /\ q.clock = Clock(s)
      /\ q.total = IF Clock(s) = "stop" THEN Counted ELSE 0
  BY ClockedPlan
<1> PICK d \in {"keep", "resolved", "closed", "clear"} : d = DateUpdate(s)
  BY DEF DateUpdate
<1> DEFINE m == [q EXCEPT !.step = "update", !.dates = d, !.then = goal]
<1>2. /\ m \in Plan /\ m.status = q.status /\ m.clock = q.clock /\ m.total = q.total
      /\ m.step = "update" /\ m.dates = d /\ m.then = goal
  <2> PICK x : x = [q EXCEPT !.step = "update"]
    OBVIOUS
  <2> PICK y : y = [x EXCEPT !.dates = d]
    OBVIOUS
  <2>1. x \in Plan
    BY Fields
  <2>2. y \in Plan
    BY Fields, <2>1
  <2>3. [y EXCEPT !.then = goal] \in Plan
    BY Fields, <2>2
  <2>4. [y EXCEPT !.then = goal] = m
    OBVIOUS
  <2>5. /\ m.status = q.status /\ m.clock = q.clock /\ m.total = q.total
        /\ m.step = "update" /\ m.dates = d /\ m.then = goal
    BY DEF Plan
  <2> QED
    BY <2>3, <2>4, <2>5
<1>3. Move(p, s, goal) = m
  BY DEF Move
<1> HIDE DEF m
<1> QED
  BY <1>1, <1>2, <1>3 DEF PlanCounts

LEMMA MovesIn ==
  ASSUME CountInv, NEW p \in Plan
  PROVE  \A s \in Status, g \in Goals :
           Move(p, s, g) \in Plan /\ PlanCounts(Move(p, s, g)) /\ Move(p, s, g).step = "update"
  BY MovePlan

\* What the UPDATE that goes with a comment of a does to the row.
Replied(m, a) ==
  IF IsRequester(a) /\ status = Waiting
  THEN /\ m.status \in {"assigned", "in_progress"} /\ m.clock = "stop"
       /\ m.total = Counted /\ m.dates = "keep"
  ELSE IF IsRequester(a) /\ status \in {"resolved", "closed"}
  THEN m.status = "reopened" /\ m.clock = "keep" /\ m.dates = "clear"
  ELSE m.status = "keep" /\ m.clock = "keep" /\ m.dates = "keep"

LEMMA ReplyPlan ==
  ASSUME CountInv, NEW p \in Plan, NEW a \in Author, p.status = "keep", p.clock = "keep",
         p.dates = "keep",
         NEW goal \in Goals
  PROVE  /\ Reply(p, a, goal) \in Plan /\ PlanCounts(Reply(p, a, goal))
         /\ Reply(p, a, goal).step = "comment" /\ Reply(p, a, goal).author = a
         /\ Reply(p, a, goal).then = goal /\ Replied(Reply(p, a, goal), a)
<1> DEFINE q == [p EXCEPT !.step = "comment", !.author = a, !.then = goal]
           o == [q EXCEPT !.status = "reopened", !.dates = "clear"]
           s == IF assignee = Nobody THEN "assigned" ELSE "in_progress"
           m == Reply(p, a, goal)
<1>1. /\ q \in Plan /\ q.step = "comment" /\ q.author = a /\ q.then = goal
      /\ q.status = "keep" /\ q.clock = "keep" /\ q.dates = "keep"
  BY DEF Plan, Goals
<1>2. "reopened" \in Status /\ s \in Status /\ s \in {"assigned", "in_progress"}
  BY Table
<1>3. /\ o \in Plan /\ o.step = "comment" /\ o.author = a /\ o.then = goal
      /\ o.status = "reopened" /\ o.clock = "keep" /\ o.dates = "clear"
  BY <1>1, <1>2 DEF Plan
<1>4. PlanCounts(q) /\ PlanCounts(o)
  BY <1>1, <1>3 DEF PlanCounts, Waiting
<1>5. m = IF ~IsRequester(a) THEN q
          ELSE IF status = Waiting THEN Clocked(q, s)
          ELSE IF status \in {"resolved", "closed"} THEN o ELSE q
  BY DEF Reply
<1>6. status = Waiting => Clock(s) = "stop"
  BY <1>2 DEF Clock, Waiting
<1> HIDE DEF q, o, s, m
<1>7. /\ Clocked(q, s) \in Plan /\ PlanCounts(Clocked(q, s))
      /\ Clocked(q, s).status = s /\ Clocked(q, s).clock = Clock(s)
      /\ Clocked(q, s).total = IF Clock(s) = "stop" THEN Counted ELSE 0
      /\ Clocked(q, s).step = "comment" /\ Clocked(q, s).author = a /\ Clocked(q, s).then = goal
      /\ Clocked(q, s).dates = "keep"
  BY <1>1, <1>2, ClockedPlan
<1>8. CASE ~IsRequester(a)
  BY <1>1, <1>4, <1>5, <1>8 DEF m, Replied
<1>9. CASE IsRequester(a) /\ status = Waiting
  BY <1>2, <1>5, <1>6, <1>7, <1>9 DEF m, Replied
<1>10. CASE IsRequester(a) /\ status # Waiting /\ status \in {"resolved", "closed"}
  BY <1>3, <1>4, <1>5, <1>10 DEF m, Replied
<1>11. CASE IsRequester(a) /\ status # Waiting /\ status \notin {"resolved", "closed"}
  BY <1>1, <1>4, <1>5, <1>11 DEF m, Replied
<1> QED
  BY <1>8, <1>9, <1>10, <1>11

\* A step that changes nothing but one slot's plan.
LEMMA PlanStep ==
  ASSUME CountInv, NEW r \in Requests, NEW p \in Plan, PlanCounts(p), Rests(p),
         plan' = [plan EXCEPT ![r] = p], UNCHANGED <<now, row, clocked>>
  PROVE  CountInv'
<1>1. /\ UNCHANGED <<now, status, since, total, waited, waits, adrift>>
      /\ plan' \in [Requests -> Plan]
      /\ \A q \in Requests : plan'[q] = plan[q] \/ plan'[q] = p
  BY DEF CountInv, Typed, row, clocked
<1>2. ((Span)' <=> Span) /\ Slack(waits)' = Slack(waits) /\ Pending' = Pending
  BY <1>1 DEF Span, Slack, Pending
<1>3. \A q \in Requests : (PlanCounts(plan[q]) /\ Rests(plan[q]))'
  BY <1>1, <1>2 DEF CountInv, PlanCounts, Rests
<1> QED
  BY <1>1, <1>2, <1>3 DEF CountInv, Typed

LEMMA IdleSlot ==
  ASSUME CountInv, NEW r \in Requests, plan' = [plan EXCEPT ![r] = NoPlan],
         UNCHANGED <<now, row, clocked>>
  PROVE  CountInv'
<1>1. PlanCounts(NoPlan) /\ Rests(NoPlan)
  BY NoPlanTyped DEF PlanCounts, Rests, Waiting
<1> QED
  BY <1>1, NoPlanTyped, PlanStep

\* A wait that ends now is put on record to within half a minute.
LEMMA StopTells ==
  ASSUME CountInv, TellsNow
  PROVE  /\ 2 * Counted <= 2 * waited + (Slack(waits) + Pending)
         /\ 2 * waited <= 2 * Counted + (Slack(waits) + Pending)
<1>0. /\ now \in Nat /\ total \in Nat /\ waited \in Nat /\ since \in Nat \union {Never}
      /\ Slack(waits) \in Nat /\ Pending \in Nat /\ Counted \in Nat
  BY CountedBound DEF CountInv, Typed
<1>1. LET d == IF since = Never THEN 0 ELSE now - since IN
      2 * Counted <= 2 * (total + d) + Pending /\ 2 * (total + d) <= 2 * Counted + Pending
  BY CountedNear DEF CountInv
<1> QED
  BY <1>0, <1>1 DEF TellsNow, Tells

\* A move that the table allows tells the story.
LEMMA MoveTells ==
  ASSUME CountInv, TellsNow, NEW p \in Plan, NEW s \in Status, CanMove(s), p.step = "update",
         p.status = s, p.clock = Clock(s), p.total = IF Clock(s) = "stop" THEN Counted ELSE 0,
         p.dates = DateUpdate(s), p.then = "close" => s # Waiting
  PROVE  Story(p)
<1>1. /\ now \in Nat /\ waited \in Nat /\ total \in Nat /\ since \in Nat \union {Never}
      /\ status \in Status /\ s # "keep" /\ Waiting # "closed" /\ Waiting # "resolved"
  BY Table DEF CountInv, Typed, Waiting
<1>2. Write(status, p.status) = s
  BY <1>1 DEF Write
<1>3. ((NewSince(p) # Never) <=> (s = Waiting))
  BY <1>1 DEF NewSince, Clock, TellsNow, Tells, Never
<1>4. LET n == NewTotal(p) + (IF NewSince(p) = Never THEN 0 ELSE now - NewSince(p)) IN
      2 * n <= 2 * waited + NewSlack(p) /\ 2 * waited <= 2 * n + NewSlack(p)
  <2>1. CASE Clock(s) = "stop"
    <3>1. /\ NewSince(p) = Never /\ NewTotal(p) = Counted
          /\ NewSlack(p) = Slack(waits) + Pending
      BY <2>1 DEF NewSince, NewTotal, NewSlack
    <3>2. Counted \in Nat
      BY CountedBound
    <3> QED
      BY <3>1, <3>2, StopTells
  <2>2. CASE Clock(s) = "start"
    <3>1. /\ NewSince(p) = now /\ NewTotal(p) = total /\ since = Never
          /\ NewSlack(p) = Slack(waits)
      BY <1>1, <2>2, SlackGrows
         DEF NewSince, NewTotal, NewSlack, Clock, TellsNow, Tells, Pending, CountInv, Typed
    <3>2. now # Never
      BY <1>1 DEF Never
    <3> QED
      BY <1>1, <3>1, <3>2 DEF TellsNow, Tells
  <2>3. CASE Clock(s) = "keep"
    BY <1>1, <2>3 DEF NewSince, NewTotal, NewSlack, TellsNow, Tells
  <2> QED
    BY <2>1, <2>2, <2>3 DEF Clock
<1>5. (status \in {"resolved", "closed"} /\ s # status) => s \in {"closed", "reopened"}
  BY <1>1, Table DEF CanMove
<1>6. /\ ("closed" \in NewDates(p)) <=> (s = "closed")
      /\ "resolved" \in NewDates(p) => s \in {"resolved", "closed"}
  <2>1. CASE s = "resolved"
    BY <1>1, <1>5, <2>1, Table DEF NewDates, DateUpdate, TellsNow, Tells, CanMove
  <2>2. CASE s = "closed"
    BY <1>1, <2>2 DEF NewDates, DateUpdate, TellsNow, Tells
  <2>3. CASE s = "reopened"
    BY <2>3 DEF NewDates, DateUpdate
  <2>4. CASE s \notin {"resolved", "closed", "reopened"}
    BY <1>1, <1>5, <2>4 DEF NewDates, DateUpdate, TellsNow, Tells
  <2> QED
    BY <2>1, <2>2, <2>3, <2>4
<1> QED
  BY <1>2, <1>3, <1>4, <1>6 DEF Story, Tells

\* The UPDATE that goes with a comment tells the story, too.
LEMMA ReplyTells ==
  ASSUME CountInv, TellsNow, NEW p \in Plan, NEW a \in Author, p.step = "comment",
         p.author = a, p.then # "close", Replied(p, a)
  PROVE  Story(p)
<1>1. /\ now \in Nat /\ waited \in Nat /\ total \in Nat /\ since \in Nat \union {Never}
      /\ Waiting # "closed" /\ Waiting # "resolved" /\ Waiting # "reopened"
      /\ Waiting # "assigned" /\ Waiting # "in_progress"
  BY DEF CountInv, Typed, Waiting
<1>2. CASE IsRequester(a) /\ status = Waiting
  <2>1. /\ p.status \in {"assigned", "in_progress"} /\ p.clock = "stop"
        /\ p.total = Counted /\ p.dates = "keep"
    BY <1>2 DEF Replied
  <2>2. /\ NewSince(p) = Never /\ NewTotal(p) = Counted /\ NewDates(p) = dates
        /\ NewSlack(p) = Slack(waits) + Pending /\ Write(status, p.status) = p.status
        /\ p.status \notin {Waiting, "resolved", "closed"}
    BY <2>1 DEF NewSince, NewTotal, NewDates, NewSlack, Write, Waiting
  <2>3. Counted \in Nat
    BY CountedBound
  <2>4. ("closed" \notin dates) /\ ("resolved" \notin dates)
    BY <1>1, <1>2 DEF TellsNow, Tells
  <2>5. Tells(p.status, Never, Counted, dates, Slack(waits) + Pending)
    BY <2>2, <2>3, <2>4, StopTells DEF Tells
  <2> QED
    BY <2>2, <2>5 DEF Story
<1>3. CASE IsRequester(a) /\ status # Waiting /\ status \in {"resolved", "closed"}
  BY <1>1, <1>3 DEF Replied, Story, TellsNow, Tells, NewSince, NewTotal, NewDates, NewSlack, Write
<1>4. CASE ~IsRequester(a) \/ (status # Waiting /\ status \notin {"resolved", "closed"})
  BY <1>1, <1>4 DEF Replied, Story, TellsNow, Tells, NewSince, NewTotal, NewDates, NewSlack, Write
<1> QED
  BY <1>2, <1>3, <1>4

LEMMA ReplyAnswers ==
  ASSUME NEW p, NEW a, p.author = a, Replied(p, a)
  PROVE  AnswerStands(p)
  BY DEF Replied, AnswerStands, Heard, Resting, Waiting

\* The requests a handler can begin with.
Beginning(r) ==
  \/ \E u \in Staff, op \in {"assign", "take"} : BeginAssign(r, u, op)
  \/ BeginUnassign(r)
  \/ \E s \in Status : BeginTransition(r, s)
  \/ \E a \in Author, goal \in {"end", Waiting, "resolved"} : BeginComment(r, a, goal)
  \/ \E a \in Author : BeginBulkClose(r, a)
  \/ BeginDuplicate(r)

\* Plan p, made from the row as it is, is in order.
InOrder(p) == p \in Plan /\ PlanCounts(p) /\ Rests(p) /\ AnswerStands(p)

\* What a handler plans is in order, and tells the story unless it severs.
LEMMA Beginnings ==
  ASSUME CountInv, NEW r \in Requests, Beginning(r)
  PROVE  \E p, c : BeginSevering(r, p, c) /\ InOrder(p) /\ (TellsNow /\ ~c => Story(p))
<1> USE DEF InOrder
<1>1. status \in Status /\ Waiting # "closed" /\ Waiting # "keep"
  BY DEF CountInv, Typed, Waiting
<1>2. ASSUME NEW u \in Staff, NEW op \in {"assign", "take"}, BeginAssign(r, u, op)
      PROVE  \E p, c : BeginSevering(r, p, c) /\ InOrder(p) /\ (TellsNow /\ ~c => Story(p))
  <2>1. PICK s \in Status : s = IF status = "open" THEN "assigned" ELSE status
    BY <1>1, Table
  <2>2. s = Waiting => adrift = 0
    BY <2>1 DEF CountInv, Waiting
  <2>3. PICK g \in {"end", "in_progress"} : g = IF op = "take" THEN "in_progress" ELSE "end"
    OBVIOUS
  <2> DEFINE p == [NoPlan EXCEPT !.step = "update", !.op = op, !.assignee = u,
                     !.status = s, !.then = g]
  <2>4. /\ p \in Plan /\ p.step = "update" /\ p.status = s /\ p.clock = "keep"
        /\ p.dates = "keep" /\ p.then # "close"
    BY NoPlanTyped DEF Plan, NoPlan
  <2>5. BeginSevering(r, p, FALSE)
    BY <1>2, <2>1, <2>3 DEF BeginAssign, Begin
  <2> HIDE DEF p
  <2>6. PlanCounts(p) /\ Rests(p) /\ AnswerStands(p)
    BY <2>2, <2>4 DEF PlanCounts, Rests, AnswerStands
  <2>7. TellsNow => Story(p)
    BY <2>1, <2>4 DEF Story, TellsNow, Tells, NewSince, NewTotal, NewDates, NewSlack, Write, Waiting
  <2> QED
    BY <2>4, <2>5, <2>6, <2>7
<1>3. ASSUME BeginUnassign(r)
      PROVE  \E p, c : BeginSevering(r, p, c) /\ InOrder(p) /\ (TellsNow /\ ~c => Story(p))
  <2> DEFINE p == [NoPlan EXCEPT !.step = "update", !.op = "unassign", !.assignee = Nobody,
                     !.status = "open"]
  <2>1. /\ p \in Plan /\ p.step = "update" /\ p.status = "open" /\ p.clock = "keep"
        /\ p.dates = "keep" /\ p.then = "end"
    BY NoPlanTyped, Table DEF Plan, NoPlan
  <2>2. BeginSevering(r, p, status \in Resting)
    BY <1>3 DEF BeginUnassign
  <2> HIDE DEF p
  <2>3. PlanCounts(p) /\ Rests(p) /\ AnswerStands(p)
    BY <2>1 DEF PlanCounts, Rests, AnswerStands, Waiting
  <2>4. TellsNow /\ status \notin Resting => Story(p)
    BY <2>1 DEF Story, TellsNow, Tells, NewSince, NewTotal, NewDates, NewSlack, Write, Resting, Waiting
  <2> QED
    BY <2>1, <2>2, <2>3, <2>4
<1>4. ASSUME NEW s \in Status, BeginTransition(r, s)
      PROVE  \E p, c : BeginSevering(r, p, c) /\ InOrder(p) /\ (TellsNow /\ ~c => Story(p))
  <2> DEFINE o == [NoPlan EXCEPT !.op = "transition"]
  <2>1. o \in Plan
    BY NoPlanTyped DEF Plan
  <2>2. CanMove(s) /\ BeginSevering(r, Move(o, s, "end"), FALSE)
    BY <1>4 DEF BeginTransition, Begin
  <2> HIDE DEF o
  <2> DEFINE p == Move(o, s, "end")
  <2>3. /\ p \in Plan /\ PlanCounts(p) /\ p.step = "update" /\ p.status = s
        /\ p.clock = Clock(s) /\ p.total = IF Clock(s) = "stop" THEN Counted ELSE 0
        /\ p.dates = DateUpdate(s) /\ p.then = "end"
    BY <2>1, GoalIn, MovePlan
  <2> HIDE DEF p
  <2>4. Rests(p) /\ AnswerStands(p)
    BY <2>3 DEF Rests, AnswerStands
  <2>5. TellsNow => Story(p)
    BY <2>2, <2>3, MoveTells
  <2>6. BeginSevering(r, p, FALSE)
    BY <2>2 DEF p
  <2> QED
    BY <2>3, <2>4, <2>5, <2>6
<1>5. ASSUME NEW a \in Author, NEW goal \in {"end", Waiting, "resolved"}, BeginComment(r, a, goal)
      PROVE  \E p, c : BeginSevering(r, p, c) /\ InOrder(p) /\ (TellsNow /\ ~c => Story(p))
  <2>1. PICK op \in {"comment", "macro"} : op = IF goal = "end" THEN "comment" ELSE "macro"
    OBVIOUS
  <2> DEFINE o == [NoPlan EXCEPT !.op = op]
  <2>2. o \in Plan /\ o.status = "keep" /\ o.clock = "keep" /\ o.dates = "keep"
    BY NoPlanTyped DEF Plan
  <2>3. BeginSevering(r, Reply(o, a, goal), FALSE)
    BY <1>5, <2>1 DEF BeginComment, Begin
  <2> HIDE DEF o
  <2> DEFINE p == Reply(o, a, goal)
  <2>4. /\ p \in Plan /\ PlanCounts(p) /\ p.step = "comment" /\ p.author = a /\ p.then = goal
        /\ Replied(p, a)
    BY <2>2, GoalIn, ReplyPlan
  <2> HIDE DEF p
  <2>5. Rests(p) /\ p.then # "close"
    BY <2>4 DEF Rests, Waiting
  <2>6. AnswerStands(p)
    BY <2>4, ReplyAnswers
  <2>7. TellsNow => Story(p)
    BY <2>4, <2>5, ReplyTells
  <2>8. BeginSevering(r, p, FALSE)
    BY <2>3 DEF p
  <2> QED
    BY <2>4, <2>5, <2>6, <2>7, <2>8
<1>6. ASSUME NEW a \in Author, BeginBulkClose(r, a)
      PROVE  \E p, c : BeginSevering(r, p, c) /\ InOrder(p) /\ (TellsNow /\ ~c => Story(p))
  <2>1. PICK g \in {"note", "resolve", "close"} :
          g = IF status = "closed" THEN "note"
              ELSE IF CanMove("resolved") THEN "resolve" ELSE "close"
    OBVIOUS
  <2>2. g = "close" => status # Waiting
    BY <2>1, Table DEF CanMove, Waiting
  <2> DEFINE p == [NoPlan EXCEPT !.step = "between", !.op = "bulk", !.author = a, !.then = g]
  <2>3. /\ p \in Plan /\ p.step = "between" /\ p.status = "keep" /\ p.clock = "keep"
        /\ p.dates = "keep" /\ p.then = g
    BY NoPlanTyped DEF Plan
  <2>4. BeginSevering(r, p, FALSE)
    BY <1>6, <2>1 DEF BeginBulkClose, Begin
  <2> HIDE DEF p
  <2>5. PlanCounts(p) /\ Rests(p) /\ AnswerStands(p)
    BY <2>3 DEF PlanCounts, Rests, AnswerStands, Waiting
  <2>6. Story(p)
    BY <2>2, <2>3 DEF Story
  <2> QED
    BY <2>3, <2>4, <2>5, <2>6
<1>7. ASSUME BeginDuplicate(r)
      PROVE  \E p, c : BeginSevering(r, p, c) /\ InOrder(p) /\ (TellsNow /\ ~c => Story(p))
  <2> DEFINE p == [NoPlan EXCEPT !.step = "update", !.op = "duplicate", !.status = "closed",
                     !.dates = "closed"]
  <2>1. /\ p \in Plan /\ p.step = "update" /\ p.status = "closed" /\ p.clock = "keep"
        /\ p.dates = "closed" /\ p.then = "end"
    BY NoPlanTyped, Table DEF Plan, NoPlan
  <2>2. BeginSevering(r, p, status = Waiting)
    BY <1>7 DEF BeginDuplicate
  <2> HIDE DEF p
  <2>3. PlanCounts(p) /\ Rests(p) /\ AnswerStands(p)
    BY <2>1 DEF PlanCounts, Rests, AnswerStands, Waiting
  <2>4. TellsNow /\ status # Waiting => Story(p)
    BY <2>1 DEF Story, TellsNow, Tells, NewSince, NewTotal, NewDates, NewSlack, Write, Waiting
  <2> QED
    BY <2>1, <2>2, <2>3, <2>4
<1> HIDE DEF InOrder
<1> QED
  BY <1>2, <1>3, <1>4, <1>5, <1>6, <1>7 DEF Beginning

LEMMA CountBegin ==
  ASSUME CountInv, NEW r \in Requests, Beginning(r)
  PROVE  CountInv'
<1>1. PICK p, c : BeginSevering(r, p, c) /\ InOrder(p)
  BY Beginnings
<1> QED
  BY <1>1, PlanStep DEF BeginSevering, InOrder

\* The UPDATE: what is written counts no more than the ticket has waited.
LEMMA CountUpdate ==
  ASSUME CountInv, NEW r \in Requests, Update(r)
  PROVE  CountInv'
<1> PICK p \in Plan : p = plan[r]
  BY DEF CountInv, Typed
<1>1. /\ UNCHANGED <<now, waited>>
      /\ status' = Write(status, p.status)
      /\ since' = IF p.clock = "start" THEN now ELSE IF p.clock = "stop" THEN Never ELSE since
      /\ total' = IF p.clock = "stop" THEN p.total ELSE total
      /\ waits' = IF p.clock # "keep" /\ since # Never /\ since < now THEN waits + 1 ELSE waits
      /\ adrift' = IF p.clock = "keep" THEN adrift ELSE 0
      /\ plan' = [plan EXCEPT ![r] = After(p)]
  BY DEF Update
<1>2. /\ p.status \in Status \union {"keep"} /\ p.clock \in {"keep", "start", "stop"}
      /\ p.total \in Nat /\ PlanCounts(p)
  BY DEF Plan, CountInv
<1>3. /\ now \in Nat /\ waited \in Nat /\ total \in Nat /\ since \in Nat \union {Never}
      /\ waits \in Nat /\ adrift \in Nat
      /\ since <= now /\ status \in Status /\ plan \in [Requests -> Plan]
      /\ 2 * total <= 2 * waited + Slack(waits) /\ Span /\ (status = Waiting => adrift = 0)
      /\ \A q \in Requests : PlanCounts(plan[q]) /\ Rests(plan[q])
  BY DEF CountInv, Typed
<1>s. /\ Slack(waits) \in Nat /\ Slack(waits + 1) = Slack(waits) + Minute /\ Minute \in Nat
      /\ Pending \in Nat /\ Slack(waits)' = Slack(waits')
  BY <1>3, SlackGrows, TicketConstants DEF Pending, Slack
<1>k. p.clock = "keep" => Slack(waits)' = Slack(waits) /\ Pending' = Pending
  BY <1>1, <1>s DEF Pending
<1>c. p.clock # "keep" => Slack(waits)' = Slack(waits) + Pending /\ Pending' = 0
  BY <1>1, <1>2, <1>3, <1>s DEF Pending
<1>4. /\ total' \in Nat /\ status' \in Status /\ waits' \in Nat /\ adrift' \in Nat
      /\ since' \in Nat \union {Never} /\ since' <= now
  BY <1>1, <1>2, <1>3 DEF Write, Never
<1>5. 2 * total' <= 2 * waited' + Slack(waits)'
  BY <1>1, <1>2, <1>3, <1>s, <1>k, <1>c DEF PlanCounts
<1>6. (Span)' /\ (status' = Waiting => adrift' = 0)
  BY <1>1, <1>2, <1>3, <1>5, <1>s, <1>k, <1>c DEF Span, PlanCounts, Write, Never
<1>7. /\ After(p) \in Plan /\ After(p).step \in {"idle", "between"} /\ After(p).status = "keep"
      /\ After(p).clock = "keep" /\ After(p).dates = "keep"
  <2>1. [NoPlan EXCEPT !.step = "between", !.op = p.op, !.author = p.author, !.then = p.then]
          \in Plan
    BY Fields
  <2>2. LET n == [NoPlan EXCEPT !.step = "between", !.op = p.op, !.author = p.author,
                    !.then = p.then] IN
        n.step = "between" /\ n.status = "keep" /\ n.clock = "keep" /\ n.dates = "keep"
    BY DEF NoPlan
  <2> QED
    BY <2>1, <2>2, NoPlanTyped DEF After
<1>8. plan' \in [Requests -> Plan] /\ \A q \in Requests : plan'[q] = plan[q] \/ plan'[q] = After(p)
  BY <1>1, <1>3, <1>7
<1>9. ASSUME NEW q \in Requests PROVE (PlanCounts(plan[q]) /\ Rests(plan[q]))'
  <2>1. CASE plan'[q] = After(p)
    BY <1>7, <2>1 DEF PlanCounts, Rests, Waiting
  <2>2. CASE plan'[q] = plan[q]
    <3>1. plan[q].clock = "stop"
            => 2 * plan[q].total <= 2 * waited' + Slack(waits)' + Pending'
      BY <1>1, <1>3, <1>s, <1>k, <1>c DEF PlanCounts
    <3>2. plan[q].clock = "keep" /\ plan[q].status = Waiting => adrift' = 0
      BY <1>1, <1>3 DEF PlanCounts
    <3>3. Rests(plan[q])
      BY <1>3
    <3> QED
      BY <2>2, <3>1, <3>2, <3>3 DEF PlanCounts, Rests
  <2> QED
    BY <1>8, <2>1, <2>2
<1> QED
  BY <1>1, <1>3, <1>4, <1>5, <1>6, <1>8, <1>9 DEF CountInv, Typed

\* What NextStep plans is a plan that counts no wait too much.
LEMMA NextIn ==
  ASSUME CountInv, NEW p \in Plan, p.step = "between", Rests(p)
  PROVE  NextStep(p) \in Plan /\ PlanCounts(NextStep(p)) /\ Rests(NextStep(p))
<1>0. /\ p.status = "keep" /\ p.clock = "keep" /\ p.dates = "keep" /\ p.author \in Author
      /\ p.then \in Goals
  BY GoalIn DEF Plan, Rests
<1>1. \A s \in Status, g \in Goals :
        Move(p, s, g) \in Plan /\ PlanCounts(Move(p, s, g)) /\ Move(p, s, g).step = "update"
  BY MovesIn
<1>2. NoPlan \in Plan /\ PlanCounts(NoPlan) /\ Rests(NoPlan)
  BY NoPlanTyped DEF PlanCounts, Rests, Waiting
<1>3. CASE p.then = "note"
  <2>1. /\ Reply(p, p.author, "end") \in Plan /\ PlanCounts(Reply(p, p.author, "end"))
        /\ Reply(p, p.author, "end").step = "comment"
    BY <1>0, GoalIn, ReplyPlan
  <2> QED
    BY <1>3, <2>1 DEF NextStep, Rests
<1>4. CASE p.then = "resolve"
  <2>1. NextStep(p) = IF CanMove("resolved") THEN Move(p, "resolved", "close") ELSE NoPlan
    BY <1>4 DEF NextStep
  <2> QED
    BY <1>1, <1>2, <2>1, Table, GoalIn DEF Rests
<1>5. CASE p.then = "close"
  <2> DEFINE n == [p EXCEPT !.step = "update", !.status = "closed", !.dates = "closed",
                            !.then = "note"]
  <2>1. NextStep(p) = IF CanMove("closed") THEN Move(p, "closed", "note") ELSE n
    BY <1>5 DEF NextStep
  <2>2. /\ n \in Plan /\ n.step = "update" /\ n.status = "closed" /\ n.clock = "keep"
    BY <1>0, Table DEF Plan
  <2> HIDE DEF n
  <2>3. PlanCounts(n) /\ Rests(n)
    BY <2>2 DEF PlanCounts, Rests, Waiting
  <2> QED
    BY <1>1, <2>1, <2>2, <2>3, Table, GoalIn DEF Rests
<1>6. CASE p.then \notin {"note", "resolve", "close"}
  <2>1. NextStep(p) \in {Move(p, p.then, "end"), NoPlan}
    BY <1>6 DEF NextStep
  <2>2. NextStep(p) # NoPlan => p.then \in Status
    <3>1. status \in Status /\ \A s \in Status : Allowed[s] \subseteq Status
      BY Table DEF Waiting, CountInv, Typed
    <3>2. NextStep(p) # NoPlan => CanMove(p.then)
      BY <1>6 DEF NextStep
    <3> QED
      BY <3>1, <3>2 DEF CanMove
  <2> QED
    BY <1>1, <1>2, <2>1, <2>2, GoalIn DEF Rests
<1> QED
  BY <1>3, <1>4, <1>5, <1>6

LEMMA CountOther ==
  ASSUME CountInv, NEW r \in Requests, StoreComment(r) \/ Resume(r) \/ Stop(r)
  PROVE  CountInv'
<1> PICK p \in Plan : p = plan[r]
  BY DEF CountInv, Typed
<1>1. PlanCounts(p) /\ Rests(p)
  BY DEF CountInv
<1>2. CASE StoreComment(r)
  <2>1. /\ [p EXCEPT !.step = "update"] \in Plan
        /\ plan' = [plan EXCEPT ![r] = [p EXCEPT !.step = "update"]]
        /\ UNCHANGED <<now, row, clocked>>
    BY <1>2, Fields DEF StoreComment
  <2>2. PlanCounts([p EXCEPT !.step = "update"]) /\ Rests([p EXCEPT !.step = "update"])
    BY <1>1 DEF PlanCounts, Rests, Plan
  <2> QED
    BY <2>1, <2>2, PlanStep
<1>3. CASE Resume(r)
  <2>1. /\ plan' = [plan EXCEPT ![r] = NextStep(p)] /\ UNCHANGED <<now, row, clocked>>
        /\ p.status = "keep" /\ p.clock = "keep" /\ p.dates = "keep" /\ p.step = "between"
    BY <1>1, <1>3 DEF Resume, Rests
  <2>2. /\ p.author \in Author
        /\ p.then \in Goals
    BY GoalIn DEF Plan
  <2>3. NextStep(p) \in Plan /\ PlanCounts(NextStep(p)) /\ Rests(NextStep(p))
    BY <1>1, <2>1, NextIn
  <2> QED
    BY <2>1, <2>3, PlanStep
<1>4. CASE Stop(r)
  BY <1>4, IdleSlot DEF Stop
<1> QED
  BY <1>2, <1>3, <1>4

\* A minute passes while nothing is in flight.
LEMMA CountTick ==
  ASSUME CountInv, Tick
  PROVE  CountInv'
<1>1. /\ UNCHANGED <<status, since, total, waits, plan>>
      /\ now' = now + 1 /\ waited' = IF status = Waiting THEN waited + 1 ELSE waited
      /\ adrift' = IF since # Never /\ status # Waiting THEN adrift + 1 ELSE adrift
      /\ \A r \in Requests : plan[r].step = "idle"
  BY DEF Tick, row, InFlight
<1>2. /\ now \in Nat /\ waited \in Nat /\ total \in Nat /\ since \in Nat \union {Never}
      /\ waits \in Nat /\ adrift \in Nat /\ Slack(waits) \in Nat /\ Slack(waits)' = Slack(waits)
      /\ since <= now /\ status \in Status /\ plan \in [Requests -> Plan]
      /\ 2 * total <= 2 * waited + Slack(waits) /\ Span /\ (status = Waiting => adrift = 0)
  BY <1>1, SlackGrows DEF CountInv, Typed, Slack
<1>3. /\ now' \in Nat /\ waited' \in Nat /\ adrift' \in Nat /\ since' <= now'
      /\ 2 * total' <= 2 * waited' + Slack(waits)'
      /\ (Span)' /\ (status' = Waiting => adrift' = 0)
  BY <1>1, <1>2 DEF Span, Never
<1>4. ASSUME NEW r \in Requests PROVE (PlanCounts(plan[r]) /\ Rests(plan[r]))'
  <2>1. Rests(plan[r]) /\ plan[r].status = "keep" /\ plan[r].clock = "keep"
    BY <1>1 DEF CountInv, Rests
  <2> QED
    BY <1>1, <2>1 DEF PlanCounts, Rests, Waiting
<1> QED
  BY <1>1, <1>2, <1>3, <1>4 DEF CountInv, Typed

LEMMA CountInit == Init => CountInv
<1> SUFFICES ASSUME Init PROVE CountInv
  OBVIOUS
<1>1. /\ Typed /\ 2 * total <= 2 * waited + Slack(waits) /\ Span
      /\ status = Waiting => adrift = 0
  BY NoPlanTyped, Table, SlackGrows DEF Init, Typed, Span, Never
<1>2. \A r \in Requests : plan[r] = NoPlan
  BY DEF Init
<1> QED
  BY <1>1, <1>2, NoPlanTyped DEF CountInv, PlanCounts, Rests, Waiting

LEMMA CountNext == CountInv /\ [Next]_vars => CountInv'
<1> SUFFICES ASSUME CountInv, [Next]_vars PROVE CountInv'
  OBVIOUS
<1>1. CASE Tick
  BY <1>1, CountTick
<1>2. ASSUME NEW r \in Requests, Step(r) PROVE CountInv'
  <2>1. CASE Update(r)
    BY <2>1, CountUpdate
  <2>2. CASE StoreComment(r) \/ Resume(r) \/ Stop(r)
    BY <2>2, CountOther
  <2> QED
    BY <1>2, <2>1, <2>2, CountBegin DEF Step, Beginning
<1>3. CASE UNCHANGED vars
  BY <1>3 DEF vars, row, clocked, CountInv, Typed, PlanCounts, Rests, Span, Slack, Pending
<1> QED
  BY <1>1, <1>2, <1>3 DEF Next

\* The waiting time on record exceeds the time the ticket has waited by at most the
\* rounding of each wait, however many requests overlap, whatever they read and
\* wherever they stop; what the first-response target leaves out exceeds it by the run
\* of a forgotten clock besides.
THEOREM WaitNeverInvented == Spec => []NeverOvercounts
<1>1. CountInv => NeverOvercounts
  <2> SUFFICES ASSUME CountInv PROVE NeverOvercounts
    OBVIOUS
  <2>1. /\ Slack(waits) = Minute * waits /\ Slack(waits + 1) = Minute * (waits + 1)
        /\ Slack(waits + 1) = Slack(waits) + Minute /\ Slack(waits) \in Nat
        /\ Minute \in Nat /\ Pending \in {0, Minute}
        /\ waited \in Nat /\ adrift \in Nat
    BY SlackGrows, TicketConstants DEF CountInv, Typed, Slack, Pending
  <2>2. Counted \in Nat /\ 2 * Counted <= 2 * (waited + adrift) + Slack(waits) + Pending
    BY CountedBound
  <2>3. 2 * Counted <= 2 * (waited + adrift) + Slack(waits + 1)
    BY <2>1, <2>2
  <2>4. 2 * total <= 2 * waited + Slack(waits) /\ (status = Waiting => adrift = 0)
    BY DEF CountInv
  <2> QED
    BY <2>1, <2>3, <2>4 DEF NeverOvercounts
<1> QED
  BY <1>1, CountInit, CountNext, PTL DEF Spec

\* The columns that the wait is not about, and the notes.
RestTyped ==
  /\ assignee \in Staff \union {Nobody}
  /\ dates \subseteq {"resolved", "closed"}
  /\ past \subseteq Event

LEMMA RestNext == ASSUME CountInv, RestTyped, [Next]_vars PROVE RestTyped'
<1>1. ASSUME NEW r \in Requests, NEW p, NEW sever, BeginSevering(r, p, sever) PROVE RestTyped'
  BY <1>1 DEF BeginSevering, Note, RestTyped, row, Event
<1>2. ASSUME NEW r \in Requests,
             \/ \E u \in Staff, op \in {"assign", "take"} : BeginAssign(r, u, op)
             \/ BeginUnassign(r)
             \/ \E s \in Status : BeginTransition(r, s)
             \/ \E a \in Author, goal \in {"end", Waiting, "resolved"} : BeginComment(r, a, goal)
             \/ \E a \in Author : BeginBulkClose(r, a)
             \/ BeginDuplicate(r)
      PROVE  \E p, sever : BeginSevering(r, p, sever)
  BY <1>2, Zenon
  DEF BeginAssign, BeginUnassign, BeginTransition, BeginComment, BeginBulkClose, BeginDuplicate,
      Begin
<1>3. ASSUME NEW r \in Requests, Update(r) PROVE RestTyped'
  <2>1. plan[r] \in Plan
    BY DEF CountInv, Typed
  <2>2. plan[r].assignee \in Staff \union {Nobody, "keep"}
        /\ plan[r].dates \in {"keep", "resolved", "closed", "clear"}
    BY <2>1 DEF Plan
  <2> QED
    BY <1>3, <2>2 DEF Update, Write, RestTyped
<1>4. ASSUME NEW r \in Requests, StoreComment(r) \/ Resume(r) \/ Stop(r) PROVE RestTyped'
  BY <1>4 DEF StoreComment, Resume, Stop, Note, RestTyped, row, Event
<1>5. CASE Tick \/ UNCHANGED vars
  BY <1>5 DEF Tick, RestTyped, row, vars
<1> QED
  BY <1>1, <1>2, <1>3, <1>4, <1>5 DEF Next, Step

\* The row of the ticket, the UPDATEs in flight and the clock are of their types.
THEOREM TicketTyped == Spec => []TypeOK
<1>1. Init => RestTyped
  BY DEF Init, RestTyped
<1>2. CountInv /\ RestTyped => TypeOK
  BY DEF CountInv, Typed, RestTyped, TypeOK
<1> QED
  BY <1>1, <1>2, CountInit, CountNext, RestNext, PTL DEF Spec

-----------------------------------------------------------------------------
(* Requests that take turns.                                               *)

\* Until requests overlap, one is in flight at a time.
Turns ==
  /\ Overlapped => past = {"overlapped"}
  /\ ~Overlapped => \A q, r \in Requests : InFlight(q) /\ InFlight(r) => q = r

StoryInv ==
  past \cap {"overlapped", "severed"} = {} =>
    TellsNow /\ \A r \in Requests : Story(plan[r])

HeardInv ==
  /\ ~Overlapped => \A r \in Requests : AnswerStands(plan[r])
  /\ "unheard" \in past =>
       "stopped" \in past \/ \E r \in Requests : plan[r].step = "update" /\ Heard(plan[r])

SerialInv == CountInv /\ Turns /\ StoryInv /\ HeardInv

\* The next step of a handler is planned from the row as it is.
LEMMA Resumed ==
  ASSUME CountInv, NEW p \in Plan, p.step = "between", Rests(p)
  PROVE  /\ AnswerStands(NextStep(p))
         /\ TellsNow /\ Story(p) => Story(NextStep(p))
<1>1. /\ p.status = "keep" /\ p.clock = "keep" /\ p.dates = "keep" /\ p.author \in Author
      /\ p.then \in Goals
  BY GoalIn DEF Plan, Rests
<1>2. ASSUME NEW s \in Status, CanMove(s),
             NEW g \in Goals,
             g = "close" => s # Waiting
      PROVE  AnswerStands(Move(p, s, g)) /\ (TellsNow => Story(Move(p, s, g)))
  <2> DEFINE m == Move(p, s, g)
  <2> HIDE DEF m
  <2>1. /\ m \in Plan /\ m.step = "update" /\ m.status = s /\ m.clock = Clock(s)
        /\ m.total = IF Clock(s) = "stop" THEN Counted ELSE 0
        /\ m.dates = DateUpdate(s) /\ m.then = g
    BY MovePlan DEF m
  <2>2. TellsNow => Story(m)
    BY <1>2, <2>1, MoveTells
  <2>3. AnswerStands(m)
    BY <2>1 DEF AnswerStands
  <2> QED
    BY <2>2, <2>3 DEF m
<1>3. AnswerStands(NoPlan) /\ Story(NoPlan)
  BY NoPlanTyped DEF AnswerStands, Story
<1>4. CASE p.then = "note"
  <2> PICK m : m = Reply(p, p.author, "end")
    OBVIOUS
  <2>1. /\ m \in Plan /\ m.step = "comment" /\ m.author = p.author /\ m.then = "end"
        /\ Replied(m, p.author)
    BY <1>1, GoalIn, ReplyPlan
  <2>2. AnswerStands(m)
    BY <2>1, ReplyAnswers
  <2>3. TellsNow => Story(m)
    BY <1>1, <2>1, ReplyTells
  <2> QED
    BY <1>4, <2>2, <2>3 DEF NextStep
<1>5. CASE p.then = "resolve"
  <2>1. NextStep(p) = IF CanMove("resolved") THEN Move(p, "resolved", "close") ELSE NoPlan
    BY <1>5 DEF NextStep
  <2>2. "resolved" # Waiting /\ "resolved" \in Status
    BY Table DEF Waiting
  <2> QED
    BY <1>2, <1>3, <2>1, <2>2, GoalIn
<1>6. CASE p.then = "close"
  <2> DEFINE n == [p EXCEPT !.step = "update", !.status = "closed", !.dates = "closed",
                            !.then = "note"]
  <2>1. NextStep(p) = IF CanMove("closed") THEN Move(p, "closed", "note") ELSE n
    BY <1>6 DEF NextStep
  <2>2. /\ n.step = "update" /\ n.status = "closed" /\ n.clock = "keep" /\ n.dates = "closed"
        /\ n.then = "note"
    BY <1>1 DEF Plan
  <2>3. "closed" # Waiting /\ "closed" \in Status
    BY Table DEF Waiting
  <2> HIDE DEF n
  <2>4. AnswerStands(n)
    BY <2>2 DEF AnswerStands
  <2>5. TellsNow /\ Story(p) => Story(n)
    BY <1>6, <2>2 DEF Story, TellsNow, Tells, NewSince, NewTotal, NewDates, NewSlack, Write, Waiting
  <2> QED
    BY <1>2, <2>1, <2>3, <2>4, <2>5, GoalIn
<1>7. CASE p.then \notin {"note", "resolve", "close"}
  <2>1. \/ NextStep(p) = NoPlan
        \/ NextStep(p) = Move(p, p.then, "end") /\ CanMove(p.then)
    BY <1>7 DEF NextStep
  <2>2. status \in Status /\ \A s \in Status : Allowed[s] \subseteq Status
    BY Table DEF Waiting, CountInv, Typed
  <2>3. CanMove(p.then) => p.then \in Status
    BY <2>2 DEF CanMove
  <2> QED
    BY <1>2, <1>3, <2>1, <2>3, GoalIn
<1> QED
  BY <1>4, <1>5, <1>6, <1>7

\* While one request is in flight, the others have nothing to write.
LEMMA Alone ==
  ASSUME CountInv, Turns, ~Overlapped, NEW r \in Requests, InFlight(r),
         NEW q \in Requests, q # r
  PROVE  plan[q].step = "idle"
  BY DEF Turns, InFlight

LEMMA IdleFits ==
  ASSUME NEW p, p.step = "idle"
  PROVE  Story(p) /\ AnswerStands(p) /\ (Story(p))' /\ (AnswerStands(p))'
  BY DEF Story, AnswerStands

\* A step of the slot that is in flight alone, or of a slot that begins alone.
LEMMA AloneStep ==
  ASSUME SerialInv, NEW r \in Requests, NEW p \in Plan, plan' = [plan EXCEPT ![r] = p],
         ~Overlapped', ~Overlapped, UNCHANGED <<now, row, clocked>>,
         \A q \in Requests : q # r => plan[q].step = "idle",
         past' \cap {"overlapped", "severed"} = {} =>
           past \cap {"overlapped", "severed"} = {} /\ Story(p),
         AnswerStands(p)
  PROVE  (Turns /\ StoryInv)' /\ (~Overlapped => \A q \in Requests : AnswerStands(plan[q]))'
<1>1. /\ UNCHANGED <<now, status, since, total, dates, waited, waits>>
      /\ Slack(waits)' = Slack(waits) /\ Pending' = Pending
      /\ plan' \in [Requests -> Plan] /\ plan'[r] = p
      /\ \A q \in Requests : q # r => plan'[q].step = "idle"
  BY DEF SerialInv, CountInv, Typed, row, clocked, Slack, Pending
<1>2. Turns'
  BY <1>1 DEF Turns, InFlight
<1>3. (TellsNow)' <=> TellsNow
  BY <1>1 DEF TellsNow, Tells
<1>4. past' \cap {"overlapped", "severed"} = {} => (TellsNow /\ Story(plan[r]))'
  BY <1>1, <1>3 DEF SerialInv, StoryInv, Story, Tells, NewSince, NewTotal, NewDates, NewSlack
<1>5. (AnswerStands(plan[r]))'
  BY <1>1 DEF AnswerStands
<1>6. \A q \in Requests : q # r => (Story(plan[q]) /\ AnswerStands(plan[q]))'
  BY <1>1 DEF Story, AnswerStands
<1> QED
  BY <1>2, <1>4, <1>5, <1>6 DEF StoryInv

\* After requests have overlapped, nothing more is claimed.
LEMMA AfterOverlap ==
  ASSUME past' = {"overlapped"}
  PROVE  (Turns /\ StoryInv /\ HeardInv)'
  BY DEF Turns, StoryInv, HeardInv, Overlapped

LEMMA StaysOverlapped ==
  ASSUME Turns, Overlapped, Next
  PROVE  past' = {"overlapped"}
<1>1. past = {"overlapped"}
  BY DEF Turns
<1>2. ASSUME NEW r, NEW p, NEW c, BeginSevering(r, p, c) PROVE past' = {"overlapped"}
  BY <1>1, <1>2 DEF BeginSevering, Note
<1>3. ASSUME NEW r, NEW p, Begin(r, p) PROVE past' = {"overlapped"}
  BY <1>2, <1>3 DEF Begin
<1>4. ASSUME NEW r, Step(r) PROVE past' = {"overlapped"}
  <2>1. CASE Update(r)
    BY <1>1, <2>1 DEF Update
  <2>2. CASE StoreComment(r) \/ Resume(r) \/ Stop(r)
    BY <1>1, <2>2 DEF StoreComment, Resume, Stop, Note
  <2>3. CASE ~(Update(r) \/ StoreComment(r) \/ Resume(r) \/ Stop(r))
    BY <1>2, <1>3, <1>4, <2>3
       DEF Step, BeginAssign, BeginUnassign, BeginTransition, BeginComment, BeginBulkClose,
           BeginDuplicate
  <2> QED
    BY <2>1, <2>2, <2>3
<1> QED
  BY <1>1, <1>4 DEF Next, Tick

LEMMA SerialBegin ==
  ASSUME SerialInv, ~Overlapped, NEW r \in Requests, Beginning(r)
  PROVE  (Turns /\ StoryInv /\ HeardInv)'
<1>1. PICK p, c : BeginSevering(r, p, c) /\ InOrder(p) /\ (TellsNow /\ ~c => Story(p))
  BY Beginnings DEF SerialInv
<1>2. CASE \E q \in Requests : InFlight(q)
  BY <1>1, <1>2, AfterOverlap DEF BeginSevering
<1>3. CASE ~\E q \in Requests : InFlight(q)
  <2>1. /\ plan' = [plan EXCEPT ![r] = p] /\ UNCHANGED <<now, row, clocked>>
        /\ past' = IF c THEN past \union {"severed"} ELSE past
    BY <1>1, <1>3 DEF BeginSevering, Note
  <2>2. \A q \in Requests : plan[q].step = "idle"
    BY <1>3 DEF InFlight
  <2>3. /\ ~Overlapped'
        /\ past' \cap {"overlapped", "severed"} = {} =>
             past \cap {"overlapped", "severed"} = {} /\ ~c
    BY <2>1 DEF Overlapped
  <2>4. past' \cap {"overlapped", "severed"} = {} =>
          past \cap {"overlapped", "severed"} = {} /\ Story(p)
    BY <1>1, <2>3 DEF SerialInv, StoryInv
  <2>5. (Turns /\ StoryInv)' /\ \A q \in Requests : (AnswerStands(plan[q]))'
    BY <1>1, <2>1, <2>2, <2>3, <2>4, AloneStep DEF InOrder
  <2>6. "unheard" \in past' => "stopped" \in past'
    BY <2>1, <2>2 DEF SerialInv, HeardInv
  <2> QED
    BY <2>5, <2>6 DEF HeardInv
<1> QED
  BY <1>2, <1>3

LEMMA SerialOther ==
  ASSUME SerialInv, ~Overlapped, NEW r \in Requests, StoreComment(r) \/ Resume(r) \/ Stop(r)
  PROVE  (Turns /\ StoryInv /\ HeardInv)'
<1> USE DEF SerialInv
<1> PICK p \in Plan : p = plan[r]
  BY DEF CountInv, Typed
<1>1. /\ PlanCounts(p) /\ Rests(p) /\ InFlight(r) /\ AnswerStands(p)
      /\ past \cap {"overlapped", "severed"} = {} => TellsNow /\ Story(p)
      /\ plan \in [Requests -> Plan]
  BY DEF CountInv, Typed, HeardInv, StoryInv, InFlight, StoreComment, Resume, Stop
<1>2. \A q \in Requests : q # r => plan[q].step = "idle"
  BY <1>1, Alone
<1>3. "unheard" \in past => "stopped" \in past \/ (p.step = "update" /\ Heard(p))
  BY <1>2 DEF HeardInv
<1>4. CASE StoreComment(r)
  <2> DEFINE n == [p EXCEPT !.step = "update"]
  <2>1. /\ p.step = "comment" /\ plan' = [plan EXCEPT ![r] = n] /\ UNCHANGED <<now, row, clocked>>
        /\ past' = IF IsRequester(p.author) /\ status \in Resting
                   THEN past \union {"unheard"} ELSE past
    BY <1>4 DEF StoreComment, Note
  <2>2. /\ n \in Plan /\ n.step = "update" /\ n.status = p.status /\ n.clock = p.clock
        /\ n.total = p.total /\ n.dates = p.dates /\ n.then = p.then /\ n.author = p.author
    <3>1. n \in Plan
      BY Fields
    <3>2. /\ n.step = "update" /\ n.status = p.status /\ n.clock = p.clock
          /\ n.total = p.total /\ n.dates = p.dates /\ n.then = p.then /\ n.author = p.author
      BY DEF Plan
    <3> QED
      BY <3>1, <3>2
  <2> HIDE DEF n
  <2>3. (Story(p) => Story(n)) /\ AnswerStands(n) /\ (Heard(p) => Heard(n))
    BY <2>1, <2>2 DEF Story, AnswerStands, Heard, NewSince, NewTotal, NewDates, NewSlack
  <2>4. /\ ~Overlapped'
        /\ past' \cap {"overlapped", "severed"} = {} => past \cap {"overlapped", "severed"} = {}
    BY <2>1 DEF Overlapped
  <2>5. (Turns /\ StoryInv)' /\ \A q \in Requests : (AnswerStands(plan[q]))'
    BY <1>1, <1>2, <2>1, <2>2, <2>3, <2>4, AloneStep
  <2>6. "unheard" \in past' => "stopped" \in past' \/ (n.step = "update" /\ Heard(n))
    BY <1>1, <1>3, <2>1, <2>2, <2>3 DEF AnswerStands
  <2>7. plan'[r] = n /\ ((Heard(plan[r]))' <=> Heard(n))
    BY <1>1, <2>1, <2>2 DEF Heard
  <2>8. "unheard" \in past' => "stopped" \in past' \/ (plan[r].step = "update" /\ Heard(plan[r]))'
    BY <2>6, <2>7
  <2> QED
    BY <2>5, <2>8 DEF HeardInv
<1>5. CASE Resume(r)
  <2>1. /\ plan' = [plan EXCEPT ![r] = NextStep(p)] /\ UNCHANGED <<now, row, clocked, past>>
        /\ p.step = "between"
    BY <1>5 DEF Resume
  <2>2. AnswerStands(NextStep(p)) /\ (TellsNow /\ Story(p) => Story(NextStep(p)))
    BY <1>1, <2>1, Resumed
  <2>3. NextStep(p) \in Plan
    BY <1>1, <2>1, NextIn
  <2>4. ~Overlapped'
    BY <2>1 DEF Overlapped
  <2> PICK n \in Plan : n = NextStep(p)
    BY <2>3
  <2>5. /\ plan' = [plan EXCEPT ![r] = n] /\ AnswerStands(n)
        /\ past' \cap {"overlapped", "severed"} = {} =>
             past \cap {"overlapped", "severed"} = {} /\ Story(n)
    BY <1>1, <2>1, <2>2
  <2>6. (Turns /\ StoryInv)' /\ \A q \in Requests : (AnswerStands(plan[q]))'
    BY <1>1, <1>2, <2>1, <2>4, <2>5, AloneStep
  <2>7. "unheard" \in past' => "stopped" \in past'
    BY <1>3, <2>1
  <2> QED
    BY <2>6, <2>7 DEF HeardInv
<1>6. CASE Stop(r)
  <2>1. /\ plan' = [plan EXCEPT ![r] = NoPlan] /\ UNCHANGED <<now, row, clocked>>
        /\ past' = past \union {"stopped"}
    BY <1>6 DEF Stop, Note
  <2>2. Story(NoPlan) /\ AnswerStands(NoPlan) /\ NoPlan \in Plan
    BY NoPlanTyped, IdleFits
  <2>3. /\ ~Overlapped'
        /\ past' \cap {"overlapped", "severed"} = {} => past \cap {"overlapped", "severed"} = {}
    BY <2>1 DEF Overlapped
  <2>4. (Turns /\ StoryInv)' /\ \A q \in Requests : (AnswerStands(plan[q]))'
    BY <1>1, <1>2, <2>1, <2>2, <2>3, AloneStep
  <2>5. "stopped" \in past'
    BY <2>1
  <2> QED
    BY <2>4, <2>5 DEF HeardInv
<1> QED
  BY <1>4, <1>5, <1>6

\* The UPDATE puts on record what its plan says, and nobody else has a plan.
LEMMA SerialUpdate ==
  ASSUME SerialInv, ~Overlapped, NEW r \in Requests, Update(r)
  PROVE  (Turns /\ StoryInv /\ HeardInv)'
<1> USE DEF SerialInv
<1> PICK p \in Plan : p = plan[r]
  BY DEF CountInv, Typed
<1>1. /\ p.step = "update" /\ InFlight(r) /\ plan \in [Requests -> Plan]
      /\ UNCHANGED <<now, waited>> /\ status' = Write(status, p.status)
      /\ since' = NewSince(p) /\ total' = NewTotal(p) /\ dates' = NewDates(p)
      /\ waits' = IF p.clock # "keep" /\ since # Never /\ since < now THEN waits + 1 ELSE waits
      /\ past' = IF status' \in Resting THEN past ELSE past \ {"unheard"}
      /\ plan' = [plan EXCEPT ![r] = After(p)]
  BY DEF Update, InFlight, CountInv, Typed, NewSince, NewTotal, NewDates, NewSlack
<1>s. Slack(waits)' = NewSlack(p)
  <2>1. Slack(waits)' = Slack(waits') /\ waits \in Nat /\ Minute \in Nat /\ Slack(waits) \in Nat
        /\ Slack(waits + 1) = Slack(waits) + Minute
    BY SlackGrows, TicketConstants DEF Slack, CountInv, Typed
  <2> QED
    BY <1>1, <2>1 DEF NewSlack, Pending
<1>2. \A q \in Requests : q # r => plan[q].step = "idle"
  BY <1>1, Alone
<1>3. /\ past \cap {"overlapped", "severed"} = {} => Story(p)
      /\ "unheard" \in past => "stopped" \in past \/ Heard(p)
  BY <1>1, <1>2 DEF StoryInv, HeardInv
<1>4. /\ After(p).step \in {"idle", "between"}
      /\ After(p).step = "between" => After(p).then = p.then
  BY NoPlanTyped DEF After, NoPlan
<1>5. plan'[r] = After(p) /\ \A q \in Requests : q # r => plan'[q].step = "idle"
  BY <1>1, <1>2
<1>6. ~Overlapped' /\ ("stopped" \in past' <=> "stopped" \in past)
  BY <1>1 DEF Overlapped
<1>7. Turns'
  BY <1>5, <1>6 DEF Turns, InFlight
<1>8. \A q \in Requests : (AnswerStands(plan[q]))'
  BY <1>4, <1>5 DEF AnswerStands
<1>9. "unheard" \in past' => "stopped" \in past'
  <2>1. "unheard" \in past' => "unheard" \in past /\ status' \in Resting
    BY <1>1
  <2>2. Heard(p) => status' \notin Resting
    BY <1>1 DEF Heard, Write
  <2> QED
    BY <1>3, <1>6, <2>1, <2>2
<1>10. ASSUME past' \cap {"overlapped", "severed"} = {}
       PROVE  (TellsNow /\ \A q \in Requests : Story(plan[q]))'
  <2>1. Story(p)
    BY <1>1, <1>3, <1>10
  <2>2. /\ Tells(Write(status, p.status), NewSince(p), NewTotal(p), NewDates(p), NewSlack(p))
        /\ p.then = "close" => Write(status, p.status) # Waiting
    BY <1>1, <2>1 DEF Story
  <2>3. (TellsNow)'
    BY <1>1, <1>s, <2>2 DEF TellsNow, Tells
  <2>4. (Story(plan[r]))'
    <3> PICK a : a = After(p)
      OBVIOUS
    <3>1. a = plan'[r] /\ a.step \in {"idle", "between"} /\ (a.step = "between" => a.then = p.then)
      BY <1>4, <1>5
    <3> QED
      BY <1>1, <2>2, <3>1 DEF Story
  <2>5. \A q \in Requests : q # r => (Story(plan[q]))'
    BY <1>5 DEF Story
  <2> QED
    BY <2>3, <2>4, <2>5
<1> QED
  BY <1>7, <1>8, <1>9, <1>10 DEF StoryInv, HeardInv

LEMMA SerialTick ==
  ASSUME SerialInv, Tick
  PROVE  (Turns /\ StoryInv /\ HeardInv)'
<1>1. /\ UNCHANGED <<status, since, total, dates, waits, plan, past>>
      /\ Slack(waits)' = Slack(waits)
      /\ now' = now + 1 /\ waited' = IF status = Waiting THEN waited + 1 ELSE waited
      /\ \A r \in Requests : plan[r].step = "idle"
  BY DEF Tick, row, InFlight, Slack
<1>2. /\ now \in Nat /\ waited \in Nat /\ total \in Nat /\ since \in Nat \union {Never}
      /\ Slack(waits) \in Nat
  BY SlackGrows DEF SerialInv, CountInv, Typed
<1>3. TellsNow => (TellsNow)'
  BY <1>1, <1>2 DEF TellsNow, Tells, Never
<1>4. \A r \in Requests : (Story(plan[r]) /\ AnswerStands(plan[r]))'
  BY <1>1 DEF Story, AnswerStands
<1> QED
  BY <1>1, <1>3, <1>4 DEF SerialInv, Turns, StoryInv, HeardInv, Overlapped, InFlight

LEMMA SerialInit == Init => SerialInv
<1> SUFFICES ASSUME Init PROVE SerialInv
  OBVIOUS
<1>1. \A r \in Requests : plan[r] = NoPlan
  BY DEF Init
<1>2. TellsNow
  BY SlackGrows DEF Init, TellsNow, Tells, Never, Waiting
<1>3. \A r \in Requests : Story(plan[r]) /\ AnswerStands(plan[r]) /\ ~InFlight(r)
  BY <1>1, NoPlanTyped, IdleFits DEF InFlight
<1>4. past = {}
  BY DEF Init
<1> QED
  BY <1>2, <1>3, <1>4, CountInit DEF SerialInv, Turns, StoryInv, HeardInv, Overlapped

LEMMA SerialNext == SerialInv /\ [Next]_vars => SerialInv'
<1> SUFFICES ASSUME SerialInv, [Next]_vars PROVE (Turns /\ StoryInv /\ HeardInv)'
  BY CountNext DEF SerialInv
<1>1. CASE Overlapped /\ Next
  BY <1>1, StaysOverlapped, AfterOverlap DEF SerialInv
<1>2. CASE ~Overlapped /\ Next
  <2>1. ASSUME NEW r \in Requests, Step(r) PROVE (Turns /\ StoryInv /\ HeardInv)'
    <3>1. CASE Update(r)
      BY <1>2, <3>1, SerialUpdate
    <3>2. CASE StoreComment(r) \/ Resume(r) \/ Stop(r)
      BY <1>2, <3>2, SerialOther
    <3> QED
      BY <1>2, <2>1, <3>1, <3>2, SerialBegin DEF Step, Beginning
  <2> QED
    BY <1>2, <2>1, SerialTick DEF Next
<1>3. CASE UNCHANGED vars
  BY <1>3 DEF vars, row, clocked, Slack, Pending, SerialInv, Turns, StoryInv, HeardInv, Overlapped, InFlight, TellsNow,
              Tells, Story, NewSince, NewTotal, NewDates, NewSlack, AnswerStands, Heard
<1> QED
  BY <1>1, <1>2, <1>3

\* While requests take turns and none severs the clock or the dates from the status,
\* every wait is on record to within half a minute and the columns of the ticket agree.
THEOREM RowIsTrue == Spec => []RowTellsItsStory
<1>1. SerialInv => RowTellsItsStory
  <2> SUFFICES ASSUME SerialInv, past \cap {"overlapped", "severed"} = {} PROVE RowTellsItsStory
    BY DEF RowTellsItsStory
  <2> DEFINE ended == waited - (IF since = Never THEN 0 ELSE now - since)
  <2>1. Tells(status, since, total, dates, Slack(waits))
    BY DEF SerialInv, StoryInv, TellsNow
  <2>2. /\ now \in Nat /\ waited \in Nat /\ total \in Nat /\ since \in Nat \union {Never}
        /\ Slack(waits) = Minute * waits /\ Slack(waits) \in Nat
    BY SlackGrows DEF SerialInv, CountInv, Typed, Slack
  <2>3. 2 * (total - ended) \in -Slack(waits)..Slack(waits)
    BY <2>1, <2>2 DEF Tells
  <2> QED
    BY <2>1, <2>2, <2>3 DEF Tells, RowTellsItsStory
<1> QED
  BY <1>1, SerialInit, SerialNext, PTL DEF Spec

\* A requester who has written is left with a resting ticket only by a handler that
\* stopped half way or by requests that overlapped.
THEOREM RequesterIsHeard == Spec => []ReplyIsHeard
<1>1. SerialInv => ReplyIsHeard
  BY DEF SerialInv, HeardInv, Heard, ReplyIsHeard
<1> QED
  BY <1>1, SerialInit, SerialNext, PTL DEF Spec

------------------------------------------------------------------------------
(* The background jobs.                                                       *)

\* The notes of runs that met and of work that failed are pairs of a job and an item.
Raced(job, x) == <<job, x>> \in raced
Broken(job, x) == <<job, x>> \in broken

\* Run w of this job is about to do the second step on x.
Second(w, job, x) == At(w, job, "second") /\ run[w].item = x

JobsTyped ==
  /\ run \in [Runs -> Run]
  /\ made \in [Items -> Nat]
  /\ letters \in [Tickets -> Nat]

\* What a run has read, by its job, and where it can be.
Shape(w) ==
  /\ run[w].job \in {"escalate", "overdue"} =>
       run[w].todo \subseteq Tickets /\ run[w].at \in {"pick", "second"}
  /\ run[w].job = "mail" => run[w].todo \subseteq Mails
  /\ run[w].at # "pick" => run[w].item \in run[w].todo

\* Two runs of a job that have read x have met.
Met ==
  \A v, w \in Runs : \A x \in Items :
    v # w /\ run[v].job = run[w].job /\ run[v].job # "none" /\ x \in run[v].todo \cap run[w].todo =>
      Raced(run[v].job, x)

TypedInv == JobsTyped /\ (\A w \in Runs : Shape(w)) /\ Met

LEMMA NoRunTyped ==
  /\ NoRun \in Run /\ NoRun.job = "none" /\ NoRun.todo = {} /\ NoRun.at = "pick"
  BY DEF NoRun, Run, Job

LEMMA JobsInitInv == ASSUME JobsInit PROVE TypedInv
<1>1. JobsTyped
  BY NoRunTyped DEF JobsInit, JobsTyped
<1>2. \A w \in Runs : run[w] = NoRun
  BY DEF JobsInit
<1> QED
  BY <1>1, <1>2, NoRunTyped DEF TypedInv, Shape, Met

\* Run w goes on with what it has read, or some of it; the other runs stay where they are.
Moves(w) ==
  /\ run' \in [Runs -> Run]
  /\ \A v \in Runs \ {w} : run'[v] = run[v]
  /\ run'[w].job \in {"none", run[w].job}
  /\ run'[w].todo \subseteq run[w].todo
  /\ run'[w].at # "pick" => run'[w].item \in run'[w].todo

LEMMA MovesKeep ==
  ASSUME TypedInv, NEW w \in Runs, Moves(w),
         run'[w].job \in {"escalate", "overdue"} => run'[w].at \in {"pick", "second"},
         raced' = raced,
         made' \in [Items -> Nat], letters' \in [Tickets -> Nat]
  PROVE  TypedInv'
<1>1. JobsTyped'
  BY DEF JobsTyped, Moves
<1>2. \A v \in Runs : Shape(v)'
  BY DEF TypedInv, Shape, Moves
<1>3. \A v \in Runs : run'[v].job \in {"none", run[v].job} /\ run'[v].todo \subseteq run[v].todo
  BY DEF Moves
<1>4. Met'
  BY <1>3 DEF TypedInv, Met, Raced
<1> QED
  BY <1>1, <1>2, <1>4 DEF TypedInv

\* The run has not got to x yet, or is at its first step.
Has(w, job, x) == run[w].job = job /\ x \in run[w].todo /\ ~Second(w, job, x)

Steps == {"pick", "first", "second", "flag", "hung"}

\* Taking an item, with what is read of it.
LEMMA TakeMoves ==
  ASSUME TypedInv, NEW w \in Runs, NEW x \in Items, x \in run[w].todo, NEW at \in Steps,
         NEW answer \in {"none", "active", "reopened"},
         run' = [run EXCEPT ![w] = [run[w] EXCEPT !.item = x, !.at = at, !.answer = answer]]
  PROVE  /\ Moves(w)
         /\ run'[w].job = run[w].job /\ run'[w].todo = run[w].todo
         /\ run'[w].at = at /\ run'[w].item = x
<1> DEFINE y == [run[w] EXCEPT !.item = x, !.at = at, !.answer = answer]
<1>1. /\ y \in Run /\ y.job = run[w].job /\ y.todo = run[w].todo /\ y.at = at /\ y.item = x
  BY DEF TypedInv, JobsTyped, Run, Steps
<1> HIDE DEF y
<1>2. run' = [run EXCEPT ![w] = y]
  BY DEF y
<1> QED
  BY <1>1, <1>2 DEF TypedInv, JobsTyped, Moves

\* Going to another step with the same item.
LEMMA GoToMoves ==
  ASSUME TypedInv, NEW w \in Runs, NEW at \in Steps, run[w].at # "pick",
         NEW answer \in {"none", "active", "reopened"},
         run' = [run EXCEPT ![w] = [run[w] EXCEPT !.at = at, !.answer = answer]]
  PROVE  /\ Moves(w)
         /\ run'[w].job = run[w].job /\ run'[w].todo = run[w].todo
         /\ run'[w].at = at /\ run'[w].item = run[w].item
<1> DEFINE y == [run[w] EXCEPT !.at = at, !.answer = answer]
<1>1. /\ y \in Run /\ y.job = run[w].job /\ y.todo = run[w].todo /\ y.at = at
      /\ y.item = run[w].item
  BY DEF TypedInv, JobsTyped, Run, Steps
<1> HIDE DEF y
<1>2. run' = [run EXCEPT ![w] = y]
  BY DEF y
<1> QED
  BY <1>1, <1>2 DEF TypedInv, JobsTyped, Moves, Shape

LEMMA LeaveMoves ==
  ASSUME TypedInv, NEW w \in Runs, run[w].job # "none", NEW x, Leave(w, x)
  PROVE  /\ Moves(w)
         /\ run'[w].at = "pick" /\ run'[w].todo = run[w].todo \ {x}
<1> DEFINE rest == run[w].todo \ {x}
           y == IF rest = {} THEN NoRun
                ELSE [NoRun EXCEPT !.job = run[w].job, !.todo = rest, !.poll = run[w].poll]
<1>1. /\ [NoRun EXCEPT !.job = run[w].job, !.todo = rest, !.poll = run[w].poll] \in Run
      /\ [NoRun EXCEPT !.job = run[w].job, !.todo = rest, !.poll = run[w].poll].job = run[w].job
      /\ [NoRun EXCEPT !.job = run[w].job, !.todo = rest, !.poll = run[w].poll].todo = rest
      /\ [NoRun EXCEPT !.job = run[w].job, !.todo = rest, !.poll = run[w].poll].at = "pick"
  BY NoRunTyped DEF TypedInv, JobsTyped, Run
<1>2. y \in Run /\ y.job \in {"none", run[w].job} /\ y.todo = rest /\ y.at = "pick"
  BY <1>1, NoRunTyped
<1>3. run' = [run EXCEPT ![w] = y]
  BY DEF Leave
<1> HIDE DEF y
<1>4. run'[w] = y /\ run' \in [Runs -> Run] /\ \A v \in Runs \ {w} : run'[v] = run[v]
  BY <1>2, <1>3 DEF TypedInv, JobsTyped
<1> QED
  BY <1>2, <1>4 DEF Moves

LEMMA DoneMoves ==
  ASSUME TypedInv, NEW w \in Runs, run[w].job # "none", Done(w)
  PROVE  /\ Moves(w)
         /\ run'[w].at = "pick" /\ run'[w].todo = run[w].todo \ {run[w].item}
  BY LeaveMoves DEF Done

\* A run that stops leaves what it has read.
LEMMA BreakMoves ==
  ASSUME TypedInv, NEW w \in Runs, run' = [run EXCEPT ![w] = NoRun]
  PROVE  Moves(w) /\ run'[w].at = "pick" /\ run'[w].todo = {}
  BY NoRunTyped DEF TypedInv, JobsTyped, Moves

\* A run that starts has met every run of its job that has read one of its items.
LEMMA StartInv ==
  ASSUME TypedInv, NEW w \in Runs, NEW job \in Job, NEW todo, NEW poll \in BOOLEAN,
         todo \subseteq IF job = "mail" THEN Mails ELSE Tickets,
         Start(w, job, todo, poll)
  PROVE  /\ TypedInv'
         /\ run'[w].job = job /\ run'[w].todo = todo /\ run'[w].at = "pick" /\ Idle(w)
         /\ \A v \in Runs \ {w} : run'[v] = run[v]
         /\ raced \subseteq raced'
<1> DEFINE y == [NoRun EXCEPT !.job = job, !.todo = todo, !.poll = poll]
<1>1. y \in Run /\ y.job = job /\ y.todo = todo /\ y.at = "pick"
  BY NoRunTyped DEF Run, Items
<1>2. run' = [run EXCEPT ![w] = y] /\ made' = made /\ letters' = letters /\ Idle(w)
  BY DEF Start, counts
<1>3. raced' = raced \union {<<job, x>> : x \in {z \in todo :
                 \E v \in Runs : run[v].job = job /\ z \in run[v].todo}}
  BY DEF Start
<1> HIDE DEF y
<1>4. run'[w] = y /\ \A v \in Runs \ {w} : run'[v] = run[v]
  BY <1>2 DEF TypedInv, JobsTyped
<1>5. JobsTyped'
  BY <1>1, <1>2 DEF TypedInv, JobsTyped
<1>6. \A v \in Runs : Shape(v)'
  BY <1>1, <1>4 DEF TypedInv, Shape, Job
<1>7. raced \subseteq raced'
  BY <1>3
<1>8. \A v \in Runs : \A x \in todo :
        run[v].job = job /\ x \in run[v].todo => <<job, x>> \in raced'
  BY <1>3
<1>9. Met'
  <2> SUFFICES ASSUME NEW u \in Runs, NEW v \in Runs, NEW x \in Items,
                      u # v, run'[u].job = run'[v].job, run'[u].job # "none",
                      x \in run'[u].todo \cap run'[v].todo
               PROVE  <<run'[u].job, x>> \in raced'
    BY DEF Met, Raced
  <2>1. CASE u = w
    BY <1>1, <1>4, <1>8, <2>1
  <2>2. CASE v = w
    BY <1>1, <1>4, <1>8, <2>2
  <2>3. CASE u # w /\ v # w
    BY <1>4, <1>7, <2>3 DEF TypedInv, Met, Raced
  <2> QED
    BY <2>1, <2>2, <2>3
<1> QED
  BY <1>1, <1>2, <1>4, <1>5, <1>6, <1>7, <1>9 DEF TypedInv

\* A run of another job does not change who is at which step of x.
LEMMA OtherJob ==
  ASSUME NEW w \in Runs, Moves(w), NEW job \in Job, run[w].job # job
  PROVE  \A v \in Runs : \A x \in Items :
           /\ run'[v].job = job <=> run[v].job = job
           /\ run[v].job = job => run'[v] = run[v]
  BY DEF Moves, Job

-----------------------------------------------------------------------------
(* What is so of one ticket, or one mail.                                  *)

\* A marked ticket is announced by the run that marked it, or was.
EscInv(t) ==
  /\ ~Raced("escalate", t) =>
       /\ made[t] <= 1
       /\ t \notin escalated => made[t] = 0
       /\ \A w \in Runs : Second(w, "escalate", t) => t \in escalated /\ made[t] = 0
       /\ \A w \in Runs : Has(w, "escalate", t) => t \notin escalated
  /\ t \in escalated /\ made[t] = 0 =>
       Broken("escalate", t) \/ \E w \in Runs : Second(w, "escalate", t)

\* A mailed ticket will be marked by the run that mailed it, or was.
OverInv(t) ==
  /\ t \in mailed => letters[t] > 0
  /\ \A w \in Runs : Second(w, "overdue", t) => letters[t] > 0
  /\ ~Raced("overdue", t) /\ ~Broken("overdue", t) =>
       /\ letters[t] <= 1
       /\ t \notin mailed /\ (\A w \in Runs : ~Second(w, "overdue", t)) => letters[t] = 0
       /\ \A w \in Runs : Has(w, "overdue", t) => t \notin mailed

\* Run w is about to make an entry of mail m.
First(w, m) == At(w, "mail", "first") /\ run[w].item = m

\* A mail whose entry is made will be stored by the run that made it, or was.
MailInv(m) ==
  /\ m \in stored => made[m] > 0
  /\ \A w \in Runs : Second(w, "mail", m) => made[m] > 0
  /\ ~Raced("mail", m) /\ ~Broken("mail", m) =>
       /\ made[m] <= 1
       /\ m \notin stored /\ (\A w \in Runs : ~Second(w, "mail", m)) => made[m] = 0
       /\ \A w \in Runs : First(w, m) => m \notin stored

LEMMA EscSame ==
  ASSUME NEW t \in Tickets, EscInv(t),
         (t \in escalated') <=> t \in escalated, made'[t] = made[t],
         raced \subseteq raced', broken \subseteq broken',
         \A v \in Runs : Second(v, "escalate", t)' => Second(v, "escalate", t),
         \A v \in Runs : Second(v, "escalate", t) =>
                         Second(v, "escalate", t)' \/ Broken("escalate", t)',
         \A v \in Runs : Has(v, "escalate", t)' => Has(v, "escalate", t) \/ t \notin escalated
  PROVE  EscInv(t)'
<1>1. /\ Raced("escalate", t) => Raced("escalate", t)'
      /\ Broken("escalate", t) => Broken("escalate", t)'
  BY DEF Raced, Broken
<1> QED
  BY <1>1 DEF EscInv

LEMMA OverSame ==
  ASSUME NEW t \in Tickets, OverInv(t),
         (t \in mailed') <=> t \in mailed, letters'[t] = letters[t],
         raced \subseteq raced', broken \subseteq broken',
         \A v \in Runs : Second(v, "overdue", t)' => Second(v, "overdue", t),
         \A v \in Runs : Second(v, "overdue", t) =>
                         Second(v, "overdue", t)' \/ Broken("overdue", t)',
         \A v \in Runs : Has(v, "overdue", t)' => Has(v, "overdue", t) \/ t \notin mailed
  PROVE  OverInv(t)'
<1>1. /\ Raced("overdue", t) => Raced("overdue", t)'
      /\ Broken("overdue", t) => Broken("overdue", t)'
  BY DEF Raced, Broken
<1> QED
  BY <1>1 DEF OverInv

LEMMA MailSame ==
  ASSUME NEW m \in Mails, MailInv(m),
         (m \in stored') <=> m \in stored, made'[m] = made[m],
         raced \subseteq raced', broken \subseteq broken',
         \A v \in Runs : Second(v, "mail", m)' => Second(v, "mail", m),
         \A v \in Runs : Second(v, "mail", m) => Second(v, "mail", m)' \/ Broken("mail", m)',
         \A v \in Runs : First(v, m)' => First(v, m) \/ m \notin stored
  PROVE  MailInv(m)'
<1>1. /\ Raced("mail", m) => Raced("mail", m)'
      /\ Broken("mail", m) => Broken("mail", m)'
  BY DEF Raced, Broken
<1> QED
  BY <1>1 DEF MailInv

JobsInv ==
  /\ TypedInv
  /\ \A t \in Tickets : EscInv(t) /\ OverInv(t)
  /\ \A m \in Mails : MailInv(m)

\* Where nothing is made, marked or stored, only where the run goes matters.
LEMMA OnlyRun ==
  ASSUME JobsInv, NEW w \in Runs, Moves(w), TypedInv',
         escalated' = escalated, mailed' = mailed, stored' = stored,
         made' = made, letters' = letters, raced' = raced, broken \subseteq broken',
         run'[w].at = "second" => run[w].at = "second" /\ run'[w].item = run[w].item,
         \A x \in Items : \A job \in Job :
           Second(w, job, x) => Second(w, job, x)' \/ Broken(job, x)',
         \A x \in Items : \A job \in Job :
           Second(w, job, x) => x \notin run'[w].todo \/ Second(w, job, x)',
         \A m \in Mails : First(w, m)' => First(w, m) \/ m \notin stored
  PROVE  JobsInv'
<1>1. \A v \in Runs, x \in Items, job \in Job :
        Second(v, job, x)' => Second(v, job, x)
  BY DEF Moves, Second, At, Job
<1>2. \A v \in Runs, x \in Items, job \in Job :
        Second(v, job, x) => Second(v, job, x)' \/ Broken(job, x)'
  BY DEF Moves, Second, At
<1>3. \A v \in Runs, x \in Items, job \in Job : Has(v, job, x)' => Has(v, job, x)
  BY DEF Moves, Has, Second, At, Job
<1>4. \A v \in Runs, m \in Mails : First(v, m)' => First(v, m) \/ m \notin stored
  BY DEF Moves, First, At
<1>5. "escalate" \in Job /\ "overdue" \in Job /\ "mail" \in Job /\ raced \subseteq raced'
  BY DEF Job
<1>6. Tickets \subseteq Items /\ Mails \subseteq Items
  BY DEF Items
<1>7. \A t \in Tickets : EscInv(t)'
  BY <1>1, <1>2, <1>3, <1>5, <1>6, EscSame DEF JobsInv
<1>8. \A t \in Tickets : OverInv(t)'
  BY <1>1, <1>2, <1>3, <1>5, <1>6, OverSame DEF JobsInv
<1>9. \A m \in Mails : MailInv(m)'
  BY <1>1, <1>2, <1>4, <1>5, <1>6, MailSame DEF JobsInv
<1> QED
  BY <1>7, <1>8, <1>9 DEF JobsInv

-----------------------------------------------------------------------------
(* Every step keeps it.                                                    *)

LEMMA StartJobs ==
  ASSUME JobsInv, NEW w \in Runs, NEW job \in Job, NEW todo, NEW poll \in BOOLEAN,
         todo \subseteq IF job = "mail" THEN Mails ELSE Tickets,
         job = "escalate" => todo \cap escalated = {},
         job = "overdue" => todo \cap mailed = {},
         Start(w, job, todo, poll)
  PROVE  JobsInv'
<1>1. /\ TypedInv'
      /\ run'[w].job = job /\ run'[w].todo = todo /\ run'[w].at = "pick" /\ run[w].job = "none"
      /\ \A v \in Runs \ {w} : run'[v] = run[v]
      /\ raced \subseteq raced'
  BY StartInv DEF JobsInv, Idle
<1>2. /\ escalated' = escalated /\ mailed' = mailed /\ stored' = stored
      /\ made' = made /\ letters' = letters /\ broken' = broken
  BY DEF Start, desk, post, counts
<1>3. \A v \in Runs, x \in Items, j \in Job : Second(v, j, x)' <=> Second(v, j, x)
  BY <1>1 DEF Second, At, Job
<1>4. \A v \in Runs, m \in Mails : First(v, m)' => First(v, m)
  BY <1>1 DEF First, At
<1>5. "escalate" \in Job /\ "overdue" \in Job /\ "mail" \in Job
  BY DEF Job
<1>6. \A v \in Runs, t \in Tickets :
        /\ Has(v, "escalate", t)' => Has(v, "escalate", t) \/ t \notin escalated
        /\ Has(v, "overdue", t)' => Has(v, "overdue", t) \/ t \notin mailed
  BY <1>1 DEF Has, Second, At
<1>7. Tickets \subseteq Items /\ Mails \subseteq Items
  BY DEF Items
<1>8. \A t \in Tickets : EscInv(t)'
  BY <1>1, <1>2, <1>3, <1>5, <1>6, <1>7, EscSame DEF JobsInv
<1>9. \A t \in Tickets : OverInv(t)'
  BY <1>1, <1>2, <1>3, <1>5, <1>6, <1>7, OverSame DEF JobsInv
<1>10. \A m \in Mails : MailInv(m)'
  BY <1>1, <1>2, <1>3, <1>4, <1>5, <1>7, MailSame DEF JobsInv
<1> QED
  BY <1>1, <1>8, <1>9, <1>10 DEF JobsInv

LEMMA StartsInv ==
  ASSUME JobsInv, NEW w \in Runs, inbox \subseteq Mails, due \subseteq Tickets,
         \/ StartEscalation(w) \/ StartOverdueMails(w) \/ StartPoll(w)
         \/ \E m \in Mails : StartWebhook(w, m)
  PROVE  JobsInv'
<1>1. "escalate" \in Job /\ "overdue" \in Job /\ "mail" \in Job
  BY DEF Job
<1>2. CASE StartEscalation(w)
  <2>1. ToEscalate \subseteq Tickets /\ ToEscalate \cap escalated = {}
    BY DEF ToEscalate
  <2> QED
    BY <1>1, <1>2, <2>1, StartJobs DEF StartEscalation
<1>3. CASE StartOverdueMails(w)
  <2>1. ToMail \subseteq Tickets /\ ToMail \cap mailed = {}
    BY DEF ToMail
  <2> QED
    BY <1>1, <1>3, <2>1, StartJobs DEF StartOverdueMails
<1>4. CASE StartPoll(w)
  BY <1>1, <1>4, StartJobs DEF StartPoll
<1>5. ASSUME NEW m \in Mails, StartWebhook(w, m) PROVE JobsInv'
  <2>1. {m} \subseteq Mails
    OBVIOUS
  <2> QED
    BY <1>1, <1>5, <2>1, StartJobs DEF StartWebhook
<1> QED
  BY <1>2, <1>3, <1>4, <1>5

\* Another run has not read what run w is working on, unless they have met.
LEMMA NobodyElse ==
  ASSUME TypedInv, NEW w \in Runs, NEW job \in Job, NEW x \in Items,
         run[w].job = job, x \in run[w].todo, ~Raced(job, x)
  PROVE  \A v \in Runs \ {w} : ~(run[v].job = job /\ x \in run[v].todo)
  BY DEF TypedInv, Met, Job

LEMMA SecondHas ==
  ASSUME TypedInv, NEW w \in Runs, NEW job, NEW x, Second(w, job, x)
  PROVE  run[w].job = job /\ x \in run[w].todo /\ run[w].at = "second" /\ run[w].item = x
  BY DEF TypedInv, Shape, Second, At

\* The notes of other jobs stay as they are while a run of one job goes on.
LEMMA OtherInvs ==
  ASSUME JobsInv, NEW w \in Runs, Moves(w), raced' = raced, broken \subseteq broken'
  PROVE  /\ run[w].job # "escalate" /\ escalated' = escalated
            /\ (\A t \in Tickets : made'[t] = made[t]) => \A t \in Tickets : EscInv(t)'
         /\ run[w].job # "overdue" /\ mailed' = mailed /\ letters' = letters =>
              \A t \in Tickets : OverInv(t)'
         /\ run[w].job # "mail" /\ stored' = stored
            /\ (\A m \in Mails : made'[m] = made[m]) => \A m \in Mails : MailInv(m)'
<1>1. ASSUME NEW job \in Job, run[w].job # job, NEW v \in Runs, NEW x \in Items
      PROVE  /\ Second(v, job, x)' <=> Second(v, job, x)
             /\ Has(v, job, x)' <=> Has(v, job, x)
             /\ job = "mail" => (First(v, x)' <=> First(v, x))
  BY <1>1, OtherJob DEF Second, Has, At, First
<1>2. "escalate" \in Job /\ "overdue" \in Job /\ "mail" \in Job
  BY DEF Job
<1>3. Tickets \subseteq Items /\ Mails \subseteq Items /\ raced \subseteq raced'
  BY DEF Items
<1>4. ASSUME run[w].job # "escalate", escalated' = escalated,
             \A t \in Tickets : made'[t] = made[t], NEW t \in Tickets
      PROVE  EscInv(t)'
  BY <1>1, <1>2, <1>3, <1>4, EscSame DEF JobsInv
<1>5. ASSUME run[w].job # "overdue", mailed' = mailed, letters' = letters, NEW t \in Tickets
      PROVE  OverInv(t)'
  BY <1>1, <1>2, <1>3, <1>5, OverSame DEF JobsInv
<1>6. ASSUME run[w].job # "mail", stored' = stored,
             \A m \in Mails : made'[m] = made[m], NEW m \in Mails
      PROVE  MailInv(m)'
  BY <1>1, <1>2, <1>3, <1>6, MailSame DEF JobsInv
<1> QED
  BY <1>4, <1>5, <1>6

LEMMA TakeOnly ==
  ASSUME TypedInv, NEW w \in Runs, NEW x \in Items, x \in run[w].todo, NEW at \in Steps,
         Take(w, x, at)
  PROVE  /\ Moves(w)
         /\ run'[w].job = run[w].job /\ run'[w].todo = run[w].todo
         /\ run'[w].at = at /\ run'[w].item = x
<1> DEFINE y == [run[w] EXCEPT !.item = x, !.at = at]
<1>1. /\ y \in Run /\ y.job = run[w].job /\ y.todo = run[w].todo /\ y.at = at /\ y.item = x
  BY DEF TypedInv, JobsTyped, Run, Steps
<1>2. run' = [run EXCEPT ![w] = y]
  BY DEF Take
<1> HIDE DEF y
<1> QED
  BY <1>1, <1>2 DEF TypedInv, JobsTyped, Moves

LEMMA GoToOnly ==
  ASSUME TypedInv, NEW w \in Runs, NEW at \in Steps, run[w].at # "pick", GoTo(w, at)
  PROVE  /\ Moves(w)
         /\ run'[w].job = run[w].job /\ run'[w].todo = run[w].todo
         /\ run'[w].at = at /\ run'[w].item = run[w].item
<1> DEFINE y == [run[w] EXCEPT !.at = at]
<1>1. /\ y \in Run /\ y.job = run[w].job /\ y.todo = run[w].todo /\ y.at = at
      /\ y.item = run[w].item
  BY DEF TypedInv, JobsTyped, Run, Steps
<1>2. run' = [run EXCEPT ![w] = y]
  BY DEF GoTo
<1> HIDE DEF y
<1> QED
  BY <1>1, <1>2 DEF TypedInv, JobsTyped, Moves, Shape

LEMMA MarkInv ==
  ASSUME JobsInv, NEW w \in Runs, NEW x \in Tickets, MarkEscalated(w, x)
  PROVE  JobsInv'
<1>1. /\ run[w].job = "escalate" /\ run[w].at = "pick" /\ x \in run[w].todo
      /\ escalated' = escalated \union {x}
      /\ mailed' = mailed /\ stored' = stored /\ made' = made /\ letters' = letters
      /\ raced' = raced /\ broken' = broken
  BY DEF MarkEscalated, TakesNext, post, counts, mishaps
<1>2. /\ "second" \in Steps /\ x \in Items /\ Take(w, x, "second") /\ TypedInv
      /\ "escalate" \in Job
  BY DEF MarkEscalated, Items, Steps, JobsInv, Job
<1>3. /\ Moves(w)
      /\ run'[w].job = run[w].job /\ run'[w].todo = run[w].todo
      /\ run'[w].at = "second" /\ run'[w].item = x
  BY <1>1, <1>2, TakeOnly
<1>4. TypedInv'
  BY <1>1, <1>2, <1>3, MovesKeep DEF TypedInv, JobsTyped
<1>5. (\A t \in Tickets : OverInv(t)') /\ (\A m \in Mails : MailInv(m)')
  BY <1>1, <1>3, OtherInvs
<1>6. \A v \in Runs \ {w} : run'[v] = run[v]
  BY <1>3 DEF Moves
<1>7. ASSUME NEW t \in Tickets PROVE EscInv(t)'
  <2>1. CASE t = x
    <3>1. Second(w, "escalate", t)' /\ ~Second(w, "escalate", t)
      BY <1>1, <1>3, <2>1 DEF Second, At
    <3>2. Has(w, "escalate", t)
      BY <1>1, <2>1, <3>1 DEF Has
    <3>3. ~Raced("escalate", t) =>
            /\ \A v \in Runs \ {w} : ~Second(v, "escalate", t)' /\ ~Has(v, "escalate", t)'
            /\ ~Has(w, "escalate", t)'
      <4>1. ~Raced("escalate", t) =>
              \A v \in Runs \ {w} : ~(run[v].job = "escalate" /\ t \in run[v].todo)
        BY <1>1, <1>2, <2>1, NobodyElse
      <4>2. \A v \in Runs : Second(v, "escalate", t)' \/ Has(v, "escalate", t)' =>
              run'[v].job = "escalate" /\ t \in run'[v].todo
        BY <1>4 DEF TypedInv, Shape, Second, At, Has
      <4> QED
        BY <1>6, <3>1, <4>1, <4>2 DEF Has
    <3>4. EscInv(t)
      BY DEF JobsInv
    <3> QED
      BY <1>1, <2>1, <3>1, <3>2, <3>3, <3>4 DEF EscInv, Raced
  <2>2. CASE t # x
    <3>1. \A v \in Runs : Second(v, "escalate", t)' <=> Second(v, "escalate", t)
      BY <1>1, <1>3, <1>6, <2>2 DEF Second, At
    <3>2. \A v \in Runs : Has(v, "escalate", t)' => Has(v, "escalate", t)
      BY <1>3, <1>6, <3>1 DEF Has
    <3> QED
      BY <1>1, <2>2, <3>1, <3>2, EscSame DEF JobsInv
  <2> QED
    BY <2>1, <2>2
<1> QED
  BY <1>4, <1>5, <1>7 DEF JobsInv

LEMMA TellInv ==
  ASSUME JobsInv, NEW w \in Runs, TellAdmins(w), Tickets \cap Mails = {}
  PROVE  JobsInv'
<1> PICK x : x = run[w].item
  OBVIOUS
<1>1. /\ run[w].job = "escalate" /\ run[w].at = "second"
      /\ made' = [made EXCEPT ![x] = made[x] + 1]
      /\ escalated' = escalated
      /\ mailed' = mailed /\ stored' = stored /\ letters' = letters
      /\ raced' = raced /\ broken' = broken /\ Done(w)
  BY DEF TellAdmins, At, desk, post, mishaps
<1>2. TypedInv /\ "escalate" \in Job /\ x \in run[w].todo /\ x \in Tickets /\ x \in Items
  BY <1>1 DEF JobsInv, TypedInv, Shape, Job, Items
<1>3. Moves(w) /\ run'[w].at = "pick" /\ run'[w].todo = run[w].todo \ {x}
  BY <1>1, <1>2, DoneMoves
<1>0. made \in [Items -> Nat]
  BY <1>2 DEF TypedInv, JobsTyped
<1>4. TypedInv'
  <2>1. made' \in [Items -> Nat] /\ letters' \in [Tickets -> Nat]
    BY <1>0, <1>1, <1>2 DEF TypedInv, JobsTyped
  <2> QED
    BY <1>1, <1>2, <1>3, <2>1, MovesKeep
<1>5. (\A t \in Tickets : OverInv(t)') /\ (\A m \in Mails : MailInv(m)')
  <2>1. \A m \in Mails : made'[m] = made[m]
    BY <1>0, <1>1, <1>2 DEF Items
  <2> QED
    BY <1>1, <1>3, <2>1, OtherInvs
<1>6. \A v \in Runs \ {w} : run'[v] = run[v]
  BY <1>3 DEF Moves
<1>7. ASSUME NEW t \in Tickets PROVE EscInv(t)'
  <2>0. EscInv(t)
    BY DEF JobsInv
  <2>1. CASE t = x
    <3>1. Second(w, "escalate", t)
      BY <1>1, <2>1 DEF Second, At
    <3>2. ~Raced("escalate", t) =>
            \A v \in Runs : ~Second(v, "escalate", t)' /\ ~Has(v, "escalate", t)'
      <4>1. ~Raced("escalate", t) =>
              \A v \in Runs \ {w} : ~(run[v].job = "escalate" /\ t \in run[v].todo)
        BY <1>1, <1>2, <2>1, NobodyElse
      <4>2. \A v \in Runs : Second(v, "escalate", t)' \/ Has(v, "escalate", t)' =>
              run'[v].job = "escalate" /\ t \in run'[v].todo
        BY <1>4 DEF TypedInv, Shape, Second, At, Has
      <4> QED
        BY <1>3, <1>6, <2>1, <4>1, <4>2
    <3>3. made'[t] = made[t] + 1 /\ made[t] \in Nat
      BY <1>0, <1>1, <1>2, <2>1
    <3>4. ~Raced("escalate", t) => made[t] = 0 /\ t \in escalated
      BY <2>0, <3>1 DEF EscInv
    <3> QED
      BY <1>1, <3>2, <3>3, <3>4 DEF EscInv, Raced
  <2>2. CASE t # x
    <3>1. \A v \in Runs : Second(v, "escalate", t)' <=> Second(v, "escalate", t)
      BY <1>1, <1>3, <1>6, <2>2 DEF Second, At
    <3>2. \A v \in Runs : Has(v, "escalate", t)' => Has(v, "escalate", t)
      BY <1>1, <1>3, <1>6, <3>1 DEF Has, Moves
    <3>3. made'[t] = made[t]
      BY <1>0, <1>1, <2>2 DEF Items
    <3> QED
      BY <1>1, <2>0, <3>1, <3>2, <3>3, EscSame
  <2> QED
    BY <2>1, <2>2
<1> QED
  BY <1>4, <1>5, <1>7 DEF JobsInv

LEMMA LetterInv ==
  ASSUME JobsInv, NEW w \in Runs, NEW x \in Tickets, SendOverdue(w, x)
  PROVE  JobsInv'
<1>1. /\ run[w].job = "overdue" /\ run[w].at = "pick" /\ x \in run[w].todo
      /\ letters' = [letters EXCEPT ![x] = letters[x] + 1]
      /\ escalated' = escalated /\ mailed' = mailed /\ stored' = stored /\ made' = made
      /\ raced' = raced /\ broken' = broken
  BY DEF SendOverdue, TakesNext, desk, post, mishaps
<1>2. /\ "second" \in Steps /\ x \in Items /\ Take(w, x, "second") /\ TypedInv
      /\ "overdue" \in Job /\ letters \in [Tickets -> Nat]
  BY DEF SendOverdue, Items, Steps, JobsInv, TypedInv, JobsTyped, Job
<1>3. /\ Moves(w)
      /\ run'[w].job = run[w].job /\ run'[w].todo = run[w].todo
      /\ run'[w].at = "second" /\ run'[w].item = x
  BY <1>1, <1>2, TakeOnly
<1>4. TypedInv'
  <2>1. made' \in [Items -> Nat] /\ letters' \in [Tickets -> Nat]
    BY <1>1, <1>2 DEF TypedInv, JobsTyped
  <2> QED
    BY <1>1, <1>2, <1>3, <2>1, MovesKeep
<1>5. (\A t \in Tickets : EscInv(t)') /\ (\A m \in Mails : MailInv(m)')
  BY <1>1, <1>3, OtherInvs
<1>6. \A v \in Runs \ {w} : run'[v] = run[v]
  BY <1>3 DEF Moves
<1>7. ASSUME NEW t \in Tickets PROVE OverInv(t)'
  <2>1. OverInv(t)
    BY DEF JobsInv
  <2>2. CASE t = x
    <3>1. Second(w, "overdue", t)' /\ ~Second(w, "overdue", t)
      BY <1>1, <1>3, <2>2 DEF Second, At
    <3>2. Has(w, "overdue", t)
      BY <1>1, <2>2, <3>1 DEF Has
    <3>3. ~Raced("overdue", t) =>
            /\ \A v \in Runs : ~Second(v, "overdue", t)
            /\ \A v \in Runs : ~Has(v, "overdue", t)'
      <4>1. ~Raced("overdue", t) =>
              \A v \in Runs \ {w} : ~(run[v].job = "overdue" /\ t \in run[v].todo)
        BY <1>1, <1>2, <2>2, NobodyElse
      <4>2. \A v \in Runs : Second(v, "overdue", t) => run[v].job = "overdue" /\ t \in run[v].todo
        BY <1>2, SecondHas
      <4>3. \A v \in Runs : Has(v, "overdue", t)' => run'[v].job = "overdue" /\ t \in run'[v].todo
        BY DEF Has
      <4> QED
        BY <1>6, <3>1, <4>1, <4>2, <4>3 DEF Has
    <3>4. letters'[t] = letters[t] + 1 /\ letters[t] \in Nat
      BY <1>1, <1>2, <2>2
    <3> QED
      BY <1>1, <2>1, <3>1, <3>2, <3>3, <3>4 DEF OverInv, Raced, Broken
  <2>3. CASE t # x
    <3>1. \A v \in Runs : Second(v, "overdue", t)' <=> Second(v, "overdue", t)
      BY <1>1, <1>3, <1>6, <2>3 DEF Second, At
    <3>2. \A v \in Runs : Has(v, "overdue", t)' => Has(v, "overdue", t)
      BY <1>3, <1>6, <3>1 DEF Has
    <3>3. letters'[t] = letters[t]
      BY <1>1, <1>2, <2>3
    <3> QED
      BY <1>1, <2>1, <3>1, <3>2, <3>3, OverSame
  <2> QED
    BY <2>2, <2>3
<1> QED
  BY <1>4, <1>5, <1>7 DEF JobsInv

LEMMA MarkMailedInv ==
  ASSUME JobsInv, NEW w \in Runs, MarkMailed(w)
  PROVE  JobsInv'
<1> PICK x : x = run[w].item
  OBVIOUS
<1>1. /\ run[w].job = "overdue" /\ run[w].at = "second" /\ mailed' = mailed \union {x}
      /\ escalated' = escalated /\ stored' = stored /\ made' = made /\ letters' = letters
      /\ raced' = raced /\ broken' = broken /\ Done(w)
  BY DEF MarkMailed, At, post, counts, mishaps
<1>2. TypedInv /\ "overdue" \in Job /\ x \in run[w].todo /\ x \in Tickets /\ x \in Items
  BY <1>1 DEF JobsInv, TypedInv, Shape, Job, Items
<1>3. Moves(w) /\ run'[w].at = "pick" /\ run'[w].todo = run[w].todo \ {x}
  BY <1>1, <1>2, DoneMoves
<1>4. TypedInv'
  BY <1>1, <1>2, <1>3, MovesKeep DEF TypedInv, JobsTyped
<1>5. (\A t \in Tickets : EscInv(t)') /\ (\A m \in Mails : MailInv(m)')
  BY <1>1, <1>3, OtherInvs
<1>6. \A v \in Runs \ {w} : run'[v] = run[v]
  BY <1>3 DEF Moves
<1>7. ASSUME NEW t \in Tickets PROVE OverInv(t)'
  <2>1. OverInv(t)
    BY DEF JobsInv
  <2>2. CASE t = x
    <3>1. Second(w, "overdue", t) /\ ~Second(w, "overdue", t)' /\ ~Has(w, "overdue", t)'
      BY <1>1, <1>3, <2>2 DEF Second, At, Has
    <3>2. ~Raced("overdue", t) => \A v \in Runs : ~Has(v, "overdue", t)'
      <4>1. ~Raced("overdue", t) =>
              \A v \in Runs \ {w} : ~(run[v].job = "overdue" /\ t \in run[v].todo)
        BY <1>1, <1>2, <2>2, NobodyElse
      <4> QED
        BY <1>6, <3>1, <4>1 DEF Has
    <3>3. \A v \in Runs : Second(v, "overdue", t)' => Second(v, "overdue", t)
      BY <1>6, <3>1 DEF Second, At
    <3> QED
      BY <1>1, <2>1, <2>2, <3>1, <3>2, <3>3 DEF OverInv, Raced, Broken
  <2>3. CASE t # x
    <3>1. \A v \in Runs : Second(v, "overdue", t)' <=> Second(v, "overdue", t)
      BY <1>1, <1>3, <1>6, <2>3 DEF Second, At
    <3>2. \A v \in Runs : Has(v, "overdue", t)' => Has(v, "overdue", t)
      BY <1>1, <1>3, <1>6, <3>1 DEF Has, Moves
    <3> QED
      BY <1>1, <2>1, <2>3, <3>1, <3>2, OverSame
  <2> QED
    BY <2>2, <2>3
<1> QED
  BY <1>4, <1>5, <1>7 DEF JobsInv

LEMMA ReadMailInv ==
  ASSUME JobsInv, NEW w \in Runs, NEW x \in Mails, ReadMail(w, x),
         Answer(Answers[x]) \in {"none", "active", "reopened"}
  PROVE  JobsInv'
<1>1. /\ run[w].job = "mail" /\ run[w].at = "pick" /\ x \in run[w].todo
      /\ escalated' = escalated /\ mailed' = mailed /\ stored' = stored
      /\ made' = made /\ letters' = letters /\ raced' = raced /\ broken' = broken
  BY DEF ReadMail, TakesNext, desk, post, counts, mishaps
<1>2. {"first", "flag"} \subseteq Steps /\ x \in Items /\ TypedInv
  BY DEF Items, Steps, JobsInv
<1>3. /\ Moves(w)
      /\ run'[w].job = run[w].job /\ run'[w].todo = run[w].todo
      /\ run'[w].at = (IF x \in stored THEN "flag" ELSE "first") /\ run'[w].item = x
  <2>1. CASE x \in stored
    <3>1. Take(w, x, "flag")
      BY <2>1 DEF ReadMail, Take
    <3> QED
      BY <1>1, <1>2, <2>1, <3>1, TakeOnly
  <2>2. CASE x \notin stored
    <3> PICK a \in {"none", "active", "reopened"} : a = Answer(Answers[x])
      OBVIOUS
    <3>1. run' = [run EXCEPT ![w] = [run[w] EXCEPT !.item = x, !.at = "first", !.answer = a]]
      BY <2>2 DEF ReadMail
    <3>2. "first" \in Steps
      BY <1>2
    <3>3. /\ Moves(w)
          /\ run'[w].job = run[w].job /\ run'[w].todo = run[w].todo
          /\ run'[w].at = "first" /\ run'[w].item = x
      BY <1>1, <1>2, <3>1, <3>2, TakeMoves
    <3> QED
      BY <2>2, <3>3
  <2> QED
    BY <2>1, <2>2
<1>4. TypedInv'
  BY <1>1, <1>2, <1>3, MovesKeep DEF TypedInv, JobsTyped
<1>5. \A y \in Items, job \in Job : ~Second(w, job, y)
  BY <1>1 DEF Second, At
<1>6. \A m \in Mails : First(w, m)' => m \notin stored
  BY <1>3 DEF First, At
<1> QED
  BY <1>1, <1>3, <1>4, <1>5, <1>6, OnlyRun

LEMMA EntryInv ==
  ASSUME JobsInv, NEW w \in Runs, WriteEntry(w), Tickets \cap Mails = {}
  PROVE  JobsInv'
<1> PICK x : x = run[w].item
  OBVIOUS
<1>1. /\ run[w].job = "mail" /\ run[w].at = "first"
      /\ made' = [made EXCEPT ![x] = made[x] + 1]
      /\ run' = [run EXCEPT ![w] = [run[w] EXCEPT !.at = "second", !.answer = "none"]]
      /\ escalated' = escalated /\ mailed' = mailed /\ stored' = stored /\ letters' = letters
      /\ raced' = raced /\ broken' = broken
  BY DEF WriteEntry, At, post, mishaps
<1>2. /\ TypedInv /\ "mail" \in Job /\ x \in run[w].todo /\ x \in Mails /\ x \in Items
      /\ "second" \in Steps /\ made \in [Items -> Nat]
  BY <1>1 DEF JobsInv, TypedInv, JobsTyped, Shape, Job, Items, Steps
<1>3. /\ Moves(w)
      /\ run'[w].job = run[w].job /\ run'[w].todo = run[w].todo
      /\ run'[w].at = "second" /\ run'[w].item = x
  BY <1>1, <1>2, GoToMoves
<1>4. TypedInv'
  <2>1. made' \in [Items -> Nat] /\ letters' \in [Tickets -> Nat]
    BY <1>1, <1>2 DEF TypedInv, JobsTyped
  <2> QED
    BY <1>1, <1>2, <1>3, <2>1, MovesKeep
<1>5. (\A t \in Tickets : EscInv(t)') /\ (\A t \in Tickets : OverInv(t)')
  <2>1. \A t \in Tickets : made'[t] = made[t]
    BY <1>1, <1>2 DEF Items
  <2> QED
    BY <1>1, <1>3, <2>1, OtherInvs
<1>6. \A v \in Runs \ {w} : run'[v] = run[v]
  BY <1>3 DEF Moves
<1>7. ASSUME NEW m \in Mails PROVE MailInv(m)'
  <2>1. MailInv(m)
    BY DEF JobsInv
  <2>2. CASE m = x
    <3>1. First(w, m) /\ ~First(w, m)' /\ Second(w, "mail", m)' /\ ~Second(w, "mail", m)
      BY <1>1, <1>3, <2>2 DEF First, Second, At
    <3>2. ~Raced("mail", m) =>
            \A v \in Runs : ~Second(v, "mail", m) /\ ~First(v, m)'
      <4>1. ~Raced("mail", m) =>
              \A v \in Runs \ {w} : ~(run[v].job = "mail" /\ m \in run[v].todo)
        BY <1>1, <1>2, <2>2, NobodyElse
      <4>2. \A v \in Runs : Second(v, "mail", m) => run[v].job = "mail" /\ m \in run[v].todo
        BY <1>2, SecondHas
      <4>3. \A v \in Runs : First(v, m)' => run'[v].job = "mail" /\ m \in run'[v].todo
        BY <1>4 DEF TypedInv, Shape, First, At
      <4> QED
        BY <1>6, <3>1, <4>1, <4>2, <4>3
    <3>3. made'[m] = made[m] + 1 /\ made[m] \in Nat
      BY <1>1, <1>2, <2>2
    <3> QED
      BY <1>1, <2>1, <3>1, <3>2, <3>3 DEF MailInv, Raced, Broken
  <2>3. CASE m # x
    <3>1. \A v \in Runs : (Second(v, "mail", m)' <=> Second(v, "mail", m))
      BY <1>1, <1>3, <1>6, <2>3 DEF Second, At
    <3>2. \A v \in Runs : First(v, m)' => First(v, m)
      BY <1>3, <1>6 DEF First, At
    <3>3. made'[m] = made[m]
      BY <1>1, <1>2, <2>3 DEF Items
    <3> QED
      BY <1>1, <2>1, <3>1, <3>2, <3>3, MailSame
  <2> QED
    BY <2>2, <2>3
<1> QED
  BY <1>4, <1>5, <1>7 DEF JobsInv

LEMMA StoreInv ==
  ASSUME JobsInv, NEW w \in Runs, StoreMessage(w)
  PROVE  JobsInv'
<1> PICK x : x = run[w].item
  OBVIOUS
<1>1. /\ run[w].job = "mail" /\ run[w].at = "second" /\ stored' = stored \union {x}
      /\ GoTo(w, "flag") /\ broken \subseteq broken'
      /\ escalated' = escalated /\ mailed' = mailed /\ made' = made /\ letters' = letters
      /\ raced' = raced
  BY DEF StoreMessage, At, desk, counts
<1>2. /\ TypedInv /\ "mail" \in Job /\ x \in run[w].todo /\ x \in Mails /\ x \in Items
      /\ "flag" \in Steps
  BY <1>1 DEF JobsInv, TypedInv, Shape, Job, Items, Steps
<1>3. /\ Moves(w)
      /\ run'[w].job = run[w].job /\ run'[w].todo = run[w].todo
      /\ run'[w].at = "flag" /\ run'[w].item = x
  BY <1>1, <1>2, GoToOnly
<1>4. TypedInv'
  BY <1>1, <1>2, <1>3, MovesKeep DEF TypedInv, JobsTyped
<1>5. (\A t \in Tickets : EscInv(t)') /\ (\A t \in Tickets : OverInv(t)')
  BY <1>1, <1>3, OtherInvs
<1>6. \A v \in Runs \ {w} : run'[v] = run[v]
  BY <1>3 DEF Moves
<1>7. ASSUME NEW m \in Mails PROVE MailInv(m)'
  <2>1. MailInv(m)
    BY DEF JobsInv
  <2>2. \A v \in Runs : First(v, m)' => First(v, m) /\ v # w
    BY <1>3, <1>6 DEF First, At
  <2>3. \A v \in Runs : Second(v, "mail", m)' => Second(v, "mail", m)
    BY <1>3, <1>6 DEF Second, At
  <2>4. CASE m = x
    <3>1. Second(w, "mail", m)
      BY <1>1, <2>4 DEF Second, At
    <3>2. ~Raced("mail", m) => \A v \in Runs : ~First(v, m)'
      <4>1. ~Raced("mail", m) =>
              \A v \in Runs \ {w} : ~(run[v].job = "mail" /\ m \in run[v].todo)
        BY <1>1, <1>2, <2>4, NobodyElse
      <4>2. \A v \in Runs : First(v, m) => run[v].job = "mail" /\ m \in run[v].todo
        BY <1>2 DEF TypedInv, Shape, First, At
      <4> QED
        BY <2>2, <4>1, <4>2
    <3> QED
      BY <1>1, <2>1, <2>3, <2>4, <3>1, <3>2 DEF MailInv, Raced, Broken
  <2>5. CASE m # x
    <3>1. \A v \in Runs : Second(v, "mail", m) => Second(v, "mail", m)'
      BY <1>6, <2>5 DEF Second, At
    <3>2. raced \subseteq raced'
      BY <1>1
    <3> QED
      BY <1>1, <2>1, <2>2, <2>3, <2>5, <3>1, <3>2, MailSame
  <2> QED
    BY <2>4, <2>5
<1> QED
  BY <1>4, <1>5, <1>7 DEF JobsInv

LEMMA FailInv ==
  ASSUME JobsInv, NEW w \in Runs, FailMail(w)
  PROVE  JobsInv'
<1>1. /\ run[w].job = "mail" /\ run[w].at \in {"first", "second"} /\ GoTo(w, "flag")
      /\ escalated' = escalated /\ mailed' = mailed /\ stored' = stored /\ made' = made
      /\ letters' = letters /\ raced' = raced
      /\ broken' = broken \union {<<"mail", run[w].item>>}
  BY DEF FailMail, At, desk, post, counts
<1>2. TypedInv /\ "flag" \in Steps
  BY DEF JobsInv, Steps
<1>3. /\ Moves(w)
      /\ run'[w].job = run[w].job /\ run'[w].todo = run[w].todo
      /\ run'[w].at = "flag" /\ run'[w].item = run[w].item
  BY <1>1, <1>2, GoToOnly
<1>4. TypedInv'
  BY <1>1, <1>2, <1>3, MovesKeep DEF TypedInv, JobsTyped
<1>5. \A v \in Runs \ {w} : run'[v] = run[v]
  BY <1>3 DEF Moves
<1>6. (\A t \in Tickets : EscInv(t)') /\ (\A t \in Tickets : OverInv(t)')
  BY <1>1, <1>3, OtherInvs
<1>7. ASSUME NEW m \in Mails PROVE MailInv(m)'
  <2>1. \A v \in Runs : Second(v, "mail", m)' => Second(v, "mail", m)
    BY <1>3, <1>5 DEF Second, At
  <2>2. \A v \in Runs : Second(v, "mail", m) => Second(v, "mail", m)' \/ Broken("mail", m)'
    BY <1>1, <1>5 DEF Second, At, Broken
  <2>3. \A v \in Runs : First(v, m)' => First(v, m)
    BY <1>3, <1>5 DEF First, At
  <2>4. raced \subseteq raced' /\ broken \subseteq broken'
    BY <1>1
  <2> QED
    BY <1>1, <2>1, <2>2, <2>3, <2>4, MailSame DEF JobsInv
<1> QED
  BY <1>4, <1>6, <1>7 DEF JobsInv

LEMMA FlagInv ==
  ASSUME JobsInv, NEW w \in Runs, Flag(w)
  PROVE  JobsInv'
<1>1. /\ run[w].job = "mail" /\ run[w].at = "flag" /\ Done(w)
      /\ escalated' = escalated /\ mailed' = mailed /\ stored' = stored /\ made' = made
      /\ letters' = letters /\ raced' = raced /\ broken' = broken
  BY DEF Flag, At, desk, counts, mishaps
<1>2. TypedInv
  BY DEF JobsInv
<1>3. Moves(w) /\ run'[w].at = "pick"
  BY <1>1, <1>2, DoneMoves
<1>4. TypedInv'
  BY <1>1, <1>2, <1>3, MovesKeep DEF TypedInv, JobsTyped
<1>5. \A y \in Items, job \in Job : ~Second(w, job, y)
  BY <1>1 DEF Second, At
<1>6. \A m \in Mails : ~First(w, m)'
  BY <1>3 DEF First, At
<1> QED
  BY <1>1, <1>3, <1>4, <1>5, <1>6, OnlyRun

\* A poll that goes past a mail, hangs or loses its connection makes nothing.
LEMMA HangInv ==
  ASSUME JobsInv, NEW w \in Runs,
         HangOnFlag(w) \/ LoseConnection(w) \/ \E m \in Mails : SkipMail(w, m)
  PROVE  JobsInv'
<1>1. /\ run[w].job = "mail" /\ run[w].at \in {"pick", "flag", "hung"}
      /\ escalated' = escalated /\ mailed' = mailed /\ stored' = stored /\ made' = made
      /\ letters' = letters /\ raced' = raced /\ broken' = broken
  BY DEF HangOnFlag, LoseConnection, SkipMail, TakesNext, At, desk, post, counts, mishaps
<1>2. TypedInv /\ "hung" \in Steps
  BY DEF JobsInv, Steps
<1>3. Moves(w) /\ run'[w].at \in {"pick", "hung"}
  <2>1. CASE HangOnFlag(w)
    BY <1>2, <2>1, GoToOnly DEF HangOnFlag, At
  <2>2. CASE LoseConnection(w)
    BY <1>2, <2>2, BreakMoves DEF LoseConnection
  <2>3. ASSUME NEW m \in Mails, SkipMail(w, m) PROVE Moves(w) /\ run'[w].at = "pick"
    <3>1. Leave(w, m)
      BY <2>3 DEF SkipMail
    <3> QED
      BY <1>1, <1>2, <3>1, LeaveMoves
  <2> QED
    BY <2>1, <2>2, <2>3
<1>4. TypedInv'
  BY <1>1, <1>2, <1>3, MovesKeep DEF TypedInv, JobsTyped, Moves
<1>5. \A y \in Items, job \in Job : ~Second(w, job, y)
  BY <1>1 DEF Second, At
<1>6. \A m \in Mails : ~First(w, m)'
  BY <1>3 DEF First, At
<1> QED
  BY <1>1, <1>3, <1>4, <1>5, <1>6, OnlyRun

LEMMA BreakInv ==
  ASSUME JobsInv, NEW w \in Runs, Break(w)
  PROVE  JobsInv'
<1>1. /\ run' = [run EXCEPT ![w] = NoRun]
      /\ broken' = broken \union {<<run[w].job, x>> : x \in run[w].todo \cap {run[w].item}}
      /\ escalated' = escalated /\ mailed' = mailed /\ stored' = stored /\ made' = made
      /\ letters' = letters /\ raced' = raced
  BY DEF Break, desk, post, counts
<1>2. TypedInv
  BY DEF JobsInv
<1>3. Moves(w) /\ run'[w].at = "pick"
  BY <1>1, <1>2, BreakMoves
<1>4. TypedInv'
  BY <1>1, <1>2, <1>3, MovesKeep DEF TypedInv, JobsTyped
<1>5. ASSUME NEW x \in Items, NEW job \in Job, Second(w, job, x) PROVE Broken(job, x)'
  <2>1. run[w].job = job /\ x \in run[w].todo /\ run[w].item = x
    BY <1>2, <1>5, SecondHas
  <2> QED
    BY <1>1, <2>1 DEF Broken
<1>6. \A m \in Mails : ~First(w, m)'
  BY <1>3 DEF First, At
<1>7. run'[w].todo = {}
  BY <1>1, <1>2, BreakMoves
<1>8. broken \subseteq broken'
  BY <1>1
<1> QED
  BY <1>1, <1>3, <1>4, <1>5, <1>6, <1>7, <1>8, OnlyRun

\* What changes around the runs does not matter to them.
LEMMA AroundInv ==
  ASSUME JobsInv, UNCHANGED <<escalated, mailed, stored, run, counts, mishaps>>
  PROVE  JobsInv'
  BY DEF JobsInv, TypedInv, JobsTyped, Shape, Met, Raced, Broken, EscInv, OverInv, MailInv, Second, At,
         Has, First, counts, mishaps

Inv == JobsInv /\ inbox \subseteq Mails /\ due \subseteq Tickets

LEMMA InitInv == ASSUME JobsInit PROVE Inv
<1>1. \A w \in Runs : run[w].job = "none"
  BY NoRunTyped DEF JobsInit
<1>2. \A w \in Runs : \A x : \A job \in Job :
        ~Second(w, job, x) /\ ~Has(w, job, x) /\ ~First(w, x)
  BY <1>1 DEF Second, At, Has, First, Job
<1>3. \A t \in Tickets : EscInv(t) /\ OverInv(t)
  BY <1>2 DEF JobsInit, EscInv, OverInv, Items, Job
<1>4. \A m \in Mails : MailInv(m)
  BY <1>2 DEF JobsInit, MailInv, Items, Job
<1> QED
  BY <1>3, <1>4, JobsInitInv DEF Inv, JobsInv, JobsInit

LEMMA NextInv == ASSUME Inv, [JobsNext]_jobsVars PROVE Inv'
<1> JobsInv /\ inbox \subseteq Mails /\ due \subseteq Tickets
  BY DEF Inv
<1> Tickets \cap Mails = {}
  BY JobConstants
<1>1. inbox' \subseteq Mails
  BY DEF JobsNext, jobsVars, desk, post, DueDatePasses, Reschedule, ChangeStage, Arrive, StartEscalation,
         StartOverdueMails, StartPoll, StartWebhook, Start, Continue, MarkEscalated, SendOverdue,
         TellAdmins, MarkMailed, SkipMail, ReadMail, WriteEntry, StoreMessage, FailMail, Flag,
         HangOnFlag, LoseConnection, Break
<1>2. due' \subseteq Tickets
  BY DEF JobsNext, jobsVars, desk, post, DueDatePasses, Reschedule, ChangeStage, Arrive, StartEscalation,
         StartOverdueMails, StartPoll, StartWebhook, Start, Continue, MarkEscalated, SendOverdue,
         TellAdmins, MarkMailed, SkipMail, ReadMail, WriteEntry, StoreMessage, FailMail, Flag,
         HangOnFlag, LoseConnection, Break
<1>3. ASSUME NEW t \in Tickets, DueDatePasses(t) \/ Reschedule(t) PROVE JobsInv'
  BY <1>3, AroundInv DEF DueDatePasses, Reschedule, post
<1>4. ASSUME NEW t \in Tickets, NEW s \in Stage, ChangeStage(t, s) PROVE JobsInv'
  BY <1>4, AroundInv DEF ChangeStage, post
<1>5. ASSUME NEW m \in Mails, Arrive(m) PROVE JobsInv'
  BY <1>5, AroundInv DEF Arrive, desk
<1>6. ASSUME NEW w \in Runs, NEW m \in Mails, ReadMail(w, m) PROVE JobsInv'
  <2>1. Answer(Answers[m]) \in {"none", "active", "reopened"}
    BY DEF Answer
  <2> QED
    BY <1>6, <2>1, ReadMailInv
<1>7. ASSUME NEW w \in Runs, Continue(w) PROVE JobsInv'
  BY <1>6, <1>7, MarkInv, LetterInv, TellInv, MarkMailedInv, EntryInv, StoreInv, FailInv, FlagInv,
     HangInv DEF Continue
<1>8. ASSUME UNCHANGED jobsVars PROVE JobsInv'
  BY <1>8, AroundInv DEF jobsVars, desk, post
<1>9. JobsInv'
  BY <1>3, <1>4, <1>5, <1>7, <1>8, StartsInv, BreakInv DEF JobsNext
<1> QED
  BY <1>1, <1>2, <1>9 DEF Inv

LEMMA SpecInv == JobsSpec => []Inv
<1>1. JobsInit => Inv
  BY InitInv
<1>2. Inv /\ [JobsNext]_jobsVars => Inv'
  BY NextInv
<1> QED
  BY <1>1, <1>2, PTL DEF JobsSpec

\* The tickets and the mails that rows, marks and notes are about.
DeskTyped ==
  /\ stage \in [Tickets -> Stage]
  /\ escalated \subseteq Tickets /\ mailed \subseteq Tickets /\ stored \subseteq Mails
  /\ raced \subseteq Job \X Items /\ broken \subseteq Job \X Items
  /\ breaks \in 0..MaxBreaks

LEMMA DeskNext == ASSUME Inv, DeskTyped, [JobsNext]_jobsVars PROVE DeskTyped'
<1>0. ASSUME NEW w \in Runs
      PROVE  /\ run[w] \in Run /\ run[w].todo \subseteq Items
             /\ run[w].at = "second" /\ run[w].job = "overdue" => run[w].item \in Tickets
             /\ run[w].at # "pick" /\ run[w].job = "mail" => run[w].item \in Mails
             /\ run[w].job # "none" => run[w].job \in Job
             /\ run[w].answer # "none" => run[w].answer \in Stage
  BY DEF Inv, JobsInv, TypedInv, JobsTyped, Shape, Run, Stage
<1>1. ASSUME NEW w \in Runs, NEW job \in Job, NEW todo \in SUBSET Items, NEW poll,
             Start(w, job, todo, poll)
      PROVE  DeskTyped'
  BY <1>1 DEF Start, DeskTyped, desk, post
<1>2. ASSUME NEW w \in Runs,
             \/ StartEscalation(w) \/ StartOverdueMails(w) \/ StartPoll(w)
             \/ \E m \in Mails : StartWebhook(w, m)
      PROVE  DeskTyped'
  <2>1. /\ ToEscalate \in SUBSET Items /\ ToMail \in SUBSET Items
        /\ inbox \in SUBSET Items /\ \A m \in Mails : {m} \in SUBSET Items
    BY DEF Inv, ToEscalate, ToMail, Items
  <2>2. "escalate" \in Job /\ "overdue" \in Job /\ "mail" \in Job
    BY DEF Job
  <2> QED
    BY <1>1, <1>2, <2>1, <2>2 DEF StartEscalation, StartOverdueMails, StartPoll, StartWebhook
<1>3. ASSUME NEW w \in Runs, \E t \in Tickets : MarkEscalated(w, t) \/ SendOverdue(w, t)
      PROVE  DeskTyped'
  BY <1>3 DEF MarkEscalated, SendOverdue, DeskTyped, desk, post, mishaps
<1>4. ASSUME NEW w \in Runs, TellAdmins(w) \/ MarkMailed(w) PROVE DeskTyped'
  BY <1>0, <1>4 DEF TellAdmins, MarkMailed, At, DeskTyped, desk, post, mishaps
<1>5. ASSUME NEW w \in Runs,
             \/ \E m \in Mails : ReadMail(w, m) \/ SkipMail(w, m)
             \/ Flag(w) \/ HangOnFlag(w) \/ LoseConnection(w)
      PROVE  DeskTyped'
  BY <1>5 DEF ReadMail, SkipMail, Flag, HangOnFlag, LoseConnection, DeskTyped, desk, post, mishaps
<1>6. ASSUME NEW w \in Runs, WriteEntry(w) PROVE DeskTyped'
  BY <1>0, <1>6 DEF WriteEntry, DeskTyped, post, mishaps
<1>7. ASSUME NEW w \in Runs, At(w, "mail", "first") \/ At(w, "mail", "second")
      PROVE  run[w].item \in Mails /\ <<"mail", run[w].item>> \in Job \X Items
  BY <1>0, <1>7 DEF At, Job, Items
<1>8. ASSUME NEW w \in Runs, StoreMessage(w) PROVE DeskTyped'
  BY <1>7, <1>8 DEF StoreMessage, DeskTyped, desk
<1>9. ASSUME NEW w \in Runs, FailMail(w) PROVE DeskTyped'
  BY <1>7, <1>9, JobConstants DEF FailMail, DeskTyped, desk, post
<1>10. ASSUME NEW w \in Runs, Break(w) PROVE DeskTyped'
  BY <1>0, <1>10, JobConstants DEF Break, Idle, DeskTyped, desk, post
<1>11. ASSUME \/ \E t \in Tickets : DueDatePasses(t) \/ Reschedule(t)
              \/ \E t \in Tickets, s \in Stage : ChangeStage(t, s)
              \/ \E m \in Mails : Arrive(m)
              \/ UNCHANGED jobsVars
       PROVE  DeskTyped'
  BY <1>11
  DEF DueDatePasses, Reschedule, ChangeStage, Arrive, DeskTyped, desk, post, mishaps, jobsVars
<1> QED
  BY <1>2, <1>3, <1>4, <1>5, <1>6, <1>8, <1>9, <1>10, <1>11 DEF JobsNext, Continue

\* What runs have read, marked and noted are tickets and mails that are there.
THEOREM JobsAreTyped == JobsSpec => []JobsTypeOK
<1>1. JobsInit => Inv /\ DeskTyped
  <2>1. JobsInit => Inv
    BY InitInv
  <2> QED
    BY <2>1, JobConstants DEF JobsInit, DeskTyped, Stage
<1>2. Inv /\ DeskTyped /\ [JobsNext]_jobsVars => (Inv /\ DeskTyped)'
  BY NextInv, DeskNext
<1>3. Inv /\ DeskTyped => JobsTypeOK
  BY DEF Inv, JobsInv, TypedInv, JobsTyped, DeskTyped, JobsTypeOK
<1> QED
  BY <1>1, <1>2, <1>3, PTL DEF JobsSpec

\* An escalation (ticket-sla-escalation.service.ts) is announced once unless runs overlapped on
\* the ticket, and is lost only with a run that stopped right after the mark: for any number
\* of runs, tickets and mails, and of breaks.
THEOREM EscalationToldOnce == JobsSpec => []EscalationIsToldOnce
<1>1. Inv => EscalationIsToldOnce
  <2> SUFFICES ASSUME Inv, NEW t \in Tickets
               PROVE  /\ made[t] > 1 => <<"escalate", t>> \in raced
                      /\ t \in escalated /\ made[t] = 0 =>
                           \/ <<"escalate", t>> \in broken
                           \/ \E w \in Runs : At(w, "escalate", "second") /\ run[w].item = t
    BY DEF EscalationIsToldOnce
  <2>1. EscInv(t) /\ made[t] \in Nat
    BY DEF Inv, JobsInv, TypedInv, JobsTyped, Items
  <2> QED
    BY <2>1 DEF EscInv, Raced, Broken, Second
<1> QED
  BY <1>1, SpecInv, PTL

\* A requester of an overdue ticket (tickets.service.ts sendOverdueRequesterMails) is mailed before
\* the ticket is marked, and a second time only where runs overlapped or one stopped.
THEOREM OverdueMailed == JobsSpec => []OverdueIsMailed
<1>1. Inv => OverdueIsMailed
  <2> SUFFICES ASSUME Inv, NEW t \in Tickets
               PROVE  /\ t \in mailed => letters[t] > 0
                      /\ letters[t] > 1 => <<"overdue", t>> \in raced \union broken
    BY DEF OverdueIsMailed
  <2>1. OverInv(t) /\ letters[t] \in Nat
    BY DEF Inv, JobsInv, TypedInv, JobsTyped
  <2> QED
    BY <2>1 DEF OverInv, Raced, Broken
<1> QED
  BY <1>1, SpecInv, PTL

\* A mail (email-inbox.service.ts ingestParsed) makes one comment or ticket, however often it is
\* delivered, unless it was worked on twice at once or its work failed.
THEOREM MailEnteredOnce == JobsSpec => []OneEntryPerMail
<1>1. Inv => OneEntryPerMail
  <2> SUFFICES ASSUME Inv, NEW m \in Mails
               PROVE  /\ m \in stored => made[m] > 0
                      /\ made[m] > 1 => <<"mail", m>> \in raced \union broken
    BY DEF OneEntryPerMail
  <2>1. MailInv(m) /\ made[m] \in Nat
    BY DEF Inv, JobsInv, TypedInv, JobsTyped, Items
  <2> QED
    BY <2>1 DEF MailInv, Raced, Broken
<1> QED
  BY <1>1, SpecInv, PTL

------------------------------------------------------------------------------
(* Asset requests: what the steps do to the handlers.                      *)

\* Handler h comes to hold j, and the others stay.
Works(h, j) == task' = [task EXCEPT ![h] = j]

LEMMA WorksDoes ==
  ASSUME task \in [Handlers -> HandlerJob], NEW h \in Handlers, NEW j \in HandlerJob, Works(h, j)
  PROVE  /\ task' \in [Handlers -> HandlerJob]
         /\ task'[h] = j
         /\ \A g \in Handlers \ {h} : task'[g] = task[g]
  BY DEF Works

LEMMA IdleJobTyped ==
  IdleJob \in HandlerJob /\ IdleJob.op = "idle" /\ IdleJob.asset = NoAsset
  BY DEF IdleJob, HandlerJob, Op, ItemKind

LEMMA JobFields ==
  ASSUME RequestTypeOK, NEW h \in Handlers
  PROVE  /\ task[h] \in HandlerJob
         /\ task[h].op \in Op /\ task[h].kind \in ItemKind
         /\ task[h].to \in RequestStatus \union {Keep}
         /\ task[h].asset \in Assets \union {NoAsset}
         /\ task[h].left \subseteq KitItems
         /\ task[h].op # "idle" => task[h].request \in RequestIds /\ Exists(task[h].request)
  BY DEF RequestTypeOK, HandlerJob

\* A step that ends its handler.
LEMMA EndDoes ==
  ASSUME RequestTypeOK, NEW h \in Handlers, FinishHandler(h)
  PROVE  /\ task' \in [Handlers -> HandlerJob]
         /\ task'[h] = IdleJob
         /\ \A g \in Handlers \ {h} : task'[g] = task[g]
  <1>1. Works(h, IdleJob)
    BY DEF FinishHandler, Works
  <1> QED
    BY <1>1, IdleJobTyped, WorksDoes DEF RequestTypeOK

\* A handler that begins has read an existing request, and no asset.
LEMMA BeginsDoes ==
  ASSUME RequestTypeOK, NEW h \in Handlers, NEW q \in RequestIds,
         \/ \E d \in {"approved", "rejected"} : BeginReview(h, q, d)
         \/ \E k \in ItemKind, s \in EditStatuses \union {Keep} : BeginEdit(h, q, k, s)
         \/ BeginFulfil(h, q)
  PROVE  \E j \in HandlerJob :
           /\ Works(h, j) /\ task[h].op = "idle"
           /\ j.request = q /\ Exists(q) /\ j.asset = NoAsset
           /\ \/ j.op = "review" /\ requestStatus[q] = "pending" /\ j.to \in {"approved", "rejected"}
              \/ j.op = "edit" /\ j.to \in EditStatuses \union {Keep}
              \/ j.op = "pick" /\ requestStatus[q] = "approved" /\ j.kind = kind[q]
           /\ UNCHANGED <<requestRows, assetRows, units, requestHistory>>
  <1> USE DEF StartHandler
  <1>1. ASSUME NEW d \in {"approved", "rejected"}, BeginReview(h, q, d)
        PROVE  \E j \in HandlerJob :
                 /\ Works(h, j) /\ j.request = q /\ j.asset = NoAsset
                 /\ j.op = "review" /\ j.to = d
    <2> DEFINE j == [IdleJob EXCEPT !.op = "review", !.request = q, !.to = d]
    <2>1. j \in HandlerJob /\ j.request = q /\ j.asset = NoAsset /\ j.op = "review" /\ j.to = d
      BY IdleJobTyped DEF HandlerJob, Op, RequestStatus
    <2>2. Works(h, j)
      BY <1>1 DEF BeginReview, Works
    <2> QED
      BY <2>1, <2>2
  <1>2. CASE \E d \in {"approved", "rejected"} : BeginReview(h, q, d)
    BY <1>1, <1>2 DEF BeginReview, Exists
  <1>3. ASSUME NEW k \in ItemKind, NEW s \in EditStatuses \union {Keep}, BeginEdit(h, q, k, s)
        PROVE  \E j \in HandlerJob :
                 /\ Works(h, j) /\ j.request = q /\ j.asset = NoAsset
                 /\ j.op = "edit" /\ j.to = s
    <2> DEFINE j == [IdleJob EXCEPT !.op = "edit", !.request = q, !.kind = k, !.to = s]
    <2>1. s \in RequestStatus \union {Keep}
      BY RequestConstants, NobodyIsNoEmployee
    <2>2. j \in HandlerJob /\ j.request = q /\ j.asset = NoAsset /\ j.op = "edit" /\ j.to = s
      BY <2>1, IdleJobTyped DEF HandlerJob, Op
    <2>3. Works(h, j)
      BY <1>3 DEF BeginEdit, Works
    <2> QED
      BY <2>2, <2>3
  <1>4. CASE \E k \in ItemKind, s \in EditStatuses \union {Keep} : BeginEdit(h, q, k, s)
    <2>1. PICK k \in ItemKind, s \in EditStatuses \union {Keep} : BeginEdit(h, q, k, s)
      BY <1>4
    <2>2. PICK j \in HandlerJob :
            Works(h, j) /\ j.request = q /\ j.asset = NoAsset /\ j.op = "edit" /\ j.to = s
      BY <1>3, <2>1
    <2> QED
      BY <2>1, <2>2 DEF BeginEdit
  <1>5. CASE BeginFulfil(h, q)
    <2> DEFINE k == kind[q]
               j == [IdleJob EXCEPT !.op = "pick", !.request = q, !.kind = k]
    <2>1. k \in ItemKind
      BY DEF RequestTypeOK
    <2>2. Works(h, j)
      BY <1>5 DEF BeginFulfil, Works
    <2> HIDE DEF k
    <2>3. j \in HandlerJob /\ j.request = q /\ j.asset = NoAsset /\ j.op = "pick" /\ j.kind = k
      BY <2>1, IdleJobTyped DEF HandlerJob, Op
    <2> QED
      BY <1>5, <2>2, <2>3 DEF BeginFulfil, Exists, k
  <1> QED
    BY <1>2, <1>4, <1>5

\* A fulfilment that has picked goes on to assign an available asset, or to mark
\* the request with an asset that the requester holds, or with none.
LEMMA PicksDoes ==
  ASSUME RequestTypeOK, NEW h \in Handlers,
         \/ \E a \in Assets : PickKit(h, a) \/ PickAsset(h, a)
         \/ PickNothing(h)
  PROVE  \E j \in HandlerJob :
           /\ Works(h, j) /\ task[h].op = "pick"
           /\ j.request = task[h].request /\ j.kind = task[h].kind
           /\ \/ j.op = "assign" /\ j.asset \in Assets
              \/ j.op = "mark" /\ j.asset \in Assets /\ holder[j.asset] = requester[j.request]
              \/ j.op = "mark" /\ j.asset = task[h].asset /\ j.kind = "accessory"
           /\ UNCHANGED <<requestRows, assetRows, units, requestHistory>>
  <1>1. task[h] \in HandlerJob
    BY JobFields
  <1>2. ASSUME NEW a \in Assets, NEW op \in {"assign", "mark"}
        PROVE  LET j == [task[h] EXCEPT !.op = op, !.asset = a]
               IN /\ j \in HandlerJob /\ j.op = op /\ j.asset = a
                  /\ j.request = task[h].request /\ j.kind = task[h].kind
    BY <1>1 DEF HandlerJob, Op
  <1>3. LET j == [task[h] EXCEPT !.op = "mark"]
        IN /\ j \in HandlerJob /\ j.op = "mark" /\ j.asset = task[h].asset
           /\ j.request = task[h].request /\ j.kind = task[h].kind
    BY <1>1 DEF HandlerJob, Op
  <1>4. CASE \E a \in Assets : PickKit(h, a)
    <2>1. PICK a \in Assets : Advance(h, [task[h] EXCEPT !.op = "assign", !.asset = a, !.left = KitItems])
      BY <1>4 DEF PickKit
    <2> DEFINE j == [task[h] EXCEPT !.op = "assign", !.asset = a, !.left = KitItems]
    <2>2. /\ j \in HandlerJob /\ j.op = "assign" /\ j.asset = a
          /\ j.request = task[h].request /\ j.kind = task[h].kind
      BY <1>1 DEF HandlerJob, Op
    <2>3. Works(h, j) /\ task[h].op = "pick" /\ UNCHANGED <<requestRows, assetRows, units, requestHistory>>
      BY <2>1 DEF Advance, Works
    <2> HIDE DEF j
    <2> QED
      BY <2>2, <2>3
  <1>5. CASE \E a \in Assets : PickAsset(h, a)
    <2>1. PICK a \in Assets : PickAsset(h, a)
      BY <1>5
    <2>2. CASE Advance(h, [task[h] EXCEPT !.op = "assign", !.asset = a])
      BY <1>2, <2>2 DEF Advance, Works
    <2>3. CASE /\ holder[a] = requester[task[h].request]
               /\ Advance(h, [task[h] EXCEPT !.op = "mark", !.asset = a])
      <3> DEFINE j == [task[h] EXCEPT !.op = "mark", !.asset = a]
      <3>1. /\ j \in HandlerJob /\ j.op = "mark" /\ j.asset = a
            /\ j.request = task[h].request /\ j.kind = task[h].kind
        BY <1>2
      <3>2. Works(h, j) /\ task[h].op = "pick" /\ UNCHANGED <<requestRows, assetRows, units, requestHistory>>
        BY <2>3 DEF Advance, Works
      <3> HIDE DEF j
      <3>3. j.asset \in Assets /\ holder[j.asset] = requester[j.request]
        BY <2>3, <3>1
      <3> QED
        BY <3>1, <3>2, <3>3
    <2> QED
      BY <2>1, <2>2, <2>3 DEF PickAsset
  <1>6. CASE PickNothing(h)
    BY <1>3, <1>6 DEF PickNothing, Advance, Works
  <1> QED
    BY <1>4, <1>5, <1>6

LEMMA AssignDoes ==
  ASSUME RequestTypeOK, NEW h \in Handlers, Assign(h)
  PROVE  \E j \in HandlerJob :
           /\ Works(h, j)
           /\ j.op = "mark" /\ j.asset = task[h].asset /\ j.asset \in Assets
           /\ j.request = task[h].request /\ j.kind = task[h].kind
  <1> DEFINE j == [task[h] EXCEPT !.op = "mark"]
  <1>1. task[h] \in HandlerJob /\ task[h].asset \in Assets
    BY DEF Assign, RequestTypeOK
  <1>2. j \in HandlerJob /\ j.op = "mark" /\ j.asset = task[h].asset
        /\ j.request = task[h].request /\ j.kind = task[h].kind
    BY <1>1 DEF HandlerJob, Op
  <1>3. Works(h, j)
    BY DEF Assign, Works
  <1> QED
    BY <1>1, <1>2, <1>3

LEMMA KitItemDoes ==
  ASSUME RequestTypeOK, NEW h \in Handlers, NEW k \in KitItems, CheckOutKitItem(h, k)
  PROVE  \E j \in HandlerJob :
           /\ Works(h, j)
           /\ j.op = "mark" /\ j.asset = task[h].asset
           /\ j.request = task[h].request /\ j.kind = task[h].kind
  <1> DEFINE l == task[h].left \ {k}
             j == [task[h] EXCEPT !.left = l]
  <1>1. task[h] \in HandlerJob /\ task[h].op = "mark" /\ l \subseteq KitItems
    BY JobFields DEF CheckOutKitItem
  <1>2. Works(h, j)
    BY DEF CheckOutKitItem, Works
  <1> HIDE DEF l
  <1>3. j \in HandlerJob /\ j.op = "mark" /\ j.asset = task[h].asset
        /\ j.request = task[h].request /\ j.kind = task[h].kind
    BY <1>1 DEF HandlerJob
  <1> QED
    BY <1>2, <1>3

\* A handler that breaks off counts if its fulfilment had gone as far as an asset.
LEMMA BreakDoes ==
  ASSUME RequestTypeOK, NEW h \in Handlers, BreakOff(h)
  PROVE  /\ failures' \in [RequestIds -> Nat]
         /\ \A q \in RequestIds :
              /\ failures[q] <= failures'[q]
              /\ task[h].op = "mark" /\ task[h].request = q => failures'[q] = failures[q] + 1
  <1>1. failures \in [RequestIds -> Nat] /\ task[h].op # "idle"
    BY DEF RequestTypeOK, BreakOff
  <1>2. task[h].request \in RequestIds
    BY <1>1, JobFields
  <1>3. failures' = IF task[h].op = "mark"
                    THEN [failures EXCEPT ![task[h].request] = @ + 1] ELSE failures
    BY DEF BreakOff
  <1> QED
    BY <1>1, <1>2, <1>3

-----------------------------------------------------------------------------
(* Asset requests: types.                                                  *)

\* What the types say of a handler.
JobTyped(j) ==
  /\ j \in HandlerJob
  /\ j.op # "idle" => j.request \in RequestIds /\ Exists(j.request)
  /\ j.op = "assign" => j.asset \in Assets
  /\ j.op = "review" => j.to \in {"approved", "rejected"}

\* What they say of the rows.
RowsTyped ==
  /\ requestStatus \in [RequestIds -> RequestStatus \union {"unborn"}]
  /\ kind \in [RequestIds -> ItemKind]
  /\ requester \in [RequestIds -> Employees \union {NoOne}]
  /\ fulfilledWith \in [RequestIds -> Assets \union {NoAsset}]
  /\ assetStatus \in [Assets -> AssetStatus]
  /\ holder \in [Assets -> Employees \union {NoOne}]
  /\ units \in [KitItems -> 0..MaxUnits]
  /\ handed \in [RequestIds -> SUBSET Assets]
  /\ failures \in [RequestIds -> Nat]

LEMMA TypeParts ==
  /\ RequestTypeOK <=> RowsTyped /\ task \in [Handlers -> HandlerJob] /\ \A h \in Handlers : JobTyped(task[h])
  /\ RowsTyped' /\ task' \in [Handlers -> HandlerJob] /\ (\A h \in Handlers : JobTyped(task[h])')
       => RequestTypeOK'
  BY DEF RequestTypeOK, RowsTyped, JobTyped, Exists

\* Rows are typed and no request disappears.
Sane == RowsTyped' /\ \A q \in RequestIds : Exists(q) => Exists(q)'

LEMMA JobStays ==
  ASSUME RequestTypeOK, NEW h \in Handlers, NEW j \in HandlerJob, Works(h, j), Sane,
         j.op # "idle" => j.request \in RequestIds /\ Exists(j.request)',
         j.op = "assign" => j.asset \in Assets,
         j.op = "review" => j.to \in {"approved", "rejected"}
  PROVE  RequestTypeOK'
  <1>1. task' \in [Handlers -> HandlerJob] /\ task'[h] = j /\ \A g \in Handlers \ {h} : task'[g] = task[g]
    BY WorksDoes DEF RequestTypeOK
  <1>2. ASSUME NEW g \in Handlers PROVE JobTyped(task[g])'
    <2>1. CASE g = h
      BY <1>1, <2>1 DEF JobTyped
    <2>2. CASE g # h
      BY <1>1, <2>2, TypeParts DEF JobTyped, Sane
    <2> QED
      BY <2>1, <2>2
  <1> QED
    BY <1>1, <1>2, TypeParts DEF Sane

LEMMA HandlersStay ==
  ASSUME RequestTypeOK, Sane, UNCHANGED task
  PROVE  RequestTypeOK'
  <1>1. task' \in [Handlers -> HandlerJob] /\ \A h \in Handlers : JobTyped(task[h])'
    BY TypeParts DEF JobTyped, Sane
  <1> QED
    BY <1>1, TypeParts DEF Sane

LEMMA Vocabulary ==
  /\ {"pending", "approved", "rejected", "fulfilled"} \subseteq RequestStatus
  /\ "assigned" \in AssetStatus
  /\ "unborn" \notin RequestStatus /\ Keep \notin RequestStatus
  BY RequestConstants, NobodyIsNoEmployee DEF RequestStatus, AssetStatus

LEMMA RequestTypeStep == RequestTypeOK /\ [RequestNext]_requestVars => RequestTypeOK'
  <1> SUFFICES ASSUME RequestTypeOK, [RequestNext]_requestVars PROVE RequestTypeOK'
    OBVIOUS
  <1>1. RowsTyped /\ task \in [Handlers -> HandlerJob] /\ \A h \in Handlers : JobTyped(task[h])
    BY TypeParts
  <1>2. ASSUME UNCHANGED <<requestRows, assetRows, units, requestHistory>> PROVE Sane
    BY <1>1, <1>2 DEF Sane, RowsTyped, requestRows, assetRows, requestHistory, Exists
  <1>3. CASE UNCHANGED requestVars
    <2>1. UNCHANGED <<requestRows, assetRows, units, requestHistory>> /\ UNCHANGED task
      BY <1>3 DEF requestVars, requestRows, assetRows, requestHistory
    <2> QED
      BY <1>2, <2>1, HandlersStay
  <1>4. ASSUME NEW q \in RequestIds, NEW e \in Employees, NEW k \in ItemKind, Create(q, e, k)
        PROVE  RequestTypeOK'
    <2>1. Sane
      BY <1>1, <1>4, Vocabulary DEF Create, Sane, RowsTyped, assetRows, requestHistory, Exists
    <2> QED
      BY <1>4, <2>1, HandlersStay DEF Create
  <1>5. ASSUME NEW h \in Handlers, NEW q \in RequestIds,
               \/ \E d \in {"approved", "rejected"} : BeginReview(h, q, d)
               \/ \E k \in ItemKind, s \in EditStatuses \union {Keep} : BeginEdit(h, q, k, s)
               \/ BeginFulfil(h, q)
        PROVE  RequestTypeOK'
    <2>1. PICK j \in HandlerJob :
            /\ Works(h, j) /\ j.request = q /\ Exists(q) /\ j.op # "assign"
            /\ j.op = "review" => j.to \in {"approved", "rejected"}
            /\ UNCHANGED <<requestRows, assetRows, units, requestHistory>>
      BY <1>5, BeginsDoes
    <2> QED
      BY <1>2, <2>1, JobStays DEF Sane
  <1>6. ASSUME NEW h \in Handlers, FinishHandler(h), Sane PROVE RequestTypeOK'
    <2>1. Works(h, IdleJob)
      BY <1>6 DEF FinishHandler, Works
    <2> QED
      BY <1>6, <2>1, IdleJobTyped, JobStays
  <1>7. ASSUME NEW h \in Handlers, CommitReview(h) \/ CommitEdit(h) \/ MarkFulfilled(h)
        PROVE  RequestTypeOK'
    <2> DEFINE q == task[h].request
    <2>1. /\ task[h].op # "idle" /\ FinishHandler(h)
          /\ UNCHANGED <<requester, assetRows, units, requestHistory>>
      BY <1>7 DEF CommitReview, CommitEdit, MarkFulfilled
    <2>2. q \in RequestIds /\ Exists(q) /\ task[h].asset \in Assets \union {NoAsset}
          /\ task[h].kind \in ItemKind /\ task[h].to \in RequestStatus \union {Keep}
      BY <2>1, JobFields
    <2> HIDE DEF q
    <2>3. \E to \in RequestStatus : requestStatus' = [requestStatus EXCEPT ![q] = to]
      <3>1. CASE CommitReview(h)
        <4>1. requestStatus' = [requestStatus EXCEPT ![q] = task[h].to]
          BY <3>1 DEF CommitReview, q
        <4>2. task[h].to \in RequestStatus
          BY <1>1, <3>1, Vocabulary DEF CommitReview, JobTyped
        <4> QED
          BY <4>1, <4>2
      <3>2. CASE CommitEdit(h)
        BY <1>1, <2>2, <3>2 DEF CommitEdit, RowsTyped, Exists, q
      <3>3. CASE MarkFulfilled(h)
        BY <3>3, Vocabulary DEF MarkFulfilled, q
      <3> QED
        BY <1>7, <3>1, <3>2, <3>3
    <2>4. kind' \in [RequestIds -> ItemKind]
      BY <1>1, <1>7, <2>2 DEF CommitReview, CommitEdit, MarkFulfilled, RowsTyped, q
    <2>5. fulfilledWith' \in [RequestIds -> Assets \union {NoAsset}]
      BY <1>1, <1>7, <2>2 DEF CommitReview, CommitEdit, MarkFulfilled, RowsTyped, q
    <2>6. /\ requestStatus' \in [RequestIds -> RequestStatus \union {"unborn"}]
          /\ \A x \in RequestIds : Exists(x) => Exists(x)'
      <3>1. PICK to \in RequestStatus : requestStatus' = [requestStatus EXCEPT ![q] = to]
        BY <2>3
      <3>2. requestStatus \in [RequestIds -> RequestStatus \union {"unborn"}]
        BY <1>1 DEF RowsTyped
      <3> QED
        BY <3>1, <3>2, Vocabulary DEF Exists
    <2>7. Sane
      BY <1>1, <2>1, <2>4, <2>5, <2>6 DEF Sane, RowsTyped, assetRows, requestHistory
    <2> QED
      BY <1>6, <2>1, <2>7
  <1>8. ASSUME NEW h \in Handlers,
               (\E a \in Assets : PickKit(h, a) \/ PickAsset(h, a)) \/ PickNothing(h)
        PROVE  RequestTypeOK'
    <2>1. PICK j \in HandlerJob :
            /\ Works(h, j) /\ task[h].op = "pick" /\ j.request = task[h].request
            /\ j.op # "review" /\ (j.op = "assign" => j.asset \in Assets)
            /\ UNCHANGED <<requestRows, assetRows, units, requestHistory>>
      BY <1>8, PicksDoes
    <2>2. j.request \in RequestIds /\ Exists(j.request)
      BY <2>1, JobFields
    <2> QED
      BY <1>2, <2>1, <2>2, JobStays DEF Sane
  <1>9. ASSUME NEW h \in Handlers, Assign(h) PROVE RequestTypeOK'
    <2>1. PICK j \in HandlerJob :
            Works(h, j) /\ j.op = "mark" /\ j.asset \in Assets /\ j.request = task[h].request
      BY <1>9, AssignDoes
    <2>2. /\ j.request \in RequestIds /\ Exists(j.request) /\ task[h].asset \in Assets
      BY <1>9, <2>1, JobFields DEF Assign, RequestTypeOK
    <2>3. Sane
      BY <1>1, <1>9, <2>1, <2>2, Vocabulary DEF Assign, Sane, RowsTyped, requestRows, Exists
    <2> QED
      BY <2>1, <2>2, <2>3, JobStays DEF Sane
  <1>10. ASSUME NEW h \in Handlers, NEW k \in KitItems, CheckOutKitItem(h, k) PROVE RequestTypeOK'
    <2>1. PICK j \in HandlerJob : Works(h, j) /\ j.op = "mark" /\ j.request = task[h].request
      BY <1>10, KitItemDoes
    <2>2. j.request \in RequestIds /\ Exists(j.request)
      BY <1>10, <2>1, JobFields DEF CheckOutKitItem
    <2>3. units' \in [KitItems -> 0..MaxUnits]
      BY <1>1, <1>10, RequestConstants, NobodyIsNoEmployee DEF CheckOutKitItem, RowsTyped
    <2>4. Sane
      BY <1>1, <1>10, <2>3 DEF CheckOutKitItem, Sane, RowsTyped, requestRows, assetRows, requestHistory, Exists
    <2> QED
      BY <2>1, <2>2, <2>4, JobStays DEF Sane
  <1>11. ASSUME NEW h \in Handlers, BreakOff(h) PROVE RequestTypeOK'
    <2>1. Sane
      BY <1>1, <1>11, BreakDoes DEF BreakOff, Sane, RowsTyped, requestRows, assetRows, Exists
    <2> QED
      BY <1>6, <1>11, <2>1 DEF BreakOff
  <1>12. ASSUME NEW a \in Assets,
                (\E e \in Employees : AssignDirectly(a, e)) \/ (\E s \in AssetEdits : ChangeStatus(a, s))
         PROVE  RequestTypeOK'
    <2>1. UNCHANGED <<requestRows, units, task, requestHistory>>
      BY <1>12 DEF AssignDirectly, ChangeStatus
    <2>2. assetStatus' \in [Assets -> AssetStatus] /\ holder' \in [Assets -> Employees \union {NoOne}]
      BY <1>1, <1>12, Vocabulary, RequestConstants, NobodyIsNoEmployee DEF AssignDirectly, ChangeStatus, RowsTyped
    <2>3. Sane
      BY <1>1, <2>1, <2>2 DEF Sane, RowsTyped, requestRows, requestHistory, Exists
    <2> QED
      BY <2>1, <2>3, HandlersStay
  <1>13. ASSUME NEW k \in KitItems, Restock(k) PROVE RequestTypeOK'
    <2>1. UNCHANGED <<requestRows, assetRows, task, requestHistory>> /\ units' \in [KitItems -> 0..MaxUnits]
      BY <1>1, <1>13, RequestConstants, NobodyIsNoEmployee DEF Restock, RowsTyped
    <2>2. Sane
      BY <1>1, <2>1 DEF Sane, RowsTyped, requestRows, assetRows, requestHistory, Exists
    <2> QED
      BY <2>1, <2>2, HandlersStay
  <1> QED
    BY <1>3, <1>4, <1>5, <1>7, <1>8, <1>9, <1>10, <1>11, <1>12, <1>13 DEF RequestNext, Handle

-----------------------------------------------------------------------------
(* Asset requests: handlers that take turns.                               *)

OneHandler == \A g, h \in Handlers : g = h

\* What InHandInv and ReadInv say of a handler.
InHand(j) ==
  /\ j.op \in {"pick", "assign", "mark"} => j.kind = kind[j.request]
  /\ j.op = "pick" => j.asset = NoAsset
  /\ j.op = "mark" =>
       /\ j.kind = "asset" => j.asset # NoAsset
       /\ j.asset # NoAsset => holder[j.asset] = requester[j.request]

StillReads(j) ==
  /\ j.op = "review" => requestStatus[j.request] = "pending"
  /\ j.op = "edit" => j.to = Keep
  /\ j.op \in {"pick", "assign", "mark"} => requestStatus[j.request] = "approved"

LEMMA SerialParts ==
  /\ InHandInv <=> \A h \in Handlers : InHand(task[h])
  /\ ReadInv <=> \A h \in Handlers : StillReads(task[h])
  /\ (\A h \in Handlers : InHand(task[h])') => InHandInv'
  /\ (\A h \in Handlers : StillReads(task[h])') => ReadInv'
  BY DEF InHandInv, InHand, ReadInv, StillReads

\* The only handler there is comes to hold j.
LEMMA OnlyHandler ==
  ASSUME OneHandler, RequestTypeOK, NEW h \in Handlers, NEW j \in HandlerJob, Works(h, j)
  PROVE  /\ \A g \in Handlers : g = h
         /\ InHand(j)' => InHandInv'
         /\ StillReads(j)' => ReadInv'
  <1>1. task'[h] = j /\ \A g \in Handlers : g = h
    BY WorksDoes DEF OneHandler, RequestTypeOK
  <1>2. InHand(j)' => \A g \in Handlers : InHand(task[g])'
    BY <1>1 DEF InHand
  <1>3. StillReads(j)' => \A g \in Handlers : StillReads(task[g])'
    BY <1>1 DEF StillReads
  <1> QED
    BY <1>1, <1>2, <1>3, SerialParts

\* One that ends leaves nothing to go wrong.
LEMMA EndsWell ==
  ASSUME OneHandler, RequestTypeOK, NEW h \in Handlers, FinishHandler(h)
  PROVE  /\ InHandInv' /\ ReadInv'
         /\ \A g \in Handlers : g = h /\ task'[g].op = "idle"
  <1>1. Works(h, IdleJob)
    BY DEF FinishHandler, Works
  <1>2. task'[h] = IdleJob
    BY EndDoes
  <1>3. InHand(IdleJob)' /\ StillReads(IdleJob)'
    BY IdleJobTyped DEF InHand, StillReads
  <1> QED
    BY <1>1, <1>2, <1>3, IdleJobTyped, OnlyHandler

LEMMA InHandStep ==
  ASSUME OneHandler, RequestTypeOK, InHandInv, [RequestNext]_requestVars
  PROVE  InHandInv'
  <1>1. \A h \in Handlers : InHand(task[h])
    BY SerialParts
  <1>2. CASE UNCHANGED <<kind, requester, holder, task>>
    BY <1>2 DEF InHandInv
  <1>3. CASE UNCHANGED requestVars
    BY <1>2, <1>3 DEF requestVars
  <1>4. ASSUME NEW q \in RequestIds, NEW e \in Employees, NEW k \in ItemKind, Create(q, e, k)
        PROVE  InHandInv'
    <2>1. ~Exists(q) /\ UNCHANGED <<holder, task>>
          /\ kind' = [kind EXCEPT ![q] = k] /\ requester' = [requester EXCEPT ![q] = e]
      BY <1>4 DEF Create, assetRows
    <2>2. ASSUME NEW h \in Handlers PROVE InHand(task[h])'
      <3>1. task[h].op # "idle" => task[h].request \in RequestIds /\ task[h].request # q
        BY <2>1, JobFields
      <3>2. task[h].op # "idle" => /\ kind'[task[h].request] = kind[task[h].request]
                                  /\ requester'[task[h].request] = requester[task[h].request]
        BY <2>1, <3>1 DEF RequestTypeOK
      <3> QED
        BY <1>1, <2>1, <3>2 DEF InHand
    <2> QED
      BY <2>2, SerialParts
  <1>5. ASSUME NEW h \in Handlers, NEW q \in RequestIds,
               \/ \E d \in {"approved", "rejected"} : BeginReview(h, q, d)
               \/ \E k \in ItemKind, s \in EditStatuses \union {Keep} : BeginEdit(h, q, k, s)
               \/ BeginFulfil(h, q)
        PROVE  InHandInv'
    <2>1. PICK j \in HandlerJob :
            /\ Works(h, j) /\ j.request = q /\ j.asset = NoAsset
            /\ j.op \in {"review", "edit"} \/ (j.op = "pick" /\ j.kind = kind[q])
            /\ UNCHANGED <<requestRows, assetRows, units, requestHistory>>
      BY <1>5, BeginsDoes
    <2>2. InHand(j)'
      BY <2>1 DEF InHand, requestRows
    <2> QED
      BY <2>1, <2>2, OnlyHandler
  <1>6. ASSUME NEW h \in Handlers,
               CommitReview(h) \/ CommitEdit(h) \/ MarkFulfilled(h) \/ BreakOff(h)
        PROVE  InHandInv'
    BY <1>6, EndsWell DEF CommitReview, CommitEdit, MarkFulfilled, BreakOff
  <1>7. ASSUME NEW h \in Handlers,
               (\E a \in Assets : PickKit(h, a) \/ PickAsset(h, a)) \/ PickNothing(h)
        PROVE  InHandInv'
    <2>1. PICK j \in HandlerJob :
            /\ Works(h, j) /\ task[h].op = "pick"
            /\ j.request = task[h].request /\ j.kind = task[h].kind
            /\ \/ j.op = "assign" /\ j.asset \in Assets
               \/ j.op = "mark" /\ j.asset \in Assets /\ holder[j.asset] = requester[j.request]
               \/ j.op = "mark" /\ j.asset = task[h].asset /\ j.kind = "accessory"
            /\ UNCHANGED <<requestRows, assetRows, units, requestHistory>>
      BY <1>7, PicksDoes
    <2>2. j.kind = kind[j.request] /\ task[h].asset = NoAsset /\ NoAsset \notin Assets
      BY <1>1, <2>1, RequestConstants, NobodyIsNoEmployee DEF InHand
    <2>3. InHand(j)'
      BY <2>1, <2>2 DEF InHand, requestRows, assetRows
    <2> QED
      BY <2>1, <2>3, OnlyHandler
  <1>8. ASSUME NEW h \in Handlers, Assign(h) PROVE InHandInv'
    <2>1. PICK j \in HandlerJob :
            /\ Works(h, j)
            /\ j.op = "mark" /\ j.asset = task[h].asset /\ j.asset \in Assets
            /\ j.request = task[h].request /\ j.kind = task[h].kind
      BY <1>8, AssignDoes
    <2>2. /\ UNCHANGED <<kind, requester>> /\ task[h].op = "assign"
          /\ holder' = [holder EXCEPT ![j.asset] = requester[j.request]]
      BY <1>8, <2>1 DEF Assign, requestRows
    <2>3. holder'[j.asset] = requester[j.request] /\ j.asset # NoAsset
      BY <2>1, <2>2, RequestConstants, NobodyIsNoEmployee DEF RequestTypeOK
    <2>4. InHand(j)'
      BY <1>1, <2>1, <2>2, <2>3 DEF InHand
    <2> QED
      BY <2>1, <2>4, OnlyHandler
  <1>9. ASSUME NEW h \in Handlers, NEW k \in KitItems, CheckOutKitItem(h, k) PROVE InHandInv'
    <2>1. PICK j \in HandlerJob :
            /\ Works(h, j)
            /\ j.op = "mark" /\ j.asset = task[h].asset
            /\ j.request = task[h].request /\ j.kind = task[h].kind
      BY <1>9, KitItemDoes
    <2>2. UNCHANGED <<kind, requester, holder>> /\ task[h].op = "mark"
      BY <1>9 DEF CheckOutKitItem, requestRows, assetRows
    <2>3. InHand(j)'
      BY <1>1, <2>1, <2>2 DEF InHand
    <2> QED
      BY <2>1, <2>3, OnlyHandler
  <1>10. ASSUME NEW a \in Assets,
                (\E e \in Employees : AssignDirectly(a, e)) \/ (\E s \in AssetEdits : ChangeStatus(a, s))
         PROVE  InHandInv'
    <2>1. UNCHANGED task /\ \A h \in Handlers : task[h].op = "idle"
      BY <1>10 DEF AssignDirectly, ChangeStatus, SlotFree, OneHandler
    <2>2. \A h \in Handlers : InHand(task[h])'
      BY <2>1 DEF InHand
    <2> QED
      BY <2>2, SerialParts
  <1>11. ASSUME NEW k \in KitItems, Restock(k) PROVE InHandInv'
    BY <1>2, <1>11 DEF Restock, requestRows, assetRows
  <1> QED
    BY <1>3, <1>4, <1>5, <1>6, <1>7, <1>8, <1>9, <1>10, <1>11 DEF RequestNext, Handle

LEMMA RequestTypeInit == RequestInit => RequestTypeOK
  <1> SUFFICES ASSUME RequestInit PROVE RequestTypeOK
    OBVIOUS
  <1>1. RowsTyped
    BY RequestConstants, NobodyIsNoEmployee DEF RequestInit, RowsTyped, ItemKind, AssetStatus
  <1>2. task \in [Handlers -> HandlerJob] /\ \A h \in Handlers : task[h] = IdleJob
    BY IdleJobTyped DEF RequestInit
  <1> QED
    BY <1>1, <1>2, IdleJobTyped, TypeParts DEF JobTyped

\* Types: a handler's request exists, and it assigns assets only.
THEOREM RequestsTyped == RequestSpec => []RequestTypeOK
  BY RequestTypeInit, RequestTypeStep, PTL DEF RequestSpec

\* When handlers do not overlap: a request that is for an asset when it is marked
\* fulfilled is fulfilled with one, which is then in the requester's hands
\* (asset-requests.service.ts fulfill), for any number of assets and requests.
THEOREM MarkedInHand ==
  ASSUME OneHandler PROVE RequestSpec => FulfilledInHand
  <1> DEFINE Holding == RequestTypeOK /\ InHandInv
             Good ==
               \A h \in Handlers :
                 MarkFulfilled(h) =>
                   /\ kind[task[h].request] = "asset" => task[h].asset # NoAsset
                   /\ task[h].asset # NoAsset => holder[task[h].asset] = requester[task[h].request]
  <1>1. RequestInit => Holding
    <2>1. RequestInit => InHandInv
      BY IdleJobTyped DEF RequestInit, InHandInv
    <2> QED
      BY <2>1, RequestTypeInit
  <1>2. Holding /\ [RequestNext]_requestVars => Holding'
    BY RequestTypeStep, InHandStep
  <1>3. Holding => Good
    BY DEF InHandInv, MarkFulfilled
  <1>4. Holding /\ [RequestNext]_requestVars => [Good]_requestVars
    BY <1>3
  <1> QED
    BY <1>1, <1>2, <1>4, PTL DEF RequestSpec, FulfilledInHand

-----------------------------------------------------------------------------
(* Asset requests: every asset handed out is accounted for.                *)

NoStatusEdits == EditStatuses = {}

\* What HandedInv says of a request whose fulfilment is at its end or not.
Accounted(q, atEnd) ==
  /\ IsFiniteSet(handed[q])
  /\ handed[q] # {} => requestStatus[q] \in {"approved", "fulfilled"}
  /\ \/ Cardinality(handed[q]) <= failures[q]
     \/ Cardinality(handed[q]) <= failures[q] + 1 /\ (requestStatus[q] = "fulfilled" \/ atEnd)

LEMMA HandedParts ==
  ASSUME RequestTypeOK
  PROVE  HandedInv <=> \A q \in RequestIds : Accounted(q, BeingFulfilled(q))
  <1> SUFFICES ASSUME NEW q \in RequestIds, IsFiniteSet(handed[q])
               PROVE  (Cardinality(handed[q]) <= failures[q]
                         + (IF requestStatus[q] = "fulfilled" \/ BeingFulfilled(q) THEN 1 ELSE 0))
                      <=> \/ Cardinality(handed[q]) <= failures[q]
                          \/ /\ Cardinality(handed[q]) <= failures[q] + 1
                             /\ requestStatus[q] = "fulfilled" \/ BeingFulfilled(q)
    BY DEF HandedInv, Accounted
  <1>1. failures[q] \in Nat /\ Cardinality(handed[q]) \in Nat
    BY FS_CardinalityType DEF RequestTypeOK
  <1> QED
    BY <1>1

LEMMA HandedNext ==
  ASSUME RequestTypeOK', \A q \in RequestIds : Accounted(q, BeingFulfilled(q))'
  PROVE  HandedInv'
  <1> SUFFICES ASSUME NEW q \in RequestIds
               PROVE  Cardinality(handed'[q]) <= failures'[q]
                        + (IF requestStatus'[q] = "fulfilled" \/ BeingFulfilled(q)' THEN 1 ELSE 0)
    BY DEF HandedInv, Accounted, BeingFulfilled
  <1>1. Accounted(q, BeingFulfilled(q))'
    OBVIOUS
  <1>2. failures'[q] \in Nat /\ Cardinality(handed'[q]) \in Nat
    BY <1>1, FS_CardinalityType DEF RequestTypeOK, Accounted
  <1>3. \/ Cardinality(handed'[q]) <= failures'[q]
        \/ /\ Cardinality(handed'[q]) <= failures'[q] + 1
           /\ requestStatus'[q] = "fulfilled" \/ BeingFulfilled(q)'
    BY <1>1 DEF Accounted
  <1> QED
    BY <1>2, <1>3

\* Unless the only handler is at the end of fulfilling q, nobody is.
LEMMA NotAtEnd ==
  ASSUME OneHandler, RequestTypeOK, HandedInv, NEW h \in Handlers, NEW q \in RequestIds,
         task[h].op # "mark" \/ task[h].request # q
  PROVE  Accounted(q, FALSE)
  <1>1. ~BeingFulfilled(q)
    BY DEF BeingFulfilled, OneHandler
  <1>2. Accounted(q, BeingFulfilled(q))
    BY HandedParts
  <1> QED
    BY <1>1, <1>2 DEF Accounted

\* What was accounted for stays so if the books are the same, or only more
\* failures or a fulfilment is entered.
LEMMA AccountKept ==
  ASSUME RequestTypeOK, RequestTypeOK', NEW q \in RequestIds, NEW was, Accounted(q, was),
         handed'[q] = handed[q], failures[q] <= failures'[q],
         requestStatus'[q] = requestStatus[q] \/ requestStatus'[q] = "fulfilled" \/ handed[q] = {},
         was => BeingFulfilled(q)' \/ requestStatus'[q] = "fulfilled" \/ failures'[q] = failures[q] + 1
  PROVE  Accounted(q, BeingFulfilled(q))'
  <1>1. /\ failures[q] \in Nat /\ failures'[q] \in Nat
        /\ IsFiniteSet(handed[q]) /\ Cardinality(handed[q]) \in Nat
    BY FS_CardinalityType DEF RequestTypeOK, Accounted
  <1>2. CASE handed[q] = {}
    <2>1. Cardinality(handed[q]) = 0
      BY <1>2, FS_EmptySet
    <2> QED
      BY <1>1, <1>2, <2>1 DEF Accounted
  <1>3. CASE handed[q] # {}
    BY <1>1, <1>3 DEF Accounted
  <1> QED
    BY <1>2, <1>3

LEMMA ReadStep ==
  ASSUME OneHandler, NoStatusEdits, RequestTypeOK, ReadInv, [RequestNext]_requestVars
  PROVE  ReadInv'
  <1>1. \A h \in Handlers : StillReads(task[h])
    BY SerialParts
  <1>2. CASE UNCHANGED <<requestStatus, task>>
    BY <1>2 DEF ReadInv
  <1>3. ASSUME NEW q \in RequestIds, NEW e \in Employees, NEW k \in ItemKind, Create(q, e, k)
        PROVE  ReadInv'
    <2>1. ~Exists(q) /\ UNCHANGED task /\ requestStatus' = [requestStatus EXCEPT ![q] = "pending"]
      BY <1>3 DEF Create
    <2>2. ASSUME NEW h \in Handlers PROVE StillReads(task[h])'
      <3>1. task[h].op # "idle" => task[h].request \in RequestIds /\ task[h].request # q
        BY <2>1, JobFields
      <3>2. task[h].op # "idle" => requestStatus'[task[h].request] = requestStatus[task[h].request]
        BY <2>1, <3>1 DEF RequestTypeOK
      <3> QED
        BY <1>1, <2>1, <3>2 DEF StillReads
    <2> QED
      BY <2>2, SerialParts
  <1>4. ASSUME NEW h \in Handlers, NEW q \in RequestIds,
               \/ \E d \in {"approved", "rejected"} : BeginReview(h, q, d)
               \/ \E k \in ItemKind, s \in EditStatuses \union {Keep} : BeginEdit(h, q, k, s)
               \/ BeginFulfil(h, q)
        PROVE  ReadInv'
    <2>1. PICK j \in HandlerJob :
            /\ Works(h, j) /\ j.request = q
            /\ \/ j.op = "review" /\ requestStatus[q] = "pending"
               \/ j.op = "edit" /\ j.to \in EditStatuses \union {Keep}
               \/ j.op = "pick" /\ requestStatus[q] = "approved"
            /\ UNCHANGED <<requestRows, assetRows, units, requestHistory>>
      BY <1>4, BeginsDoes
    <2>2. StillReads(j)'
      BY <2>1 DEF StillReads, requestRows, NoStatusEdits
    <2> QED
      BY <2>1, <2>2, OnlyHandler
  <1>5. ASSUME NEW h \in Handlers,
               CommitReview(h) \/ CommitEdit(h) \/ MarkFulfilled(h) \/ BreakOff(h)
        PROVE  ReadInv'
    BY <1>5, EndsWell DEF CommitReview, CommitEdit, MarkFulfilled, BreakOff
  <1>6. ASSUME NEW h \in Handlers, NEW j \in HandlerJob, Works(h, j),
               j.op \in {"assign", "mark"}, j.request = task[h].request,
               task[h].op \in {"pick", "assign", "mark"}, UNCHANGED requestStatus
        PROVE  ReadInv'
    <2>1. StillReads(j)'
      BY <1>1, <1>6 DEF StillReads
    <2> QED
      BY <1>6, <2>1, OnlyHandler
  <1>7. ASSUME NEW h \in Handlers,
               (\E a \in Assets : PickKit(h, a) \/ PickAsset(h, a)) \/ PickNothing(h)
        PROVE  ReadInv'
    <2>1. PICK j \in HandlerJob :
            /\ Works(h, j) /\ task[h].op = "pick" /\ j.request = task[h].request
            /\ j.op \in {"assign", "mark"}
            /\ UNCHANGED <<requestRows, assetRows, units, requestHistory>>
      BY <1>7, PicksDoes
    <2> QED
      BY <1>6, <2>1 DEF requestRows
  <1>8. ASSUME NEW h \in Handlers, Assign(h) PROVE ReadInv'
    BY <1>6, <1>8, AssignDoes DEF Assign, requestRows
  <1>9. ASSUME NEW h \in Handlers, NEW k \in KitItems, CheckOutKitItem(h, k) PROVE ReadInv'
    BY <1>6, <1>9, KitItemDoes DEF CheckOutKitItem, requestRows
  <1>10. ASSUME \/ UNCHANGED requestVars
                \/ \E a \in Assets, e \in Employees : AssignDirectly(a, e)
                \/ \E a \in Assets, s \in AssetEdits : ChangeStatus(a, s)
                \/ \E k \in KitItems : Restock(k)
         PROVE  ReadInv'
    BY <1>2, <1>10 DEF AssignDirectly, ChangeStatus, Restock, requestRows, requestVars
  <1> QED
    BY <1>3, <1>4, <1>5, <1>7, <1>8, <1>9, <1>10 DEF RequestNext, Handle

LEMMA HandedStep ==
  ASSUME OneHandler, NoStatusEdits, RequestTypeOK, RequestTypeOK', ReadInv, HandedInv,
         [RequestNext]_requestVars
  PROVE  HandedInv'
  <1> SUFFICES ASSUME NEW q \in RequestIds PROVE Accounted(q, BeingFulfilled(q))'
    BY HandedNext
  <1>1. /\ \A h \in Handlers : StillReads(task[h])
        /\ Accounted(q, BeingFulfilled(q))
        /\ failures[q] \in Nat /\ requestStatus[q] \in RequestStatus \union {"unborn"}
    BY SerialParts, HandedParts DEF RequestTypeOK
  <1>2. CASE UNCHANGED <<requestStatus, task, handed, failures>>
    BY <1>1, <1>2 DEF Accounted, BeingFulfilled
  <1>3. ASSUME NEW p \in RequestIds, NEW e \in Employees, NEW k \in ItemKind, Create(p, e, k)
        PROVE  Accounted(q, BeingFulfilled(q))'
    <2>1. /\ UNCHANGED <<task, handed, failures>> /\ requestStatus[p] = "unborn"
          /\ requestStatus' = [requestStatus EXCEPT ![p] = "pending"]
      BY <1>3 DEF Create, requestHistory, Exists
    <2>2. requestStatus'[q] = requestStatus[q] \/ handed[q] = {}
      BY <1>1, <2>1 DEF Accounted, RequestTypeOK
    <2>3. BeingFulfilled(q)' <=> BeingFulfilled(q)
      BY <2>1 DEF BeingFulfilled
    <2> QED
      BY <1>1, <2>1, <2>2, <2>3, AccountKept
  \* Handlers that are not at the end of a fulfilment of q.
  <1>4. ASSUME NEW h \in Handlers, task[h].op # "mark" \/ task[h].request # q,
               handed'[q] = handed[q], failures[q] <= failures'[q],
               requestStatus'[q] = requestStatus[q] \/ requestStatus'[q] = "fulfilled" \/ handed[q] = {}
        PROVE  Accounted(q, BeingFulfilled(q))'
    <2>1. Accounted(q, FALSE)
      BY <1>4, NotAtEnd
    <2> QED
      BY <1>4, <2>1, AccountKept
  <1>5. ASSUME NEW h \in Handlers, NEW p \in RequestIds,
               \/ \E d \in {"approved", "rejected"} : BeginReview(h, p, d)
               \/ \E k \in ItemKind, s \in EditStatuses \union {Keep} : BeginEdit(h, p, k, s)
               \/ BeginFulfil(h, p)
        PROVE  Accounted(q, BeingFulfilled(q))'
    <2>1. task[h].op = "idle" /\ UNCHANGED <<requestStatus, handed, failures>>
      BY <1>5 DEF BeginReview, BeginEdit, BeginFulfil, StartHandler, requestRows, requestHistory
    <2> QED
      BY <1>1, <1>4, <2>1
  <1>6. ASSUME NEW h \in Handlers, CommitReview(h) PROVE Accounted(q, BeingFulfilled(q))'
    <2>1. /\ task[h].op = "review" /\ UNCHANGED <<handed, failures>>
          /\ requestStatus' = [requestStatus EXCEPT ![task[h].request] = task[h].to]
      BY <1>6 DEF CommitReview, requestHistory
    <2>2. requestStatus[task[h].request] = "pending"
      BY <1>1, <2>1 DEF StillReads
    <2>3. requestStatus'[q] = requestStatus[q] \/ handed[q] = {}
      BY <1>1, <2>1, <2>2 DEF Accounted, RequestTypeOK
    <2> QED
      BY <1>1, <1>4, <2>1, <2>3
  <1>7. ASSUME NEW h \in Handlers, CommitEdit(h) PROVE Accounted(q, BeingFulfilled(q))'
    <2>1. /\ task[h].op = "edit" /\ UNCHANGED <<handed, failures>> /\ task[h].to = Keep
          /\ requestStatus' = [requestStatus EXCEPT ![task[h].request] =
                                 IF task[h].to = Keep THEN @ ELSE task[h].to]
      BY <1>1, <1>7 DEF CommitEdit, requestHistory, StillReads
    <2>2. requestStatus'[q] = requestStatus[q]
      BY <2>1 DEF RequestTypeOK
    <2> QED
      BY <1>1, <1>4, <2>1, <2>2
  <1>8. ASSUME NEW h \in Handlers, MarkFulfilled(h) PROVE Accounted(q, BeingFulfilled(q))'
    <2>1. /\ UNCHANGED <<handed, failures>>
          /\ requestStatus' = [requestStatus EXCEPT ![task[h].request] = "fulfilled"]
      BY <1>8 DEF MarkFulfilled, requestHistory
    <2>2. CASE task[h].request = q
      <3>1. requestStatus'[q] = "fulfilled"
        BY <2>1, <2>2 DEF RequestTypeOK
      <3> QED
        BY <1>1, <2>1, <3>1, AccountKept
    <2>3. CASE task[h].request # q
      <3>1. requestStatus'[q] = requestStatus[q]
        BY <2>1, <2>3 DEF RequestTypeOK
      <3> QED
        BY <1>1, <1>4, <2>1, <2>3, <3>1
    <2> QED
      BY <2>2, <2>3
  <1>9. ASSUME NEW h \in Handlers, BreakOff(h) PROVE Accounted(q, BeingFulfilled(q))'
    <2>1. /\ UNCHANGED <<requestStatus, handed>> /\ failures[q] <= failures'[q]
          /\ task[h].op = "mark" /\ task[h].request = q => failures'[q] = failures[q] + 1
      BY <1>9, BreakDoes DEF BreakOff, requestRows
    <2>2. CASE task[h].op = "mark" /\ task[h].request = q
      BY <1>1, <2>1, <2>2, AccountKept
    <2>3. CASE task[h].op # "mark" \/ task[h].request # q
      BY <1>4, <2>1, <2>3
    <2> QED
      BY <2>2, <2>3
  <1>10. ASSUME NEW h \in Handlers,
                (\E a \in Assets : PickKit(h, a) \/ PickAsset(h, a)) \/ PickNothing(h)
         PROVE  Accounted(q, BeingFulfilled(q))'
    <2>1. task[h].op = "pick" /\ UNCHANGED <<requestStatus, handed, failures>>
      BY <1>10, PicksDoes DEF requestRows, requestHistory
    <2> QED
      BY <1>1, <1>4, <2>1
  <1>11. ASSUME NEW h \in Handlers, Assign(h) PROVE Accounted(q, BeingFulfilled(q))'
    <2> DEFINE a == task[h].asset
    <2>1. PICK j \in HandlerJob : Works(h, j) /\ j.op = "mark" /\ j.request = task[h].request
      BY <1>11, AssignDoes
    <2>2. /\ task[h].op = "assign" /\ UNCHANGED <<requestStatus, failures>>
          /\ handed' = [handed EXCEPT ![task[h].request] = @ \union {a}]
      BY <1>11 DEF Assign, requestRows
    <2>3. CASE task[h].request # q
      <3>1. handed'[q] = handed[q]
        BY <2>2, <2>3 DEF RequestTypeOK
      <3> QED
        BY <1>1, <1>4, <2>2, <2>3, <3>1
    <2>4. CASE task[h].request = q
      <3>1. handed'[q] = handed[q] \union {a}
        BY <2>2, <2>4 DEF RequestTypeOK
      <3>2. requestStatus'[q] = "approved" /\ requestStatus[q] = "approved"
        BY <1>1, <2>2, <2>4 DEF StillReads
      <3>3. BeingFulfilled(q)'
        BY <2>1, <2>4, WorksDoes DEF RequestTypeOK, BeingFulfilled
      <3>4. Accounted(q, FALSE)
        BY <2>2, NotAtEnd
      <3>5. /\ IsFiniteSet(handed[q]) /\ Cardinality(handed[q]) <= failures[q]
            /\ Cardinality(handed[q]) \in Nat
        BY <3>2, <3>4, FS_CardinalityType DEF Accounted
      <3>6. /\ IsFiniteSet(handed'[q])
            /\ \/ Cardinality(handed'[q]) = Cardinality(handed[q])
               \/ Cardinality(handed'[q]) = Cardinality(handed[q]) + 1
        <4>1. /\ IsFiniteSet(handed[q] \union {a})
              /\ Cardinality(handed[q] \union {a}) =
                   IF a \in handed[q] THEN Cardinality(handed[q])
                                     ELSE Cardinality(handed[q]) + 1
          <5> HIDE DEF a
          <5> QED
            BY <3>5, FS_AddElement
        <4> HIDE DEF a
        <4> QED
          BY <3>1, <4>1
      <3>7. Cardinality(handed'[q]) <= failures'[q] + 1
        BY <1>1, <2>2, <3>5, <3>6
      <3> QED
        BY <3>2, <3>3, <3>6, <3>7 DEF Accounted
    <2> QED
      BY <2>3, <2>4
  <1>12. ASSUME NEW h \in Handlers, NEW k \in KitItems, CheckOutKitItem(h, k)
         PROVE  Accounted(q, BeingFulfilled(q))'
    <2>1. PICK j \in HandlerJob : Works(h, j) /\ j.op = "mark" /\ j.request = task[h].request
      BY <1>12, KitItemDoes
    <2>2. UNCHANGED <<requestStatus, handed, failures>>
      BY <1>12 DEF CheckOutKitItem, requestRows, requestHistory
    <2>3. BeingFulfilled(q) => BeingFulfilled(q)'
      BY <2>1, WorksDoes DEF RequestTypeOK, BeingFulfilled, OneHandler
    <2> QED
      BY <1>1, <2>2, <2>3, AccountKept
  <1>13. ASSUME \/ UNCHANGED requestVars
                \/ \E a \in Assets, e \in Employees : AssignDirectly(a, e)
                \/ \E a \in Assets, s \in AssetEdits : ChangeStatus(a, s)
                \/ \E k \in KitItems : Restock(k)
         PROVE  Accounted(q, BeingFulfilled(q))'
    BY <1>2, <1>13 DEF AssignDirectly, ChangeStatus, Restock, requestRows, requestHistory, requestVars
  <1> QED
    BY <1>3, <1>5, <1>6, <1>7, <1>8, <1>9, <1>10, <1>11, <1>12, <1>13 DEF RequestNext, Handle

\* When handlers do not overlap and no status is edited by hand: nothing is handed out for
\* a request that is not approved, and a second asset only after a fulfilment that broke
\* off (asset-requests.service.ts fulfill), for any number of requests and fulfilments.
THEOREM AssetsAccountedFor ==
  ASSUME OneHandler, NoStatusEdits PROVE RequestSpec => []ExtraAssetsNeedFailures
  <1> DEFINE Holding == RequestTypeOK /\ ReadInv /\ HandedInv
  <1>1. RequestInit => Holding
    <2> SUFFICES ASSUME RequestInit PROVE Holding
      OBVIOUS
    <2>1. RequestTypeOK
      BY RequestTypeInit
    <2>2. ReadInv
      BY IdleJobTyped DEF RequestInit, ReadInv
    <2>3. IsFiniteSet({}) /\ Cardinality({}) = 0
      BY FS_EmptySet
    <2>4. HandedInv
      BY <2>3 DEF RequestInit, HandedInv
    <2> QED
      BY <2>1, <2>2, <2>4
  <1>2. Holding /\ [RequestNext]_requestVars => Holding'
    BY RequestTypeStep, ReadStep, HandedStep
  <1>3. Holding => ExtraAssetsNeedFailures
    <2> SUFFICES ASSUME Holding, NEW q \in RequestIds
                 PROVE  /\ handed[q] # {} => requestStatus[q] \in {"approved", "fulfilled"}
                        /\ Cardinality(handed[q]) <= 1 + failures[q]
      BY DEF ExtraAssetsNeedFailures
    <2>1. Accounted(q, BeingFulfilled(q))
      BY HandedParts
    <2>2. failures[q] \in Nat /\ Cardinality(handed[q]) \in Nat
      BY <2>1, FS_CardinalityType DEF RequestTypeOK, Accounted
    <2> QED
      BY <2>1, <2>2 DEF Accounted
  <1> QED
    BY <1>1, <1>2, <1>3, PTL DEF RequestSpec
==============================================================================
