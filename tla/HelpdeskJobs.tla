--------------------------- MODULE HelpdeskJobs ---------------------------
(***************************************************************************)
(* The help desk's background jobs: the hourly escalation of overdue       *)
(* tickets, the mails to requesters of overdue tickets (which two cron     *)
(* entries send), the poll of the mailbox, and mail posted to the webhook. *)
(* Nothing keeps two runs of a job apart, and a run may stop between any   *)
(* two of its writes.  What people do to a ticket (Tickets) is seen here   *)
(* as a change of its stage or of its due date; mails that the filter or   *)
(* the rate limit discards are none of Mails.                              *)
(***************************************************************************)
EXTENDS Integers, FiniteSets

CONSTANTS
  Runs,        \* slots for runs of jobs: how many can be in progress at once
  Tickets,
  Mails,       \* the mails that ever arrive, each with its Message-ID
  Sourceless,  \* those that the mailbox has, but gives no source of
  Answers,     \* Answers[m]: the ticket that mail m answers as its requester, or NoTicket
  NoTicket,
  Mixed,       \* environment: may runs of different jobs be in progress at once
  MaxBreaks    \* bound: how often a run stops half way

ASSUME JobConstants ==
  /\ NoTicket \notin Tickets
  /\ Answers \in [Mails -> Tickets \union {NoTicket}]
  /\ Tickets \cap Mails = {}
  /\ Sourceless \subseteq Mails
  /\ Mixed \in BOOLEAN
  /\ MaxBreaks \in Nat

VARIABLES
  stage,       \* stage[t]: what the status of ticket t means to the jobs
  due,         \* the tickets whose dueDate has passed
  escalated,   \* the tickets with slaEscalatedAt set
  mailed,      \* the tickets with overdueMailedAt set
  inbox,       \* the unseen mails in the mailbox
  stored,      \* the mails whose Message-ID is in ticket_messages
  run,         \* run[w]: the job in slot w, what it has read and not done, where it is
  made,        \* made[x]: history: the notices to admins about ticket x, or the entries
               \* (comment or ticket) made of mail x
  letters,     \* letters[t]: history: the overdue mails handed to the mailer for ticket t
  raced,       \* history: <<job, x>> where two runs worked on x at once
  broken,      \* history: <<job, x>> where work on x failed, or stopped half way
  breaks

desk == <<stage, due, escalated, mailed>>
post == <<inbox, stored>>
counts == <<made, letters>>
mishaps == <<raced, broken, breaks>>
jobsVars == <<desk, post, run, counts, mishaps>>

Items == Tickets \union Mails

\* "active": open, assigned or in progress; "done": resolved or closed.
Stage == {"active", "waiting", "reopened", "done"}

Job == {"escalate", "overdue", "mail"}

\* "mail" is the work of a poll and of the webhook; a poll flags what it has worked on,
\* and hangs if the mail server does not answer that.
Run ==
  [job : Job \union {"none"}, todo : SUBSET Items, at : {"pick", "first", "second", "flag", "hung"},
   item : Items \union {NoTicket}, answer : {"none", "active", "reopened"}, poll : BOOLEAN]

NoRun ==
  [job |-> "none", todo |-> {}, at |-> "pick", item |-> NoTicket, answer |-> "none",
   poll |-> FALSE]

JobsInit ==
  /\ stage \in [Tickets -> {"active", "waiting"}]
  /\ due = {}
  /\ escalated = {} /\ mailed = {}
  /\ inbox = {} /\ stored = {}
  /\ run = [w \in Runs |-> NoRun]
  /\ made = [x \in Items |-> 0]
  /\ letters = [t \in Tickets |-> 0]
  /\ raced = {} /\ broken = {}
  /\ breaks = 0

-----------------------------------------------------------------------------
(* Time, people and the mail server.                                       *)

DueDatePasses(t) ==
  /\ t \notin due
  /\ due' = due \union {t}
  /\ UNCHANGED <<stage, escalated, mailed, post, run, counts, mishaps>>

\* updateDetails gives a new due date; neither mark is taken back.
Reschedule(t) ==
  /\ t \in due
  /\ due' = due \ {t}
  /\ UNCHANGED <<stage, escalated, mailed, post, run, counts, mishaps>>

ChangeStage(t, s) ==
  /\ stage[t] # s
  /\ stage' = [stage EXCEPT ![t] = s]
  /\ UNCHANGED <<due, escalated, mailed, post, run, counts, mishaps>>

\* A mail comes to the mailbox, to the webhook, or to both, and again until it is stored.
Arrive(m) ==
  /\ m \notin inbox \union stored
  /\ inbox' = inbox \union {m}
  /\ UNCHANGED <<desk, stored, run, counts, mishaps>>

-----------------------------------------------------------------------------
(* Runs.                                                                   *)

Idle(w) == run[w].job = "none"

Start(w, job, todo, poll) ==
  /\ Idle(w) /\ todo # {}
  /\ Mixed \/ \A v \in Runs : run[v].job \in {"none", job}
  /\ run' = [run EXCEPT ![w] = [NoRun EXCEPT !.job = job, !.todo = todo, !.poll = poll]]
  /\ raced' = raced \union {<<job, x>> : x \in {y \in todo :
                 \E v \in Runs : run[v].job = job /\ y \in run[v].todo}}
  /\ UNCHANGED <<desk, post, counts, broken, breaks>>

\* Mutant: tickets that were escalated before are read again.
UnmarkedButEscalated == {t \in due : stage[t] \in {"active", "waiting"}}

\* Mutant: only tickets that are worked on are read.
ToEscalateActive == {t \in due : stage[t] = "active"} \ escalated

\* The overdue tickets that an escalation reads: a reopened one is none of them.
ToEscalate == {t \in due : stage[t] \in {"active", "waiting"}} \ escalated

\* The overdue tickets whose requesters are mailed: a waiting one is none of them.
ToMail == {t \in due : stage[t] \in {"active", "reopened"}} \ mailed

StartEscalation(w) == Start(w, "escalate", ToEscalate, FALSE)
StartOverdueMails(w) == Start(w, "overdue", ToMail, FALSE)
StartPoll(w) == Start(w, "mail", inbox, TRUE)

\* Not without the mail itself.
StartWebhook(w, m) == m \notin stored \union Sourceless /\ Start(w, "mail", {m}, FALSE)

At(w, job, step) == run[w].job = job /\ run[w].at = step

GoTo(w, step) == run' = [run EXCEPT ![w] = [@ EXCEPT !.at = step]]

\* Item x is dealt with.
Leave(w, x) ==
  LET rest == run[w].todo \ {x} IN
  run' = [run EXCEPT ![w] =
            IF rest = {} THEN NoRun
            ELSE [NoRun EXCEPT !.job = run[w].job, !.todo = rest, !.poll = run[w].poll]]

Done(w) == Leave(w, run[w].item)

\* What the requester's answer does to a ticket: it resumes or reopens one that rests.
Answer(t) ==
  IF t = NoTicket THEN "none"
  ELSE IF stage[t] = "waiting" THEN "active"
  ELSE IF stage[t] = "done" THEN "reopened" ELSE "none"

\* A run takes the next of the items it has read.
TakesNext(w, job, x) == run[w].job = job /\ run[w].at = "pick" /\ x \in run[w].todo

Take(w, x, at) == run' = [run EXCEPT ![w] = [@ EXCEPT !.item = x, !.at = at]]

\* runEscalationCycle marks the ticket first ...
MarkEscalated(w, t) ==
  /\ TakesNext(w, "escalate", t)
  /\ escalated' = escalated \union {t}
  /\ Take(w, t, "second")
  /\ UNCHANGED <<stage, due, mailed, post, counts, mishaps>>

\* ... and then tells the admins.
TellAdmins(w) ==
  /\ At(w, "escalate", "second")
  /\ made' = [made EXCEPT ![run[w].item] = @ + 1]
  /\ Done(w)
  /\ UNCHANGED <<desk, post, letters, mishaps>>

\* Mutant: the mail goes out after the mark, in the order of an escalation.
MarkBeforeLetter(w, t) ==
  /\ TakesNext(w, "overdue", t)
  /\ mailed' = mailed \union {t}
  /\ Take(w, t, "second")
  /\ UNCHANGED <<stage, due, escalated, post, counts, mishaps>>

\* sendOverdueRequesterMails mails first (the mailer reports no failure) ...
SendOverdue(w, t) ==
  /\ TakesNext(w, "overdue", t)
  /\ letters' = [letters EXCEPT ![t] = @ + 1]
  /\ Take(w, t, "second")
  /\ UNCHANGED <<desk, post, made, mishaps>>

\* ... and then marks the ticket.
MarkMailed(w) ==
  /\ At(w, "overdue", "second")
  /\ mailed' = mailed \union {run[w].item}
  /\ Done(w)
  /\ UNCHANGED <<stage, due, escalated, post, counts, mishaps>>

\* Mutant: the Message-ID is not looked up.
ReadUnchecked(w, m) ==
  /\ TakesNext(w, "mail", m) /\ m \notin Sourceless
  /\ run' = [run EXCEPT ![w] = [@ EXCEPT !.item = m, !.at = "first", !.answer = Answer(Answers[m])]]
  /\ UNCHANGED <<desk, post, counts, mishaps>>

\* A poll goes past a mail without a source, and leaves it as it is.
SkipMail(w, m) ==
  /\ TakesNext(w, "mail", m) /\ run[w].poll /\ m \in Sourceless
  /\ Leave(w, m)
  /\ UNCHANGED <<desk, post, counts, mishaps>>

\* ingestParsed: unless its Message-ID is stored, the ticket a mail answers is read.
ReadMail(w, m) ==
  /\ TakesNext(w, "mail", m) /\ m \notin Sourceless
  /\ run' = [run EXCEPT ![w] =
       IF m \in stored THEN [@ EXCEPT !.item = m, !.at = "flag"]
       ELSE [@ EXCEPT !.item = m, !.at = "first", !.answer = Answer(Answers[m])]]
  /\ UNCHANGED <<desk, post, counts, mishaps>>

\* A comment on the ticket the mail answers, or a new ticket.
WriteEntry(w) ==
  /\ At(w, "mail", "first")
  /\ LET m == run[w].item
         t == Answers[m]
     IN /\ made' = [made EXCEPT ![m] = @ + 1]
        /\ stage' = IF run[w].answer = "none" THEN stage
                    ELSE [stage EXCEPT ![t] = run[w].answer]
  /\ run' = [run EXCEPT ![w] = [@ EXCEPT !.at = "second", !.answer = "none"]]
  /\ UNCHANGED <<due, escalated, mailed, post, letters, mishaps>>

\* storeInbound: the Message-ID is unique, so a second insert fails.
StoreMessage(w) ==
  /\ At(w, "mail", "second")
  /\ stored' = stored \union {run[w].item}
  /\ broken' = IF run[w].item \in stored THEN broken \union {<<"mail", run[w].item>>} ELSE broken
  /\ GoTo(w, "flag")
  /\ UNCHANGED <<desk, inbox, counts, raced, breaks>>

\* An error while a mail is processed is caught, and the poll goes on.
FailMail(w) ==
  /\ At(w, "mail", "first") \/ At(w, "mail", "second")
  /\ breaks < MaxBreaks
  /\ breaks' = breaks + 1
  /\ broken' = broken \union {<<"mail", run[w].item>>}
  /\ GoTo(w, "flag")
  /\ UNCHANGED <<desk, post, counts, raced>>

\* Mutant: the poll leaves a mail that failed unseen.
FlagHandled(w) ==
  /\ At(w, "mail", "flag")
  /\ inbox' = IF run[w].poll /\ <<"mail", run[w].item>> \notin broken
              THEN inbox \ {run[w].item} ELSE inbox
  /\ Done(w)
  /\ UNCHANGED <<desk, stored, counts, mishaps>>

\* A poll flags the mail as seen, however its processing went; the webhook answers.
Flag(w) ==
  /\ At(w, "mail", "flag")
  /\ inbox' = IF run[w].poll THEN inbox \ {run[w].item} ELSE inbox
  /\ Done(w)
  /\ UNCHANGED <<desk, stored, counts, mishaps>>

\* The flag is a command of its own inside the loop that fetches the mails: the client may
\* keep it back until the fetch is over, for which the loop would have to go on.
HangOnFlag(w) ==
  /\ At(w, "mail", "flag") /\ run[w].poll
  /\ GoTo(w, "hung")
  /\ UNCHANGED <<desk, post, counts, mishaps>>

\* The client gives a silent connection up, and the poll ends with an error.
LoseConnection(w) ==
  /\ At(w, "mail", "hung")
  /\ run' = [run EXCEPT ![w] = NoRun]
  /\ UNCHANGED <<desk, post, counts, mishaps>>

\* An error that nothing catches, or the end of the process.
Break(w) ==
  /\ ~Idle(w)
  /\ breaks < MaxBreaks
  /\ breaks' = breaks + 1
  /\ broken' = broken \union {<<run[w].job, x>> : x \in run[w].todo \cap {run[w].item}}
  /\ run' = [run EXCEPT ![w] = NoRun]
  /\ UNCHANGED <<desk, post, counts, raced>>

-----------------------------------------------------------------------------
Continue(w) ==
  \/ \E t \in Tickets : MarkEscalated(w, t) \/ SendOverdue(w, t)
  \/ TellAdmins(w) \/ MarkMailed(w)
  \/ \E m \in Mails : SkipMail(w, m) \/ ReadMail(w, m)
  \/ WriteEntry(w) \/ StoreMessage(w) \/ FailMail(w)
  \/ Flag(w) \/ HangOnFlag(w) \/ LoseConnection(w)

JobsNext ==
  \/ \E t \in Tickets : DueDatePasses(t) \/ Reschedule(t)
  \/ \E t \in Tickets, s \in Stage : ChangeStage(t, s)
  \/ \E m \in Mails : Arrive(m)
  \/ \E w \in Runs :
       \/ StartEscalation(w) \/ StartOverdueMails(w) \/ StartPoll(w)
       \/ \E m \in Mails : StartWebhook(w, m)
       \/ Continue(w)
       \/ Break(w)

\* cron calls every job again and again, and a run that has begun goes on or fails.
Fairness ==
  /\ \A w \in Runs : WF_jobsVars(Continue(w))
  /\ SF_jobsVars(\E w \in Runs : StartEscalation(w))
  /\ SF_jobsVars(\E w \in Runs : StartOverdueMails(w))
  /\ SF_jobsVars(\E w \in Runs : StartPoll(w))

JobsSpec == JobsInit /\ [][JobsNext]_jobsVars /\ Fairness

-----------------------------------------------------------------------------
(* Properties.                                                             *)

JobsTypeOK ==
  /\ stage \in [Tickets -> Stage]
  /\ due \subseteq Tickets /\ escalated \subseteq Tickets /\ mailed \subseteq Tickets
  /\ inbox \subseteq Mails /\ stored \subseteq Mails
  /\ run \in [Runs -> Run]
  /\ made \in [Items -> Nat] /\ letters \in [Tickets -> Nat]
  /\ raced \subseteq Job \X Items /\ broken \subseteq Job \X Items
  /\ breaks \in 0..MaxBreaks

\* An escalation is announced at most once unless two runs overlapped on the ticket, and
\* only a run that stopped right after the mark leaves a marked ticket unannounced.
EscalationIsToldOnce ==
  \A t \in Tickets :
    /\ made[t] > 1 => <<"escalate", t>> \in raced
    /\ t \in escalated /\ made[t] = 0 =>
         \/ <<"escalate", t>> \in broken
         \/ \E w \in Runs : At(w, "escalate", "second") /\ run[w].item = t

\* The other order gives the other promise: a ticket marked as mailed was mailed, and was
\* mailed twice only if runs overlapped on it or one stopped before the mark.
OverdueIsMailed ==
  \A t \in Tickets :
    /\ t \in mailed => letters[t] > 0
    /\ letters[t] > 1 => <<"overdue", t>> \in raced \union broken

\* One mail makes one comment or ticket, however often it is delivered: it makes a second
\* one only if it was worked on twice at once or its work stopped before the Message-ID
\* was stored.
OneEntryPerMail ==
  \A m \in Mails :
    /\ m \in stored => made[m] > 0
    /\ made[m] > 1 => <<"mail", m>> \in raced \union broken

\* An overdue ticket that is being worked on or waits is escalated in the end.
EscalationComes ==
  \A t \in Tickets :
    t \in due /\ stage[t] \in {"active", "waiting"} ~>
      t \in escalated \/ t \notin due \/ stage[t] \notin {"active", "waiting"}

Hangs == \E w \in Runs : At(w, "mail", "hung")

\* Every mail that arrives and has a source is seen in the end, whatever fails while it is
\* worked on, unless polls hang on their flags again and again.
MailIsSeen == \A m \in Mails \ Sourceless : (m \in inbox ~> m \notin inbox) \/ []<>Hangs

=============================================================================
