-------------------------- MODULE MCHelpdeskJobs --------------------------
(* Model checking of HelpdeskJobs: mail m1 answers ticket t1, any other mail *)
(* is about no ticket.  A behaviour is about overdue tickets or about mails: *)
(* what a mail does to a ticket, the people around it do in the others.      *)
EXTENDS HelpdeskJobs

CONSTANTS t1, m1, m2

MCAnswers == [m \in Mails |-> IF m = m1 THEN t1 ELSE NoTicket]

NoOverdue ==
  /\ due \union escalated \union mailed = {}
  /\ \A w \in Runs : run[w].job \notin {"escalate", "overdue"}

NoMail ==
  /\ inbox \union stored = {} /\ \A m \in Mails : made[m] = 0
  /\ \A w \in Runs : run[w].job # "mail"

OneKindSpec == JobsInit /\ [][JobsNext /\ (NoOverdue \/ NoMail)']_jobsVars /\ Fairness
=============================================================================
