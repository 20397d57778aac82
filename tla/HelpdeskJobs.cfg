SPECIFICATION OneKindSpec
CONSTANTS
  t1 = t1
  m1 = m1
  Runs = {w1, w2}
  Tickets = {t1}
  m2 = m2
  Mails = {m1, m2}
  Sourceless = {m2}
  Answers <- MCAnswers
  NoTicket = NoTicket
  Mixed = TRUE
  MaxBreaks = 2
INVARIANTS
  EscalationIsToldOnce
  OverdueIsMailed
  OneEntryPerMail
PROPERTIES
  EscalationComes
  MailIsSeen
