------------------------------ MODULE Sessions ------------------------------
(***************************************************************************)
(* The sessions of one user: the two refresh-token columns of its row, the *)
(* refresh cookie in each of its browsers, and the requests that change    *)
(* them.  A request reads the row and checks it (Begin), signs a token and *)
(* chooses the column it will be written to (Sign), writes (Write), and    *)
(* answers (Answer); browsers may have several requests on the way, since  *)
(* every tab refreshes on its own.                                         *)
(***************************************************************************)
EXTENDS Integers, FiniteSets

CONSTANTS
  Requests,     \* request slots: how many requests can be in flight at once
  Browsers,     \* the browsers the user signs in from
  NoBrowser,
  MaxTokens     \* bound: the refresh tokens that are ever signed

ASSUME SessionConstants ==
  /\ NoBrowser \notin Browsers
  /\ MaxTokens \in Nat

VARIABLES
  slot,         \* slot[i]: the token whose hash is in column i; None: null
  active,       \* users.is_active
  signed,       \* how many tokens were signed; token n is the n-th
  expired,      \* the tokens 1..expired have expired
  cookie,       \* cookie[b]: the token in the refresh cookie of browser b, or None
  plan,         \* plan[r]: what the request in slot r is about to do
  holder,       \* history: holder[i]: the browser that the token in column i was signed for
  ended,        \* history: the tokens 1..ended were signed before the last sign-out
  crossed,      \* history: a sign-in or refresh was under way at the last sign-out
  past          \* history: what has happened to the user's sessions

row == <<slot, active>>
history == <<holder, ended, crossed, past>>
vars == <<row, signed, expired, cookie, plan, history>>

None == 0

Column == {1, 2}

\* "overlapped": two requests were in flight at once; "unanswered": a new token was
\* written and never reached its browser; "third": a sign-in found two live sessions.
\* Nothing else is noted once requests have overlapped.
Event == {"overlapped", "unanswered", "third"}

Overlapped == "overlapped" \in past

\* Event e is noted if c holds.
Note(e, c) == past' = IF c /\ ~Overlapped THEN past \union {e} ELSE past

Plan ==
  [step : {"idle", "sign", "write", "answer"}, op : {"signin", "refresh", "signout"},
   browser : Browsers \union {NoBrowser}, column : Column, token : 0..MaxTokens]

NoPlan ==
  [step |-> "idle", op |-> "signin", browser |-> NoBrowser, column |-> 1, token |-> None]

Init ==
  /\ slot = [i \in Column |-> None]
  /\ active = TRUE
  /\ signed = 0
  /\ expired = 0
  /\ cookie = [b \in Browsers |-> None]
  /\ plan = [r \in Requests |-> NoPlan]
  /\ holder = [i \in Column |-> NoBrowser]
  /\ ended = 0
  /\ crossed = FALSE
  /\ past = {}

-----------------------------------------------------------------------------
InFlight(r) == plan[r].step # "idle"

Issuing(r) == InFlight(r) /\ plan[r].op # "signout"

\* The token in column i is there and has not expired.
Live(i) == slot[i] > expired

Begin(r, p) ==
  /\ ~InFlight(r)
  /\ plan' = [plan EXCEPT ![r] = p]
  /\ past' = IF \E q \in Requests : InFlight(q) THEN {"overlapped"} ELSE past
  /\ UNCHANGED <<row, signed, expired, cookie, holder, ended, crossed>>

\* login, loginWithVerifiedIdentity and verifyMfa, once they have let the user in.
BeginSignIn(r, b) ==
  /\ active
  /\ Begin(r, [NoPlan EXCEPT !.step = "sign", !.browser = b])

\* Mutant: the token is renewed in the first column, wherever it was found.
BeginRefreshFirst(r, b) ==
  /\ active
  /\ \E i \in Column :
       /\ Live(i) /\ slot[i] = cookie[b]
       /\ Begin(r, [NoPlan EXCEPT !.step = "sign", !.op = "refresh", !.browser = b])

\* refresh compares the cookie with the two columns; the first that matches is renewed.
BeginRefresh(r, b) ==
  /\ active
  /\ \E i \in Column :
       /\ Live(i) /\ slot[i] = cookie[b]
       /\ i = 2 => ~(Live(1) /\ slot[1] = cookie[b])
       /\ Begin(r, [NoPlan EXCEPT !.step = "sign", !.op = "refresh", !.browser = b, !.column = i])

\* logout, changePassword and resetPassword, up to their UPDATE.
BeginSignOut(r, b) ==
  Begin(r, [NoPlan EXCEPT !.step = "write", !.op = "signout", !.browser = b])

\* Mutant: of two live sessions the one renewed last is replaced.
PickYoungest ==
  IF ~Live(1) THEN 1 ELSE IF ~Live(2) THEN 2 ELSE IF slot[2] > slot[1] THEN 2 ELSE 1

\* pickRefreshSlot: an empty or expired column, or the one that expires first.
PickRefreshSlot ==
  IF ~Live(1) THEN 1 ELSE IF ~Live(2) THEN 2 ELSE IF slot[2] < slot[1] THEN 2 ELSE 1

\* issueTokenPair up to its UPDATE: the token is signed, and a sign-in picks a column.
Sign(r) ==
  /\ plan[r].step = "sign"
  /\ signed < MaxTokens
  /\ signed' = signed + 1
  /\ plan' = [plan EXCEPT ![r] =
                [@ EXCEPT !.step = "write", !.token = signed + 1,
                          !.column = IF plan[r].op = "signin" THEN PickRefreshSlot
                                      ELSE plan[r].column]]
  /\ Note("third", plan[r].op = "signin" /\ Live(1) /\ Live(2))
  /\ UNCHANGED <<row, expired, cookie, holder, ended, crossed>>

WriteToken(r) ==
  /\ plan[r].step = "write" /\ plan[r].op # "signout"
  /\ slot' = [slot EXCEPT ![plan[r].column] = plan[r].token]
  /\ holder' = [holder EXCEPT ![plan[r].column] = plan[r].browser]
  /\ plan' = [plan EXCEPT ![r] = [@ EXCEPT !.step = "answer"]]
  /\ UNCHANGED <<active, signed, expired, cookie, ended, crossed, past>>

\* Mutant: only the first column is cleared.
ClearFirst(r) ==
  /\ plan[r].step = "write" /\ plan[r].op = "signout"
  /\ slot' = [slot EXCEPT ![1] = None]
  /\ ended' = signed
  /\ crossed' = \E q \in Requests : Issuing(q) /\ plan[q].step # "answer"
  /\ plan' = [plan EXCEPT ![r] = [@ EXCEPT !.step = "answer"]]
  /\ UNCHANGED <<active, signed, expired, cookie, holder, past>>

\* The UPDATE of a sign-out clears both columns: it ends the user's sessions everywhere.
Clear(r) ==
  /\ plan[r].step = "write" /\ plan[r].op = "signout"
  /\ slot' = [i \in Column |-> None]
  /\ ended' = signed
  /\ crossed' = \E q \in Requests : Issuing(q) /\ plan[q].step # "answer"
  /\ plan' = [plan EXCEPT ![r] = [@ EXCEPT !.step = "answer"]]
  /\ UNCHANGED <<active, signed, expired, cookie, holder, past>>

\* The answer sets the refresh cookie of its browser, or takes it away.
Answer(r) ==
  /\ plan[r].step = "answer"
  /\ cookie' = [cookie EXCEPT ![plan[r].browser] =
                  IF plan[r].op = "signout" THEN None ELSE plan[r].token]
  /\ plan' = [plan EXCEPT ![r] = NoPlan]
  /\ UNCHANGED <<row, signed, expired, history>>

\* A database call fails, the process ends, or the answer is lost.
Stop(r) ==
  /\ InFlight(r)
  /\ plan' = [plan EXCEPT ![r] = NoPlan]
  /\ Note("unanswered", plan[r].step = "answer" /\ plan[r].op # "signout")
  /\ UNCHANGED <<row, signed, expired, cookie, holder, ended, crossed>>

\* Tokens last seven days each: they expire in the order in which they were signed.
Expire ==
  /\ expired < signed
  /\ expired' = expired + 1
  /\ UNCHANGED <<row, signed, cookie, plan, history>>

\* A browser forgets a cookie that it was told not to remember.
Forget(b) ==
  /\ cookie[b] # None
  /\ cookie' = [cookie EXCEPT ![b] = None]
  /\ UNCHANGED <<row, signed, expired, plan, history>>

\* An administrator, or an offboarding, changes is_active; the columns stay as they are.
SetActive(b) ==
  /\ active # b
  /\ active' = b
  /\ UNCHANGED <<slot, signed, expired, cookie, plan, history>>

-----------------------------------------------------------------------------
Step(r) ==
  \/ \E b \in Browsers : BeginSignIn(r, b) \/ BeginRefresh(r, b) \/ BeginSignOut(r, b)
  \/ Sign(r)
  \/ WriteToken(r)
  \/ Clear(r)
  \/ Answer(r)
  \/ Stop(r)

Next ==
  \/ \E r \in Requests : Step(r)
  \/ \E b \in Browsers : Forget(b)
  \/ \E b \in BOOLEAN : SetActive(b)
  \/ Expire

Spec == Init /\ [][Next]_vars

-----------------------------------------------------------------------------
(* Properties.                                                             *)

Numbers == 0..signed

TypeOK ==
  /\ slot \in [Column -> Numbers]
  /\ active \in BOOLEAN
  /\ signed \in 0..MaxTokens
  /\ expired \in Numbers /\ ended \in Numbers
  /\ cookie \in [Browsers -> Numbers]
  /\ holder \in [Column -> Browsers \union {NoBrowser}]
  /\ plan \in [Requests -> Plan]
  /\ crossed \in BOOLEAN
  /\ past \subseteq Event

\* After a sign-out no token is accepted that was signed before it, unless a sign-in or
\* a refresh that had begun before the sign-out writes its token after it.
SignedOutStaysOut ==
  \A i \in Column : slot[i] # None => slot[i] > ended \/ crossed

\* A browser stays signed in until its token expires or the user signs out somewhere,
\* as long as requests take turns, every new token reaches its browser, and nobody signs
\* in when two sessions are live already: a desktop and a phone do not end each other.
BrowsersStaySignedIn ==
  past = {} =>
    \A b \in Browsers :
      \/ cookie[b] <= expired \/ cookie[b] <= ended
      \/ \E i \in Column : slot[i] = cookie[b]
      \/ \E r \in Requests : InFlight(r) /\ plan[r].browser = b

\* The sessions that refresh would renew.
Accepted == {<<holder[i], slot[i]>> : i \in {j \in Column : Live(j)}}

\* Until requests overlap, the two columns are a table of two sessions: a refresh renews
\* the session of its own browser, and a third sign-in ends the oldest.
Table == INSTANCE SessionTable WITH Tokens <- 1..MaxTokens, live <- Accepted

KeepsTable == Table!Init /\ [][~Overlapped' => Table!Next \/ UNCHANGED Accepted]_vars
=============================================================================
