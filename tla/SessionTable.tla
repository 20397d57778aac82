---------------------------- MODULE SessionTable ----------------------------
(***************************************************************************)
(* What the two refresh-token columns of a user promise: two sessions, of  *)
(* which a third sign-in ends the one that was renewed longest ago.  A     *)
(* session is known by its browser and its latest token, and tokens are    *)
(* numbered in the order in which they were issued.  The abstract          *)
(* specification of Sessions.                                              *)
(***************************************************************************)
EXTENDS Integers

CONSTANTS
  Browsers,
  Tokens      \* the tokens there may be

VARIABLE live       \* the sessions: <<browser, token>>

Init == live = {}

\* The session renewed last.
Youngest == {s \in live : \A t \in live : t[2] <= s[2]}

Newer(n) == \A s \in live : s[2] < n

SignIn ==
  \E b \in Browsers, n \in Tokens :
    /\ Newer(n)
    /\ live' = {<<b, n>>} \union IF \A s, t \in live : s = t THEN live ELSE Youngest

\* A refresh renews the session of its own browser.
Renew ==
  \E s \in live, n \in Tokens :
    /\ Newer(n)
    /\ live' = {<<s[1], n>>} \union (live \ {s})

\* The oldest tokens expire first.
Expire == \E s \in live : live' = {t \in live : t[2] > s[2]}

SignOut == live' = {}

Next == SignIn \/ Renew \/ Expire \/ SignOut

Spec == Init /\ [][Next]_live
=============================================================================
