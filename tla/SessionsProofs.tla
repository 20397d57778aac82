--------------------------- MODULE SessionsProofs ---------------------------
(***************************************************************************)
(* Proofs about Sessions, for any number of requests, browsers and tokens: *)
(* a sign-out is final for what was signed before it, and the two columns  *)
(* implement SessionTable until requests overlap.                          *)
(***************************************************************************)
EXTENDS Sessions, TLAPS

Typed ==
  /\ signed \in Nat /\ expired \in Nat /\ ended \in Nat
  /\ slot \in [Column -> Nat]
  /\ cookie \in [Browsers -> Nat]
  /\ holder \in [Column -> Browsers \union {NoBrowser}]
  /\ plan \in [Requests -> Plan]

\* Every token there is was signed.
Counted ==
  /\ expired <= signed /\ ended <= signed
  /\ \A i \in Column : slot[i] <= signed
  /\ \A b \in Browsers : cookie[b] <= signed
  /\ \A r \in Requests : plan[r].token <= signed

\* Unless a request crossed the last sign-out, whatever was or will be written is newer.
Newer ==
  ~crossed =>
    /\ \A i \in Column : slot[i] # None => slot[i] > ended
    /\ \A r \in Requests :
         plan[r].step = "write" /\ plan[r].op # "signout" => plan[r].token > ended

\* What a request in flight has read is still so, while requests take turns.
Fits(r) ==
  /\ plan[r].browser \in Browsers
  /\ plan[r].op = "signout" => plan[r].step # "sign"
  /\ plan[r].op = "refresh" /\ plan[r].step \in {"sign", "write"} /\ Live(plan[r].column) =>
       holder[plan[r].column] = plan[r].browser
  /\ plan[r].op # "signout" /\ plan[r].step = "write" =>
       /\ plan[r].token = signed /\ signed > 0
       /\ \A i \in Column : slot[i] < plan[r].token
       /\ \A b \in Browsers : cookie[b] < plan[r].token
  /\ plan[r].op = "signin" /\ plan[r].step = "write" /\ Live(plan[r].column) =>
       slot[plan[r].column] < slot[3 - plan[r].column]
  /\ plan[r].op # "signout" /\ plan[r].step = "answer" =>
       \A i \in Column : slot[i] = plan[r].token => holder[i] = plan[r].browser

OneInFlight == \A q, r \in Requests : InFlight(q) /\ InFlight(r) => q = r

\* The two columns hold two tokens, and a cookie is that of the browser it was signed for.
Apart ==
  /\ slot[1] = slot[2] => slot[1] = None
  /\ \A b \in Browsers, i \in Column :
       slot[i] # None /\ cookie[b] = slot[i] => holder[i] = b

Turns ==
  /\ OneInFlight
  /\ \A r \in Requests : InFlight(r) => Fits(r)
  /\ Apart

SessionInv ==
  /\ Typed
  /\ Counted
  /\ Newer
  /\ ~Overlapped => Turns

LEMMA NoPlanTyped ==
  /\ NoPlan \in Plan /\ NoPlan.step = "idle"
  /\ NoPlan.op = "signin" /\ NoPlan.token = 0 /\ MaxTokens \in Nat
  BY SessionConstants DEF NoPlan, Plan, Column, None

LEMMA SessionInitInv == ASSUME Init PROVE SessionInv
<1>1. Typed
  BY NoPlanTyped DEF Init, Typed, None
<1>2. Counted /\ Newer
  BY NoPlanTyped DEF Init, Counted, Newer, None
<1>3. \A r \in Requests : ~InFlight(r)
  BY NoPlanTyped DEF Init, InFlight
<1>4. Apart
  BY DEF Init, Apart, Column
<1> QED
  BY <1>1, <1>2, <1>3, <1>4 DEF SessionInv, Turns, OneInFlight

\* A request that comes in, while requests take turns, is the only one in flight.
LEMMA BeginKeeps ==
  ASSUME SessionInv, NEW r \in Requests, NEW p \in Plan, Begin(r, p), p.token = 0,
         p.step = "write" => p.op = "signout",
         p.step # "idle", p.step # "answer", p.browser \in Browsers,
         p.op = "signout" => p.step # "sign",
         p.op = "refresh" /\ Live(p.column) /\ Apart => holder[p.column] = p.browser
  PROVE  SessionInv'
<1>1. plan' = [plan EXCEPT ![r] = p] /\ ~InFlight(r)
  BY DEF Begin
<1>2. /\ slot' = slot /\ signed' = signed /\ expired' = expired /\ cookie' = cookie
      /\ holder' = holder /\ ended' = ended /\ crossed' = crossed
  BY DEF Begin, row
<1>3. past' = IF \E q \in Requests : InFlight(q) THEN {"overlapped"} ELSE past
  BY DEF Begin
<1>4. plan'[r] = p /\ \A q \in Requests \ {r} : plan'[q] = plan[q]
  BY <1>1 DEF SessionInv, Typed
<1>5. Typed'
  BY <1>1, <1>2 DEF SessionInv, Typed
<1>6. Counted'
  BY <1>2, <1>4 DEF SessionInv, Typed, Counted
<1>7. Newer'
  BY <1>2, <1>4 DEF SessionInv, Newer
<1>8. ASSUME ~Overlapped' PROVE Turns'
  <2>1. ~Overlapped /\ \A q \in Requests : ~InFlight(q)
    BY <1>3, <1>8 DEF Overlapped
  <2>2. \A q \in Requests : InFlight(q)' => q = r
    BY <1>4, <2>1 DEF InFlight
  <2>3. Apart
    BY <2>1 DEF SessionInv, Turns
  <2>4. Apart'
    BY <1>2, <2>3 DEF Apart
  <2>5. Fits(r)'
    BY <1>2, <1>4, <2>3 DEF Fits, Live, Plan
  <2> QED
    BY <2>2, <2>4, <2>5 DEF Turns, OneInFlight
<1> QED
  BY <1>5, <1>6, <1>7, <1>8 DEF SessionInv

LEMMA SignInInv ==
  ASSUME SessionInv, NEW r \in Requests, NEW b \in Browsers, BeginSignIn(r, b)
  PROVE  SessionInv'
<1> DEFINE n == [NoPlan EXCEPT !.step = "sign", !.browser = b]
<1>1. /\ n \in Plan /\ n.step = "sign" /\ n.op = "signin" /\ n.browser = b /\ n.token = 0
  BY NoPlanTyped DEF Plan
<1>2. Begin(r, n)
  BY DEF BeginSignIn
<1> HIDE DEF n
<1> QED
  BY <1>1, <1>2, BeginKeeps

LEMMA RefreshInv ==
  ASSUME SessionInv, NEW r \in Requests, NEW b \in Browsers, BeginRefresh(r, b)
  PROVE  SessionInv'
<1> PICK i \in Column :
      /\ Live(i) /\ slot[i] = cookie[b]
      /\ Begin(r, [NoPlan EXCEPT !.step = "sign", !.op = "refresh", !.browser = b, !.column = i])
  BY DEF BeginRefresh
<1> DEFINE n == [NoPlan EXCEPT !.step = "sign", !.op = "refresh", !.browser = b, !.column = i]
<1>1. /\ n \in Plan /\ n.step = "sign" /\ n.op = "refresh" /\ n.browser = b /\ n.token = 0
      /\ n.column = i
  BY NoPlanTyped DEF Plan
<1>2. Begin(r, n)
  OBVIOUS
<1>3. slot[i] # None
  BY DEF SessionInv, Typed, Live, None, Column
<1>4. Apart => holder[i] = b
  BY <1>3 DEF Apart
<1> HIDE DEF n
<1> QED
  BY <1>1, <1>2, <1>4, BeginKeeps

LEMMA SignOutInv ==
  ASSUME SessionInv, NEW r \in Requests, NEW b \in Browsers, BeginSignOut(r, b)
  PROVE  SessionInv'
<1> DEFINE n == [NoPlan EXCEPT !.step = "write", !.op = "signout", !.browser = b]
<1>1. /\ n \in Plan /\ n.step = "write" /\ n.op = "signout" /\ n.browser = b /\ n.token = 0
  BY NoPlanTyped DEF Plan
<1>2. Begin(r, n)
  BY DEF BeginSignOut
<1> HIDE DEF n
<1> QED
  BY <1>1, <1>2, BeginKeeps

\* A request in flight goes on, or ends; others are idle while requests take turns.
LEMMA GoesOn ==
  ASSUME SessionInv, NEW r \in Requests, InFlight(r), NEW x \in Plan,
         plan' = [plan EXCEPT ![r] = x]
  PROVE  /\ plan' \in [Requests -> Plan] /\ plan'[r] = x /\ plan[r] \in Plan
         /\ \A q \in Requests \ {r} : plan'[q] = plan[q]
         /\ ~Overlapped =>
              /\ Turns /\ Fits(r) /\ OneInFlight'
              /\ \A q \in Requests : InFlight(q)' => q = r
<1>1. plan' \in [Requests -> Plan] /\ plan'[r] = x /\ plan[r] \in Plan
  BY DEF SessionInv, Typed
<1>2. \A q \in Requests \ {r} : plan'[q] = plan[q]
  BY DEF SessionInv, Typed
<1>3. ASSUME ~Overlapped
      PROVE  /\ Turns /\ Fits(r)
             /\ \A q \in Requests : InFlight(q) => q = r
  BY <1>3 DEF SessionInv, Turns, OneInFlight
<1>4. ASSUME ~Overlapped
      PROVE  \A q \in Requests : InFlight(q)' => q = r
  BY <1>2, <1>3, <1>4 DEF InFlight
<1>5. ~Overlapped => OneInFlight'
  BY <1>4 DEF OneInFlight
<1> QED
  BY <1>1, <1>2, <1>3, <1>4, <1>5

\* The column of a sign-in is empty or expired, or holds the older of two tokens.
LEMMA OlderColumn ==
  ASSUME Typed, Apart
  PROVE  /\ PickRefreshSlot \in Column
         /\ Live(PickRefreshSlot) => slot[PickRefreshSlot] < slot[3 - PickRefreshSlot]
<1>1. slot[1] \in Nat /\ slot[2] \in Nat /\ expired \in Nat
  BY DEF Typed, Column
<1>2. CASE ~Live(1)
  BY <1>2 DEF PickRefreshSlot, Column
<1>3. CASE Live(1) /\ ~Live(2)
  BY <1>3 DEF PickRefreshSlot, Column
<1>4. CASE Live(1) /\ Live(2)
  <2>1. slot[1] # slot[2]
    BY <1>1, <1>4 DEF Apart, Live, None
  <2>2. CASE slot[2] < slot[1]
    <3>1. PickRefreshSlot = 2
      BY <1>4, <2>2 DEF PickRefreshSlot
    <3> QED
      BY <2>2, <3>1 DEF Column
  <2>3. CASE ~(slot[2] < slot[1])
    <3>1. PickRefreshSlot = 1
      BY <1>4, <2>3 DEF PickRefreshSlot
    <3> QED
      BY <1>1, <2>1, <2>3, <3>1 DEF Column
  <2> QED
    BY <2>2, <2>3
<1> QED
  BY <1>2, <1>3, <1>4

LEMMA SignInv ==
  ASSUME SessionInv, NEW r \in Requests, Sign(r)
  PROVE  SessionInv'
<1> PICK p : p = plan[r]
  OBVIOUS
<1>1. p \in Plan /\ p.step = "sign" /\ InFlight(r) /\ signed < MaxTokens
  BY DEF SessionInv, Typed, Sign, InFlight
<1>2. PICK c : c = IF p.op = "signin" THEN PickRefreshSlot ELSE p.column
  OBVIOUS
<1>3. PickRefreshSlot \in Column
  BY DEF PickRefreshSlot, Column
<1>4. c \in Column
  BY <1>1, <1>2, <1>3 DEF Plan
<1>5. PICK x \in Plan :
        /\ x.step = "write" /\ x.token = signed + 1 /\ x.column = c
        /\ x.op = p.op /\ x.browser = p.browser
        /\ plan' = [plan EXCEPT ![r] = x]
  <2> DEFINE n == [plan[r] EXCEPT !.step = "write", !.token = signed + 1,
                     !.column = IF plan[r].op = "signin" THEN PickRefreshSlot ELSE plan[r].column]
  <2>1. n = [p EXCEPT !.step = "write", !.token = signed + 1, !.column = c]
    BY <1>2
  <2>2. signed + 1 \in 0..MaxTokens
    BY <1>1, NoPlanTyped DEF SessionInv, Typed
  <2>3. /\ n \in Plan /\ n.step = "write" /\ n.token = signed + 1 /\ n.column = c
        /\ n.op = p.op /\ n.browser = p.browser
    BY <1>1, <1>4, <2>1, <2>2 DEF Plan
  <2>4. plan' = [plan EXCEPT ![r] = n]
    BY DEF Sign
  <2> HIDE DEF n
  <2> QED
    BY <2>3, <2>4
<1>6. /\ slot' = slot /\ expired' = expired /\ cookie' = cookie /\ signed' = signed + 1
      /\ holder' = holder /\ ended' = ended /\ crossed' = crossed
  BY DEF Sign, row
<1>7. past' \in {past, past \union {"third"}}
  BY DEF Sign, Note
<1>8. /\ plan' \in [Requests -> Plan] /\ plan'[r] = x
      /\ \A q \in Requests \ {r} : plan'[q] = plan[q]
      /\ ~Overlapped =>
           /\ Turns /\ Fits(r) /\ OneInFlight'
           /\ \A q \in Requests : InFlight(q)' => q = r
  BY <1>1, <1>5, GoesOn
<1>9. Typed'
  BY <1>6, <1>8 DEF SessionInv, Typed
<1>10. \A q \in Requests : plan[q].token \in Nat
  BY NoPlanTyped DEF SessionInv, Typed, Plan
<1>11. Counted'
  <2>1. \A q \in Requests : plan'[q].token <= signed + 1
    BY <1>5, <1>8, <1>10 DEF SessionInv, Typed, Counted
  <2> QED
    BY <1>6, <2>1 DEF SessionInv, Typed, Counted
<1>12. Newer'
  <2>1. x.token > ended
    BY <1>5 DEF SessionInv, Typed, Counted
  <2> QED
    BY <1>6, <1>8, <2>1 DEF SessionInv, Newer
<1>13. ASSUME ~Overlapped' PROVE Turns'
  <2>1. /\ Turns /\ Fits(r) /\ OneInFlight'
        /\ \A q \in Requests : InFlight(q)' => q = r
    BY <1>7, <1>8, <1>13 DEF Overlapped
  <2>2. Apart'
    BY <1>6, <2>1 DEF Turns, Apart
  <2>3. x.browser \in Browsers /\ x.op # "signout"
    BY <1>1, <1>5, <2>1 DEF Fits
  <2>4. /\ \A i \in Column : slot[i] < x.token
        /\ \A b \in Browsers : cookie[b] < x.token
        /\ signed + 1 > 0
    BY <1>5 DEF SessionInv, Typed, Counted
  <2>5. x.op = "refresh" /\ Live(x.column) => holder[x.column] = x.browser
    BY <1>1, <1>2, <1>5, <2>1 DEF Fits
  <2>6. x.op = "signin" /\ Live(x.column) => slot[x.column] < slot[3 - x.column]
    BY <1>2, <1>5, <2>1, OlderColumn DEF SessionInv, Turns
  <2>7. Fits(r)'
    BY <1>5, <1>6, <1>8, <2>3, <2>4, <2>5, <2>6 DEF Fits, Live
  <2> QED
    BY <2>1, <2>2, <2>7 DEF Turns
<1> QED
  BY <1>9, <1>11, <1>12, <1>13 DEF SessionInv

LEMMA WriteInv ==
  ASSUME SessionInv, NEW r \in Requests, WriteToken(r)
  PROVE  SessionInv'
<1> PICK p : p = plan[r]
  OBVIOUS
<1>1. p \in Plan /\ InFlight(r) /\ p.step = "write" /\ p.op # "signout"
  BY DEF SessionInv, Typed, WriteToken, InFlight
<1>2. PICK x \in Plan :
        /\ x.step = "answer" /\ x.token = p.token /\ x.column = p.column
        /\ x.op = p.op /\ x.browser = p.browser
        /\ plan' = [plan EXCEPT ![r] = x]
  <2> DEFINE n == [plan[r] EXCEPT !.step = "answer"]
  <2>1. /\ n \in Plan /\ n.step = "answer" /\ n.token = p.token /\ n.column = p.column
        /\ n.op = p.op /\ n.browser = p.browser
    BY <1>1 DEF Plan
  <2>2. plan' = [plan EXCEPT ![r] = n]
    BY DEF WriteToken
  <2> HIDE DEF n
  <2> QED
    BY <2>1, <2>2
<1>3. /\ slot' = [slot EXCEPT ![p.column] = p.token]
      /\ holder' = [holder EXCEPT ![p.column] = p.browser]
      /\ expired' = expired /\ cookie' = cookie /\ signed' = signed /\ past' = past
      /\ ended' = ended /\ crossed' = crossed
  BY DEF WriteToken
<1>4. /\ plan' \in [Requests -> Plan] /\ plan'[r] = x
      /\ \A q \in Requests \ {r} : plan'[q] = plan[q]
      /\ ~Overlapped =>
           /\ Turns /\ Fits(r) /\ OneInFlight'
           /\ \A q \in Requests : InFlight(q)' => q = r
  BY <1>1, <1>2, GoesOn
<1>0. p.token \in Nat /\ p.column \in Column /\ p.browser \in Browsers \union {NoBrowser}
  BY <1>1, NoPlanTyped DEF Plan
<1>5. Typed'
  BY <1>0, <1>3, <1>4 DEF SessionInv, Typed
<1>6. Counted'
  <2>1. p.token <= signed /\ x.token <= signed
    BY <1>2 DEF SessionInv, Counted
  <2> QED
    BY <1>0, <1>3, <1>4, <2>1 DEF SessionInv, Typed, Counted
<1>7. Newer'
  <2>1. ~crossed => p.token > ended
    BY <1>1 DEF SessionInv, Newer
  <2>2. ~crossed => \A q \in Requests :
          plan'[q].step = "write" /\ plan'[q].op # "signout" => plan'[q].token > ended
    BY <1>2, <1>4 DEF SessionInv, Newer
  <2>3. ~crossed => \A i \in Column : slot'[i] # None => slot'[i] > ended
    BY <1>3, <2>1 DEF SessionInv, Newer, Typed
  <2> QED
    BY <1>3, <2>2, <2>3 DEF Newer
<1>8. ASSUME ~Overlapped' PROVE Turns'
  <2>1. /\ Turns /\ Fits(r) /\ OneInFlight'
        /\ \A q \in Requests : InFlight(q)' => q = r
    BY <1>3, <1>4, <1>8 DEF Overlapped
  <2>2. /\ \A i \in Column : slot[i] < p.token
        /\ \A b \in Browsers : cookie[b] < p.token
        /\ p.token > 0 /\ p.browser \in Browsers
    BY <1>1, <2>1 DEF Fits
  <2>3. /\ slot'[p.column] = p.token /\ holder'[p.column] = p.browser
        /\ \A i \in Column \ {p.column} : slot'[i] = slot[i] /\ holder'[i] = holder[i]
    BY <1>0, <1>3 DEF SessionInv, Typed
  <2>4. \A i \in Column \ {p.column} : slot[i] # p.token
    BY <1>0, <2>2 DEF SessionInv, Typed
  <2>5. \A i \in Column : slot'[i] = p.token => holder'[i] = p.browser
    BY <2>3, <2>4
  <2>6. Fits(r)'
    BY <1>1, <1>2, <1>4, <2>2, <2>5 DEF Fits
  <2>7. slot'[1] # slot'[2]
    BY <1>0, <2>3, <2>4 DEF Column
  <2>8. ASSUME NEW b \in Browsers, NEW i \in Column, slot'[i] # None, cookie'[b] = slot'[i]
        PROVE  holder'[i] = b
    <3>1. i # p.column
      BY <1>0, <1>3, <2>2, <2>3, <2>8 DEF SessionInv, Typed
    <3> QED
      BY <1>3, <2>1, <2>3, <2>8, <3>1 DEF Turns, Apart
  <2>9. Apart'
    BY <2>7, <2>8 DEF Apart
  <2> QED
    BY <2>1, <2>6, <2>9 DEF Turns
<1> QED
  BY <1>5, <1>6, <1>7, <1>8 DEF SessionInv

LEMMA ClearInv ==
  ASSUME SessionInv, NEW r \in Requests, Clear(r)
  PROVE  SessionInv'
<1> PICK p : p = plan[r]
  OBVIOUS
<1>1. p \in Plan /\ InFlight(r) /\ p.step = "write" /\ p.op = "signout"
  BY DEF SessionInv, Typed, Clear, InFlight
<1>2. PICK x \in Plan :
        /\ x.step = "answer" /\ x.token = p.token /\ x.column = p.column
        /\ x.op = p.op /\ x.browser = p.browser
        /\ plan' = [plan EXCEPT ![r] = x]
  <2> DEFINE n == [plan[r] EXCEPT !.step = "answer"]
  <2>1. /\ n \in Plan /\ n.step = "answer" /\ n.token = p.token /\ n.column = p.column
        /\ n.op = p.op /\ n.browser = p.browser
    BY <1>1 DEF Plan
  <2>2. plan' = [plan EXCEPT ![r] = n]
    BY DEF Clear
  <2> HIDE DEF n
  <2> QED
    BY <2>1, <2>2
<1>3. /\ slot' = [i \in Column |-> None] /\ holder' = holder
      /\ expired' = expired /\ cookie' = cookie /\ signed' = signed /\ past' = past
      /\ ended' = signed /\ crossed' = \E q \in Requests : Issuing(q) /\ plan[q].step # "answer"
  BY DEF Clear
<1>4. /\ plan' \in [Requests -> Plan] /\ plan'[r] = x
      /\ \A q \in Requests \ {r} : plan'[q] = plan[q]
      /\ ~Overlapped =>
           /\ Turns /\ Fits(r) /\ OneInFlight'
           /\ \A q \in Requests : InFlight(q)' => q = r
  BY <1>1, <1>2, GoesOn
<1>5. Typed'
  BY <1>3, <1>4 DEF SessionInv, Typed, None
<1>6. Counted'
  <2>1. x.token <= signed
    BY <1>2 DEF SessionInv, Counted
  <2> QED
    BY <1>3, <1>4, <2>1 DEF SessionInv, Typed, Counted, None
<1>7. Newer'
  <2>1. \A q \in Requests :
          ~crossed' => ~(plan'[q].step = "write" /\ plan'[q].op # "signout")
    BY <1>1, <1>2, <1>3, <1>4 DEF Issuing, InFlight
  <2> QED
    BY <1>3, <2>1 DEF Newer
<1>8. ASSUME ~Overlapped' PROVE Turns'
  <2>1. /\ Turns /\ Fits(r) /\ OneInFlight'
        /\ \A q \in Requests : InFlight(q)' => q = r
    BY <1>3, <1>4, <1>8 DEF Overlapped
  <2>2. Fits(r)'
    BY <1>1, <1>2, <1>4, <2>1 DEF Fits
  <2>3. Apart'
    BY <1>3 DEF Apart, Column
  <2> QED
    BY <2>1, <2>2, <2>3 DEF Turns
<1> QED
  BY <1>5, <1>6, <1>7, <1>8 DEF SessionInv

LEMMA AnswerInv ==
  ASSUME SessionInv, NEW r \in Requests, Answer(r)
  PROVE  SessionInv'
<1> PICK p : p = plan[r]
  OBVIOUS
<1>1. p \in Plan /\ InFlight(r) /\ p.step = "answer"
  BY DEF SessionInv, Typed, Answer, InFlight
<1>2. plan' = [plan EXCEPT ![r] = NoPlan] /\ NoPlan \in Plan
  BY NoPlanTyped DEF Answer
<1> PICK c : c = IF p.op = "signout" THEN None ELSE p.token
  OBVIOUS
<1>3. /\ cookie' = [cookie EXCEPT ![p.browser] = c]
      /\ slot' = slot /\ holder' = holder /\ expired' = expired /\ signed' = signed
      /\ past' = past /\ ended' = ended /\ crossed' = crossed
  BY DEF Answer, row, history
<1>4. /\ plan' \in [Requests -> Plan] /\ plan'[r] = NoPlan
      /\ \A q \in Requests \ {r} : plan'[q] = plan[q]
      /\ ~Overlapped =>
           /\ Turns /\ Fits(r) /\ OneInFlight'
           /\ \A q \in Requests : InFlight(q)' => q = r
  BY <1>1, <1>2, GoesOn
<1>0. c \in Nat /\ c <= signed
  BY <1>1, NoPlanTyped DEF Plan, SessionInv, Typed, Counted, None
<1>5. Typed'
  BY <1>0, <1>3, <1>4 DEF SessionInv, Typed
<1>6. Counted'
  BY <1>0, <1>3, <1>4, NoPlanTyped DEF SessionInv, Typed, Counted
<1>7. Newer'
  BY <1>3, <1>4, NoPlanTyped DEF SessionInv, Newer
<1>8. ASSUME ~Overlapped' PROVE Turns'
  <2>1. /\ Turns /\ Fits(r) /\ OneInFlight'
        /\ \A q \in Requests : InFlight(q)' => q = r
    BY <1>3, <1>4, <1>8 DEF Overlapped
  <2>2. \A q \in Requests : ~InFlight(q)'
    BY <1>4, <2>1, NoPlanTyped DEF InFlight
  <2>3. \A i \in Column : slot[i] # None /\ slot[i] = c => holder[i] = p.browser
    BY <1>1, <2>1 DEF Fits, Plan
  <2>4. ASSUME NEW b \in Browsers, NEW i \in Column, slot'[i] # None, cookie'[b] = slot'[i]
        PROVE  holder'[i] = b
    <3>1. CASE b = p.browser
      BY <1>3, <2>3, <2>4, <3>1 DEF SessionInv, Typed
    <3>2. CASE b # p.browser
      BY <1>3, <2>1, <2>4, <3>2 DEF SessionInv, Typed, Turns, Apart
    <3> QED
      BY <3>1, <3>2
  <2>5. Apart'
    BY <1>3, <2>1, <2>4 DEF Turns, Apart
  <2> QED
    BY <2>1, <2>2, <2>5 DEF Turns
<1> QED
  BY <1>5, <1>6, <1>7, <1>8 DEF SessionInv

LEMMA StopInv ==
  ASSUME SessionInv, NEW r \in Requests, Stop(r)
  PROVE  SessionInv'
<1> PICK p : p = plan[r]
  OBVIOUS
<1>1. p \in Plan /\ InFlight(r)
  BY DEF SessionInv, Typed, Stop, InFlight
<1>2. plan' = [plan EXCEPT ![r] = NoPlan] /\ NoPlan \in Plan
  BY NoPlanTyped DEF Stop
<1>3. /\ slot' = slot /\ holder' = holder /\ expired' = expired /\ signed' = signed
      /\ cookie' = cookie /\ ended' = ended /\ crossed' = crossed
      /\ past' \in {past, past \union {"unanswered"}}
  BY DEF Stop, row, Note
<1>4. /\ plan' \in [Requests -> Plan] /\ plan'[r] = NoPlan
      /\ \A q \in Requests \ {r} : plan'[q] = plan[q]
      /\ ~Overlapped =>
           /\ Turns /\ Fits(r) /\ OneInFlight'
           /\ \A q \in Requests : InFlight(q)' => q = r
  BY <1>1, <1>2, GoesOn
<1>5. Typed'
  BY <1>3, <1>4 DEF SessionInv, Typed
<1>6. Counted'
  BY <1>3, <1>4, NoPlanTyped DEF SessionInv, Typed, Counted
<1>7. Newer'
  BY <1>3, <1>4, NoPlanTyped DEF SessionInv, Newer
<1>8. ASSUME ~Overlapped' PROVE Turns'
  <2>1. /\ Turns /\ Fits(r) /\ OneInFlight'
        /\ \A q \in Requests : InFlight(q)' => q = r
    BY <1>3, <1>4, <1>8 DEF Overlapped
  <2>2. \A q \in Requests : ~InFlight(q)'
    BY <1>4, <2>1, NoPlanTyped DEF InFlight
  <2>3. Apart'
    BY <1>3, <2>1 DEF Turns, Apart
  <2> QED
    BY <2>1, <2>2, <2>3 DEF Turns
<1> QED
  BY <1>5, <1>6, <1>7, <1>8 DEF SessionInv

LEMMA ExpireInv == ASSUME SessionInv, Expire PROVE SessionInv'
<1>1. /\ expired < signed /\ expired' = expired + 1
      /\ slot' = slot /\ holder' = holder /\ signed' = signed /\ cookie' = cookie /\ plan' = plan
      /\ ended' = ended /\ crossed' = crossed /\ past' = past
  BY DEF Expire, row, history
<1>2. Typed' /\ Counted' /\ Newer'
  BY <1>1 DEF SessionInv, Typed, Counted, Newer
<1>3. \A i \in Column : Live(i)' => Live(i)
  BY <1>1 DEF SessionInv, Typed, Live
<1>4. ASSUME ~Overlapped' PROVE Turns'
  <2>1. Turns
    BY <1>1, <1>4 DEF SessionInv, Overlapped
  <2>2. OneInFlight' /\ Apart'
    BY <1>1, <2>1 DEF Turns, OneInFlight, InFlight, Apart
  <2>3. ASSUME NEW r \in Requests, InFlight(r)' PROVE Fits(r)'
    <3>1. Fits(r) /\ plan[r].column \in Column
      BY <1>1, <2>1, <2>3 DEF Turns, InFlight, SessionInv, Typed, Plan
    <3>2. Live(plan[r].column)' => Live(plan[r].column)
      BY <1>1, <3>1 DEF SessionInv, Typed, Live
    <3> QED
      BY <1>1, <3>1, <3>2 DEF Fits
  <2> QED
    BY <2>2, <2>3 DEF Turns
<1> QED
  BY <1>2, <1>4 DEF SessionInv

LEMMA ForgetInv == ASSUME SessionInv, NEW c \in Browsers, Forget(c) PROVE SessionInv'
<1>1. /\ cookie' = [cookie EXCEPT ![c] = None]
      /\ slot' = slot /\ holder' = holder /\ signed' = signed /\ expired' = expired /\ plan' = plan
      /\ ended' = ended /\ crossed' = crossed /\ past' = past
  BY DEF Forget, row, history
<1>2. \A b \in Browsers : cookie'[b] \in {cookie[b], 0}
  BY <1>1 DEF SessionInv, Typed, None
<1>3. Typed' /\ Counted' /\ Newer'
  BY <1>1, <1>2 DEF SessionInv, Typed, Counted, Newer, None
<1>4. ASSUME ~Overlapped' PROVE Turns'
  <2>1. Turns
    BY <1>1, <1>4 DEF SessionInv, Overlapped
  <2>2. OneInFlight'
    BY <1>1, <2>1 DEF Turns, OneInFlight, InFlight
  <2>3. Apart'
    BY <1>1, <1>2, <2>1 DEF Turns, Apart, None
  <2>4. ASSUME NEW r \in Requests, InFlight(r)' PROVE Fits(r)'
    <3>1. Fits(r) /\ plan[r].token \in Nat
      BY <1>1, <2>1, <2>4, NoPlanTyped DEF Turns, InFlight, SessionInv, Typed, Plan
    <3>2. (\A b \in Browsers : cookie[b] < plan[r].token) /\ plan[r].token > 0 =>
            \A b \in Browsers : cookie'[b] < plan[r].token
      BY <1>2
    <3> QED
      BY <1>1, <3>1, <3>2 DEF Fits, Live
  <2> QED
    BY <2>2, <2>3, <2>4 DEF Turns
<1> QED
  BY <1>3, <1>4 DEF SessionInv

LEMMA SameInv ==
  ASSUME SessionInv, UNCHANGED <<slot, signed, expired, cookie, plan, history>>
  PROVE  SessionInv'
  BY DEF SessionInv, Typed, Counted, Newer, Turns, OneInFlight, InFlight, Fits, Live, Apart,
         Overlapped, history

LEMMA SessionNextInv == ASSUME SessionInv, [Next]_vars PROVE SessionInv'
<1>1. ASSUME NEW r \in Requests, Step(r) PROVE SessionInv'
  BY <1>1, SignInInv, RefreshInv, SignOutInv, SignInv, WriteInv, ClearInv, AnswerInv, StopInv
     DEF Step
<1>2. ASSUME NEW b \in BOOLEAN, SetActive(b) PROVE SessionInv'
  BY <1>2, SameInv DEF SetActive
<1>3. ASSUME UNCHANGED vars PROVE SessionInv'
  BY <1>3, SameInv DEF vars, row
<1> QED
  BY <1>1, <1>2, <1>3, ExpireInv, ForgetInv DEF Next

\* The flags and the notes.
Flags ==
  /\ signed <= MaxTokens
  /\ active \in BOOLEAN /\ crossed \in BOOLEAN
  /\ past \subseteq Event

LEMMA FlagsNext == ASSUME SessionInv, Flags, [Next]_vars PROVE Flags'
<1>0. signed \in Nat /\ MaxTokens \in Nat
  BY NoPlanTyped DEF SessionInv, Typed
<1>1. ASSUME NEW r \in Requests, NEW p, Begin(r, p) PROVE Flags'
  BY <1>1 DEF Begin, Flags, row, Event
<1>2. ASSUME NEW r \in Requests,
             \E b \in Browsers : BeginSignIn(r, b) \/ BeginRefresh(r, b) \/ BeginSignOut(r, b)
      PROVE  Flags'
  BY <1>1, <1>2 DEF BeginSignIn, BeginRefresh, BeginSignOut
<1>3. ASSUME NEW r \in Requests, Sign(r) PROVE Flags'
  BY <1>0, <1>3 DEF Sign, Note, Flags, row, Event
<1>4. ASSUME NEW r \in Requests, Clear(r) PROVE Flags'
  BY <1>4 DEF Clear, Flags
<1>5. ASSUME NEW r \in Requests, WriteToken(r) \/ Answer(r) \/ Stop(r) PROVE Flags'
  BY <1>5 DEF WriteToken, Answer, Stop, Note, Flags, row, history, Event
<1>6. ASSUME \/ \E b \in Browsers : Forget(b)
             \/ \E b \in BOOLEAN : SetActive(b)
             \/ Expire
             \/ UNCHANGED vars
      PROVE  Flags'
  BY <1>6 DEF Forget, SetActive, Expire, Flags, row, history, vars
<1> QED
  BY <1>2, <1>3, <1>4, <1>5, <1>6 DEF Next, Step

\* Every column, cookie and request names tokens that were signed.
THEOREM TypeCorrect == Spec => []TypeOK
<1>1. Init => SessionInv /\ Flags
  <2> SUFFICES ASSUME Init PROVE SessionInv /\ Flags
    OBVIOUS
  <2>1. active \in BOOLEAN /\ crossed \in BOOLEAN
    BY Zenon DEF Init
  <2>2. signed <= MaxTokens /\ past \subseteq Event
    BY NoPlanTyped DEF Init
  <2> QED
    BY <2>1, <2>2, SessionInitInv DEF Flags
<1>2. SessionInv /\ Flags /\ [Next]_vars => (SessionInv /\ Flags)'
  BY SessionNextInv, FlagsNext
<1>3. SessionInv /\ Flags => TypeOK
  <2> SUFFICES ASSUME SessionInv, Flags PROVE TypeOK
    OBVIOUS
  <2>1. signed \in 0..MaxTokens /\ expired \in Numbers /\ ended \in Numbers
    BY NoPlanTyped DEF SessionInv, Typed, Counted, Flags, Numbers
  <2>2. slot \in [Column -> Numbers] /\ cookie \in [Browsers -> Numbers]
    BY DEF SessionInv, Typed, Counted, Numbers
  <2> QED
    BY <2>1, <2>2 DEF SessionInv, Typed, Flags, TypeOK
<1> QED
  BY <1>1, <1>2, <1>3, PTL DEF Spec

\* After a sign-out (auth.service.ts logout, changePassword) no token of before it is accepted,
\* for any number of browsers, requests and tokens, unless a request crossed it.
THEOREM SignOutIsFinal == Spec => []SignedOutStaysOut
<1>1. Init => SessionInv
  BY SessionInitInv
<1>2. SessionInv /\ [Next]_vars => SessionInv'
  BY SessionNextInv
<1>3. SessionInv => SignedOutStaysOut
  BY DEF SessionInv, Newer, SignedOutStaysOut
<1> QED
  BY <1>1, <1>2, <1>3, PTL DEF Spec

\* The session in column i.
Session(i) == <<holder[i], slot[i]>>

LEMMA AcceptedIs ==
  /\ \A s : s \in Accepted <=> \E i \in Column : Live(i) /\ s = Session(i)
  /\ \A s : s \in Accepted' <=> \E i \in Column : Live(i)' /\ s = Session(i)'
  BY DEF Accepted, Session

LEMMA SameAccepted ==
  ASSUME slot' = slot, holder' = holder, expired' = expired PROVE UNCHANGED Accepted
  BY DEF Accepted, Live

\* What the table of two sessions has to say of a token that is written.
LEMMA WriteTable ==
  ASSUME SessionInv, ~Overlapped, NEW r \in Requests, WriteToken(r)
  PROVE  Table!Next \/ UNCHANGED Accepted
<1> PICK p : p = plan[r]
  OBVIOUS
<1> PICK c : c = p.column
  OBVIOUS
<1> PICK o : o = 3 - c
  OBVIOUS
<1>1. p \in Plan /\ InFlight(r) /\ p.step = "write" /\ p.op # "signout"
  BY DEF SessionInv, Typed, WriteToken, InFlight
<1>2. c \in Column /\ o \in Column /\ c # o /\ Column = {c, o}
  BY <1>1 DEF Plan, Column
<1>3. Fits(r) /\ Apart
  BY <1>1 DEF SessionInv, Turns
<1>4. /\ p.token \in Nat /\ p.token > 0 /\ p.token \in 1..MaxTokens
      /\ p.browser \in Browsers
      /\ slot[c] < p.token /\ slot[o] < p.token
      /\ slot[c] \in Nat /\ slot[o] \in Nat /\ expired \in Nat
  BY <1>1, <1>2, <1>3, NoPlanTyped DEF Fits, SessionInv, Typed, Plan
<1>5. /\ slot'[c] = p.token /\ holder'[c] = p.browser
      /\ slot'[o] = slot[o] /\ holder'[o] = holder[o] /\ expired' = expired
  BY <1>2 DEF WriteToken, SessionInv, Typed
<1>6. /\ Live(o)' <=> Live(o)
      /\ Session(o)' = Session(o)
      /\ Live(c)' <=> p.token > expired
      /\ Session(c)' = <<p.browser, p.token>>
  BY <1>5 DEF Live, Session
<1>7. CASE p.token <= expired
  <2>1. ~Live(c) /\ ~Live(o) /\ ~Live(c)' /\ ~Live(o)'
    BY <1>4, <1>6, <1>7 DEF Live
  <2>2. \A s : s \notin Accepted /\ s \notin Accepted'
    BY <1>2, <2>1, AcceptedIs
  <2> QED
    BY <2>2
<1>8. CASE ~(p.token <= expired)
  <2> DEFINE new == <<p.browser, p.token>>
             O == {s \in {Session(o)} : Live(o)}
  <2>1. Accepted' = {new} \union O
    <3>1. Live(c)' /\ Session(c)' = new
      BY <1>4, <1>6, <1>8
    <3>2. \A s : s \in Accepted' <=> s = new \/ (Live(o) /\ s = Session(o))
      BY <1>2, <1>6, <3>1, AcceptedIs
    <3> QED
      BY <3>2
  <2>2. \A s \in Accepted : s[2] < p.token
    BY <1>2, <1>4, AcceptedIs DEF Session
  <2>3. Table!Newer(p.token)
    BY <2>2 DEF Table!Newer
  <2>4. CASE ~Live(c)
    <3>1. \A s : s \in Accepted <=> Live(o) /\ s = Session(o)
      BY <1>2, <2>4, AcceptedIs
    <3>2. Accepted = O /\ \A s, t \in Accepted : s = t
      BY <3>1
    <3>3. Table!SignIn
      BY <1>4, <2>1, <2>3, <3>2 DEF Table!SignIn
    <3> QED
      BY <3>3 DEF Table!Next
  <2>5. CASE Live(c) /\ p.op = "refresh"
    <3>1. holder[c] = p.browser
      BY <1>1, <1>3, <2>5 DEF Fits
    <3>2. Session(c) # Session(o) \/ ~Live(o)
      BY <1>2, <1>3, <2>5, <1>4 DEF Apart, Column, Session, Live, None
    <3>3. \A s : s \in Accepted <=> s = Session(c) \/ (Live(o) /\ s = Session(o))
      BY <1>2, <2>5, AcceptedIs
    <3>4. Accepted \ {Session(c)} = O
      BY <3>2, <3>3
    <3>5. Session(c) \in Accepted /\ Session(c)[1] = p.browser
      BY <3>1, <3>3 DEF Session
    <3>6. Accepted' = {<<Session(c)[1], p.token>>} \union (Accepted \ {Session(c)})
      BY <2>1, <3>4, <3>5
    <3>7. Table!Renew
      BY <1>4, <2>3, <3>5, <3>6 DEF Table!Renew
    <3> QED
      BY <3>7 DEF Table!Next
  <2>6. CASE Live(c) /\ p.op = "signin"
    <3>1. slot[c] < slot[o]
      BY <1>1, <1>3, <2>6 DEF Fits
    <3>2. Live(o)
      BY <1>4, <2>6, <3>1 DEF Live
    <3>3. \A s : s \in Accepted <=> s = Session(c) \/ s = Session(o)
      BY <1>2, <2>6, <3>2, AcceptedIs
    <3>4. /\ Session(c)[2] = slot[c] /\ Session(o)[2] = slot[o]
      BY DEF Session
    <3>5. Session(c) # Session(o)
      BY <1>4, <3>1, <3>4
    <3>6. \A s : s \in Table!Youngest <=> s = Session(o)
      BY <1>4, <3>1, <3>3, <3>4 DEF Table!Youngest
    <3>7. Table!Youngest = O
      BY <3>2, <3>6
    <3>8. ~(\A s, t \in Accepted : s = t)
      BY <3>3, <3>5
    <3>9. Table!SignIn
      BY <1>4, <2>1, <2>3, <3>7, <3>8 DEF Table!SignIn
    <3> QED
      BY <3>9 DEF Table!Next
  <2> QED
    BY <1>1, <2>4, <2>5, <2>6 DEF Plan
<1> QED
  BY <1>7, <1>8

LEMMA ClearTable == ASSUME NEW r \in Requests, SessionInv, Clear(r) PROVE Table!Next
<1>1. \A i \in Column : ~Live(i)'
  BY DEF Clear, Live, None, SessionInv, Typed
<1>2. \A s : s \notin Accepted'
  BY <1>1, AcceptedIs
<1>3. Table!SignOut
  BY <1>2 DEF Table!SignOut
<1> QED
  BY <1>3 DEF Table!Next

LEMMA ExpireTable == ASSUME SessionInv, Expire PROVE Table!Next \/ UNCHANGED Accepted
<1>1. slot' = slot /\ holder' = holder /\ expired' = expired + 1
  BY DEF Expire, row, history
<1>2. \A i \in Column : slot[i] \in Nat /\ expired \in Nat /\ Session(i)[2] = slot[i]
  BY DEF SessionInv, Typed, Session
<1>3. \A i \in Column : Session(i)' = Session(i)
  BY <1>1 DEF Session
<1>4. \A i \in Column : Live(i)' <=> slot[i] > expired + 1
  BY <1>1 DEF Live
<1>5. \A i \in Column : Live(i) <=> slot[i] > expired
  BY DEF Live
<1>6. CASE \E i \in Column : slot[i] = expired + 1
  <2>1. PICK i \in Column : slot[i] = expired + 1
    BY <1>6
  <2>2. Live(i)
    BY <1>2, <1>5, <2>1
  <2>3. Session(i) \in Accepted
    BY <2>2, AcceptedIs
  <2>4. \A j \in Column : Live(j)' <=> Live(j) /\ Session(j)[2] > Session(i)[2]
    BY <1>2, <1>4, <1>5, <2>1
  <2>5. \A s : s \in Accepted' <=> s \in Accepted /\ s[2] > Session(i)[2]
    BY <1>3, <2>4, AcceptedIs
  <2>6. Accepted' = {t \in Accepted : t[2] > Session(i)[2]}
    BY <2>5
  <2>7. Table!Expire
    BY <2>3, <2>6 DEF Table!Expire
  <2> QED
    BY <2>7 DEF Table!Next
<1>7. CASE ~ \E i \in Column : slot[i] = expired + 1
  <2>1. \A i \in Column : Live(i)' <=> Live(i)
    BY <1>2, <1>7, <1>4, <1>5
  <2>2. \A s : s \in Accepted' <=> s \in Accepted
    BY <1>3, <2>1, AcceptedIs
  <2> QED
    BY <2>2
<1> QED
  BY <1>6, <1>7

LEMMA TableStep ==
  ASSUME SessionInv, [Next]_vars PROVE ~Overlapped' => Table!Next \/ UNCHANGED Accepted
<1>1. ASSUME NEW r \in Requests, WriteToken(r), ~Overlapped'
      PROVE  Table!Next \/ UNCHANGED Accepted
  <2>1. ~Overlapped
    BY <1>1 DEF WriteToken, Overlapped
  <2> QED
    BY <1>1, <2>1, WriteTable
<1>2. ASSUME NEW r \in Requests, Clear(r) PROVE Table!Next
  BY <1>2, ClearTable
<1>3. ASSUME NEW r \in Requests, Step(r), ~WriteToken(r), ~Clear(r) PROVE UNCHANGED Accepted
  <2>1. slot' = slot /\ holder' = holder /\ expired' = expired
    BY <1>3 DEF Step, BeginSignIn, BeginRefresh, BeginSignOut, Begin, Sign, Answer, Stop, row,
                history
  <2> QED
    BY <2>1, SameAccepted
<1>4. ASSUME NEW b \in Browsers, Forget(b) PROVE UNCHANGED Accepted
  BY <1>4, SameAccepted DEF Forget, row, history
<1>5. ASSUME NEW b \in BOOLEAN, SetActive(b) PROVE UNCHANGED Accepted
  BY <1>5, SameAccepted DEF SetActive, history
<1>6. ASSUME UNCHANGED vars PROVE UNCHANGED Accepted
  BY <1>6, SameAccepted DEF vars, row, history
<1> QED
  BY <1>1, <1>2, <1>3, <1>4, <1>5, <1>6, ExpireTable DEF Next

\* The two columns (auth.service.ts pickRefreshSlot, refresh) implement a table of two
\* sessions until requests overlap, for any number of browsers and tokens.
THEOREM ColumnsAreTable == Spec => KeepsTable
<1>1. Init => SessionInv /\ Table!Init
  <2>1. Init => \A i \in Column : ~Live(i)
    BY DEF Init, Live, None
  <2>2. Init => Accepted = {}
    BY <2>1 DEF Accepted
  <2> QED
    BY <2>2, SessionInitInv DEF Table!Init
<1>2. SessionInv /\ [Next]_vars => SessionInv'
  BY SessionNextInv
<1>3. SessionInv /\ [Next]_vars => [~Overlapped' => Table!Next \/ UNCHANGED Accepted]_vars
  BY TableStep
<1> QED
  BY <1>1, <1>2, <1>3, PTL DEF Spec, KeepsTable

\* The token in the cookie of browser b is over, accepted, or being replaced.
KeptCookie(b) ==
  \/ cookie[b] <= expired \/ cookie[b] <= ended
  \/ \E i \in Column : slot[i] = cookie[b]
  \/ \E r \in Requests :
       plan[r].step = "answer" /\ plan[r].op # "signout" /\ plan[r].browser = b

\* A sign-in takes a free column, and a new token is there until it is answered.
KeptPlan(r) ==
  /\ plan[r].op = "signin" /\ plan[r].step = "write" => ~Live(plan[r].column)
  /\ plan[r].op # "signout" /\ plan[r].step = "answer" =>
       \/ plan[r].token <= expired \/ plan[r].token <= ended
       \/ \E i \in Column : slot[i] = plan[r].token

Kept ==
  past = {} => (\A b \in Browsers : KeptCookie(b)) /\ (\A r \in Requests : KeptPlan(r))

LEMMA KeptInit == ASSUME Init PROVE Kept
  BY NoPlanTyped DEF Init, Kept, KeptCookie, KeptPlan, None

LEMMA KeptIsSignedIn == SessionInv /\ Kept => BrowsersStaySignedIn
  BY DEF Kept, KeptCookie, BrowsersStaySignedIn, InFlight

LEMMA KeptBegin ==
  ASSUME SessionInv, Kept, NEW r \in Requests, NEW p, p.step # "answer",
         p.step = "write" => p.op = "signout", Begin(r, p)
  PROVE  Kept'
<1>1. ASSUME past' = {} PROVE past = {} /\ \A q \in Requests : ~InFlight(q)
  BY <1>1 DEF Begin
<1>2. plan'[r] = p /\ \A q \in Requests \ {r} : plan'[q] = plan[q]
  BY DEF Begin, SessionInv, Typed
<1>3. slot' = slot /\ expired' = expired /\ cookie' = cookie /\ ended' = ended
  BY DEF Begin, row
<1>4. ASSUME past' = {}, NEW b \in Browsers PROVE KeptCookie(b)'
  BY <1>1, <1>3, <1>4 DEF Kept, KeptCookie, InFlight
<1>5. ASSUME past' = {}, NEW q \in Requests PROVE KeptPlan(q)'
  BY <1>1, <1>2, <1>3, <1>5 DEF Kept, KeptPlan, Live
<1> QED
  BY <1>4, <1>5 DEF Kept

LEMMA KeptSign ==
  ASSUME SessionInv, Kept, NEW r \in Requests, Sign(r)
  PROVE  Kept'
<1> DEFINE n == [plan[r] EXCEPT !.step = "write", !.token = signed + 1,
                   !.column = IF plan[r].op = "signin" THEN PickRefreshSlot ELSE plan[r].column]
<1>1. plan[r] \in Plan /\ plan[r].step = "sign"
  BY DEF SessionInv, Typed, Sign
<1>2. /\ n.step = "write" /\ n.op = plan[r].op
      /\ n.column = IF plan[r].op = "signin" THEN PickRefreshSlot ELSE plan[r].column
  BY <1>1 DEF Plan
<1>3. plan' = [plan EXCEPT ![r] = n]
  BY DEF Sign
<1> HIDE DEF n
<1>4. plan'[r] = n /\ \A q \in Requests \ {r} : plan'[q] = plan[q]
  BY <1>3 DEF SessionInv, Typed
<1>5. slot' = slot /\ expired' = expired /\ cookie' = cookie /\ ended' = ended
  BY DEF Sign, row
<1>6. ASSUME past' = {} PROVE past = {} /\ ~(plan[r].op = "signin" /\ Live(1) /\ Live(2))
  BY <1>6 DEF Sign, Note, Overlapped
<1>7. ASSUME past' = {}, NEW b \in Browsers PROVE KeptCookie(b)'
  BY <1>1, <1>4, <1>5, <1>6, <1>7 DEF Kept, KeptCookie
<1>8. ASSUME past' = {}, NEW q \in Requests PROVE KeptPlan(q)'
  <2>1. CASE q = r
    <3>1. n.op = "signin" => ~Live(n.column)
      BY <1>2, <1>6, <1>8 DEF PickRefreshSlot
    <3> QED
      BY <1>2, <1>4, <1>5, <2>1, <3>1 DEF KeptPlan, Live
  <2>2. CASE q # r
    BY <1>4, <1>5, <1>6, <1>8, <2>2 DEF Kept, KeptPlan, Live
  <2> QED
    BY <2>1, <2>2
<1> QED
  BY <1>7, <1>8 DEF Kept

LEMMA KeptWrite ==
  ASSUME SessionInv, Kept, NEW r \in Requests, WriteToken(r)
  PROVE  Kept'
<1> PICK p : p = plan[r]
  OBVIOUS
<1> DEFINE n == [plan[r] EXCEPT !.step = "answer"]
<1>1. p \in Plan /\ InFlight(r) /\ p.step = "write" /\ p.op # "signout"
  BY DEF SessionInv, Typed, WriteToken, InFlight
<1>2. n.step = "answer" /\ n.op = p.op /\ n.browser = p.browser /\ n.token = p.token
  BY <1>1 DEF Plan
<1>3. plan' = [plan EXCEPT ![r] = n]
  BY DEF WriteToken
<1> HIDE DEF n
<1>4. plan'[r] = n /\ \A q \in Requests \ {r} : plan'[q] = plan[q]
  BY <1>3 DEF SessionInv, Typed
<1>5. /\ slot' = [slot EXCEPT ![p.column] = p.token] /\ p.column \in Column
      /\ expired' = expired /\ cookie' = cookie /\ ended' = ended /\ past' = past
  BY <1>1 DEF WriteToken, Plan
<1>6. ASSUME past = {} PROVE /\ Fits(r) /\ Apart
                             /\ \A q \in Requests : InFlight(q) => q = r
  BY <1>1, <1>6 DEF SessionInv, Turns, OneInFlight, Overlapped
<1>7. slot'[p.column] = p.token /\ \A i \in Column \ {p.column} : slot'[i] = slot[i]
  BY <1>5 DEF SessionInv, Typed
<1>8. ASSUME past = {}, NEW b \in Browsers PROVE KeptCookie(b)'
  <2>1. CASE b = p.browser
    BY <1>1, <1>2, <1>4, <2>1 DEF KeptCookie
  <2>2. CASE b # p.browser
    <3>1. \/ cookie[b] <= expired \/ cookie[b] <= ended
          \/ \E i \in Column : slot[i] = cookie[b]
      BY <1>1, <1>6, <1>8 DEF Kept, KeptCookie, InFlight
    <3>2. CASE cookie[b] <= expired \/ cookie[b] <= ended
      BY <1>5, <3>2 DEF KeptCookie
    <3>3. CASE \E i \in Column : slot[i] = cookie[b]
      <4>1. PICK i \in Column : slot[i] = cookie[b]
        BY <3>3
      <4>2. CASE i # p.column
        BY <1>5, <1>7, <4>1, <4>2 DEF KeptCookie
      <4>3. CASE i = p.column
        <5>1. CASE Live(i)
          <6>1. slot[i] # None
            BY <5>1 DEF Live, None, SessionInv, Typed
          <6>2. holder[i] = b
            BY <1>6, <1>8, <4>1, <6>1 DEF Apart
          <6>3. p.op = "refresh"
            BY <1>1, <1>8, <4>3, <5>1 DEF Kept, KeptPlan, Plan
          <6>4. holder[i] = p.browser
            BY <1>1, <1>6, <1>8, <4>3, <5>1, <6>3 DEF Fits
          <6> QED
            BY <2>2, <6>2, <6>4
        <5>2. CASE ~Live(i)
          <6>1. cookie[b] <= expired
            BY <4>1, <5>2 DEF Live, SessionInv, Typed
          <6> QED
            BY <1>5, <6>1 DEF KeptCookie
        <5> QED
          BY <5>1, <5>2
      <4> QED
        BY <4>2, <4>3
    <3> QED
      BY <3>1, <3>2, <3>3
  <2> QED
    BY <2>1, <2>2
<1>9. ASSUME past = {}, NEW q \in Requests PROVE KeptPlan(q)'
  <2>1. CASE q = r
    BY <1>2, <1>4, <1>5, <1>7, <2>1 DEF KeptPlan
  <2>2. CASE q # r
    <3>1. plan'[q].step = "idle"
      BY <1>4, <1>6, <1>9, <2>2 DEF InFlight
    <3> QED
      BY <3>1 DEF KeptPlan
  <2> QED
    BY <2>1, <2>2
<1> QED
  BY <1>5, <1>8, <1>9 DEF Kept

LEMMA KeptClear ==
  ASSUME SessionInv, Kept, NEW r \in Requests, Clear(r)
  PROVE  Kept'
<1>1. /\ slot' = [i \in Column |-> None] /\ ended' = signed /\ cookie' = cookie
      /\ past' = past /\ expired' = expired
      /\ plan' = [plan EXCEPT ![r] = [plan[r] EXCEPT !.step = "answer"]]
  BY DEF Clear
<1>2. plan[r] \in Plan /\ plan[r].op = "signout" /\ plan[r].step = "write" /\ InFlight(r)
  BY DEF Clear, SessionInv, Typed, InFlight
<1>3. plan'[r].op = "signout"
  BY <1>1, <1>2 DEF SessionInv, Typed, Plan
<1>4. \A q \in Requests \ {r} : plan'[q] = plan[q]
  BY <1>1 DEF SessionInv, Typed
<1>5. \A b \in Browsers : KeptCookie(b)'
  BY <1>1 DEF KeptCookie, SessionInv, Counted
<1>6. ASSUME past = {}, NEW q \in Requests PROVE KeptPlan(q)'
  <2>1. CASE q = r
    BY <1>3, <2>1 DEF KeptPlan
  <2>2. CASE q # r
    <3>1. plan'[q].step = "idle"
      BY <1>2, <1>4, <1>6, <2>2 DEF InFlight, SessionInv, Turns, OneInFlight, Overlapped
    <3> QED
      BY <3>1 DEF KeptPlan
  <2> QED
    BY <2>1, <2>2
<1> QED
  BY <1>1, <1>5, <1>6 DEF Kept

LEMMA KeptAnswer ==
  ASSUME SessionInv, Kept, NEW r \in Requests, Answer(r)
  PROVE  Kept'
<1> PICK p : p = plan[r]
  OBVIOUS
<1> PICK c : c = IF p.op = "signout" THEN None ELSE p.token
  OBVIOUS
<1>1. /\ slot' = slot /\ ended' = ended /\ past' = past /\ expired' = expired
      /\ cookie' = [cookie EXCEPT ![p.browser] = c]
      /\ plan' = [plan EXCEPT ![r] = NoPlan]
  BY DEF Answer, row, history
<1>2. p \in Plan /\ p.step = "answer"
  BY DEF Answer, SessionInv, Typed
<1>3. plan'[r] = NoPlan /\ \A q \in Requests \ {r} : plan'[q] = plan[q]
  BY <1>1 DEF SessionInv, Typed
<1>4. ASSUME past = {}, NEW b \in Browsers PROVE KeptCookie(b)'
  <2>1. CASE b = p.browser
    <3>1. cookie'[b] = c
      BY <1>1, <2>1 DEF SessionInv, Typed
    <3>2. c <= expired \/ c <= ended \/ \E i \in Column : slot[i] = c
      BY <1>2, <1>4 DEF Kept, KeptPlan, None, SessionInv, Typed
    <3> QED
      BY <1>1, <3>1, <3>2 DEF KeptCookie
  <2>2. CASE b # p.browser
    <3>1. cookie'[b] = cookie[b]
      BY <1>1, <2>2 DEF SessionInv, Typed
    <3>2. KeptCookie(b)
      BY <1>4 DEF Kept
    <3> QED
      BY <1>1, <1>3, <2>2, <3>1, <3>2 DEF KeptCookie
  <2> QED
    BY <2>1, <2>2
<1>5. ASSUME past = {}, NEW q \in Requests PROVE KeptPlan(q)'
  BY <1>1, <1>3, <1>5, NoPlanTyped DEF Kept, KeptPlan, Live
<1> QED
  BY <1>1, <1>4, <1>5 DEF Kept

LEMMA KeptStop ==
  ASSUME SessionInv, Kept, NEW r \in Requests, Stop(r)
  PROVE  Kept'
<1>1. /\ slot' = slot /\ ended' = ended /\ expired' = expired /\ cookie' = cookie
      /\ plan' = [plan EXCEPT ![r] = NoPlan]
  BY DEF Stop, row
<1>2. ASSUME past' = {} PROVE past = {} /\ ~(plan[r].step = "answer" /\ plan[r].op # "signout")
  BY <1>2 DEF Stop, Note, Overlapped
<1>3. plan'[r] = NoPlan /\ \A q \in Requests \ {r} : plan'[q] = plan[q]
  BY <1>1 DEF SessionInv, Typed
<1>4. ASSUME past' = {}, NEW b \in Browsers PROVE KeptCookie(b)'
  BY <1>1, <1>2, <1>3, <1>4 DEF Kept, KeptCookie
<1>5. ASSUME past' = {}, NEW q \in Requests PROVE KeptPlan(q)'
  BY <1>1, <1>2, <1>3, <1>5, NoPlanTyped DEF Kept, KeptPlan, Live
<1> QED
  BY <1>4, <1>5 DEF Kept

\* Tokens run out and cookies go; nothing else changes.
LEMMA KeptWhile ==
  ASSUME SessionInv, Kept, slot' = slot, ended' = ended, plan' = plan, past' = past,
         expired' \in {expired, expired + 1},
         cookie' \in [Browsers -> Nat], \A b \in Browsers : cookie'[b] \in {cookie[b], 0}
  PROVE  Kept'
<1>1. expired \in Nat /\ expired' \in Nat /\ expired <= expired'
  BY DEF SessionInv, Typed
<1>2. ASSUME past = {}, NEW b \in Browsers PROVE KeptCookie(b)'
  <2>1. CASE cookie'[b] = cookie[b]
    BY <1>1, <1>2, <2>1 DEF Kept, KeptCookie, SessionInv, Typed
  <2>2. CASE cookie'[b] = 0
    BY <1>1, <2>2 DEF KeptCookie
  <2> QED
    BY <2>1, <2>2
<1>3. ASSUME past = {}, NEW q \in Requests PROVE KeptPlan(q)'
  <2>1. plan[q].token \in Nat /\ plan[q].column \in Column
    BY NoPlanTyped DEF SessionInv, Typed, Plan
  <2>2. Live(plan[q].column)' => Live(plan[q].column)
    BY <1>1, <2>1 DEF Live, SessionInv, Typed
  <2> QED
    BY <1>1, <1>3, <2>1, <2>2 DEF Kept, KeptPlan
<1> QED
  BY <1>2, <1>3 DEF Kept

LEMMA KeptNext == ASSUME SessionInv, Kept, [Next]_vars PROVE Kept'
<1>1. ASSUME NEW r \in Requests, NEW b \in Browsers, BeginSignIn(r, b) PROVE Kept'
  <2> DEFINE n == [NoPlan EXCEPT !.step = "sign", !.browser = b]
  <2>1. n.step = "sign"
    BY NoPlanTyped DEF Plan
  <2>2. Begin(r, n)
    BY <1>1 DEF BeginSignIn
  <2> HIDE DEF n
  <2> QED
    BY <2>1, <2>2, KeptBegin
<1>2. ASSUME NEW r \in Requests, NEW b \in Browsers, BeginRefresh(r, b) PROVE Kept'
  <2> PICK i \in Column :
        Begin(r, [NoPlan EXCEPT !.step = "sign", !.op = "refresh", !.browser = b, !.column = i])
    BY <1>2 DEF BeginRefresh
  <2> DEFINE n == [NoPlan EXCEPT !.step = "sign", !.op = "refresh", !.browser = b, !.column = i]
  <2>1. n.step = "sign"
    BY NoPlanTyped DEF Plan
  <2>2. Begin(r, n)
    OBVIOUS
  <2> HIDE DEF n
  <2> QED
    BY <2>1, <2>2, KeptBegin
<1>3. ASSUME NEW r \in Requests, NEW b \in Browsers, BeginSignOut(r, b) PROVE Kept'
  <2> DEFINE n == [NoPlan EXCEPT !.step = "write", !.op = "signout", !.browser = b]
  <2>1. n.step = "write" /\ n.op = "signout"
    BY NoPlanTyped DEF Plan
  <2>2. Begin(r, n)
    BY <1>3 DEF BeginSignOut
  <2> HIDE DEF n
  <2> QED
    BY <2>1, <2>2, KeptBegin
<1>4. ASSUME Expire PROVE Kept'
  BY <1>4, KeptWhile DEF Expire, row, history, SessionInv, Typed
<1>5. ASSUME NEW b \in Browsers, Forget(b) PROVE Kept'
  <2>1. cookie' = [cookie EXCEPT ![b] = 0]
    BY <1>5 DEF Forget, None
  <2>2. cookie' \in [Browsers -> Nat] /\ \A c \in Browsers : cookie'[c] \in {cookie[c], 0}
    BY <2>1 DEF SessionInv, Typed
  <2> QED
    BY <1>5, <2>2, KeptWhile DEF Forget, row, history
<1>6. ASSUME NEW b \in BOOLEAN, SetActive(b) PROVE Kept'
  BY <1>6, KeptWhile DEF SetActive, history, SessionInv, Typed
<1>7. ASSUME UNCHANGED vars PROVE Kept'
  BY <1>7, KeptWhile DEF vars, row, history, SessionInv, Typed
<1> QED
  BY <1>1, <1>2, <1>3, <1>4, <1>5, <1>6, <1>7, KeptSign, KeptWrite, KeptClear, KeptAnswer, KeptStop
     DEF Next, Step

\* A desktop and a phone do not sign each other out (auth.service.ts pickRefreshSlot, refresh):
\* while requests take turns and every new token is answered, a browser stays signed in until
\* its token expires, the user signs out, or a third sign-in comes.
THEOREM NobodyIsSignedOut == Spec => []BrowsersStaySignedIn
<1>1. Init => SessionInv /\ Kept
  BY SessionInitInv, KeptInit
<1>2. SessionInv /\ Kept /\ [Next]_vars => SessionInv' /\ Kept'
  BY SessionNextInv, KeptNext
<1> QED
  BY <1>1, <1>2, KeptIsSignedIn, PTL DEF Spec

=============================================================================
