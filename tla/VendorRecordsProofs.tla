------------------------ MODULE VendorRecordsProofs ------------------------
(***************************************************************************)
(* Proofs about Administrators, and about VendorRecords, which is built on *)
(* it, for any number of requests, logins and accounts: the workspace      *)
(* keeps its Super Admin, alone and beside the vendor's requests, and      *)
(* maker and checker differ while requests take turns and the log is       *)
(* complete.                                                               *)
(***************************************************************************)
EXTENDS VendorRecords, TLAPS

-----------------------------------------------------------------------------
(* The administration of logins, whatever is done beside it.               *)

\* There is a Super Admin, at most one update on its way takes something away, and a Super
\* Admin is left when it has.
Left ==
  /\ \E u \in Users : SuperAdmin(u)
  /\ \A q, r \in Requests : TakesAway(edit[q]) /\ TakesAway(edit[r]) => q = r
  /\ \A r \in Requests :
       TakesAway(edit[r]) => \E v \in Users \ {edit[r].user} : SuperAdmin(v)

AdminInv == AdminTypeOK /\ (~crossed => Left)

LEMMA NoEditTakes == NoEdit \in Edit /\ ~TakesAway(NoEdit)
  BY DEF NoEdit, Edit, TakesAway

LEMMA AdminInitInv == AdminInit => AdminInv
<1> SUFFICES ASSUME AdminInit PROVE AdminInv
  OBVIOUS
<1>1. crossed \in BOOLEAN
  BY DEF AdminInit
<1>2. AdminTypeOK
  BY <1>1, NoEditTakes DEF AdminInit, AdminTypeOK
<1>3. Left
  BY NoEditTakes DEF AdminInit, Left
<1> QED
  BY <1>2, <1>3 DEF AdminInv

\* The update that comes in is a well-typed one.
LEMMA EditTyped ==
  ASSUME RoleConstants, NEW u \in Users, NEW d \in Updates
  PROVE  /\ [user |-> u, role |-> d.role, active |-> d.active] \in Edit
         /\ [user |-> u, role |-> d.role, active |-> d.active].user \in Users
<1>1. d \in [role : Roles \union {"keep"}, active : {"keep", "on", "off"}]
  BY DEF RoleConstants
<1> QED
  BY <1>1 DEF Edit

\* If an update that takes something away is let in, a Super Admin other than its login is
\* there: the check says so for one who is Super Admin, and anybody else is not the one
\* who is left.
LEMMA OtherLeft ==
  ASSUME NEW p \in Edit, TakesAway(p),
         AdminTypeOK,
         \E u \in Users : SuperAdmin(u),
         Demotes(p) => \E v \in Users \ {p.user} : SuperAdmin(v)
  PROVE  \E v \in Users \ {p.user} : SuperAdmin(v)
<1>1. CASE Demotes(p)
  BY <1>1
<1>2. CASE ~Demotes(p)
  <2>1. ~SuperAdmin(p.user)
    BY <1>2 DEF Demotes, SuperAdmin, TakesAway, Edit
  <2> QED
    BY <2>1
<1> QED
  BY <1>1, <1>2

LEMMA BeginInv ==
  ASSUME AdminInv, NEW r \in Requests, NEW a \in Users, NEW p \in Edit,
         BeginUserUpdate(r, a, p)
  PROVE  AdminInv'
<1>1. crossed' \in BOOLEAN /\ (crossed' = (crossed \/ (TakesAway(p) /\ \E q \in Requests : TakesAway(edit[q]))))
  BY DEF AdminInv, AdminTypeOK, BeginUserUpdate
<1>2. edit' = [edit EXCEPT ![r] = p] /\ role' = role /\ active' = active
  BY DEF BeginUserUpdate, logins
<1>3. AdminTypeOK'
  BY <1>1, <1>2 DEF AdminInv, AdminTypeOK
<1>4. ASSUME ~crossed' PROVE Left'
  <2>1. ~crossed /\ (TakesAway(p) => \A q \in Requests : ~TakesAway(edit[q]))
    BY <1>1, <1>4
  <2>2. \A u \in Users : SuperAdmin(u)' = SuperAdmin(u)
    BY <1>2 DEF SuperAdmin
  <2>3. \E u \in Users : SuperAdmin(u)
    BY <2>1 DEF AdminInv, Left
  <2>4. edit'[r] = p /\ \A q \in Requests \ {r} : edit'[q] = edit[q]
    BY <1>2 DEF AdminInv, AdminTypeOK
  <2>5. TakesAway(p) => \E v \in Users \ {p.user} : SuperAdmin(v)
    BY <2>3, OtherLeft DEF AdminInv, BeginUserUpdate
  <2>6. ASSUME NEW q \in Requests, NEW s \in Requests, TakesAway(edit'[q]), TakesAway(edit'[s])
        PROVE  q = s
    BY <2>1, <2>4, <2>6 DEF AdminInv, Left
  <2>7. ASSUME NEW q \in Requests, TakesAway(edit'[q])
        PROVE  \E v \in Users \ {edit'[q].user} : SuperAdmin(v)
    <3>1. CASE q = r
      BY <2>4, <2>5, <2>7, <3>1
    <3>2. CASE q # r
      BY <2>1, <2>4, <2>7, <3>2 DEF AdminInv, Left
    <3> QED
      BY <3>1, <3>2
  <2> QED
    BY <2>2, <2>3, <2>6, <2>7 DEF Left
<1> QED
  BY <1>3, <1>4 DEF AdminInv, Left

LEMMA Harmless ==
  ASSUME NEW p \in Edit, ~TakesAway(p)
  PROVE  p.role \in {"keep", "SUPER_ADMIN"} /\ p.active \in {"keep", "on"}
<1>1. p.active \in {"keep", "on", "off"}
  BY DEF Edit
<1> QED
  BY <1>1 DEF TakesAway

\* What stays of Left when the logins that are Super Admins remain so, and the updates on
\* their way are the same, or fewer.
LEMMA LeftStays ==
  ASSUME Left,
         \A u \in Users : SuperAdmin(u) => SuperAdmin(u)',
         \A q \in Requests : edit'[q] \in {edit[q], NoEdit}
  PROVE  Left'
<1>1. \A q \in Requests : TakesAway(edit'[q]) => edit'[q] = edit[q]
  BY NoEditTakes
<1>2. \E u \in Users : SuperAdmin(u)'
  BY DEF Left
<1>3. ASSUME NEW q \in Requests, NEW r \in Requests, TakesAway(edit'[q]), TakesAway(edit'[r])
      PROVE  q = r
  BY <1>1, <1>3 DEF Left
<1>4. ASSUME NEW r \in Requests, TakesAway(edit'[r])
      PROVE  \E v \in Users \ {edit'[r].user} : SuperAdmin(v)'
  <2>1. PICK v \in Users \ {edit[r].user} : SuperAdmin(v)
    BY <1>1, <1>4 DEF Left
  <2> QED
    BY <1>1, <1>4, <2>1
<1> QED
  BY <1>2, <1>3, <1>4 DEF Left

LEMMA WriteInv ==
  ASSUME AdminInv, NEW r \in Requests, WriteUserUpdate(r)
  PROVE  AdminInv'
<1> PICK p : p = edit[r]
  OBVIOUS
<1>0. p \in Edit /\ p.user \in Users
  BY DEF AdminInv, AdminTypeOK, WriteUserUpdate, Editing, Edit
<1>1. /\ role' = [role EXCEPT ![p.user] = IF p.role = "keep" THEN @ ELSE p.role]
      /\ active' = [active EXCEPT ![p.user] = IF p.active = "keep" THEN @ ELSE p.active = "on"]
      /\ edit' = [edit EXCEPT ![r] = NoEdit]
      /\ crossed' = crossed
  BY DEF WriteUserUpdate
<1>2. (IF p.role = "keep" THEN role[p.user] ELSE p.role) \in Roles
  BY <1>0 DEF AdminInv, AdminTypeOK, Edit
<1>3. (IF p.active = "keep" THEN active[p.user] ELSE p.active = "on") \in BOOLEAN
  BY <1>0 DEF AdminInv, AdminTypeOK
<1>4. AdminTypeOK'
  <2>1. role' \in [Users -> Roles]
    BY <1>1, <1>2 DEF AdminInv, AdminTypeOK
  <2>2. active' \in [Users -> BOOLEAN]
    BY <1>1, <1>3 DEF AdminInv, AdminTypeOK
  <2>3. edit' \in [Requests -> Edit]
    BY <1>1, NoEditTakes DEF AdminInv, AdminTypeOK
  <2>4. crossed' \in BOOLEAN
    BY <1>1 DEF AdminInv, AdminTypeOK
  <2> QED
    BY <2>1, <2>2, <2>3, <2>4 DEF AdminTypeOK
<1>5. \A u \in Users \ {p.user} : SuperAdmin(u) => SuperAdmin(u)'
  BY <1>1 DEF AdminInv, AdminTypeOK, SuperAdmin
<1>6. \A q \in Requests : edit'[q] \in {edit[q], NoEdit}
  BY <1>1 DEF AdminInv, AdminTypeOK
<1>7. CASE TakesAway(p)
  <2> SUFFICES ASSUME ~crossed PROVE Left'
    BY <1>1, <1>4 DEF AdminInv
  <2>1. \A q \in Requests : ~TakesAway(edit'[q])
    BY <1>1, <1>7, NoEditTakes DEF AdminInv, AdminTypeOK, Left
  <2>2. PICK v \in Users \ {p.user} : SuperAdmin(v)
    BY <1>7 DEF AdminInv, Left
  <2>3. SuperAdmin(v)'
    BY <1>5, <2>2
  <2> QED
    BY <2>1, <2>2, <2>3 DEF Left
<1>8. CASE ~TakesAway(p)
  <2>1. p.role \in {"keep", "SUPER_ADMIN"} /\ p.active \in {"keep", "on"}
    BY <1>0, <1>8, Harmless
  <2>2. SuperAdmin(p.user) => SuperAdmin(p.user)'
    <3>1. role'[p.user] = IF p.role = "keep" THEN role[p.user] ELSE p.role
      BY <1>0, <1>1 DEF AdminInv, AdminTypeOK
    <3>2. active'[p.user] = IF p.active = "keep" THEN active[p.user] ELSE p.active = "on"
      BY <1>0, <1>1 DEF AdminInv, AdminTypeOK
    <3>3. role[p.user] = "SUPER_ADMIN" => role'[p.user] = "SUPER_ADMIN"
      BY <2>1, <3>1
    <3>4. active[p.user] => active'[p.user]
      <4>1. CASE p.active = "keep"
        BY <3>2, <4>1
      <4>2. CASE p.active = "on"
        BY <3>2, <4>2
      <4> QED
        BY <2>1, <4>1, <4>2
    <3> QED
      BY <3>3, <3>4 DEF SuperAdmin
  <2>3. \A u \in Users : SuperAdmin(u) => SuperAdmin(u)'
    BY <1>5, <2>2
  <2> QED
    BY <1>1, <1>4, <1>6, <2>3, LeftStays DEF AdminInv
<1> QED
  BY <1>7, <1>8

LEMMA StopInv ==
  ASSUME AdminInv, NEW r \in Requests, StopUserUpdate(r)
  PROVE  AdminInv'
<1>1. role' = role /\ active' = active /\ crossed' = crossed /\ edit' = [edit EXCEPT ![r] = NoEdit]
  BY DEF StopUserUpdate, logins
<1>2. AdminTypeOK'
  BY <1>1, NoEditTakes DEF AdminInv, AdminTypeOK
<1>3. \A q \in Requests : edit'[q] \in {edit[q], NoEdit}
  BY <1>1 DEF AdminInv, AdminTypeOK
<1>4. \A u \in Users : SuperAdmin(u) => SuperAdmin(u)'
  BY <1>1 DEF SuperAdmin
<1> QED
  BY <1>1, <1>2, <1>3, <1>4, LeftStays DEF AdminInv

LEMMA OffboardInv ==
  ASSUME AdminInv, NEW u \in Users, OffboardOrReinstate(u)
  PROVE  AdminInv'
<1>1. /\ active' = [active EXCEPT ![u] = ~@]
      /\ role' = role /\ edit' = edit
      /\ crossed' = (crossed \/ SuperAdmin(u))
  BY DEF OffboardOrReinstate
<1>2. AdminTypeOK'
  <2>1. crossed' \in BOOLEAN
    BY <1>1 DEF AdminInv, AdminTypeOK
  <2> QED
    BY <1>1, <2>1 DEF AdminInv, AdminTypeOK
<1>3. ASSUME ~crossed' PROVE Left'
  <2>1. ~crossed /\ ~SuperAdmin(u)
    BY <1>1, <1>3
  <2>2. \A v \in Users : SuperAdmin(v) => SuperAdmin(v)'
    BY <1>1, <2>1 DEF AdminInv, AdminTypeOK, SuperAdmin
  <2>3. \A q \in Requests : edit'[q] \in {edit[q], NoEdit}
    BY <1>1
  <2> QED
    BY <2>1, <2>2, <2>3, LeftStays DEF AdminInv
<1> QED
  BY <1>2, <1>3 DEF AdminInv

LEMMA AdminNextInv == ASSUME AdminInv, AdminNext PROVE AdminInv'
<1>1. ASSUME NEW r \in Requests, NEW a \in Users, NEW u \in Users, NEW d \in Updates,
             BeginUserUpdate(r, a, [user |-> u, role |-> d.role, active |-> d.active])
      PROVE  AdminInv'
  BY <1>1, EditTyped, BeginInv, RoleConstants
<1>2. ASSUME NEW r \in Requests, WriteUserUpdate(r) PROVE AdminInv'
  BY <1>2, WriteInv
<1>3. ASSUME NEW r \in Requests, StopUserUpdate(r) PROVE AdminInv'
  BY <1>3, StopInv
<1>4. ASSUME NEW u \in Users, OffboardOrReinstate(u) PROVE AdminInv'
  BY <1>4, OffboardInv
<1> QED
  BY <1>1, <1>2, <1>3, <1>4 DEF AdminNext, AdminStep

LEMMA AdminStutterInv == ASSUME AdminInv, UNCHANGED adminVars PROVE AdminInv'
  BY DEF AdminInv, AdminTypeOK, Left, SuperAdmin, adminVars, logins

LEMMA InvKeepsOne == AdminInv => SuperAdminRemains
  BY DEF AdminInv, Left, SuperAdminRemains

\* A workspace never loses its last active Super Admin (users.controller.ts update), for any
\* number of logins and of updates in flight, unless two updates that take something away
\* cross or a Super Admin is offboarded.
THEOREM AdministratorsKeepOne == AdminSpec => []SuperAdminRemains
<1>1. AdminInv /\ [AdminNext]_adminVars => AdminInv'
  BY AdminNextInv, AdminStutterInv
<1> QED
  BY <1>1, AdminInitInv, InvKeepsOne, PTL DEF AdminSpec

-----------------------------------------------------------------------------
(* The vendor among these administrators.                                  *)

\* What a request in flight has read is still so, while requests take turns.
Fits(r) ==
  /\ plan[r].actor \in Users
  /\ plan[r].op = "create" =>
       /\ plan[r].step = "log" /\ plan[r].actor = drafter
       /\ status # "none" /\ creator = NoUser /\ "self-activated" \notin past
  /\ plan[r].op = "change" =>
       /\ plan[r].step \in {"write", "log"}
       /\ plan[r].step = "log" => submitter = plan[r].actor
  /\ plan[r].op = "approve" =>
       /\ plan[r].step # "log" /\ pending # NoAccount
       /\ plan[r].step = "check" /\ plan[r].own => submitter = plan[r].actor
       /\ plan[r].step = "write" /\ plan[r].own => "unlogged" \in past
  /\ plan[r].op = "status" =>
       /\ plan[r].step # "log" /\ status # "none"
       /\ plan[r].step = "check" /\ plan[r].own => drafter = plan[r].actor
       /\ plan[r].step = "write" /\ plan[r].own /\ plan[r].status = "active" =>
            status \notin Awaiting \/ creator = NoUser

OneInFlight == \A q, r \in Requests : InFlight(q) /\ InFlight(r) => q = r

\* The log names the maker of the pending details, unless its row is lost or to come.
MakerKnown ==
  pending # NoAccount /\ (\A r \in Requests : ~At(r, "change", "log")) =>
    "unlogged" \in past \/ maker = submitter

\* The log names the creator or nobody.
CreatorKnown ==
  /\ status = "none" => creator = NoUser /\ "self-activated" \notin past
  /\ (\A r \in Requests : ~At(r, "create", "log")) => creator \in {NoUser, drafter}

Calm ==
  /\ OneInFlight
  /\ \A r \in Requests : InFlight(r) => Fits(r)
  /\ MakerKnown
  /\ CreatorKnown
  /\ MakerIsNotChecker

VendorInv ==
  /\ plan \in [Requests -> Plan]
  /\ pending \in Accounts \union {NoAccount}
  /\ Overlapped => past = {"overlapped"}
  /\ ~Overlapped => Calm

LEMMA NoPlanTyped == NoPlan \in Plan /\ NoPlan.step = "idle"
  BY DEF NoPlan, Plan, Status

LEMMA VendorInitInv == ASSUME Init PROVE VendorInv
<1>1. plan = [r \in Requests |-> NoPlan]
  BY DEF Init
<1>2. \A r \in Requests : ~InFlight(r) /\ ~At(r, "change", "log") /\ ~At(r, "create", "log")
  BY <1>1, NoPlanTyped DEF InFlight, At
<1>3. Calm
  BY <1>2 DEF Init, Calm, OneInFlight, MakerKnown, CreatorKnown, MakerIsNotChecker
<1> QED
  BY <1>1, <1>3, NoPlanTyped DEF VendorInv, Init, Overlapped

\* A request that comes in, while requests take turns, is the only one in flight.
LEMMA BeginAlone ==
  ASSUME VendorInv, NEW r \in Requests, NEW u \in Users, NEW p \in Plan,
         p.step # "idle", Begin(r, u, p)
  PROVE  /\ plan' \in [Requests -> Plan]
         /\ Overlapped' => past' = {"overlapped"}
         /\ plan'[r].actor = u /\ plan'[r].step = p.step /\ plan'[r].op = p.op
         /\ plan'[r].own = p.own /\ plan'[r].status = p.status
         /\ ~Overlapped' =>
              /\ Calm /\ past' = past
              /\ \A q \in Requests : ~InFlight(q)
              /\ \A q \in Requests : InFlight(q)' <=> q = r
<1> DEFINE new == [p EXCEPT !.actor = u, !.super = role[u] = "SUPER_ADMIN"]
<1>1. /\ new \in Plan /\ new.actor = u /\ new.step = p.step /\ new.op = p.op
      /\ new.own = p.own /\ new.status = p.status
  BY DEF Plan
<1>2. plan' = [plan EXCEPT ![r] = new]
  BY DEF Begin
<1>3. plan' \in [Requests -> Plan] /\ plan'[r] = new
  BY <1>1, <1>2 DEF VendorInv
<1>4. past' = IF \E q \in Requests : InFlight(q) THEN {"overlapped"} ELSE past
  BY DEF Begin
<1>5. Overlapped' => past' = {"overlapped"}
  BY <1>4 DEF VendorInv, Overlapped
<1>6. ASSUME ~Overlapped'
      PROVE  /\ Calm /\ past' = past
             /\ \A q \in Requests : ~InFlight(q)
  BY <1>4, <1>6 DEF VendorInv, Overlapped
<1>7. ASSUME ~Overlapped', NEW q \in Requests
      PROVE  InFlight(q)' <=> q = r
  <2>1. CASE q = r
    BY <1>1, <1>3, <2>1 DEF InFlight
  <2>2. CASE q # r
    <3>1. plan'[q] = plan[q]
      BY <1>2, <2>2 DEF VendorInv
    <3> QED
      BY <1>6, <1>7, <2>2, <3>1 DEF InFlight
  <2> QED
    BY <2>1, <2>2
<1> QED
  BY <1>1, <1>3, <1>5, <1>6, <1>7

\* A request whose Begin changes nothing but the plans keeps the invariant if its plan fits.
LEMMA BeginKeeps ==
  ASSUME VendorInv, NEW r \in Requests, NEW u \in Users, NEW p \in Plan,
         p.step # "idle", Begin(r, u, p),
         UNCHANGED <<row, log, drafter, submitter>>,
         ~Overlapped' => Fits(r)'
  PROVE  VendorInv'
<1>0. pending' \in Accounts \union {NoAccount}
  BY DEF VendorInv, row
<1>1. /\ plan' \in [Requests -> Plan]
      /\ Overlapped' => past' = {"overlapped"}
  BY BeginAlone
<1>2. ASSUME ~Overlapped' PROVE Calm'
  <2>1. /\ Calm /\ past' = past
        /\ \A q \in Requests : ~InFlight(q)
        /\ \A q \in Requests : InFlight(q)' <=> q = r
    BY <1>2, BeginAlone
  <2>2. /\ status' = status /\ pending' = pending /\ creator' = creator /\ maker' = maker
        /\ drafter' = drafter /\ submitter' = submitter
    BY DEF row, log
  <2>3. \A q \in Requests : ~At(q, "change", "log") /\ ~At(q, "create", "log")
    BY <2>1 DEF At, InFlight
  <2>4. MakerKnown' /\ CreatorKnown' /\ MakerIsNotChecker'
    BY <2>1, <2>2, <2>3 DEF Calm, MakerKnown, CreatorKnown, MakerIsNotChecker
  <2>5. OneInFlight' /\ \A q \in Requests : InFlight(q)' => Fits(q)'
    BY <1>2, <2>1 DEF OneInFlight
  <2> QED
    BY <2>4, <2>5 DEF Calm
<1> QED
  BY <1>0, <1>1, <1>2 DEF VendorInv

LEMMA CreateInv ==
  ASSUME VendorInv, NEW r \in Requests, NEW u \in Users, NEW a \in Accounts \union {NoAccount},
         BeginCreate(r, u, a)
  PROVE  VendorInv'
<1>1. PICK p \in Plan : Begin(r, u, p) /\ p.step = "log" /\ p.op = "create"
  <2>1. /\ [NoPlan EXCEPT !.step = "log"] \in Plan
        /\ [NoPlan EXCEPT !.step = "log"].step = "log" /\ [NoPlan EXCEPT !.step = "log"].op = "create"
    BY DEF NoPlan, Plan, Status
  <2> QED
    BY <2>1 DEF BeginCreate
<1>2. /\ status = "none" /\ status' = "draft" /\ drafter' = u
      /\ pending' = pending /\ creator' = creator /\ maker' = maker /\ submitter' = submitter
  BY DEF BeginCreate, log
<1>3. /\ plan' \in [Requests -> Plan]
      /\ Overlapped' => past' = {"overlapped"}
      /\ plan'[r].actor = u /\ plan'[r].step = p.step /\ plan'[r].op = p.op
  BY <1>1, <1>2, BeginAlone
<1>4. ASSUME ~Overlapped' PROVE Calm'
  <2>1. /\ Calm /\ past' = past
        /\ \A q \in Requests : ~InFlight(q)
        /\ \A q \in Requests : InFlight(q)' <=> q = r
    BY <1>1, <1>2, <1>4, BeginAlone
  <2>2. plan'[r].op = "create" /\ plan'[r].step = "log" /\ plan'[r].actor = u
    BY <1>1, <1>3
  <2>3. creator = NoUser /\ "self-activated" \notin past
    BY <1>2, <2>1 DEF Calm, CreatorKnown
  <2>4. Fits(r)'
    BY <1>2, <2>1, <2>2, <2>3 DEF Fits
  <2>5. \A q \in Requests : ~At(q, "change", "log")
    BY <2>1 DEF At, InFlight
  <2>6. MakerKnown'
    BY <1>2, <2>1, <2>5 DEF Calm, MakerKnown
  <2>7. At(r, "create", "log")'
    BY <2>2 DEF At
  <2>8. CreatorKnown'
    BY <1>2, <2>7 DEF CreatorKnown
  <2>9. MakerIsNotChecker'
    BY <1>2, <2>1 DEF Calm, MakerIsNotChecker
  <2> QED
    BY <2>1, <2>4, <2>6, <2>8, <2>9 DEF Calm, OneInFlight
<1> QED
  BY <1>2, <1>3, <1>4 DEF VendorInv

LEMMA BankChangeInv ==
  ASSUME VendorInv, NEW r \in Requests, NEW u \in Users, NEW a \in Accounts,
         BeginBankChange(r, u, a)
  PROVE  VendorInv'
<1>1. PICK p \in Plan : Begin(r, u, p) /\ p.step = "write" /\ p.op = "change"
  <2> DEFINE n == [NoPlan EXCEPT !.step = "write", !.op = "change", !.account = a]
  <2>1. n \in Plan /\ n.step = "write" /\ n.op = "change"
    BY DEF NoPlan, Plan, Status
  <2>2. Begin(r, u, n)
    BY DEF BeginBankChange
  <2> HIDE DEF n
  <2> QED
    BY <2>1, <2>2
<1>2. UNCHANGED <<row, log, drafter, submitter>>
  BY DEF BeginBankChange
<1>3. plan'[r].op = "change" /\ plan'[r].step = "write" /\ plan'[r].actor = u
  BY <1>1, <1>2, BeginAlone
<1>4. Fits(r)'
  BY <1>3 DEF Fits
<1> QED
  BY <1>1, <1>2, <1>4, BeginKeeps

LEMMA ApproveBankInv ==
  ASSUME VendorInv, NEW r \in Requests, NEW u \in Users, BeginApproveBank(r, u)
  PROVE  VendorInv'
<1> PICK b \in BOOLEAN : b = (submitter = u)
  OBVIOUS
<1>1. PICK p \in Plan : Begin(r, u, p) /\ p.step = "check" /\ p.op = "approve" /\ p.own = b
  <2> DEFINE n == [NoPlan EXCEPT !.step = "check", !.op = "approve", !.account = pending, !.own = b]
  <2>0. pending \in Accounts \union {NoAccount}
    BY DEF VendorInv
  <2>1. n \in Plan /\ n.step = "check" /\ n.op = "approve" /\ n.own = b
    BY <2>0 DEF NoPlan, Plan, Status
  <2>2. Begin(r, u, n)
    BY DEF BeginApproveBank
  <2> HIDE DEF n
  <2> QED
    BY <2>1, <2>2
<1>2. UNCHANGED <<row, log, drafter, submitter>> /\ pending # NoAccount
  BY DEF BeginApproveBank
<1>3. plan'[r].op = "approve" /\ plan'[r].step = "check" /\ plan'[r].actor = u /\ plan'[r].own = b
  BY <1>1, <1>2, BeginAlone
<1>4. Fits(r)'
  BY <1>2, <1>3 DEF Fits, row
<1> QED
  BY <1>1, <1>2, <1>4, BeginKeeps

LEMMA ChangeStatusInv ==
  ASSUME VendorConstants, VendorInv, NEW r \in Requests, NEW u \in Users, NEW s \in Statuses,
         BeginChangeStatus(r, u, s)
  PROVE  VendorInv'
<1> PICK b \in BOOLEAN : b = (drafter = u)
  OBVIOUS
<1> PICK at \in {"check", "write"} :
      at = IF s = "active" /\ status \in Awaiting THEN "check" ELSE "write"
  OBVIOUS
<1>1. PICK p \in Plan : Begin(r, u, p) /\ p.step = at /\ p.op = "status" /\ p.status = s /\ p.own = b
  <2> DEFINE n == [NoPlan EXCEPT !.step = at, !.op = "status", !.status = s, !.own = b]
  <2>1. n \in Plan /\ n.step = at /\ n.op = "status" /\ n.status = s /\ n.own = b
    BY DEF NoPlan, Plan, Status
  <2>2. Begin(r, u, n)
    BY DEF BeginChangeStatus
  <2> HIDE DEF n
  <2> QED
    BY <2>1, <2>2
<1>2. UNCHANGED <<row, log, drafter, submitter>> /\ status # "none"
  BY DEF BeginChangeStatus
<1>3. /\ plan'[r].op = "status" /\ plan'[r].step = at /\ plan'[r].actor = u
      /\ plan'[r].own = b /\ plan'[r].status = s
  BY <1>1, <1>2, BeginAlone
<1>4. status' = status /\ drafter' = drafter
  BY <1>2 DEF row
<1>5. at = "write" /\ s = "active" => status \notin Awaiting
  OBVIOUS
<1>6. Fits(r)'
  BY <1>2, <1>3, <1>4, <1>5 DEF Fits, Awaiting
<1> QED
  BY <1>1, <1>2, <1>6, BeginKeeps

\* A request in flight goes on, or ends; others are idle while requests take turns.
LEMMA GoesOn ==
  ASSUME VendorInv, NEW r \in Requests, InFlight(r), NEW x \in Plan,
         plan' = [plan EXCEPT ![r] = x]
  PROVE  /\ plan' \in [Requests -> Plan] /\ plan'[r] = x /\ plan[r] \in Plan
         /\ ~Overlapped =>
              /\ Calm /\ Fits(r) /\ OneInFlight'
              /\ \A q \in Requests : q # r => ~InFlight(q) /\ ~InFlight(q)'
<1>1. plan' \in [Requests -> Plan] /\ plan'[r] = x /\ plan[r] \in Plan
  BY DEF VendorInv
<1>2. \A q \in Requests : q # r => plan'[q] = plan[q]
  BY DEF VendorInv
<1>3. ASSUME ~Overlapped
      PROVE  /\ Calm /\ Fits(r)
             /\ \A q \in Requests : q # r => ~InFlight(q)
  BY <1>3 DEF VendorInv, Calm, OneInFlight
<1>4. ASSUME ~Overlapped
      PROVE  /\ OneInFlight'
             /\ \A q \in Requests : q # r => ~InFlight(q)'
  BY <1>2, <1>3, <1>4 DEF InFlight, OneInFlight
<1> QED
  BY <1>1, <1>3, <1>4

LEMMA CheckInv ==
  ASSUME RoleConstants, VendorInv, NEW r \in Requests, CheckMaker(r)
  PROVE  VendorInv'
<1> PICK p : p = plan[r]
  OBVIOUS
<1>1. p \in Plan /\ InFlight(r) /\ p.step = "check"
  BY DEF VendorInv, CheckMaker, InFlight
<1> PICK b \in BOOLEAN : b = (p.own /\ ~Alone)
  OBVIOUS
<1>2. PICK x \in Plan :
        /\ x.step = "write" /\ x.own = b /\ x.actor = p.actor /\ x.op = p.op
        /\ x.status = p.status
        /\ plan' = [plan EXCEPT ![r] = x]
  <2> DEFINE n == [plan[r] EXCEPT !.step = "write", !.own = plan[r].own /\ ~Alone]
  <2>1. n = [p EXCEPT !.step = "write", !.own = b]
    OBVIOUS
  <2>2. /\ n \in Plan /\ n.step = "write" /\ n.own = b /\ n.actor = p.actor /\ n.op = p.op
        /\ n.status = p.status
    BY <1>1, <2>1 DEF Plan
  <2>3. plan' = [plan EXCEPT ![r] = n]
    BY DEF CheckMaker
  <2> HIDE DEF n
  <2> QED
    BY <2>2, <2>3
<1>4. /\ status' = status /\ pending' = pending /\ creator' = creator /\ maker' = maker
      /\ drafter' = drafter /\ submitter' = submitter /\ past' = past
  BY DEF CheckMaker, row, log, history
<1>5. /\ plan' \in [Requests -> Plan] /\ plan'[r] = x
      /\ ~Overlapped =>
           /\ Calm /\ Fits(r) /\ OneInFlight'
           /\ \A q \in Requests : q # r => ~InFlight(q) /\ ~InFlight(q)'
  BY <1>1, <1>2, GoesOn
<1>6. ASSUME ~Overlapped PROVE Calm'
  <2>1. /\ Calm /\ Fits(r) /\ OneInFlight'
        /\ \A q \in Requests : q # r => ~InFlight(q) /\ ~InFlight(q)'
    BY <1>5, <1>6
  <2>2. \A q \in Requests : ~At(q, "change", "log") /\ ~At(q, "create", "log")
    BY <1>1, <2>1 DEF At, InFlight
  <2>3. p.actor \in Users /\ p.actor # NoUser
    BY <2>1 DEF Fits, RoleConstants
  <2>4. NotSamePerson(p, IF p.op = "approve" THEN maker ELSE creator)
    BY DEF CheckMaker
  <2>5. ASSUME p.op = "approve" PROVE Fits(r)'
    <3>1. pending # NoAccount /\ (p.own => submitter = p.actor)
      BY <1>1, <2>1, <2>5 DEF Fits
    <3>2. "unlogged" \in past \/ maker = submitter
      BY <2>1, <2>2, <3>1 DEF Calm, MakerKnown
    <3>3. maker = NoUser \/ maker # p.actor \/ Alone
      BY <2>4, <2>5 DEF NotSamePerson
    <3>4. b => "unlogged" \in past
      BY <2>3, <3>1, <3>2, <3>3
    <3> QED
      BY <1>2, <1>4, <1>5, <2>3, <2>5, <3>1, <3>4 DEF Fits
  <2>6. ASSUME p.op = "status" PROVE Fits(r)'
    <3>1. status # "none" /\ (p.own => drafter = p.actor)
      BY <1>1, <2>1, <2>6 DEF Fits
    <3>2. creator \in {NoUser, drafter}
      BY <2>1, <2>2 DEF Calm, CreatorKnown
    <3>3. creator = NoUser \/ creator # p.actor \/ Alone
      BY <2>4, <2>6 DEF NotSamePerson
    <3>4. b => creator = NoUser
      BY <3>1, <3>2, <3>3
    <3> QED
      BY <1>2, <1>4, <1>5, <2>3, <2>6, <3>1, <3>4 DEF Fits
  <2>7. p.op \in {"approve", "status"}
    BY <1>1, <2>1 DEF Fits, Plan
  <2>8. MakerKnown' /\ CreatorKnown' /\ MakerIsNotChecker'
    BY <1>4, <2>1, <2>2 DEF Calm, MakerKnown, CreatorKnown, MakerIsNotChecker
  <2> QED
    BY <1>2, <2>1, <2>5, <2>6, <2>7, <2>8 DEF Calm
<1> QED
  BY <1>4, <1>5, <1>6 DEF VendorInv, Overlapped

LEMMA WriteBankInv ==
  ASSUME VendorConstants, VendorInv, NEW r \in Requests, WriteBankChange(r)
  PROVE  VendorInv'
<1> PICK p : p = plan[r]
  OBVIOUS
<1>1. p \in Plan /\ InFlight(r) /\ p.op = "change" /\ p.step = "write"
  BY DEF VendorInv, WriteBankChange, At, InFlight
<1>2. PICK x \in Plan :
        /\ x.step = "log" /\ x.actor = p.actor /\ x.op = "change"
        /\ plan' = [plan EXCEPT ![r] = x]
  <2> DEFINE n == [plan[r] EXCEPT !.step = "log"]
  <2>1. n \in Plan /\ n.step = "log" /\ n.actor = p.actor /\ n.op = "change"
    BY <1>1 DEF Plan
  <2>2. plan' = [plan EXCEPT ![r] = n]
    BY DEF WriteBankChange
  <2> HIDE DEF n
  <2> QED
    BY <2>1, <2>2
<1>3. /\ pending' = p.account /\ submitter' = p.actor /\ status' = status /\ drafter' = drafter
      /\ creator' = creator /\ maker' = maker /\ past' = past
  BY DEF WriteBankChange, log
<1>4. /\ plan' \in [Requests -> Plan] /\ plan'[r] = x
      /\ ~Overlapped =>
           /\ Calm /\ Fits(r) /\ OneInFlight'
           /\ \A q \in Requests : q # r => ~InFlight(q) /\ ~InFlight(q)'
  BY <1>1, <1>2, GoesOn
<1>5. ASSUME ~Overlapped PROVE Calm'
  <2>1. /\ Calm /\ Fits(r) /\ OneInFlight'
        /\ \A q \in Requests : q # r => ~InFlight(q) /\ ~InFlight(q)'
    BY <1>4, <1>5
  <2>2. At(r, "change", "log")'
    BY <1>2, <1>4 DEF At
  <2>3. MakerKnown'
    BY <2>2 DEF MakerKnown
  <2>4. \A q \in Requests : ~At(q, "create", "log")
    BY <1>1, <2>1 DEF At, InFlight
  <2>5. CreatorKnown' /\ MakerIsNotChecker'
    BY <1>3, <2>1, <2>4 DEF Calm, CreatorKnown, MakerIsNotChecker
  <2>6. p.actor \in Users
    BY <2>1 DEF Fits
  <2>7. Fits(r)'
    BY <1>2, <1>3, <1>4, <2>6 DEF Fits
  <2> QED
    BY <2>1, <2>3, <2>5, <2>7 DEF Calm
<1>6. pending' \in Accounts \union {NoAccount}
  BY <1>1, <1>3 DEF Plan
<1> QED
  BY <1>3, <1>4, <1>5, <1>6 DEF VendorInv, Overlapped

LEMMA WriteApprovalInv ==
  ASSUME VendorConstants, VendorInv, NEW r \in Requests, WriteApproval(r)
  PROVE  VendorInv'
<1> PICK p : p = plan[r]
  OBVIOUS
<1>1. p \in Plan /\ InFlight(r) /\ p.op = "approve" /\ p.step = "write"
  BY DEF VendorInv, WriteApproval, At, InFlight
<1>2. plan' = [plan EXCEPT ![r] = NoPlan] /\ NoPlan \in Plan
  BY NoPlanTyped DEF WriteApproval, Finish
<1>3. /\ pending' = NoAccount /\ status' = status /\ drafter' = drafter
      /\ creator' = creator /\ maker' = maker
      /\ past' = IF p.own /\ ~Overlapped THEN past \union {"self-approved"} ELSE past
  BY DEF WriteApproval, log, Note
<1>4. /\ plan' \in [Requests -> Plan] /\ plan'[r] = NoPlan
      /\ ~Overlapped =>
           /\ Calm /\ Fits(r) /\ OneInFlight'
           /\ \A q \in Requests : q # r => ~InFlight(q) /\ ~InFlight(q)'
  BY <1>1, <1>2, GoesOn
<1>5. ASSUME ~Overlapped PROVE Calm'
  <2>1. /\ Calm /\ Fits(r) /\ OneInFlight'
        /\ \A q \in Requests : q # r => ~InFlight(q) /\ ~InFlight(q)'
    BY <1>4, <1>5
  <2>2. \A q \in Requests : ~InFlight(q)'
    BY <1>4, <2>1, NoPlanTyped DEF InFlight
  <2>3. MakerKnown'
    BY <1>3 DEF MakerKnown
  <2>4. \A q \in Requests : ~At(q, "create", "log")
    BY <1>1, <2>1 DEF At, InFlight
  <2>5. p.own => "unlogged" \in past
    BY <1>1, <2>1 DEF Fits
  <2>6. CreatorKnown'
    BY <1>3, <2>1, <2>4 DEF Calm, CreatorKnown
  <2>7. MakerIsNotChecker'
    BY <1>3, <2>1, <2>5 DEF Calm, MakerIsNotChecker
  <2> QED
    BY <2>1, <2>2, <2>3, <2>6, <2>7 DEF Calm
<1>6. /\ Overlapped' <=> Overlapped
      /\ Overlapped => past' = past
  BY <1>3 DEF Overlapped
<1> QED
  BY <1>3, <1>4, <1>5, <1>6 DEF VendorInv

LEMMA WriteStatusInv ==
  ASSUME VendorConstants, VendorInv, NEW r \in Requests, WriteStatus(r)
  PROVE  VendorInv'
<1> PICK p : p = plan[r]
  OBVIOUS
<1>1. p \in Plan /\ InFlight(r) /\ p.op = "status" /\ p.step = "write"
  BY DEF VendorInv, WriteStatus, At, InFlight
<1>2. plan' = [plan EXCEPT ![r] = NoPlan] /\ NoPlan \in Plan
  BY NoPlanTyped DEF WriteStatus, Finish
<1>3. /\ status' = p.status /\ pending' = pending /\ drafter' = drafter /\ submitter' = submitter
      /\ creator' = creator /\ maker' = maker
      /\ past' = IF (status \in Awaiting /\ p.status = "active" /\ p.own) /\ ~Overlapped
                 THEN past \union {"self-activated"} ELSE past
  BY DEF WriteStatus, log, Note
<1>4. /\ plan' \in [Requests -> Plan] /\ plan'[r] = NoPlan
      /\ ~Overlapped =>
           /\ Calm /\ Fits(r) /\ OneInFlight'
           /\ \A q \in Requests : q # r => ~InFlight(q) /\ ~InFlight(q)'
  BY <1>1, <1>2, GoesOn
<1>5. ASSUME ~Overlapped PROVE Calm'
  <2>1. /\ Calm /\ Fits(r) /\ OneInFlight'
        /\ \A q \in Requests : q # r => ~InFlight(q) /\ ~InFlight(q)'
    BY <1>4, <1>5
  <2>2. \A q \in Requests : ~InFlight(q)'
    BY <1>4, <2>1, NoPlanTyped DEF InFlight
  <2>3. \A q \in Requests : ~At(q, "create", "log") /\ ~At(q, "change", "log")
    BY <1>1, <2>1 DEF At, InFlight
  <2>4. MakerKnown'
    BY <1>3, <2>1, <2>3 DEF Calm, MakerKnown
  <2>5. status # "none" /\ (status \in Awaiting /\ p.status = "active" /\ p.own => creator = NoUser)
    BY <1>1, <2>1 DEF Fits
  <2>6. p.status # "none"
    BY <1>1 DEF Plan, Status, VendorConstants
  <2>7. CreatorKnown'
    BY <1>3, <2>1, <2>3, <2>6 DEF Calm, CreatorKnown
  <2>8. MakerIsNotChecker'
    BY <1>3, <2>1, <2>5 DEF Calm, MakerIsNotChecker
  <2> QED
    BY <2>1, <2>2, <2>4, <2>7, <2>8 DEF Calm
<1>6. /\ Overlapped' <=> Overlapped
      /\ Overlapped => past' = past
  BY <1>3 DEF Overlapped
<1> QED
  BY <1>3, <1>4, <1>5, <1>6 DEF VendorInv

LEMMA LogInv ==
  ASSUME VendorConstants, VendorInv, NEW r \in Requests, Log(r)
  PROVE  VendorInv'
<1> PICK p : p = plan[r]
  OBVIOUS
<1>1. p \in Plan /\ InFlight(r) /\ p.step = "log"
  BY DEF VendorInv, Log, InFlight
<1>2. plan' = [plan EXCEPT ![r] = NoPlan] /\ NoPlan \in Plan
  BY NoPlanTyped DEF Log, Finish
<1>3. /\ status' = status /\ pending' = pending /\ drafter' = drafter /\ submitter' = submitter
      /\ past' = past
      /\ creator' = IF p.op = "create" THEN p.actor ELSE creator
      /\ maker' = IF p.op = "create" THEN maker ELSE p.actor
  BY DEF Log, row, history
<1>4. /\ plan' \in [Requests -> Plan] /\ plan'[r] = NoPlan
      /\ ~Overlapped =>
           /\ Calm /\ Fits(r) /\ OneInFlight'
           /\ \A q \in Requests : q # r => ~InFlight(q) /\ ~InFlight(q)'
  BY <1>1, <1>2, GoesOn
<1>5. ASSUME ~Overlapped PROVE Calm'
  <2>1. /\ Calm /\ Fits(r) /\ OneInFlight'
        /\ \A q \in Requests : q # r => ~InFlight(q) /\ ~InFlight(q)'
    BY <1>4, <1>5
  <2>2. \A q \in Requests : ~InFlight(q)'
    BY <1>4, <2>1, NoPlanTyped DEF InFlight
  <2>3. p.op \in {"create", "change"}
    BY <1>1, <2>1 DEF Fits, Plan
  <2>4. CASE p.op = "create"
    <3>1. /\ p.actor = drafter /\ status # "none"
          /\ creator = NoUser /\ "self-activated" \notin past
      BY <2>1, <2>4 DEF Fits
    <3>2. \A q \in Requests : ~At(q, "change", "log")
      BY <1>1, <2>1, <2>4 DEF At, InFlight
    <3>3. MakerKnown' /\ CreatorKnown' /\ MakerIsNotChecker'
      BY <1>3, <2>1, <2>4, <3>1, <3>2 DEF Calm, MakerKnown, CreatorKnown, MakerIsNotChecker
    <3> QED
      BY <2>1, <2>2, <3>3 DEF Calm
  <2>5. CASE p.op = "change"
    <3>1. submitter = p.actor
      BY <1>1, <2>1, <2>5 DEF Fits
    <3>2. \A q \in Requests : ~At(q, "create", "log")
      BY <1>1, <2>1, <2>5 DEF At, InFlight
    <3>3. MakerKnown' /\ CreatorKnown' /\ MakerIsNotChecker'
      BY <1>3, <2>1, <2>5, <3>1, <3>2 DEF Calm, MakerKnown, CreatorKnown, MakerIsNotChecker
    <3> QED
      BY <2>1, <2>2, <3>3 DEF Calm
  <2> QED
    BY <2>3, <2>4, <2>5
<1> QED
  BY <1>3, <1>4, <1>5 DEF VendorInv, Overlapped

LEMMA StopVendorInv ==
  ASSUME VendorConstants, VendorInv, NEW r \in Requests, Stop(r)
  PROVE  VendorInv'
<1> PICK p : p = plan[r]
  OBVIOUS
<1>1. p \in Plan /\ InFlight(r)
  BY DEF VendorInv, Stop, InFlight
<1>2. plan' = [plan EXCEPT ![r] = NoPlan] /\ NoPlan \in Plan
  BY NoPlanTyped DEF Stop, Finish
<1>3. /\ status' = status /\ pending' = pending /\ drafter' = drafter /\ submitter' = submitter
      /\ creator' = creator /\ maker' = maker
      /\ past' = IF At(r, "change", "log") /\ ~Overlapped THEN past \union {"unlogged"} ELSE past
  BY DEF Stop, row, log, Note
<1>4. /\ plan' \in [Requests -> Plan] /\ plan'[r] = NoPlan
      /\ ~Overlapped =>
           /\ Calm /\ Fits(r) /\ OneInFlight'
           /\ \A q \in Requests : q # r => ~InFlight(q) /\ ~InFlight(q)'
  BY <1>1, <1>2, GoesOn
<1>5. ASSUME ~Overlapped PROVE Calm'
  <2>1. /\ Calm /\ Fits(r) /\ OneInFlight'
        /\ \A q \in Requests : q # r => ~InFlight(q) /\ ~InFlight(q)'
    BY <1>4, <1>5
  <2>2. \A q \in Requests : ~InFlight(q)'
    BY <1>4, <2>1, NoPlanTyped DEF InFlight
  <2>3. \A q \in Requests : q # r => ~At(q, "create", "log") /\ ~At(q, "change", "log")
    BY <2>1 DEF At, InFlight
  <2>4. MakerKnown'
    BY <1>3, <1>5, <2>1, <2>3 DEF Calm, MakerKnown
  <2>5. CASE At(r, "create", "log")
    <3>1. status # "none" /\ creator = NoUser /\ "self-activated" \notin past
      BY <2>1, <2>5 DEF Fits, At
    <3> QED
      BY <1>3, <2>1, <2>2, <2>4, <3>1 DEF Calm, CreatorKnown, MakerIsNotChecker
  <2>6. CASE ~At(r, "create", "log")
    <3>1. CreatorKnown' /\ MakerIsNotChecker'
      BY <1>3, <2>1, <2>3, <2>6 DEF Calm, CreatorKnown, MakerIsNotChecker
    <3> QED
      BY <2>1, <2>2, <2>4, <3>1 DEF Calm
  <2> QED
    BY <2>5, <2>6
<1>6. /\ Overlapped' <=> Overlapped
      /\ Overlapped => past' = past
  BY <1>3 DEF Overlapped
<1> QED
  BY <1>3, <1>4, <1>5, <1>6 DEF VendorInv

\* What happens to the logins meanwhile does not matter.
LEMMA OthersInv ==
  ASSUME VendorInv, UNCHANGED <<row, log, plan, history>>
  PROVE  VendorInv'
<1>1. /\ status' = status /\ pending' = pending /\ drafter' = drafter /\ submitter' = submitter
      /\ creator' = creator /\ maker' = maker /\ plan' = plan /\ past' = past
  BY DEF row, log, history
<1> QED
  BY <1>1 DEF VendorInv, Overlapped, Calm, OneInFlight, InFlight, Fits, MakerKnown, CreatorKnown,
              MakerIsNotChecker, At

LEMMA VendorNextInv ==
  ASSUME VendorInv, RoleConstants, VendorConstants, [Next]_vars
  PROVE  VendorInv'
<1>1. ASSUME NEW r \in Requests, VendorStep(r) PROVE VendorInv'
  BY <1>1, CreateInv, BankChangeInv, ApproveBankInv, ChangeStatusInv, CheckInv, WriteBankInv,
     WriteApprovalInv, WriteStatusInv, LogInv, StopVendorInv DEF VendorStep
<1>2. ASSUME LoginStep PROVE VendorInv'
  BY <1>2, OthersInv DEF LoginStep
<1>3. ASSUME UNCHANGED vars PROVE VendorInv'
  BY <1>3, OthersInv DEF vars
<1> QED
  BY <1>1, <1>2, <1>3 DEF Next

\* A step of the vendor's requests is a stutter of the administration of logins.
LEMMA StepOfLogins == [Next]_vars => [AdminNext]_adminVars
<1>1. ASSUME NEW r \in Requests, VendorStep(r) PROVE UNCHANGED adminVars
  BY <1>1 DEF VendorStep, BeginCreate, BeginBankChange, BeginApproveBank, BeginChangeStatus,
              CheckMaker, WriteBankChange, WriteApproval, WriteStatus, Log, Stop
<1> QED
  BY <1>1 DEF Next, LoginStep, vars

\* The columns of the vendor and of the log, and the notes.
RowTyped ==
  /\ status \in Status \union {"none"} /\ bank \in Accounts \union {NoAccount}
  /\ {creator, maker, drafter, submitter} \subseteq Users \union {NoUser}
  /\ past \subseteq Event

LEMMA RowNext == ASSUME VendorInv, RowTyped, [Next]_vars PROVE RowTyped'
<1>1. ASSUME NEW r \in Requests
      PROVE  /\ plan[r].actor \in Users \union {NoUser}
             /\ plan[r].account \in Accounts \union {NoAccount} /\ plan[r].status \in Status
  <2>1. plan[r] \in Plan
    BY DEF VendorInv
  <2> QED
    BY <2>1 DEF Plan
<1>2. ASSUME NEW r \in Requests, VendorStep(r) PROVE past' \subseteq Event
  BY <1>2
  DEF RowTyped, VendorStep, BeginCreate, BeginBankChange, BeginApproveBank, BeginChangeStatus,
      Begin, CheckMaker, WriteBankChange, WriteApproval, WriteStatus, Log, Stop, Note, history,
      Event
<1>3. ASSUME NEW r \in Requests, VendorStep(r)
      PROVE  status' \in Status \union {"none"} /\ bank' \in Accounts \union {NoAccount}
  BY <1>1, <1>3
  DEF RowTyped, VendorStep, BeginCreate, BeginBankChange, BeginApproveBank, BeginChangeStatus,
      CheckMaker, WriteBankChange, WriteApproval, WriteStatus, Log, Stop, row, Status
<1>4. ASSUME NEW r \in Requests, VendorStep(r)
      PROVE  {creator, maker, drafter, submitter}' \subseteq Users \union {NoUser}
  BY <1>1, <1>4
  DEF RowTyped, VendorStep, BeginCreate, BeginBankChange, BeginApproveBank, BeginChangeStatus,
      CheckMaker, WriteBankChange, WriteApproval, WriteStatus, Log, Stop, log, history
<1>5. CASE LoginStep \/ UNCHANGED vars
  BY <1>5 DEF LoginStep, vars, row, log, history, RowTyped
<1> QED
  BY <1>2, <1>3, <1>4, <1>5 DEF Next, RowTyped

\* Logins, vendor and requests are of their types, the two specifications together.
THEOREM TypeCorrect == Spec => []TypeOK
<1>1. Init => AdminInv /\ VendorInv /\ RowTyped
  BY AdminInitInv, VendorInitInv DEF Init, RowTyped
<1>2. AdminInv /\ [AdminNext]_adminVars => AdminInv'
  BY AdminNextInv, AdminStutterInv
<1>3. VendorInv /\ RowTyped /\ [Next]_vars => (VendorInv /\ RowTyped)'
  BY VendorNextInv, RowNext, RoleConstants, VendorConstants
<1>4. AdminInv /\ VendorInv /\ RowTyped => TypeOK
  BY DEF AdminInv, VendorInv, RowTyped, TypeOK
<1> QED
  BY <1>1, <1>2, <1>3, <1>4, StepOfLogins, PTL DEF Spec

\* Bank details are confirmed, and a vendor is activated, by somebody other than who made
\* them (vendors.service.ts assertNotSamePerson), as far as the log goes: for any number of
\* administrators, accounts and requests.
THEOREM MakerIsChecked == Spec => []MakerIsNotChecker
<1>1. Init => VendorInv
  BY VendorInitInv
<1>2. VendorInv /\ [Next]_vars => VendorInv'
  BY VendorNextInv, RoleConstants, VendorConstants
<1>3. VendorInv => MakerIsNotChecker
  BY DEF VendorInv, Calm, Overlapped, MakerIsNotChecker
<1> QED
  BY <1>1, <1>2, <1>3, PTL DEF Spec

\* Beside the vendor's requests, the administration of logins does what it does alone.
THEOREM VendorsRefineAdministrators == Spec => AdminSpec
<1>1. Init => AdminInit
  BY DEF Init
<1> QED
  BY <1>1, StepOfLogins, PTL DEF Spec, AdminSpec

\* So the workspace keeps its Super Admin here too.
THEOREM VendorsKeepSuperAdmin == Spec => []SuperAdminRemains
  BY VendorsRefineAdministrators, AdministratorsKeepOne, PTL
=============================================================================
