--------------------------- MODULE Administrators ---------------------------
(***************************************************************************)
(* The logins of a workspace and their roles: what an administrator's      *)
(* update of a login reads (BeginUserUpdate) and later writes, and what an *)
(* offboarding or a reinstatement does to the login of an employee.        *)
(***************************************************************************)
EXTENDS Integers, FiniteSets

CONSTANTS
  Requests,     \* request slots: how many requests can be in flight at once
  Users,        \* the logins
  NoUser,
  Roles,        \* the roles that the logins of this workspace have
  Updates       \* environment: what the updates of a login change

ASSUME RoleConstants ==
  /\ IsFiniteSet(Users)
  /\ NoUser \notin Users
  /\ Roles \subseteq {"SUPER_ADMIN", "IT_ADMIN", "IT_SUPPORT", "MANAGER", "EMPLOYEE"}
  /\ Updates \subseteq [role : Roles \union {"keep"}, active : {"keep", "on", "off"}]

VARIABLES
  role,         \* role[u]
  active,       \* active[u]: users.is_active
  edit,         \* edit[r]: the update of a login that the request in slot r is about to write
  crossed       \* history: two updates that take something away were on the way at once,
                \* or a Super Admin was offboarded

logins == <<role, active>>
adminVars == <<logins, edit, crossed>>

\* How privileged a role is.
Rank ==
  [SUPER_ADMIN |-> 4, IT_ADMIN |-> 3, IT_SUPPORT |-> 2, MANAGER |-> 1, EMPLOYEE |-> 0]

Edit ==
  [user : Users \union {NoUser}, role : Roles \union {"keep"}, active : {"keep", "on", "off"}]

NoEdit == [user |-> NoUser, role |-> "keep", active |-> "keep"]

SuperAdmin(u) == active[u] /\ role[u] = "SUPER_ADMIN"

AdminInit ==
  /\ role \in [Users -> Roles]
  /\ active = [u \in Users |-> TRUE]
  /\ \E u \in Users : SuperAdmin(u)
  /\ edit = [r \in Requests |-> NoEdit]
  /\ crossed = FALSE

-----------------------------------------------------------------------------
\* Who manages logins, vendors and purchases; checked when a request comes in.
Manages(u) == active[u] /\ role[u] \in {"SUPER_ADMIN", "IT_ADMIN"}

MayAssign(a, ro) == role[a] = "SUPER_ADMIN" \/ Rank[ro] < Rank["IT_ADMIN"]

Editing(r) == edit[r].user # NoUser

\* The update deactivates its login, or gives it a role below Super Admin.
TakesAway(p) == p.active = "off" \/ p.role \notin {"keep", "SUPER_ADMIN"}

\* Does p take the role or the login away from a Super Admin?
Demotes(p) ==
  /\ role[p.user] = "SUPER_ADMIN"
  /\ p.role \notin {"keep", "SUPER_ADMIN"} \/ (p.active = "off" /\ active[p.user])

\* Mutant: the login that is updated counts as the Super Admin who is left.
BeginUserUpdateAnyLeft(r, a, p) ==
  /\ ~Editing(r)
  /\ Manages(a)
  /\ p.role # "keep" => MayAssign(a, p.role) /\ ~(p.user = a /\ Rank[p.role] > Rank[role[a]])
  /\ Demotes(p) => \E v \in Users : SuperAdmin(v)
  /\ edit' = [edit EXCEPT ![r] = p]
  /\ crossed' = (crossed \/ (TakesAway(p) /\ \E q \in Requests : TakesAway(edit[q])))
  /\ UNCHANGED logins

\* update, up to its UPDATE: administrator a changes the role or the login of a user; the
\* last Super Admin may lose neither.
BeginUserUpdate(r, a, p) ==
  /\ ~Editing(r)
  /\ Manages(a)
  /\ p.role # "keep" => MayAssign(a, p.role) /\ ~(p.user = a /\ Rank[p.role] > Rank[role[a]])
  /\ Demotes(p) => \E v \in Users \ {p.user} : SuperAdmin(v)
  /\ edit' = [edit EXCEPT ![r] = p]
  /\ crossed' = (crossed \/ (TakesAway(p) /\ \E q \in Requests : TakesAway(edit[q])))
  /\ UNCHANGED logins

WriteUserUpdate(r) ==
  LET p == edit[r] IN
  /\ Editing(r)
  /\ role' = [role EXCEPT ![p.user] = IF p.role = "keep" THEN @ ELSE p.role]
  /\ active' = [active EXCEPT ![p.user] = IF p.active = "keep" THEN @ ELSE p.active = "on"]
  /\ edit' = [edit EXCEPT ![r] = NoEdit]
  /\ UNCHANGED crossed

StopUserUpdate(r) ==
  /\ Editing(r)
  /\ edit' = [edit EXCEPT ![r] = NoEdit]
  /\ UNCHANGED <<logins, crossed>>

\* offboard takes the login of an employee away, whoever it is, and reinstate gives it back.
OffboardOrReinstate(u) ==
  /\ active' = [active EXCEPT ![u] = ~@]
  /\ crossed' = (crossed \/ SuperAdmin(u))
  /\ UNCHANGED <<role, edit>>

AdminStep(r) ==
  \/ \E a, u \in Users, d \in Updates :
       BeginUserUpdate(r, a, [user |-> u, role |-> d.role, active |-> d.active])
  \/ WriteUserUpdate(r)
  \/ StopUserUpdate(r)

AdminNext ==
  \/ \E r \in Requests : AdminStep(r)
  \/ \E u \in Users : OffboardOrReinstate(u)

AdminSpec == AdminInit /\ [][AdminNext]_adminVars

-----------------------------------------------------------------------------
AdminTypeOK ==
  /\ role \in [Users -> Roles]
  /\ active \in [Users -> BOOLEAN]
  /\ edit \in [Requests -> Edit]
  /\ crossed \in BOOLEAN

\* A workspace keeps an active Super Admin, whatever else overlaps, as long as no two
\* updates that take a role or a login away are on the way at once, and no Super Admin
\* is offboarded.
SuperAdminRemains == ~crossed => \E u \in Users : SuperAdmin(u)
=============================================================================
