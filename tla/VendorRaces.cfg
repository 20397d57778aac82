SPECIFICATION Spec
CONSTANTS
  Requests = {r1, r2}
  Users = {u1, u2}
  NoUser = NoUser
  Roles = {"SUPER_ADMIN", "IT_ADMIN", "EMPLOYEE"}
  Accounts = {a1}
  NoAccount = NoAccount
  Statuses = {"active"}
  Updates <- MCUpdates
  Exclusive = {"create", "status"}
SYMMETRY Symmetry
INVARIANTS
  SuperAdminRemains
  MakerIsNotChecker
