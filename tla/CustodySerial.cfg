SPECIFICATION Spec
CONSTANTS
  Assets = {a1, a2}
  Employees = {e1, e2}
  Tickets = {t1}
  Requests = {r1}
  OffboardModes = {"return", "reassign", "keep"}
  NoOne = NoOne
  NoAsset = NoAsset
  NoTicket = NoTicket
  Keep = Keep
SYMMETRY Symmetry
INVARIANTS
  OpenRowsNameHolder
  DeletedLeavesNothing
PROPERTIES
  LifecycleOutsideOffboarding
  OffboardDetachesLeaver
  OnlyKeepingSevers
