SPECIFICATION Spec
CONSTANTS
  Assets = {a1}
  Employees = {e1, e2}
  Tickets = {}
  Requests = {r1, r2}
  OffboardModes = {"return", "reassign", "keep"}
  NoOne = NoOne
  NoAsset = NoAsset
  NoTicket = NoTicket
  Keep = Keep
SYMMETRY Symmetry
INVARIANTS
  OneOpenRow
