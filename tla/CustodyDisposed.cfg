SPECIFICATION Spec
CONSTANTS
  Assets = {a1}
  Employees = {e1, e2}
  Tickets = {}
  Requests = {r1}
  OffboardModes = {"return", "reassign"}
  NoOne = NoOne
  NoAsset = NoAsset
  NoTicket = NoTicket
  Keep = Keep
SYMMETRY Symmetry
PROPERTIES
  DisposedIsTerminal
