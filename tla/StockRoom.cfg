SPECIFICATION RoomSpec
CONSTANTS
  Requests = {r1, r2}
  Employees = {e1, e2}
  NoOne = NoOne
  Checkouts = {c1, c2, c3}
  MaxQuantity = 2
  MaxTotal = 2
  Stocktakes = {0, 1, 3}
  Changes = {x1}
  MaxIssue = 2
  MaxStock = 3
  MaxIssued = 6
  Totals = {0, 1, 3, 6}
  Recounts <- AnyCount
  RequestIds = {q1, q2}
  Assets = {a1, a2}
  KitItems = {k1}
  Handlers = {h1}
  EditStatuses = {}
  AssetEdits = {"available", "under_repair"}
  MaxUnits = 1
  MaxFailures = 1
  NoAsset = NoAsset
  Keep = Keep
SYMMETRY Symmetry
INVARIANTS
  CounterNeverOverstates
  CounterExact
  OverIssueBounded
  ExtraAssetsNeedFailures
PROPERTIES
  OffboardReturnsAll
  LedgerSpec
  OnlyCountsUnbalance
  ConsumableLedgerSpec
  FulfilledInHand
