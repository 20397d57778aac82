SPECIFICATION Spec
CHECK_DEADLOCK FALSE
CONSTANTS
  Requests = {r1, r2}
  Receipts = {g1, g2}
  Orders <- SmallOrders
  MaxReceived = 1
  MaxLines = 2
  MaxBatches = 2
  Keep = Keep
  NoReceipt = NoReceipt
SYMMETRY Symmetry
INVARIANTS
  ProgressFollowsReceipts
  VoidedIsFlagged
  CancelledIsFlagged
PROPERTIES
  OnlyVoidReopens
