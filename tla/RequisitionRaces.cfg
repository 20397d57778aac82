SPECIFICATION Spec
CONSTANTS
  u1 = u1
  u2 = u2
  Handlers = {h1, h2}
  Exclusive = {"withdraw", "convert"}
  Breaks = TRUE
  Users <- TwoUsers
  Amounts = {1, 2}
  Totals = {}
  Required <- Joint
  RoutingFor <- AllSequential
  MaxRounds = 2
  Keep = Keep
CHECK_DEADLOCK FALSE
SYMMETRY Symmetry
INVARIANTS
  ApprovedOnCurrentTerms
  OneOrderAsApproved
  SequentialOrder
  DecisionsMeet
