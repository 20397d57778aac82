SPECIFICATION Spec
CONSTANTS
  Requests = {r1, r2}
  Staff = {u1}
  Nobody = Nobody
  Exclusive = {"take", "bulk"}
  Minute = 3
  MaxTime = 2
SYMMETRY Symmetry
INVARIANTS
  NeverOvercounts
  RowTellsItsStory
  ReplyIsHeard
