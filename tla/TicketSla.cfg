SPECIFICATION Spec
CONSTANTS
  Requests = {r1}
  Staff = {u1}
  Nobody = Nobody
  Exclusive = {}
  Minute = 3
  MaxTime = 2
INVARIANTS
  OnlyWaitsAreExcused
