SPECIFICATION OneFileSpec
CONSTANTS
  j1 = j1
  j2 = j2
  k1 = k1
  k2 = k2
  NoKey = NoKey
  Slots = {s1, s2}
  Jobs = {j1, j2}
  File <- Files
  Kind <- Kinds
  Batch = 2
  Present = {}
  Faults = TRUE
  MaxRuns <- Twice
CHECK_DEADLOCK FALSE
INVARIANTS
  CountsAddUp
  RollbackRemovesAll
PROPERTIES
  CompletionImportsAll
  JobEnds
