CONSTANTS
  a = a
  b = b
  c = c
  None = none
  Instances <- Three
  DependsOn <- Diamond
  Interval = {}
  Runs = {r1, r2, r3}
  Provisioned = FALSE
  MaxRequests = 2
  MaxCrashes = 1
  MaxEdits = 1
  Abandons = TRUE
SPECIFICATION Spec
SYMMETRY RunsSymmetry
INVARIANTS TypeOK WorkflowRunsExclusive JoinNotMissed
CHECK_DEADLOCK FALSE
