CONSTANTS
  a = a
  b = b
  c = c
  None = none
  Instances <- One
  DependsOn <- Alone
  Interval = {a}
  Runs = {r1, r2}
  Provisioned = TRUE
  MaxRequests = 0
  MaxCrashes = 1
  MaxEdits = 0
  Abandons = FALSE
SPECIFICATION OnlineSpec
PROPERTY KeepsCollecting
CHECK_DEADLOCK FALSE
