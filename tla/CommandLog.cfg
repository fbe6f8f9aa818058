CONSTANTS
  None = none
  Plans <- Workflows
  MaxFaults = 1
  Commands = {job, other}
  Job = job
  Clients = {old, new}
  MaxDeliveries = 2
  MaxCrashes = 1
SPECIFICATION Spec
INVARIANTS AnsweredOnce
PROPERTIES PlanSpec CommandsAnswered
CHECK_DEADLOCK FALSE
