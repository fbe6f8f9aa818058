CONSTANTS
  MaxItems = 2
  High = {}
  Flushers = {sched}
  Scheduler = sched
  Retriers = {}
  Producers = {p1}
  Edges = {e1, e2}
  None = None
  HasToken = TRUE
  Limit = 2
  KeepFinished = 1
  MaxManual = 0
  MaxPairings = 2
  MaxFaults = 1
SPECIFICATION Spec
INVARIANTS SentWasApplied
CHECK_DEADLOCK FALSE
