CONSTANTS
  MaxItems = 2
  High = {2}
  Flushers = {sched, http}
  Scheduler = sched
  Retriers = {retry}
  Producers = {prod}
  Edges = {e1}
  None = None
  HasToken = FALSE
  Limit = 1
  KeepFinished = 1
  MaxManual = 1
  MaxPairings = 0
  MaxFaults = 1
SPECIFICATION FairSpec
PROPERTIES LedgerSpec EveryEventSettles
CHECK_DEADLOCK FALSE
