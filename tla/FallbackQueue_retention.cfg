\* The scheduler's poll alone; pruning at every enqueue, a lost write, a crash.
SPECIFICATION FairSpec
CONSTANTS
  MaxItems = 2
  Flushers = {"poll"}
  Scheduler = "poll"
  Retriers = {}
  MaxRetries = 2
  MaxManual = 0
  MaxInterrupts = 1
  KeepFinished = 0
  MaxFaults = 1
PROPERTIES LedgerSpec
CHECK_DEADLOCK FALSE
