\* One payload; two overlapping flushes, a manual retry, one caller cut short,
\* one lost write.
SPECIFICATION FairSpec
CONSTANTS
  MaxItems = 1
  Flushers = {"poll", "http"}
  Scheduler = "poll"
  Retriers = {"retry"}
  MaxRetries = 2
  MaxManual = 1
  MaxInterrupts = 1
  KeepFinished = 1
  MaxFaults = 1
INVARIANTS TypeOK SentWasDelivered FailedOnlyAtLimit AttemptsBounded
PROPERTIES PendingIsSettled
CHECK_DEADLOCK FALSE
