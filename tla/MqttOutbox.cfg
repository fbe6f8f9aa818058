CONSTANTS
  Messages = {e1, p1}
  Critical = {e1}
  Callbacks = {cb}
  Admin = admin
  Long = 2
  Short = 1
  KeepItems = 2
  Ages = TRUE
  MaxCrashes = 1
SPECIFICATION FairSpec
INVARIANTS TypeOK EventsHeldOrPruned
PROPERTIES LedgerSpec EventsSettle
CHECK_DEADLOCK FALSE
