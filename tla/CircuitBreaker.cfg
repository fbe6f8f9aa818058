CONSTANTS
  Senders = {s1, s2, s3}
  Threshold = 3
  Cooldown = 2
  Attempts = 2
  MaxFaults = 1
SPECIFICATION FairSpec
INVARIANTS TypeOK AdmittedBeforeOpening LoadWhileOpenBounded OpensOnlyOnStreak
PROPERTIES ClosesEarlyOnlyOnSuccess ReopensForTraffic
