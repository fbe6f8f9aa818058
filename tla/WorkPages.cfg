CONSTANTS
  None = none
  Users = {u1, u2}
  MaxTries = 3
  MaxMishaps = 1
  MaxRows = 2
  MaxOps = 2
  MaxVisits = 1
  MaxElsewhere = 1
  MaxTyped = 1
  MaxFirst = 3
  MaxDests = 2
  MaxTurns = 2
  MaxEdits = 2
  MaxSends = 2
  MaxSlips = 1
  MaxKeyed = 3
  MaxRounds = 2
  MaxMisses = 1
SPECIFICATION Spec
INVARIANTS TypeOK ListFollowsServer SessionSettles
PROPERTIES SavedAsMeant NothingLost RecordsSavedAsMeant
CHECK_DEADLOCK FALSE
