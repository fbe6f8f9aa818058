CONSTANTS
  None = none
  Tags = {"none", "some"}
  MaxFetches = 2
  MaxActions = 2
  MaxOthers = 1
  Items = {i1}
  MaxHandlers = 2
  MaxNews = 1
  Plain = {"url", "depth"}
  Secret = {"token", "jwt"}
  Cleared = {"jwt"}
  Required = {"url"}
  Values = {0, 1}
  MaxTouched = 1
  MaxSaves = 2
  MaxForeign = 1
  Versions = {1, 2, 3}
  Healthy = {1, 2}
  Workers = {w1, w2}
  HasCommand = TRUE
  Mixed = mixed
  MaxFaults = 1
  Fields = {"enabled", "repo"}
  Entries = {0, 1}
  MaxClicks = 4
  MaxEdits = 1
  MaxTyped = 1
  Uses <- Visits
SPECIFICATION Spec
INVARIANTS TypeOK StepFollowsEdge ReadsOwnWrites BackupsAreWhole
PROPERTIES OthersSettingsKept OthersEditsKept OpenPageIsRepaired ComesBack
CHECK_DEADLOCK FALSE
