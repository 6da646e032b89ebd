SPECIFICATION Spec
CONSTANTS
  Configs <- MCConfigs
  Requests = {1, 2}
  HeaderIDs = {h}
  NoID = NoID
  Users = {"u"}
  TicksPerSecond = 2
  ExpirationTime = 3
  RenewTime = 1
  MaxClock = 6
  Debug = FALSE
  Signs = TRUE
  MaxServed = 3
  MaxBytes = 2
INVARIANTS RecordsWhatWasSent RequestsCounted TraceFollowsRequest IPTellsOutcome
PROPERTIES AccessAfterLogin
CHECK_DEADLOCK FALSE
