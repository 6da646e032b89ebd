SPECIFICATION FairSpec
CONSTANTS
  HealthRequests = {"h"}
  ExecRequests = {"e"}
  Checks = {"db", "other"}
  DBCheck = "db"
  Servers = {"public"}
  BindOrder <- MCBindOrder
  ServerOf <- MCServerOf
INVARIANTS CheckUsesOpenDB ReportTellsFailures NoSendOnClosed ExecTellsOutcome
PROPERTIES EverythingStops TakenIsAnswered
CHECK_DEADLOCK FALSE
