SPECIFICATION EnumSpec
CONSTANTS
  IDs <- MCIDs
  Names = {"a", "b"}
  MaxBit = 2
  Goroutines = {g1, g2}
  None = None
  MaxEnum = 2
  Tables = {"t", "u"}
  Shared = "t"
  Rows <- MCRows
INVARIANTS ReadsWhatWasSet BitsRoundTrip LoadsAllOrNothing
CHECK_DEADLOCK FALSE
