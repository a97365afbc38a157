SPECIFICATION FairSpec
CONSTANTS
  Lists <- MCLists
  Starts = {1, 2}
  WriteInit = TRUE
  MaxTicks = 3
  MaxCount = 4
  Durations = {0, 5}
INVARIANTS TypeOK BreaksOnlyIf Written OnTime
PROPERTY Ends
