CONSTANTS
  Requests = {j1, j2}
  MaxDay = 2
  MaxCrashes = 1
  NoOne = NoOne
SPECIFICATION FairSpec
INVARIANTS TypeOK ReportCoversWindow
PROPERTIES JobsEnd
CHECK_DEADLOCK FALSE
