\* Intervals that fit and that do not, and three mishaps of any kind.
CONSTANTS
  Frequencies = {2, 5}
  ShmIntervals = {0, 1}
  DbIntervals = {0, 3}
  FuseInterval = 3
  MaxReports = 4
  MaxMishaps = 3
SPECIFICATION FairSpec
INVARIANTS TypeOK
PROPERTIES RowsForward RowsJoin ReportsReachDatabase
