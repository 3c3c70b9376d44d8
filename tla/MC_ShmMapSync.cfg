\* One server, one reader, no failure from outside: the copy that never happens.
CONSTANTS
  Readers = {r1}
  MaxStarts = 1
  MaxVer = 1
  Faults <- NoFaults
SPECIFICATION FairSpec
PROPERTIES SyncKeepsHappening
CHECK_DEADLOCK FALSE
