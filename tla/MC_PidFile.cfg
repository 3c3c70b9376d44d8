\* Clients that start, stop and die in any order: what the lock gives.
CONSTANTS
  Clients = {d1, d2, d3, d4}
  Others = {s1}
  MaxFiles = 3
SPECIFICATION PidSpec
SYMMETRY Symmetry
INVARIANTS PidTypeOK SecondOnlyAfterStop
CHECK_DEADLOCK FALSE
