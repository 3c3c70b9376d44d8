\* One nid whose export lists two events, one after the other or never: counters,
\* clock, loss, the export's end and restart.
CONSTANTS
  Servers = {s1}
  Clients = {}
  Nids = {n1}
  Events = {e1, e2}
  Jobs = {}
  MaxOps = 2
  MaxTime = 3
  MaxMishaps = 2
SPECIFICATION FairSpec
INVARIANTS TypeOK NoOpCountedTwice NoOpPassedOver
PROPERTIES PublishedForward NewDataIsAccounted
