\* Every fault, a restart, cron and a monitored node with two jobs, in a cluster where
\* others may run too, so that a snapshot may say that the node is idle.
CONSTANTS
  Nodes = {h1}
  Monitored = {h1}
  Qhosts = {q1}
  Elsewhere = TRUE
  Backlog = 2
  MaxJobs = 2
  MaxRestarts = 1
  Faults <- AllFaults
SPECIFICATION FairSpec
INVARIANTS TypeOK TagsSettle
PROPERTIES JobComesToBeShown ServerKeepsServing
CHECK_DEADLOCK FALSE
