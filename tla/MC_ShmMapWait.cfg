\* Two servers of two documents each, which fail in their start or crash in their event
\* loop, and two readers: who may stay blocked in sem_wait, and what comes to be shown.
CONSTANTS
  Readers = {r1, r2}
  MaxStarts = 2
  MaxVer = 2
  Faults = {"server_crash", "init_fail"}
SPECIFICATION FairSpec
PROPERTIES WaitersGetThrough ViewersCatchUp
CHECK_DEADLOCK FALSE
