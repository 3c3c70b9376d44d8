\* The service and one started by hand, with reloads, crashes and stops, and a reader.
CONSTANTS
  Inst = {"service", "stray"}
  Services = {"service"}
  Readers = {"pfstop"}
SPECIFICATION FairSpec
INVARIANTS TypeOK AloneServes TokensAccounted
PROPERTIES ReloadedServesAgain
