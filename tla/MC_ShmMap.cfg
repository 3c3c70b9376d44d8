\* Every failure, two servers one after the other, two readers: safety.
CONSTANTS
  Readers = {r1, r2}
  MaxStarts = 2
  MaxVer = 2
  Faults <- AllFaults
SPECIFICATION Spec
SYMMETRY Symmetry
INVARIANTS TypeOK SemaphoreExclusion TokenConserved TornOnlyAcrossRestart NothingOlderThanSemaphore
PROPERTIES ViewMonotone ImplementsBoard
CHECK_DEADLOCK FALSE
