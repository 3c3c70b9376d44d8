\* Two lengths, so that statements end before, at and after the buffer's end.
CONSTANTS
  Room = 7
  Lengths = {2, 3}
  MaxEntries = 6
SPECIFICATION PqSpec
INVARIANTS PqTypeOK MissingOrTwiceOnlyIf InOrder
CHECK_DEADLOCK FALSE
