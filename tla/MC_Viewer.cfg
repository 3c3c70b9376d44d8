\* Three entries of two servers, three groupings, two heights.
CONSTANTS
  Entries <- TwoAndOne
  Keys = {"u", "n"}
  FilterUser = "ann"
  Heights = {3, 4}
  MaxKeys = 2
SPECIFICATION FairSpec
INVARIANTS TypeOK RowsCountOnce WindowOverRows
PROPERTIES HeaderComesToFit
CHECK_DEADLOCK FALSE
