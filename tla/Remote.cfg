\* A chunk of the remote caller and two of local clients, which come and go
\* without end; every way a call may end.
SPECIFICATION FairSpec
CONSTANTS
  Hashes = {1, 2, 3}
  Mine = {2}
  Types = {"DATA", "META"}
  REFS = 2
  GivenRefs = {1}
  Sizes = {1, 2}
  Ends = {"answers", "refuses", "fails", "lost", "other"}
  Deltas <- UpDown
  Often = 2
  MaxRefs = 1
INVARIANTS TypeOK ScanMisses ScanOnce
PROPERTIES ScanCounts ScanEnds
CHECK_DEADLOCK FALSE
