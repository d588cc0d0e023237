\* Opens, closes and kills outside the writes of an add.
SPECIFICATION Spec
CONSTANTS
  Hashes = {1, 2}
  Length <- LengthIsHash
  Types = {"DATA", "META"}
  GivenRefs = {0, 1}
  Deltas <- UpDown
  HEADER = 1
  RECORD = 2
  INDEXGROWTH = 1
  PAGESIZE = 2
  U32 = 1000
  REFS = 2
  CrashPoints = {"load", "mark", "idle", "create", "active"}
  MaxData = 4
  MaxSlots = 3
  MaxUse = 0
INVARIANTS NoOrphans
PROPERTIES Implements
