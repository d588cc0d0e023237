\* Opens, closes and kills outside the writes of an add, up to the first defect.
SPECIFICATION Spec
CONSTANTS
  Hashes = {1, 2, 3}
  Length <- LengthIsHash
  Types = {"DATA", "META"}
  GivenRefs = {1}
  Deltas = {}
  HEADER = 1
  RECORD = 2
  INDEXGROWTH = 1
  PAGESIZE = 2
  U32 = 1000
  REFS = 2
  CrashPoints = {"load", "mark", "idle", "create", "active"}
  MaxData = 8
  MaxSlots = 4
  MaxUse = 0
INVARIANTS NoOverlap NoLoss ContentSafe
CONSTRAINT FaultFree
