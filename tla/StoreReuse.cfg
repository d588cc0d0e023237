\* Opens and closes, no kill: the free list alone.
SPECIFICATION Spec
CONSTANTS
  Hashes = {1, 2}
  Length <- LengthIsHash
  Types = {"DATA"}
  GivenRefs = {1}
  Deltas = {}
  HEADER = 1
  RECORD = 2
  INDEXGROWTH = 1
  PAGESIZE = 2
  U32 = 1000
  REFS = 2
  CrashPoints = {}
  MaxData = 4
  MaxSlots = 3
  MaxUse = 0
INVARIANTS ContentAddressed
