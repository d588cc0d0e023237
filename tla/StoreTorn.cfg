\* Kills anywhere; chunks of a counted type and of none, and slots of zeros,
\* whose type is a third one; an index that grows behind the first chunk.
SPECIFICATION Spec
CONSTANTS
  Hashes = {1, 2}
  Length <- LengthIsHash
  Types = {"META", "OTHER"}
  GivenRefs = {1}
  Deltas = {}
  HEADER = 1
  RECORD = 2
  INDEXGROWTH = 1
  PAGESIZE = 3
  U32 = 1000
  REFS = 4
  CrashPoints = {"load", "mark", "idle", "stuck", "create", "active", "hash", "offset", "flags"}
  MaxData = 3
  MaxSlots = 2
  MaxUse = 0
INVARIANTS TypeOK SlotsExact MapSound CountExact ExtentsInFile
PROPERTIES SlotStable
