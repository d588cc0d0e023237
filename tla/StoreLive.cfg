\* Chunks of no known type, which leak a pin; kills, one of them between the
\* writes of an add; free lists of several entries.
SPECIFICATION FairSpec
CONSTANTS
  Hashes = {1, 2}
  Length <- LengthIsHash
  Types = {"OTHER"}
  GivenRefs = {1}
  Deltas <- Refused
  HEADER = 1
  RECORD = 2
  INDEXGROWTH = 1
  PAGESIZE = 2
  U32 = 1000
  REFS = 4
  CrashPoints = {"load", "mark", "idle", "stuck", "create", "active", "flags"}
  MaxData = 4
  MaxSlots = 2
  MaxUse = 1
PROPERTIES MarkProgress StartupEnds AddEnds
