\* Streams of up to nine bytes, a window of three, hashes modulo 7.
SPECIFICATION FairSpec
CONSTANTS
  PRIME_BASE = 3
  PRIME_MOD = 7
  WINDOW_SIZE = 2
  BLOCK_MIN = 3
  BLOCK_MAX = 6
  Bytes <- Signed
  Blocks = {0, 1, 4, 5, 8}
  MaxTotal = 9
INVARIANTS TypeOK WindowHash ChunkBounds
PROPERTIES StreamEnds
CHECK_DEADLOCK FALSE
