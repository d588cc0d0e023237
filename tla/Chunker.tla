------------------------------ MODULE Chunker -------------------------------
(***************************************************************************)
(* lib/cas.cc: FixedChunker and RabinChunker, which say where the next     *)
(* chunk of a buffer ends.  The loop of RabinChunker::next is one action   *)
(* per byte; the bytes are char, which is signed here, and % rounds        *)
(* towards zero, so that the rolling hash may be negative.                 *)
(*                                                                         *)
(* The reader is not in the sources (Smache::dcreate is a stub): it has a  *)
(* stream, calls next on what is left of it or on inputsize bytes of that, *)
(* and goes on after the chunk.  The stream is decided byte by byte.       *)
(* An operator that only a comment's word sets apart from the one after it *)
(* (RolledEarly and Rolled) is that operator with a mistake.               *)
(***************************************************************************)
EXTENDS Integers, Sequences, SequencesExt, FiniteSetsExt

CONSTANTS
  PRIME_BASE, PRIME_MOD, WINDOW_SIZE,
  BLOCK_MIN,   \* sizeof(hash_t)
  BLOCK_MAX,   \* MaximumChunkSize
  Bytes,       \* values of char
  Blocks,      \* block sizes
  MaxTotal     \* bound: the longest stream

ASSUME PrimeAssumption == PRIME_BASE \in Nat \ {0} /\ PRIME_MOD \in Nat \ {0}
ASSUME WindowAssumption == WINDOW_SIZE \in Nat \ {0}
ASSUME BlockAssumption ==
  BLOCK_MIN \in Nat /\ BLOCK_MAX \in Nat /\ BLOCK_MIN <= BLOCK_MAX /\ Blocks \subseteq Nat
ASSUME BytesAssumption == Bytes \subseteq Int
ASSUME TotalAssumption == MaxTotal \in Nat

VARIABLES
  kind,    \* which chunker it is
  block,   \* Chunker::block
  total,   \* the length of the stream
  pos,     \* how much of it the chunks so far cover
  length,  \* argument of next: the length of the buffer
  data,    \* the bytes of the buffer that next has looked at
  hash,    \* the rolling hash
  cut,     \* whether next found a cut point
  last,    \* flags.length of the last chunk
  pc       \* the reader's turn, the loop of next, or dead

vars == <<kind, block, total, pos, length, data, hash, cut, last, pc>>
fixed == <<kind, block, total>>

\* a % m of C.
Remainder(a, m) == IF a >= 0 THEN a % m ELSE -((-a) % m)

\* RabinChunker::RabinChunker.
Power ==
  LET power[j \in 0 .. WINDOW_SIZE + 1] ==
        IF j = 0 THEN 1 ELSE (power[j - 1] * PRIME_BASE) % PRIME_MOD
  IN  power[WINDOW_SIZE + 1]

\* Chunker::inputsize.  FixedChunker's second assignment takes block again.
InputSize == IF kind = "fixed" THEN Max({block, BLOCK_MIN}) ELSE BLOCK_MAX

Init ==
  /\ kind \in {"fixed", "rabin"} /\ block \in Blocks /\ total \in 0 .. MaxTotal
  /\ pos = 0 /\ length = 0 /\ data = <<>> /\ hash = 0
  /\ cut = FALSE /\ last = 0
  /\ pc = "reader"

\* The reader calls next on what is left, or on at most inputsize of it.
Call ==
  /\ pc = "reader" /\ pos < total
  /\ length' \in {total - pos, Min({total - pos, InputSize})}
  /\ data' = <<>> /\ hash' = 0 /\ cut' = FALSE
  /\ pc' = kind
  /\ UNCHANGED <<fixed, pos, last>>

\* The chunk next gives; the reader goes on behind it.
Chunk(n) ==
  /\ last' = n
  /\ pos' = pos + n
  /\ pc' = "reader"

-----------------------------------------------------------------------------
\* FixedChunker::next.
FixedNextWhole ==
  /\ pc = "fixed"
  /\ Chunk(block)
  /\ UNCHANGED <<fixed, length, data, hash, cut>>
FixedNext ==
  /\ pc = "fixed"
  /\ Chunk(Min({block, length}))
  /\ UNCHANGED <<fixed, length, data, hash, cut>>

\* RabinChunker::next: the hash after byte c, at index i.  From the index
\* WINDOW_SIZE + 1 on a byte is taken out.
Shifted(c) == Remainder(hash * PRIME_BASE + c, PRIME_MOD)

RolledEarly(c) ==
  LET i == Len(data)
  IN  IF i >= WINDOW_SIZE
      THEN Remainder(Shifted(c) - Power * Append(data, c)[i - WINDOW_SIZE + 1], PRIME_MOD)
      ELSE Shifted(c)
Rolled(c) ==
  LET i == Len(data)
  IN  IF i > WINDOW_SIZE
      THEN Remainder(Shifted(c) - Power * data[i - WINDOW_SIZE], PRIME_MOD)
      ELSE Shifted(c)

CutAtHash(h, i) == Remainder(h, block) = 0 /\ i >= BLOCK_MIN
CutAt(h, i) == (Remainder(h, block) = 0 /\ i >= BLOCK_MIN) \/ i >= BLOCK_MAX

RabinByte(c) ==
  LET i == Len(data)
  IN  /\ pc = "rabin" /\ i < length /\ block > 0
      /\ data' = Append(data, c)
      /\ hash' = Rolled(c)
      /\ cut' = CutAt(hash', i)
      /\ IF cut' THEN Chunk(i + 1) ELSE UNCHANGED <<last, pos, pc>>
      /\ UNCHANGED <<fixed, length>>

\* The loop ends without a cut point, with i = length.
RabinEnd ==
  /\ pc = "rabin" /\ Len(data) = length
  /\ Chunk(length + 1)
  /\ UNCHANGED <<fixed, length, data, hash, cut>>

\* A remainder by zero ends the process.
RabinZero ==
  /\ pc = "rabin" /\ Len(data) < length /\ block = 0
  /\ pc' = "dead"
  /\ UNCHANGED <<fixed, pos, length, data, hash, cut, last>>

Next == Call \/ FixedNext \/ (\E c \in Bytes : RabinByte(c)) \/ RabinEnd \/ RabinZero

Spec == Init /\ [][Next]_vars
FairSpec == Spec /\ WF_vars(Next)

-----------------------------------------------------------------------------
\* Every variable has its type; the hash keeps within PRIME_MOD of zero on
\* either side, so that its product with the base is bounded too.
TypeOK ==
  /\ kind \in {"fixed", "rabin"} /\ block \in Blocks /\ total \in 0 .. MaxTotal
  /\ pos \in 0 .. total + 1 /\ length \in 0 .. total
  /\ data \in Seq(Bytes) /\ Len(data) <= length
  /\ hash \in -PRIME_MOD + 1 .. PRIME_MOD - 1
  /\ cut \in BOOLEAN /\ last \in 0 .. total + 1
  /\ pc \in {"reader", "fixed", "rabin", "dead"}

\* The polynomial in the base that has the given bytes, the last one lowest.
Polynomial(bytes) ==
  LET sum[j \in 0 .. Len(bytes)] ==
        IF j = 0 THEN 0 ELSE sum[j - 1] * PRIME_BASE + bytes[j]
  IN  sum[Len(bytes)]
Window == SubSeq(data, Max({1, Len(data) - WINDOW_SIZE}), Len(data))

\* The rolling hash is that of the last WINDOW_SIZE + 1 bytes, or PRIME_MOD
\* less: which of the two depends on bytes that have left the window.
WindowHash ==
  LET residue == Polynomial(Window) % PRIME_MOD
  IN  hash = residue \/ hash = residue - PRIME_MOD

\* A chunk lies within its buffer, or there is no cut point in the buffer and
\* the chunk is one byte longer.  A chunk of RabinChunker is longer than
\* BLOCK_MIN if it ends at a cut point, and at most one byte longer than
\* BLOCK_MAX.
ChunkBounds ==
  pc = "reader" /\ last > 0 =>
    /\ last <= length \/ (kind = "rabin" /\ ~cut /\ last = length + 1)
    /\ cut => last > BLOCK_MIN
    /\ kind = "rabin" => last <= BLOCK_MAX + 1

\* The chunks cover the stream without end or gap, to its end or, if the last
\* one has no cut point, one byte past it; a block size of zero never gets there.
StreamEnds == <>(pos = total \/ (pos = total + 1 /\ ~cut) \/ block = 0)
=============================================================================
