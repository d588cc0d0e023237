---------------------------- MODULE ChunkerProofs ----------------------------
(***************************************************************************)
(* The lengths of the chunks, and the rolling hash, for every window, base,*)
(* modulus, block size and stream.  The lengths do not depend on the hash. *)
(* For the hash, Power and Polynomial are unfolded to functions that       *)
(* satisfy their equations (PowerComputed, SumsComputed), and equality is  *)
(* up to a multiple of PRIME_MOD (Congruent), which C's remainder respects.*)
(***************************************************************************)
EXTENDS Chunker, Lemmas

\* What is left of a stream, or less of it, is in the buffer, of which
\* RabinChunker has seen BLOCK_MAX bytes at most: it cuts at the next one.
ChunkInv ==
  /\ block \in Nat /\ total \in Nat /\ pos \in Nat /\ length \in Nat /\ last \in Nat
  /\ data \in Seq(Bytes)
  /\ kind \in {"fixed", "rabin"} /\ pc \in {"reader", "fixed", "rabin", "dead"}
  /\ pc \in {"fixed", "rabin"} => pc = kind /\ ~cut
  /\ pc = "rabin" => Len(data) <= length /\ Len(data) <= BLOCK_MAX
  /\ ChunkBounds

LEMMA MaxOfTwo ==
  ASSUME NEW a \in Nat, NEW b \in Nat
  PROVE  Max({a, b}) \in Nat
<1>1. \E x \in {a, b} : \A y \in {a, b} : x >= y
  <2>1. CASE a >= b
    BY <2>1
  <2>2. CASE b >= a
    BY <2>2
  <2> QED
    BY <2>1, <2>2
<1>2. Max({a, b}) \in {a, b}
  BY <1>1 DEF Max
<1> QED
  BY <1>2

-----------------------------------------------------------------------------
(* The steps. *)

LEMMA CallInv ==
  ASSUME ChunkInv, Call
  PROVE  ChunkInv'
<1>1. /\ pos < total /\ length' \in {total - pos, Min({total - pos, InputSize})}
      /\ data' = <<>> /\ cut' = FALSE /\ pc' = kind /\ pos' = pos /\ last' = last
      /\ kind' = kind /\ block' = block /\ total' = total
  BY DEF Call, fixed
<1>2. InputSize \in Nat
  <2>1. Max({block, BLOCK_MIN}) \in Nat
    BY MaxOfTwo, BlockAssumption DEF ChunkInv
  <2> QED
    BY <2>1, BlockAssumption DEF InputSize
<1>3. total - pos \in Nat
  BY <1>1 DEF ChunkInv
<1>4. length' \in Nat
  BY <1>1, <1>2, <1>3, MinOfTwo
<1>5. data' \in Seq(Bytes) /\ Len(data') = 0
  BY <1>1, EmptySeq
<1>6. pc' \in {"fixed", "rabin"}
  BY <1>1 DEF ChunkInv
<1>7. ChunkBounds'
  BY <1>6 DEF ChunkBounds
<1>8. Len(data') <= length' /\ Len(data') <= BLOCK_MAX
  BY <1>4, <1>5, BlockAssumption
<1>9. UNCHANGED <<kind, block, total, pos, last>> /\ ~cut' /\ pc' = kind'
  BY <1>1
<1> QED
  BY <1>4, <1>5, <1>6, <1>7, <1>8, <1>9 DEF ChunkInv

LEMMA FixedInv ==
  ASSUME ChunkInv, FixedNext
  PROVE  ChunkInv'
<1>1. /\ pc = "fixed" /\ last' = Min({block, length}) /\ pos' = pos + Min({block, length})
      /\ pc' = "reader" /\ kind' = kind /\ block' = block /\ total' = total
      /\ length' = length /\ data' = data /\ cut' = cut
  BY DEF FixedNext, Chunk, fixed
<1>2. Min({block, length}) \in Nat /\ Min({block, length}) <= length
  BY MinOfTwo DEF ChunkInv
<1>3. kind = "fixed" /\ ~cut
  BY <1>1 DEF ChunkInv
<1> QED
  BY <1>1, <1>2, <1>3 DEF ChunkInv, ChunkBounds

LEMMA ByteInv ==
  ASSUME ChunkInv, NEW c \in Bytes, RabinByte(c)
  PROVE  ChunkInv'
<1> DEFINE i == Len(data)
<1>1. /\ pc = "rabin" /\ i < length /\ data' = Append(data, c)
      /\ cut' = CutAt(hash', i)
      /\ IF cut' THEN Chunk(i + 1) ELSE UNCHANGED <<last, pos, pc>>
      /\ kind' = kind /\ block' = block /\ total' = total /\ length' = length
  BY DEF RabinByte, fixed
<1>2. /\ i \in Nat /\ data' \in Seq(Bytes) /\ Len(data') = i + 1
      /\ kind = "rabin" /\ i <= BLOCK_MAX
      /\ BLOCK_MAX \in Nat /\ BLOCK_MIN \in Nat /\ BLOCK_MIN <= BLOCK_MAX
  BY <1>1, BlockAssumption, LenProperties, AppendProperties DEF ChunkInv
<1> HIDE DEF i
<1>3. CASE cut'
  <2>1. last' = i + 1 /\ pos' = pos + (i + 1) /\ pc' = "reader"
    BY <1>1, <1>3 DEF Chunk
  <2>2. i >= BLOCK_MIN \/ i >= BLOCK_MAX
    BY <1>1, <1>3 DEF CutAt
  <2> QED
    BY <1>1, <1>2, <1>3, <2>1, <2>2 DEF ChunkInv, ChunkBounds
<1>4. CASE ~cut'
  <2>1. last' = last /\ pos' = pos /\ pc' = "rabin"
    BY <1>1, <1>4
  <2>2. ~(i >= BLOCK_MAX)
    BY <1>1, <1>4 DEF CutAt
  <2> QED
    BY <1>1, <1>2, <1>4, <2>1, <2>2 DEF ChunkInv, ChunkBounds
<1> QED
  BY <1>3, <1>4

LEMMA EndInv ==
  ASSUME ChunkInv, RabinEnd
  PROVE  ChunkInv'
<1>1. /\ pc = "rabin" /\ Len(data) = length /\ last' = length + 1
      /\ pos' = pos + (length + 1)
      /\ pc' = "reader" /\ kind' = kind /\ block' = block /\ total' = total
      /\ length' = length /\ data' = data /\ cut' = cut
  BY DEF RabinEnd, Chunk, fixed
<1> QED
  BY <1>1, BlockAssumption DEF ChunkInv, ChunkBounds

\* However long the stream and whatever its bytes, a chunk lies within its
\* buffer or has no cut point and is one byte longer; one of RabinChunker that
\* ends at a cut point is longer than BLOCK_MIN, and none is longer than
\* BLOCK_MAX by more than a byte.
THEOREM AlwaysChunkBounds == Spec => []ChunkBounds
<1>1. Init => ChunkInv
  <2> SUFFICES ASSUME Init PROVE ChunkInv
    OBVIOUS
  <2>1. block \in Nat /\ total \in Nat /\ data \in Seq(Bytes)
    BY BlockAssumption, TotalAssumption, EmptySeq DEF Init
  <2> QED
    BY <2>1 DEF Init, ChunkInv, ChunkBounds
<1>2. ChunkInv /\ [Next]_vars => ChunkInv'
  <2> SUFFICES ASSUME ChunkInv, [Next]_vars PROVE ChunkInv'
    OBVIOUS
  <2>1. CASE UNCHANGED vars
    BY <2>1 DEF vars, ChunkInv, ChunkBounds
  <2>2. CASE Next
    <3>1. CASE RabinZero
      BY <3>1 DEF RabinZero, fixed, ChunkInv, ChunkBounds
    <3> QED
      BY <2>2, <3>1, CallInv, FixedInv, ByteInv, EndInv DEF Next
  <2> QED
    BY <2>1, <2>2
<1>3. ChunkInv => ChunkBounds
  BY DEF ChunkInv
<1> QED
  BY <1>1, <1>2, <1>3, PTL DEF Spec

-----------------------------------------------------------------------------
(* What the recursive definitions compute: there is a function as they say, *)
(* and its values are numbers.                                             *)

\* The powers of the base, one after the other.
IsPowers(q) ==
  /\ q \in [0 .. WINDOW_SIZE + 1 -> Int]
  /\ q[0] = 1
  /\ \A j \in 1 .. WINDOW_SIZE + 1 : q[j] = (q[j - 1] * PRIME_BASE) % PRIME_MOD

\* The polynomials of the first bytes, one after the other.
IsSums(bytes, s) ==
  /\ s \in [0 .. Len(bytes) -> Int]
  /\ s[0] = 0
  /\ \A j \in 1 .. Len(bytes) : s[j] = s[j - 1] * PRIME_BASE + bytes[j]

LEMMA PowerComputed == \E q : IsPowers(q) /\ Power = q[WINDOW_SIZE + 1]
<1> DEFINE n == WINDOW_SIZE + 1
           F(q) == [j \in 0 .. n |-> IF j = 0 THEN 1 ELSE (q[j - 1] * PRIME_BASE) % PRIME_MOD]
           chosen == CHOOSE q : q = F(q)
           step == [x \in (1 .. n) \X Int |-> (x[2] * PRIME_BASE) % PRIME_MOD]
<1>1. n \in Nat /\ PRIME_BASE \in Nat /\ PRIME_MOD \in Nat \ {0}
  BY WindowAssumption, PrimeAssumption
<1>2. \A j \in 1 .. n, x \in Int :
        step[<<j, x>>] = (x * PRIME_BASE) % PRIME_MOD /\ step[<<j, x>>] \in Int
  <2> TAKE j \in 1 .. n, x \in Int
  <2>1. <<j, x>> \in (1 .. n) \X Int /\ <<j, x>>[2] = x
    OBVIOUS
  <2>2. (x * PRIME_BASE) % PRIME_MOD \in Int
    BY <1>1
  <2> QED
    BY <2>1, <2>2
<1> HIDE DEF step
<1>3. Steps(Int, 1, n, step)
  BY <1>1, <1>2 DEF Steps
<1>4. PICK q : /\ q \in [0 .. n -> Int] /\ q[0] = 1
               /\ \A j \in 1 .. n : q[j] = step[<<j, q[j - 1]>>]
  BY <1>3, RecursionExists DEF Stepwise
<1>5. q = F(q)
  <2>1. \A j \in 1 .. n : q[j - 1] \in Int /\ q[j] = (q[j - 1] * PRIME_BASE) % PRIME_MOD
    <3>1. \A j \in 1 .. n : j - 1 \in 0 .. n
      BY <1>1
    <3> QED
      BY <1>2, <1>4, <3>1
  <2>2. \A j \in 0 .. n : j = 0 \/ j \in 1 .. n
    BY <1>1
  <2> QED
    BY <1>4, <2>1, <2>2
<1>6. chosen = F(chosen)
  <2> HIDE DEF F
  <2> QED
    BY <1>5
<1>7. Power = chosen[n]
  BY DEF Power
<1> HIDE DEF chosen
<1>8. /\ chosen[0] = 1
      /\ \A j \in 1 .. n : chosen[j] = (chosen[j - 1] * PRIME_BASE) % PRIME_MOD
  <2>1. \A j \in 0 .. n :
          chosen[j] = IF j = 0 THEN 1 ELSE (chosen[j - 1] * PRIME_BASE) % PRIME_MOD
    BY <1>6
  <2>2. 0 \in 0 .. n /\ \A j \in 1 .. n : j \in 0 .. n /\ j # 0
    BY <1>1
  <2> QED
    BY <2>1, <2>2
<1>9. \A j \in 0 .. n : chosen[j] \in Int
  <2> DEFINE I == {j \in 0 .. n : chosen[j] \in Int}
  <2>1. 0 \in I
    BY <1>1, <1>8
  <2>2. ASSUME NEW j \in 1 .. n, j - 1 \in I
        PROVE  j \in I
    <3>1. (chosen[j - 1] * PRIME_BASE) % PRIME_MOD \in Int
      BY <1>1, <2>2
    <3> QED
      BY <1>1, <1>8, <3>1
  <2> HIDE DEF I
  <2>3. \A j \in 0 .. n : j \in I
    BY <1>1, <2>1, <2>2, SetInduction
  <2> QED
    BY <2>3 DEF I
<1> QED
  BY <1>6, <1>7, <1>8, <1>9 DEF IsPowers

LEMMA SumsComputed ==
  ASSUME NEW bytes \in Seq(Int)
  PROVE  \E s : IsSums(bytes, s) /\ Polynomial(bytes) = s[Len(bytes)]
<1> DEFINE n == Len(bytes)
           F(s) == [j \in 0 .. n |-> IF j = 0 THEN 0 ELSE s[j - 1] * PRIME_BASE + bytes[j]]
           chosen == CHOOSE s : s = F(s)
           step == [x \in (1 .. n) \X Int |-> x[2] * PRIME_BASE + bytes[x[1]]]
<1>1. n \in Nat /\ PRIME_BASE \in Nat /\ \A j \in 1 .. n : bytes[j] \in Int
  BY PrimeAssumption, LenProperties, ElementOfSeq
<1>2. \A j \in 1 .. n, x \in Int :
        step[<<j, x>>] = x * PRIME_BASE + bytes[j] /\ step[<<j, x>>] \in Int
  <2> TAKE j \in 1 .. n, x \in Int
  <2>1. <<j, x>> \in (1 .. n) \X Int /\ <<j, x>>[2] = x /\ <<j, x>>[1] = j
    OBVIOUS
  <2>2. x * PRIME_BASE + bytes[j] \in Int
    BY <1>1
  <2> QED
    BY <2>1, <2>2
<1> HIDE DEF step, n
<1>3. Steps(Int, 0, n, step)
  BY <1>1, <1>2 DEF Steps
<1>4. PICK s : /\ s \in [0 .. n -> Int] /\ s[0] = 0
               /\ \A j \in 1 .. n : s[j] = step[<<j, s[j - 1]>>]
  BY <1>3, RecursionExists DEF Stepwise
<1>5. s = F(s)
  <2>1. \A j \in 1 .. n : s[j - 1] \in Int /\ s[j] = s[j - 1] * PRIME_BASE + bytes[j]
    <3>1. \A j \in 1 .. n : j - 1 \in 0 .. n
      BY <1>1
    <3> QED
      BY <1>2, <1>4, <3>1
  <2>2. \A j \in 0 .. n : j = 0 \/ j \in 1 .. n
    BY <1>1
  <2> QED
    BY <1>4, <2>1, <2>2
<1>6. chosen = F(chosen)
  <2> HIDE DEF F
  <2> QED
    BY <1>5
<1>7. Polynomial(bytes) = chosen[n]
  BY DEF Polynomial, n
<1> HIDE DEF chosen
<1>8. /\ chosen[0] = 0
      /\ \A j \in 1 .. n : chosen[j] = chosen[j - 1] * PRIME_BASE + bytes[j]
  <2>1. \A j \in 0 .. n :
          chosen[j] = IF j = 0 THEN 0 ELSE chosen[j - 1] * PRIME_BASE + bytes[j]
    BY <1>6
  <2>2. 0 \in 0 .. n /\ \A j \in 1 .. n : j \in 0 .. n /\ j # 0
    BY <1>1
  <2> QED
    BY <2>1, <2>2
<1>9. \A j \in 0 .. n : chosen[j] \in Int
  <2> DEFINE I == {j \in 0 .. n : chosen[j] \in Int}
  <2>1. 0 \in I
    BY <1>1, <1>8
  <2>2. ASSUME NEW j \in 1 .. n, j - 1 \in I
        PROVE  j \in I
    <3>1. chosen[j - 1] * PRIME_BASE + bytes[j] \in Int
      BY <1>1, <2>2
    <3> QED
      BY <1>1, <1>8, <3>1
  <2> HIDE DEF I
  <2>3. \A j \in 0 .. n : j \in I
    BY <1>1, <2>1, <2>2, SetInduction
  <2> QED
    BY <2>3 DEF I
<1>10. chosen \in [0 .. n -> Int]
  BY <1>6, <1>9
<1> QED
  BY <1>7, <1>8, <1>10 DEF IsSums, n

-----------------------------------------------------------------------------
(* Numbers that differ by a multiple of PRIME_MOD. *)

Congruent(a, b) == \E z \in Int : a = b + PRIME_MOD * z

LEMMA CongruentTo ==
  ASSUME NEW a \in Int, NEW b \in Int, NEW z \in Int, a = b + PRIME_MOD * z
  PROVE  Congruent(a, b)
BY DEF Congruent

LEMMA CongruentTrans ==
  ASSUME NEW a \in Int, NEW b \in Int, NEW c \in Int, Congruent(a, b), Congruent(b, c)
  PROVE  Congruent(a, c)
<1>1. PICK y \in Int, z \in Int : a = b + PRIME_MOD * y /\ b = c + PRIME_MOD * z
  BY DEF Congruent
<1>2. y + z \in Int /\ PRIME_MOD \in Int
  BY PrimeAssumption
<1>3. a = c + PRIME_MOD * (y + z)
  BY <1>1, <1>2
<1> QED
  BY <1>2, <1>3, CongruentTo

LEMMA CongruentSym ==
  ASSUME NEW a \in Int, NEW b \in Int, Congruent(a, b)
  PROVE  Congruent(b, a)
<1>1. PICK z \in Int : a = b + PRIME_MOD * z
  BY DEF Congruent
<1>2. -z \in Int /\ PRIME_MOD \in Int
  BY PrimeAssumption
<1>3. b = a + PRIME_MOD * (-z)
  BY <1>1, <1>2
<1> QED
  BY <1>2, <1>3, CongruentTo

LEMMA CongruentScaled ==
  ASSUME NEW a \in Int, NEW b \in Int, Congruent(a, b), NEW k \in Int, NEW c \in Int
  PROVE  Congruent(a * k + c, b * k + c)
<1>1. PICK z \in Int : a = b + PRIME_MOD * z
  BY DEF Congruent
<1>2. z * k \in Int /\ PRIME_MOD \in Int /\ a * k + c \in Int /\ b * k + c \in Int
  BY PrimeAssumption
<1>3. a * k + c = (b * k + c) + PRIME_MOD * (z * k)
  BY <1>1, <1>2
<1> QED
  BY <1>2, <1>3, CongruentTo

LEMMA CongruentShifted ==
  ASSUME NEW a \in Int, NEW b \in Int, Congruent(a, b), NEW c \in Int
  PROVE  Congruent(a + c, b + c)
<1>1. PICK z \in Int : a = b + PRIME_MOD * z
  BY DEF Congruent
<1>2. a + c \in Int /\ b + c \in Int /\ PRIME_MOD \in Int
  BY PrimeAssumption
<1>3. a + c = (b + c) + PRIME_MOD * z
  BY <1>1, <1>2
<1> QED
  BY <1>2, <1>3, CongruentTo

LEMMA ModuloFacts ==
  ASSUME NEW a \in Int
  PROVE  a % PRIME_MOD \in 0 .. PRIME_MOD - 1 /\ Congruent(a, a % PRIME_MOD)
<1>1. /\ a \div PRIME_MOD \in Int /\ a % PRIME_MOD \in 0 .. PRIME_MOD - 1
      /\ a = PRIME_MOD * (a \div PRIME_MOD) + (a % PRIME_MOD)
  BY Division, PrimeAssumption
<1>2. PICK q \in Int, r \in Int : q = a \div PRIME_MOD /\ r = a % PRIME_MOD
  BY <1>1
<1>3. a = r + PRIME_MOD * q
  BY <1>1, <1>2, PrimeAssumption
<1> QED
  BY <1>1, <1>2, <1>3, CongruentTo

\* C's remainder has the sign of the number.
LEMMA RemainderFacts ==
  ASSUME NEW a \in Int
  PROVE  /\ Remainder(a, PRIME_MOD) \in -PRIME_MOD + 1 .. PRIME_MOD - 1
         /\ Congruent(Remainder(a, PRIME_MOD), a)
<1>1. PRIME_MOD \in Nat \ {0}
  BY PrimeAssumption
<1>2. CASE a >= 0
  <2>1. Remainder(a, PRIME_MOD) = a % PRIME_MOD
    BY <1>2 DEF Remainder
  <2>2. PICK r \in 0 .. PRIME_MOD - 1 : r = a % PRIME_MOD /\ Congruent(a, r)
    BY ModuloFacts
  <2>3. r \in Int /\ r \in -PRIME_MOD + 1 .. PRIME_MOD - 1
    BY <1>1
  <2>4. Congruent(r, a)
    BY <2>2, <2>3, CongruentSym
  <2> QED
    BY <2>1, <2>2, <2>3, <2>4
<1>3. CASE ~ (a >= 0)
  <2>1. Remainder(a, PRIME_MOD) = -((-a) % PRIME_MOD)
    BY <1>3 DEF Remainder
  <2>2. PICK r \in 0 .. PRIME_MOD - 1 : r = (-a) % PRIME_MOD /\ Congruent(-a, r)
    <3>1. -a \in Int
      OBVIOUS
    <3> QED
      BY <3>1, ModuloFacts
  <2>3. -r \in Int /\ -r \in -PRIME_MOD + 1 .. PRIME_MOD - 1
    BY <1>1
  <2>4. Congruent(-r, a)
    <3>1. PICK z \in Int : -a = r + PRIME_MOD * z
      BY <2>2 DEF Congruent
    <3>2. -r = a + PRIME_MOD * z
      BY <1>1, <3>1
    <3> QED
      BY <2>3, <3>2, CongruentTo
  <2> QED
    BY <2>1, <2>2, <2>3, <2>4
<1> QED
  BY <1>2, <1>3

\* A number within PRIME_MOD on either side of zero is one of two.
LEMMA CongruentNear ==
  ASSUME NEW a \in -PRIME_MOD + 1 .. PRIME_MOD - 1, NEW b \in Int, Congruent(a, b)
  PROVE  a = b % PRIME_MOD \/ a = (b % PRIME_MOD) - PRIME_MOD
<1>1. PICK r \in 0 .. PRIME_MOD - 1 : r = b % PRIME_MOD /\ Congruent(b, r)
  BY ModuloFacts
<1>2. a \in Int /\ r \in Int /\ PRIME_MOD \in Nat \ {0}
  BY PrimeAssumption
<1>3. Congruent(a, r)
  BY <1>1, <1>2, CongruentTrans
<1>4. PICK z \in Int : a = r + PRIME_MOD * z
  BY <1>3 DEF Congruent
<1>5. ~ (z >= 1)
  <2>1. z >= 1 => PRIME_MOD * z >= PRIME_MOD
    BY <1>2
  <2> QED
    BY <1>2, <1>4, <2>1
<1>6. ~ (z <= -2)
  <2>1. z <= -2 => PRIME_MOD * z <= -2 * PRIME_MOD
    BY <1>2
  <2> QED
    BY <1>2, <1>4, <2>1
<1>7. z = 0 \/ z = -1
  BY <1>5, <1>6
<1>8. PRIME_MOD * 0 = 0 /\ PRIME_MOD * (-1) = -PRIME_MOD
  BY <1>2
<1> QED
  BY <1>1, <1>2, <1>4, <1>7, <1>8

-----------------------------------------------------------------------------
(* The polynomials of two windows, one a byte further on than the other. *)

\* Longer by a byte at the end.
LEMMA SumsLonger ==
  ASSUME NEW w \in Seq(Int), NEW v \in Seq(Int), NEW s, NEW t, IsSums(w, s), IsSums(v, t),
         Len(w) <= Len(v), \A k \in 1 .. Len(w) : v[k] = w[k]
  PROVE  t[Len(w)] = s[Len(w)]
<1> DEFINE n == Len(w)
           I == {j \in 0 .. n : t[j] = s[j]}
<1>1. n \in Nat /\ Len(v) \in Nat /\ n <= Len(v)
  BY LenProperties
<1>2. /\ s[0] = 0 /\ \A j \in 1 .. n : s[j] = s[j - 1] * PRIME_BASE + w[j]
      /\ t[0] = 0 /\ \A j \in 1 .. Len(v) : t[j] = t[j - 1] * PRIME_BASE + v[j]
  BY DEF IsSums
<1>3. 0 \in I
  BY <1>1, <1>2
<1>4. ASSUME NEW j \in 1 .. n, j - 1 \in I
      PROVE  j \in I
  <2>1. t[j - 1] = s[j - 1] /\ j \in 1 .. Len(v) /\ v[j] = w[j] /\ j \in 0 .. n
    BY <1>1, <1>4
  <2> QED
    BY <1>2, <2>1
<1>5. n \in 0 .. n
  BY <1>1
<1> HIDE DEF I, n
<1>6. n \in I
  BY <1>1, <1>3, <1>4, <1>5, SetInduction
<1> QED
  BY <1>6 DEF I, n

\* Without the first byte: it counts for as many powers as bytes follow it.
LEMMA SumsWithoutFirst ==
  ASSUME NEW w \in Seq(Int), NEW v \in Seq(Int), NEW s, NEW t, IsSums(w, s), IsSums(v, t),
         NEW q, IsPowers(q),
         Len(w) = WINDOW_SIZE + 1, Len(v) = WINDOW_SIZE + 1,
         \A k \in 1 .. WINDOW_SIZE : v[k] = w[k + 1]
  PROVE  Congruent(s[WINDOW_SIZE + 1], q[WINDOW_SIZE] * w[1] + t[WINDOW_SIZE])
<1> DEFINE n == WINDOW_SIZE
           I == {j \in 0 .. n : Congruent(s[j + 1], q[j] * w[1] + t[j])}
<1>1. n \in Nat /\ PRIME_BASE \in Int /\ PRIME_MOD \in Int
  BY WindowAssumption, PrimeAssumption
<1>2. /\ \A j \in 0 .. n + 1 : s[j] \in Int /\ t[j] \in Int /\ q[j] \in Int
      /\ \A j \in 1 .. n + 1 : w[j] \in Int /\ v[j] \in Int
      /\ s[0] = 0 /\ \A j \in 1 .. n + 1 : s[j] = s[j - 1] * PRIME_BASE + w[j]
      /\ t[0] = 0 /\ \A j \in 1 .. n + 1 : t[j] = t[j - 1] * PRIME_BASE + v[j]
      /\ q[0] = 1 /\ \A j \in 1 .. n + 1 : q[j] = (q[j - 1] * PRIME_BASE) % PRIME_MOD
  BY ElementOfSeq DEF IsSums, IsPowers
<1> HIDE DEF n
<1>3. w[1] \in Int /\ s[1] = w[1] /\ s[1] \in Int
  <2>1. 1 \in 1 .. n + 1 /\ 1 \in 0 .. n + 1 /\ 1 - 1 = 0
    BY <1>1
  <2>2. w[1] \in Int /\ s[1] \in Int /\ s[1] = 0 * PRIME_BASE + w[1]
    BY <1>2, <2>1
  <2> QED
    BY <1>1, <2>2
<1>4. 0 \in I
  <2>1. s[0 + 1] = (q[0] * w[1] + t[0]) + PRIME_MOD * 0
    BY <1>1, <1>2, <1>3
  <2>2. s[0 + 1] \in Int /\ q[0] * w[1] + t[0] \in Int
    BY <1>2, <1>3
  <2>3. Congruent(s[0 + 1], q[0] * w[1] + t[0])
    BY <2>1, <2>2, CongruentTo
  <2> QED
    BY <1>1, <2>3
<1>5. ASSUME NEW j \in 1 .. n, j - 1 \in I
      PROVE  j \in I
  <2>1. PICK x \in Int, y \in Int, p \in Int, a \in Int, c \in Int :
               /\ x = s[j] /\ y = t[j - 1] /\ p = q[j - 1] /\ a = w[1] /\ c = v[j]
    <3>1. j \in 0 .. n + 1 /\ j - 1 \in 0 .. n + 1 /\ j \in 1 .. n + 1
      BY <1>1
    <3> QED
      BY <1>2, <1>3, <3>1
  <2>2. Congruent(x, p * a + y)
    <3>1. (j - 1) + 1 = j
      BY <1>1
    <3> QED
      BY <1>5, <2>1, <3>1
  <2>3. /\ s[j + 1] = x * PRIME_BASE + c
        /\ t[j] = y * PRIME_BASE + c
        /\ q[j] = (p * PRIME_BASE) % PRIME_MOD
    <3>1. j + 1 \in 1 .. n + 1 /\ (j + 1) - 1 = j /\ j \in 1 .. n + 1
      BY <1>1
    <3>2. v[j] = w[j + 1]
      BY DEF n
    <3> QED
      BY <1>2, <2>1, <3>1, <3>2
  <2>4. Congruent(x * PRIME_BASE + c, (p * a + y) * PRIME_BASE + c)
    BY <1>1, <2>2, CongruentScaled
  <2>5. (p * a + y) * PRIME_BASE + c = (p * PRIME_BASE) * a + (y * PRIME_BASE + c)
    BY <1>1
  <2>6. PICK u \in Int, r \in Int :
               /\ u = p * PRIME_BASE /\ r = (p * PRIME_BASE) % PRIME_MOD
               /\ Congruent(u, r)
    <3>1. p * PRIME_BASE \in Int
      BY <1>1
    <3>2. /\ (p * PRIME_BASE) % PRIME_MOD \in 0 .. PRIME_MOD - 1
          /\ Congruent(p * PRIME_BASE, (p * PRIME_BASE) % PRIME_MOD)
      BY <3>1, ModuloFacts
    <3>3. (p * PRIME_BASE) % PRIME_MOD \in Int
      BY <3>2
    <3> QED
      BY <3>1, <3>2, <3>3
  <2>7. PICK d \in Int, e \in Int : d = y * PRIME_BASE + c /\ e = x * PRIME_BASE + c
    BY <1>1
  <2>8. Congruent(u * a + d, r * a + d)
    BY <2>6, CongruentScaled
  <2>9. Congruent(e, u * a + d)
    BY <2>4, <2>5, <2>6, <2>7
  <2>10. u * a + d \in Int /\ r * a + d \in Int
    OBVIOUS
  <2>11. Congruent(e, r * a + d)
    BY <2>8, <2>9, <2>10, CongruentTrans
  <2>12. Congruent(s[j + 1], q[j] * w[1] + t[j])
    BY <2>1, <2>3, <2>6, <2>7, <2>11
  <2> QED
    BY <1>1, <2>12
<1>6. n \in 0 .. n
  BY <1>1
<1> HIDE DEF I
<1>7. n \in I
  BY <1>1, <1>4, <1>5, <1>6, SetInduction
<1> QED
  BY <1>7 DEF I, n

-----------------------------------------------------------------------------
(* The window before a byte and after it. *)

LEMMA MaxWithOne ==
  ASSUME NEW b \in Int
  PROVE  /\ b >= 1 => Max({1, b}) = b
         /\ b <= 1 => Max({1, b}) = 1
<1>1. \E x \in {1, b} : \A y \in {1, b} : x >= y
  <2>1. CASE b >= 1
    BY <2>1
  <2>2. CASE 1 >= b
    BY <2>2
  <2> QED
    BY <2>1, <2>2
<1>2. Max({1, b}) \in {1, b} /\ Max({1, b}) >= 1 /\ Max({1, b}) >= b
  BY <1>1 DEF Max
<1> QED
  BY <1>2

\* The last bytes of a sequence, as the model has them.
LastBytes(d) == SubSeq(d, Max({1, Len(d) - WINDOW_SIZE}), Len(d))

\* There is room in the window for all the bytes.
LEMMA WindowWhole ==
  ASSUME NEW d \in Seq(Int), Len(d) <= WINDOW_SIZE + 1
  PROVE  LastBytes(d) = d
<1>1. Len(d) \in Nat /\ WINDOW_SIZE \in Nat
  BY LenProperties, WindowAssumption
<1>2. Len(d) - WINDOW_SIZE \in Int /\ Len(d) - WINDOW_SIZE <= 1
  BY <1>1
<1>3. Max({1, Len(d) - WINDOW_SIZE}) = 1
  BY <1>2, MaxWithOne
<1>4. SubSeq(d, 1, Len(d)) = d
  OBVIOUS
<1> QED
  BY <1>3, <1>4 DEF LastBytes

\* There is not, or just.
LEMMA WindowFull ==
  ASSUME NEW d \in Seq(Int), Len(d) > WINDOW_SIZE
  PROVE  /\ LastBytes(d) \in Seq(Int) /\ Len(LastBytes(d)) = WINDOW_SIZE + 1
         /\ \A k \in 1 .. WINDOW_SIZE + 1 : LastBytes(d)[k] = d[Len(d) - WINDOW_SIZE + k - 1]
<1>1. Len(d) \in Nat /\ WINDOW_SIZE \in Nat
  BY LenProperties, WindowAssumption
<1>2. PICK m \in Nat : m = Len(d) - WINDOW_SIZE /\ m >= 1
  BY <1>1
<1>3. LastBytes(d) = SubSeq(d, m, Len(d))
  <2>1. Max({1, m}) = m
    BY <1>2, MaxWithOne
  <2> QED
    BY <1>2, <2>1 DEF LastBytes
<1>4. m \in 1 .. Len(d) + 1 /\ Len(d) \in m - 1 .. Len(d)
  BY <1>1, <1>2
<1>5. /\ SubSeq(d, m, Len(d)) \in Seq(Int)
      /\ Len(SubSeq(d, m, Len(d))) = Len(d) - m + 1
      /\ \A k \in 1 .. Len(d) - m + 1 : SubSeq(d, m, Len(d))[k] = d[m + k - 1]
  BY <1>4, SubSeqProperties
<1>6. Len(d) - m + 1 = WINDOW_SIZE + 1
  BY <1>1, <1>2
<1> QED
  BY <1>2, <1>3, <1>5, <1>6

-----------------------------------------------------------------------------
(* The hash of the window. *)

\* The hash is that of the window but for a multiple of PRIME_MOD, and the
\* buffer is within the stream.
HashInv ==
  /\ TypeOK
  /\ pc \in {"fixed", "rabin"} => pos + length <= total
  /\ Congruent(hash, Polynomial(LastBytes(data)))

LEMMA OneMore ==
  ASSUME NEW d \in Seq(Int), NEW c \in Int, NEW n \in Nat, n = Len(d)
  PROVE  /\ Append(d, c) \in Seq(Int) /\ Len(Append(d, c)) = n + 1
         /\ Append(d, c)[n + 1] = c
         /\ \A k \in 1 .. n : Append(d, c)[k] = d[k]
<1>1. Append(d, c) \in Seq(Int) /\ Len(Append(d, c)) = n + 1 /\ Append(d, c)[n + 1] = c
  BY AppendProperties
<1>2. \A k \in 1 .. n : Append(d, c)[k] = d[k]
  BY AppendProperties
<1> QED
  BY <1>1, <1>2

\* A byte that fills the window up, or finds it short.
LEMMA HashGrows ==
  ASSUME NEW d \in Seq(Int), Len(d) <= WINDOW_SIZE, NEW c \in Int, NEW h \in Int,
         Congruent(h, Polynomial(LastBytes(d)))
  PROVE  /\ Polynomial(LastBytes(Append(d, c))) \in Int
         /\ Congruent(h * PRIME_BASE + c, Polynomial(LastBytes(Append(d, c))))
<1>1. PICK n \in Nat : n = Len(d) /\ WINDOW_SIZE \in Nat /\ PRIME_BASE \in Int
  BY LenProperties, WindowAssumption, PrimeAssumption
<1>2. PICK v \in Seq(Int) :
             /\ v = Append(d, c) /\ Len(v) = n + 1 /\ v[n + 1] = c
             /\ \A k \in 1 .. n : v[k] = d[k]
  BY <1>1, OneMore
<1>3. LastBytes(d) = d /\ LastBytes(v) = v
  <2>1. Len(d) <= WINDOW_SIZE + 1 /\ Len(v) <= WINDOW_SIZE + 1
    BY <1>1, <1>2
  <2> QED
    BY <2>1, WindowWhole
<1>4. PICK s : IsSums(d, s) /\ Polynomial(d) = s[n]
  BY <1>1, SumsComputed
<1>5. PICK t : IsSums(v, t) /\ Polynomial(v) = t[n + 1]
  BY <1>2, SumsComputed
<1>6. t[n] = s[n]
  <2>1. Len(d) <= Len(v) /\ \A k \in 1 .. Len(d) : v[k] = d[k]
    BY <1>1, <1>2
  <2>2. t[Len(d)] = s[Len(d)]
    BY <1>4, <1>5, <2>1, SumsLonger
  <2> QED
    BY <1>1, <2>2
<1>7. t[n + 1] = t[n] * PRIME_BASE + v[n + 1] /\ t[n] \in Int /\ t[n + 1] \in Int
  <2>1. n + 1 \in 1 .. n + 1 /\ (n + 1) - 1 = n /\ n \in 0 .. n + 1 /\ n + 1 \in 0 .. n + 1
    OBVIOUS
  <2> QED
    BY <1>2, <1>5, <2>1 DEF IsSums
<1>8. Congruent(h, t[n])
  BY <1>3, <1>4, <1>6
<1>9. Congruent(h * PRIME_BASE + c, t[n] * PRIME_BASE + c)
  BY <1>1, <1>7, <1>8, CongruentScaled
<1> QED
  BY <1>2, <1>3, <1>5, <1>7, <1>9

\* A byte that another leaves the window for.
LEMMA HashRolls ==
  ASSUME NEW d \in Seq(Int), Len(d) > WINDOW_SIZE, NEW c \in Int, NEW h \in Int,
         Congruent(h, Polynomial(LastBytes(d)))
  PROVE  /\ Polynomial(LastBytes(Append(d, c))) \in Int
         /\ d[Len(d) - WINDOW_SIZE] \in Int /\ Power \in Int
         /\ Congruent((h * PRIME_BASE + c) - Power * d[Len(d) - WINDOW_SIZE],
                      Polynomial(LastBytes(Append(d, c))))
<1> DEFINE W == WINDOW_SIZE
<1>1. W \in Nat /\ PRIME_BASE \in Int /\ PRIME_MOD \in Int
  BY WindowAssumption, PrimeAssumption
<1>2. PICK n \in Nat : n = Len(d) /\ n > W
  BY LenProperties
<1>3. PICK e \in Seq(Int) :
             /\ e = Append(d, c) /\ Len(e) = n + 1 /\ e[n + 1] = c
             /\ \A k \in 1 .. n : e[k] = d[k]
  BY <1>2, OneMore
<1>4. PICK w \in Seq(Int) :
             /\ w = LastBytes(d) /\ Len(w) = W + 1
             /\ \A k \in 1 .. W + 1 : w[k] = d[n - W + k - 1]
  BY <1>2, WindowFull
<1>5. PICK v \in Seq(Int) :
             /\ v = LastBytes(e) /\ Len(v) = W + 1
             /\ \A k \in 1 .. W + 1 : v[k] = e[n + 1 - W + k - 1]
  <2>1. Len(e) > W
    BY <1>1, <1>2, <1>3
  <2>2. /\ LastBytes(e) \in Seq(Int) /\ Len(LastBytes(e)) = W + 1
        /\ \A k \in 1 .. W + 1 : LastBytes(e)[k] = e[Len(e) - W + k - 1]
    BY <2>1, WindowFull
  <2>3. Len(e) = n + 1
    BY <1>3
  <2>4. \A k \in 1 .. W + 1 : LastBytes(e)[k] = e[n + 1 - W + k - 1]
    <3> TAKE k \in 1 .. W + 1
    <3>1. LastBytes(e)[k] = e[Len(e) - W + k - 1]
      BY <2>2
    <3>2. Len(e) - W + k - 1 = n + 1 - W + k - 1
      BY <1>1, <2>3
    <3> QED
      BY <3>1, <3>2
  <2> QED
    BY <2>2, <2>4
<1> HIDE DEF W
<1>6. \A k \in 1 .. W : v[k] = w[k + 1]
  <2> TAKE k \in 1 .. W
  <2>1. /\ k \in 1 .. W + 1 /\ k + 1 \in 1 .. W + 1 /\ n + 1 - W + k - 1 = n - W + k
        /\ n - W + (k + 1) - 1 = n - W + k /\ n - W + k \in 1 .. n
    BY <1>1, <1>2
  <2> QED
    BY <1>3, <1>4, <1>5, <2>1
<1>7. v[W + 1] = c /\ w[1] = d[n - W] /\ w[1] \in Int
  <2>1. W + 1 \in 1 .. W + 1 /\ n + 1 - W + (W + 1) - 1 = n + 1
    BY <1>1, <1>2
  <2>2. 1 \in 1 .. W + 1 /\ n - W + 1 - 1 = n - W
    BY <1>1, <1>2
  <2>3. w[1] \in Int
    BY <1>4, <2>2, ElementOfSeq
  <2> QED
    BY <1>3, <1>4, <1>5, <2>1, <2>2, <2>3
<1>8. PICK q : IsPowers(q) /\ Power = q[W + 1]
  BY PowerComputed DEF W
<1>9. PICK s : IsSums(w, s) /\ Polynomial(w) = s[W + 1]
  BY <1>4, SumsComputed
<1>10. PICK t : IsSums(v, t) /\ Polynomial(v) = t[W + 1]
  BY <1>5, SumsComputed
<1>11. Congruent(s[W + 1], q[W] * w[1] + t[W])
  BY <1>4, <1>5, <1>6, <1>8, <1>9, <1>10, SumsWithoutFirst DEF W
<1>12. PICK a \in Int, x \in Int, y \in Int, u \in Int, p \in Int, z \in Int :
             /\ a = w[1] /\ x = s[W + 1] /\ y = t[W] /\ z = t[W + 1]
             /\ p = q[W] /\ u = q[W + 1]
  <2>1. W \in 0 .. W + 1 /\ W + 1 \in 0 .. W + 1
    BY <1>1
  <2>2. q[W] \in Int /\ q[W + 1] \in Int
    BY <1>8, <2>1 DEF IsPowers, W
  <2>3. s[W + 1] \in Int /\ t[W] \in Int /\ t[W + 1] \in Int
    BY <1>4, <1>5, <1>9, <1>10, <2>1 DEF IsSums
  <2> QED
    BY <1>7, <2>2, <2>3
<1>13. z = y * PRIME_BASE + c /\ u = (p * PRIME_BASE) % PRIME_MOD
  <2>1. W + 1 \in 1 .. W + 1 /\ (W + 1) - 1 = W
    BY <1>1
  <2>2. t[W + 1] = t[W] * PRIME_BASE + v[W + 1]
    BY <1>5, <1>10, <2>1 DEF IsSums
  <2>3. q[W + 1] = (q[W] * PRIME_BASE) % PRIME_MOD
    BY <1>8, <2>1 DEF IsPowers, W
  <2> QED
    BY <1>7, <1>12, <2>2, <2>3
<1>14. Congruent(h, p * a + y)
  <2>1. Congruent(h, x)
    BY <1>4, <1>9, <1>12
  <2>2. Congruent(x, p * a + y)
    BY <1>11, <1>12
  <2>3. p * a + y \in Int
    OBVIOUS
  <2> QED
    BY <2>1, <2>2, <2>3, CongruentTrans
<1>15. PICK j \in Int, k \in Int : h = (p * a + y) + PRIME_MOD * j
                                 /\ p * PRIME_BASE = u + PRIME_MOD * k
  <2>1. p * PRIME_BASE \in Int
    BY <1>1
  <2>2. Congruent(p * PRIME_BASE, u)
    BY <1>13, <2>1, ModuloFacts
  <2> QED
    BY <1>14, <2>2 DEF Congruent
<1>16. j * PRIME_BASE + k * a \in Int /\ (h * PRIME_BASE + c) - u * a \in Int
  BY <1>1
<1>17. (h * PRIME_BASE + c) - u * a = z + PRIME_MOD * (j * PRIME_BASE + k * a)
  <2>1. h * PRIME_BASE = (p * PRIME_BASE) * a + y * PRIME_BASE + PRIME_MOD * (j * PRIME_BASE)
    BY <1>1, <1>15
  <2>2. (p * PRIME_BASE) * a = u * a + PRIME_MOD * (k * a)
    BY <1>1, <1>15
  <2>3. PRIME_MOD * (j * PRIME_BASE + k * a) = PRIME_MOD * (j * PRIME_BASE) + PRIME_MOD * (k * a)
    BY <1>1
  <2>4. PICK f \in Int, g \in Int, l \in Int, o \in Int, r \in Int, b \in Int :
               /\ f = (p * PRIME_BASE) * a /\ g = u * a /\ l = PRIME_MOD * (j * PRIME_BASE)
               /\ o = PRIME_MOD * (k * a) /\ r = y * PRIME_BASE /\ b = h * PRIME_BASE
    BY <1>1
  <2>5. b = f + r + l /\ f = g + o /\ z = r + c
    BY <1>13, <2>1, <2>2, <2>4
  <2>6. (b + c) - g = z + (l + o)
    BY <2>5
  <2> QED
    BY <2>3, <2>4, <2>6
<1>18. Congruent((h * PRIME_BASE + c) - u * a, z)
  BY <1>16, <1>17, CongruentTo
<1> QED
  BY <1>2, <1>3, <1>5, <1>7, <1>8, <1>10, <1>12, <1>18 DEF W

LEMMA ByteHash ==
  ASSUME HashInv, NEW c \in Bytes, RabinByte(c)
  PROVE  /\ hash' \in -PRIME_MOD + 1 .. PRIME_MOD - 1
         /\ Congruent(hash', Polynomial(LastBytes(data')))
<1>1. /\ data \in Seq(Int) /\ c \in Int /\ hash \in Int /\ PRIME_BASE \in Int /\ PRIME_MOD \in Int
      /\ hash * PRIME_BASE + c \in Int /\ WINDOW_SIZE \in Nat /\ Len(data) \in Nat
  <2>1. data \in Seq(Bytes) /\ hash \in -PRIME_MOD + 1 .. PRIME_MOD - 1
    BY DEF HashInv, TypeOK
  <2>2. data \in Seq(Int)
    BY <2>1, BytesAssumption, SeqMonotonic
  <2> QED
    BY <2>1, <2>2, BytesAssumption, PrimeAssumption, WindowAssumption, LenProperties
<1>2. data' = Append(data, c) /\ hash' = Rolled(c)
  BY DEF RabinByte
<1>3. Congruent(hash, Polynomial(LastBytes(data)))
  BY DEF HashInv
<1>4. PICK x \in Int :
             /\ x = Shifted(c) /\ x \in -PRIME_MOD + 1 .. PRIME_MOD - 1
             /\ Congruent(x, hash * PRIME_BASE + c)
  <2>1. /\ Shifted(c) \in -PRIME_MOD + 1 .. PRIME_MOD - 1
        /\ Congruent(Shifted(c), hash * PRIME_BASE + c)
    BY <1>1, RemainderFacts DEF Shifted
  <2>2. Shifted(c) \in Int
    BY <1>1, <2>1
  <2> QED
    BY <2>1, <2>2
<1>5. CASE Len(data) > WINDOW_SIZE
  <2>1. /\ Polynomial(LastBytes(data')) \in Int
        /\ data[Len(data) - WINDOW_SIZE] \in Int /\ Power \in Int
        /\ Congruent((hash * PRIME_BASE + c) - Power * data[Len(data) - WINDOW_SIZE],
                     Polynomial(LastBytes(data')))
    BY <1>1, <1>2, <1>3, <1>5, HashRolls
  <2>2. PICK a \in Int, u \in Int, z \in Int, y \in Int, v \in Int :
               /\ a = data[Len(data) - WINDOW_SIZE] /\ u = Power
               /\ z = Polynomial(LastBytes(data'))
               /\ y = hash * PRIME_BASE + c /\ v = u * a
    BY <1>1, <2>1
  <2>3. hash' = Remainder(x - v, PRIME_MOD)
    BY <1>2, <1>4, <1>5, <2>2 DEF Rolled
  <2>4. x - v \in Int /\ y - v \in Int
    OBVIOUS
  <2>5. /\ Remainder(x - v, PRIME_MOD) \in -PRIME_MOD + 1 .. PRIME_MOD - 1
        /\ Congruent(Remainder(x - v, PRIME_MOD), x - v)
    BY <2>4, RemainderFacts
  <2>6. Congruent(x - v, y - v)
    <3>1. Congruent(x, y) /\ -v \in Int
      BY <1>4, <2>2
    <3>2. Congruent(x + (-v), y + (-v))
      BY <3>1, CongruentShifted
    <3>3. x + (-v) = x - v /\ y + (-v) = y - v
      OBVIOUS
    <3> QED
      BY <3>2, <3>3
  <2>7. Congruent(y - v, z)
    BY <2>1, <2>2
  <2>8. hash' \in Int
    BY <1>1, <2>3, <2>5
  <2>9. Congruent(hash', y - v)
    BY <2>3, <2>4, <2>5, <2>6, <2>8, CongruentTrans
  <2>10. Congruent(hash', z)
    BY <2>4, <2>7, <2>8, <2>9, CongruentTrans
  <2> QED
    BY <2>2, <2>3, <2>5, <2>10
<1>6. CASE Len(data) <= WINDOW_SIZE
  <2>1. /\ Polynomial(LastBytes(data')) \in Int
        /\ Congruent(hash * PRIME_BASE + c, Polynomial(LastBytes(data')))
    BY <1>1, <1>2, <1>3, <1>6, HashGrows
  <2>2. hash' = x
    BY <1>1, <1>2, <1>4, <1>6 DEF Rolled
  <2>3. Congruent(x, Polynomial(LastBytes(data')))
    BY <1>1, <1>4, <2>1, CongruentTrans
  <2> QED
    BY <1>4, <2>2, <2>3
<1> QED
  BY <1>1, <1>5, <1>6

LEMMA NoBytesHash == Congruent(0, Polynomial(LastBytes(<<>>)))
<1>1. <<>> \in Seq(Int) /\ Len(<<>>) = 0
  BY EmptySeq
<1>2. LastBytes(<<>>) = <<>>
  <2>1. Len(<<>>) <= WINDOW_SIZE + 1
    BY <1>1, WindowAssumption
  <2> QED
    BY <1>1, <2>1, WindowWhole
<1>3. Polynomial(<<>>) = 0
  <2>1. PICK s : IsSums(<<>>, s) /\ Polynomial(<<>>) = s[Len(<<>>)]
    BY <1>1, SumsComputed
  <2> QED
    BY <1>1, <2>1 DEF IsSums
<1>4. 0 = 0 + PRIME_MOD * 0
  BY PrimeAssumption
<1>5. Congruent(0, 0)
  BY <1>4, CongruentTo
<1> QED
  BY <1>2, <1>3, <1>5

LEMMA WindowNumber ==
  ASSUME NEW d \in Seq(Int)
  PROVE  Polynomial(LastBytes(d)) \in Int
<1>1. LastBytes(d) \in Seq(Int)
  <2>1. Len(d) \in Nat /\ WINDOW_SIZE \in Nat
    BY LenProperties, WindowAssumption
  <2>2. CASE Len(d) > WINDOW_SIZE
    BY <2>2, WindowFull
  <2>3. CASE Len(d) <= WINDOW_SIZE
    <3>1. Len(d) <= WINDOW_SIZE + 1
      BY <2>1, <2>3
    <3> QED
      BY <3>1, WindowWhole
  <2> QED
    BY <2>1, <2>2, <2>3
<1>2. PICK n \in Nat : n = Len(LastBytes(d))
  BY <1>1, LenProperties
<1>3. PICK s : IsSums(LastBytes(d), s) /\ Polynomial(LastBytes(d)) = s[n]
  BY <1>1, <1>2, SumsComputed
<1>4. n \in 0 .. n
  OBVIOUS
<1> QED
  BY <1>2, <1>3, <1>4 DEF IsSums

LEMMA HashInit ==
  ASSUME Init
  PROVE  HashInv
<1>1. data = <<>> /\ hash = 0 /\ pc = "reader"
  BY DEF Init
<1>2. data \in Seq(Bytes) /\ Len(data) = 0
  BY <1>1, EmptySeq
<1>3. total \in 0 .. MaxTotal /\ total \in Nat /\ PRIME_MOD \in Nat \ {0}
  BY TotalAssumption, PrimeAssumption DEF Init
<1>4. TypeOK
  <2>1. /\ 0 \in 0 .. total + 1 /\ 0 \in 0 .. total /\ 0 <= 0
        /\ 0 \in -PRIME_MOD + 1 .. PRIME_MOD - 1
    BY <1>3
  <2>2. pos = 0 /\ length = 0 /\ last = 0
    BY DEF Init
  <2> QED
    BY <1>1, <1>2, <2>1, <2>2 DEF Init, TypeOK
<1> QED
  BY <1>1, <1>4, NoBytesHash DEF HashInv

LEMMA HashCall ==
  ASSUME HashInv, Call
  PROVE  HashInv'
<1>1. /\ pos < total /\ length' \in {total - pos, Min({total - pos, InputSize})}
      /\ data' = <<>> /\ hash' = 0 /\ cut' = FALSE /\ pc' = kind /\ pos' = pos /\ last' = last
      /\ kind' = kind /\ block' = block /\ total' = total
  BY DEF Call, fixed
<1>2. /\ kind \in {"fixed", "rabin"} /\ block \in Blocks /\ block \in Nat
      /\ total \in 0 .. MaxTotal /\ total \in Nat /\ pos \in 0 .. total + 1
      /\ last \in 0 .. total + 1 /\ PRIME_MOD \in Nat \ {0}
  BY BlockAssumption, TotalAssumption, PrimeAssumption DEF HashInv, TypeOK
<1>3. InputSize \in Nat
  <2>1. Max({block, BLOCK_MIN}) \in Nat
    BY <1>2, MaxOfTwo, BlockAssumption
  <2> QED
    BY <2>1, BlockAssumption DEF InputSize
<1>4. total - pos \in Nat /\ pos \in Nat
  BY <1>1, <1>2
<1>5. length' \in Nat /\ length' <= total - pos
  <2>1. Min({total - pos, InputSize}) \in Nat /\ Min({total - pos, InputSize}) <= total - pos
    BY <1>3, <1>4, MinOfTwo
  <2> QED
    BY <1>1, <1>4, <2>1
<1>6. data' \in Seq(Bytes) /\ Len(data') = 0
  BY <1>1, EmptySeq
<1>7. length' \in 0 .. total' /\ pos' + length' <= total'
  <2>1. PICK x \in Nat : x = length' /\ x <= total - pos
    BY <1>5
  <2>2. x \in 0 .. total /\ pos + x <= total
    <3>1. total \in Nat /\ pos \in Nat /\ x <= total - pos
      BY <1>2, <1>4, <2>1
    <3>2. pos + x <= total /\ x <= total
      BY <3>1
    <3> QED
      BY <3>1, <3>2
  <2> QED
    BY <1>1, <2>1, <2>2
<1>8. TypeOK'
  <2>1. hash' \in -PRIME_MOD + 1 .. PRIME_MOD - 1 /\ Len(data') <= length'
    BY <1>1, <1>2, <1>5, <1>6
  <2> QED
    BY <1>1, <1>2, <1>6, <1>7, <2>1 DEF TypeOK
<1>9. Congruent(hash', Polynomial(LastBytes(data')))
  BY <1>1, NoBytesHash
<1> QED
  BY <1>7, <1>8, <1>9 DEF HashInv

\* A chunk given to the reader.
LEMMA HashChunk ==
  ASSUME HashInv, pc \in {"fixed", "rabin"}, NEW k \in 0 .. length + 1, Chunk(k),
         UNCHANGED <<fixed, length>>,
         data' \in Seq(Bytes), Len(data') <= length, cut' \in BOOLEAN,
         hash' \in -PRIME_MOD + 1 .. PRIME_MOD - 1,
         Congruent(hash', Polynomial(LastBytes(data')))
  PROVE  HashInv'
<1>1. /\ last' = k /\ pos' = pos + k /\ pc' = "reader"
      /\ kind' = kind /\ block' = block /\ total' = total /\ length' = length
  BY DEF Chunk, fixed
<1>2. /\ kind \in {"fixed", "rabin"} /\ block \in Blocks
      /\ total \in 0 .. MaxTotal /\ total \in Nat /\ pos \in 0 .. total + 1
      /\ length \in 0 .. total /\ pos + length <= total
  BY TotalAssumption DEF HashInv, TypeOK
<1>3. pos' \in 0 .. total' + 1 /\ last' \in 0 .. total' + 1
  BY <1>1, <1>2
<1>4. TypeOK'
  BY <1>1, <1>2, <1>3 DEF TypeOK
<1> QED
  BY <1>1, <1>4 DEF HashInv

LEMMA HashByte ==
  ASSUME HashInv, NEW c \in Bytes, RabinByte(c)
  PROVE  HashInv'
<1>1. /\ pc = "rabin" /\ Len(data) < length /\ data' = Append(data, c)
      /\ cut' = CutAt(hash', Len(data))
      /\ IF cut' THEN Chunk(Len(data) + 1) ELSE UNCHANGED <<last, pos, pc>>
      /\ UNCHANGED <<fixed, length>>
  BY DEF RabinByte
<1>2. /\ hash' \in -PRIME_MOD + 1 .. PRIME_MOD - 1
      /\ Congruent(hash', Polynomial(LastBytes(data')))
  BY ByteHash
<1>3. /\ data \in Seq(Bytes) /\ length \in 0 .. total /\ total \in Nat
  BY TotalAssumption DEF HashInv, TypeOK
<1>4. /\ data' \in Seq(Bytes) /\ Len(data') = Len(data) + 1 /\ Len(data) \in Nat
  BY <1>1, <1>3, AppendProperties, LenProperties
<1>5. Len(data') <= length /\ Len(data) + 1 \in 0 .. length + 1
  BY <1>1, <1>3, <1>4
<1>6. cut' \in BOOLEAN
  BY <1>1 DEF CutAt
<1>7. CASE cut'
  <2>1. Chunk(Len(data) + 1) /\ pc \in {"fixed", "rabin"}
    BY <1>1, <1>7
  <2> QED
    BY <1>1, <1>2, <1>4, <1>5, <1>6, <2>1, HashChunk
<1>8. CASE ~cut'
  <2>1. UNCHANGED <<kind, block, total, last, pos, pc, length>>
    BY <1>1, <1>8 DEF fixed
  <2>2. TypeOK'
    BY <1>2, <1>4, <1>5, <1>6, <2>1 DEF HashInv, TypeOK
  <2>3. pc' \in {"fixed", "rabin"} => pos' + length' <= total'
    BY <2>1 DEF HashInv
  <2> QED
    BY <1>2, <2>2, <2>3 DEF HashInv
<1> QED
  BY <1>7, <1>8

LEMMA HashStep == HashInv /\ [Next]_vars => HashInv'
<1> SUFFICES ASSUME HashInv, [Next]_vars PROVE HashInv'
  OBVIOUS
<1>1. /\ data \in Seq(Bytes) /\ Len(data) <= length /\ cut \in BOOLEAN
      /\ hash \in -PRIME_MOD + 1 .. PRIME_MOD - 1 /\ block \in Nat
      /\ Congruent(hash, Polynomial(LastBytes(data)))
      /\ length \in 0 .. total /\ total \in Nat /\ length \in Nat
  BY BlockAssumption, TotalAssumption DEF HashInv, TypeOK
<1>2. CASE FixedNext
  <2>1. /\ pc = "fixed" /\ Chunk(Min({block, length}))
        /\ UNCHANGED <<fixed, length>> /\ UNCHANGED <<data, hash, cut>>
    BY <1>2 DEF FixedNext
  <2>2. Min({block, length}) \in 0 .. length + 1
    <3>1. Min({block, length}) \in Nat /\ Min({block, length}) <= length
      BY <1>1, MinOfTwo
    <3> QED
      BY <1>1, <3>1
  <2> QED
    BY <1>1, <2>1, <2>2, HashChunk
<1>3. CASE RabinEnd
  <2>1. /\ pc = "rabin" /\ Chunk(length + 1)
        /\ UNCHANGED <<fixed, length>> /\ UNCHANGED <<data, hash, cut>>
    BY <1>3 DEF RabinEnd
  <2>2. length + 1 \in 0 .. length + 1
    BY <1>1
  <2> QED
    BY <1>1, <2>1, <2>2, HashChunk
<1>4. CASE RabinZero
  <2>1. pc' = "dead" /\ UNCHANGED <<kind, block, total, pos, length, data, hash, cut, last>>
    BY <1>4 DEF RabinZero, fixed
  <2>2. TypeOK'
    BY <2>1 DEF HashInv, TypeOK
  <2> QED
    BY <1>1, <2>1, <2>2 DEF HashInv
<1>5. CASE UNCHANGED vars
  BY <1>5 DEF vars, HashInv, TypeOK
<1> QED
  BY <1>2, <1>3, <1>4, <1>5, HashCall, HashByte DEF Next

\* Whatever the window, the base, the modulus, the bytes and the block size,
\* the reader is at most a byte past the end of the stream, the buffer never
\* reaches past it, and the rolling hash stays below the modulus on either side
\* of zero, so that the next product is as far within long long as the last.
THEOREM ChunkerTypeCorrect == Spec => []TypeOK
<1>1. HashInv => TypeOK
  BY DEF HashInv
<1> QED
  BY <1>1, HashInit, HashStep, PTL DEF Spec

\* Whatever they are, the rolling hash of RabinChunker::next is the hash of the
\* window's bytes, or PRIME_MOD less: taking the oldest byte out as the
\* constructor's power of the base undoes what that byte put in, no more.
THEOREM AlwaysWindowHash == Spec => []WindowHash
<1>1. HashInv => WindowHash
  <2> SUFFICES ASSUME HashInv PROVE WindowHash
    OBVIOUS
  <2>1. /\ hash \in -PRIME_MOD + 1 .. PRIME_MOD - 1
        /\ Congruent(hash, Polynomial(LastBytes(data))) /\ data \in Seq(Int)
    BY SeqMonotonic, BytesAssumption DEF HashInv, TypeOK
  <2>2. Window = LastBytes(data)
    BY DEF Window, LastBytes
  <2>3. Polynomial(LastBytes(data)) \in Int
    BY <2>1, WindowNumber
  <2> QED
    BY <2>1, <2>2, <2>3, CongruentNear DEF WindowHash
<1> QED
  BY <1>1, HashInit, HashStep, PTL DEF Spec
=============================================================================
