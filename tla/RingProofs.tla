------------------------------ MODULE RingProofs ------------------------------
(***************************************************************************)
(* closest goes round the ring, for every number of hashes and every       *)
(* sequence of buckets that come and go.  A bucket's place in the order    *)
(* from a key is the number of buckets that are nearer (Order): lower_bound*)
(* finds the bucket of order 0, a step of the iterator raises the order by *)
(* one or takes it from the last back to 0, and a bucket that comes or goes*)
(* shifts by one the order of those behind it.                             *)
(***************************************************************************)
EXTENDS Ring, Lemmas

\* The buckets of B that are nearer than b, going round from key.
Nearer(B, key, b) == {c \in B : Clockwise(key, c) < Clockwise(key, b)}
Order(B, key, b) == Cardinality(Nearer(B, key, b))

-----------------------------------------------------------------------------
(* The way round. *)

LEMMA ModuloIs ==
  ASSUME NEW a \in Int, NEW b \in Nat \ {0}, NEW q \in Int, NEW r \in 0 .. b - 1,
         a = b * q + r
  PROVE  a % b = r
<1>1. a \div b = q
  BY Quotient
<1>2. a % b \in Int /\ a = b * (a \div b) + (a % b)
  BY Division
<1>3. PICK p \in Int : p = b * q
  OBVIOUS
<1> QED
  BY <1>1, <1>2, <1>3

LEMMA ClockwiseFacts ==
  ASSUME NEW key \in Hashes, NEW b \in Hashes
  PROVE  /\ Clockwise(key, b) \in 0 .. Places - 1
         /\ Clockwise(key, b) = IF b >= key THEN b - key ELSE b - key + Places
<1>1. /\ Places \in Nat \ {0} /\ key \in Nat /\ b \in Nat /\ key < Places /\ b < Places
  BY PlacesAssumption DEF Hashes
<1>2. CASE b >= key
  <2>1. b - key \in 0 .. Places - 1 /\ b - key = Places * 0 + (b - key) /\ b - key \in Int
    BY <1>1, <1>2
  <2>2. (b - key) % Places = b - key
    BY <1>1, <2>1, ModuloIs
  <2> QED
    BY <1>2, <2>1, <2>2 DEF Clockwise
<1>3. CASE ~ (b >= key)
  <2>1. /\ b - key + Places \in 0 .. Places - 1 /\ b - key \in Int
        /\ b - key = Places * (-1) + (b - key + Places)
    BY <1>1, <1>3
  <2>2. (b - key) % Places = b - key + Places
    BY <1>1, <2>1, ModuloIs
  <2> QED
    BY <1>3, <2>1, <2>2 DEF Clockwise
<1> QED
  BY <1>2, <1>3

LEMMA ClockwiseApart ==
  ASSUME NEW key \in Hashes, NEW b \in Hashes, NEW c \in Hashes,
         Clockwise(key, b) = Clockwise(key, c)
  PROVE  b = c
<1>1. /\ Places \in Nat \ {0} /\ key \in Nat /\ b \in Nat /\ c \in Nat
      /\ key < Places /\ b < Places /\ c < Places
  BY PlacesAssumption DEF Hashes
<1>2. /\ Clockwise(key, b) = IF b >= key THEN b - key ELSE b - key + Places
      /\ Clockwise(key, c) = IF c >= key THEN c - key ELSE c - key + Places
  BY ClockwiseFacts
<1>3. PICK p \in Nat : p = Places
  BY <1>1
<1>4. CASE b >= key /\ c >= key
  <2>1. b - key = c - key
    BY <1>2, <1>4
  <2> QED
    BY <1>1, <2>1
<1>5. CASE b >= key /\ ~ (c >= key)
  <2>1. b - key = c - key + p
    BY <1>2, <1>3, <1>5
  <2> QED
    BY <1>1, <1>3, <2>1
<1>6. CASE ~ (b >= key) /\ c >= key
  <2>1. b - key + p = c - key
    BY <1>2, <1>3, <1>6
  <2> QED
    BY <1>1, <1>3, <2>1
<1>7. CASE ~ (b >= key) /\ ~ (c >= key)
  <2>1. b - key + p = c - key + p
    BY <1>2, <1>3, <1>7
  <2> QED
    BY <1>1, <1>3, <2>1
<1> QED
  BY <1>4, <1>5, <1>6, <1>7

-----------------------------------------------------------------------------
(* The order of the buckets. *)

LEMMA HashesFinite ==
  ASSUME NEW B \in SUBSET Hashes
  PROVE  IsFiniteSet(B) /\ Cardinality(B) \in Nat /\ (Cardinality(B) = 0 <=> B = {})
<1>1. IsFiniteSet(Hashes)
  BY FS_Interval, PlacesAssumption DEF Hashes
<1>2. IsFiniteSet(B)
  BY <1>1, FS_Subset
<1> QED
  BY <1>2, FS_CardinalityType, FS_EmptySet

LEMMA NearerFinite ==
  ASSUME NEW B \in SUBSET Hashes, NEW key, NEW b
  PROVE  /\ Nearer(B, key, b) \in SUBSET B
         /\ IsFiniteSet(Nearer(B, key, b)) /\ Order(B, key, b) \in Nat
<1>1. Nearer(B, key, b) \in SUBSET B
  BY DEF Nearer
<1> QED
  BY <1>1, HashesFinite, FS_Subset, FS_CardinalityType DEF Order

LEMMA OrderBound ==
  ASSUME NEW B \in SUBSET Hashes, NEW key \in Hashes, NEW b \in B
  PROVE  Order(B, key, b) < Cardinality(B)
<1>1. b \notin Nearer(B, key, b)
  BY ClockwiseFacts DEF Nearer
<1>2. /\ IsFiniteSet(B) /\ Cardinality(B) \in Nat /\ Order(B, key, b) \in Nat
      /\ Nearer(B, key, b) \in SUBSET B
  BY HashesFinite, NearerFinite
<1>3. /\ Order(B, key, b) <= Cardinality(B)
      /\ Order(B, key, b) = Cardinality(B) => Nearer(B, key, b) = B
  BY <1>2, FS_Subset DEF Order
<1> QED
  BY <1>1, <1>2, <1>3

LEMMA OrderGrows ==
  ASSUME NEW B \in SUBSET Hashes, NEW key \in Hashes, NEW b \in B, NEW c \in B,
         Clockwise(key, b) < Clockwise(key, c)
  PROVE  Order(B, key, b) < Order(B, key, c)
<1>1. b \notin Nearer(B, key, b) /\ b \in Nearer(B, key, c)
  BY ClockwiseFacts DEF Nearer
<1>2. Nearer(B, key, b) \subseteq Nearer(B, key, c)
  <2> SUFFICES ASSUME NEW x \in Nearer(B, key, b)
               PROVE  x \in Nearer(B, key, c)
    OBVIOUS
  <2>1. x \in B /\ x \in Hashes /\ Clockwise(key, x) < Clockwise(key, b)
    BY DEF Nearer
  <2>2. /\ Clockwise(key, x) \in Int /\ Clockwise(key, b) \in Int
        /\ Clockwise(key, c) \in Int
    BY <2>1, ClockwiseFacts
  <2> QED
    BY <2>1, <2>2 DEF Nearer
<1>3. /\ IsFiniteSet(Nearer(B, key, b)) /\ IsFiniteSet(Nearer(B, key, c))
      /\ Order(B, key, b) \in Nat /\ Order(B, key, c) \in Nat
  BY NearerFinite
<1>4. /\ Order(B, key, b) <= Order(B, key, c)
      /\ Order(B, key, c) = Order(B, key, b) => Nearer(B, key, c) = Nearer(B, key, b)
  BY <1>2, <1>3, FS_Subset DEF Order
<1> QED
  BY <1>1, <1>3, <1>4

\* So the order says which bucket it is.
LEMMA OrderApart ==
  ASSUME NEW B \in SUBSET Hashes, NEW key \in Hashes, NEW b \in B, NEW c \in B,
         Order(B, key, b) = Order(B, key, c)
  PROVE  b = c
<1>1. /\ Clockwise(key, b) \in Int /\ Clockwise(key, c) \in Int
      /\ Order(B, key, b) \in Int /\ Order(B, key, c) \in Int
  BY ClockwiseFacts, NearerFinite
<1>2. ~ (Clockwise(key, b) < Clockwise(key, c)) /\ ~ (Clockwise(key, c) < Clockwise(key, b))
  BY <1>1, OrderGrows
<1>3. Clockwise(key, b) = Clockwise(key, c)
  BY <1>1, <1>2
<1> QED
  BY <1>3, ClockwiseApart

LEMMA OrderFirst ==
  ASSUME NEW B \in SUBSET Hashes, NEW key \in Hashes, NEW b \in B,
         \A c \in B : Clockwise(key, b) <= Clockwise(key, c)
  PROVE  Order(B, key, b) = 0
<1>1. Nearer(B, key, b) = {}
  <2> SUFFICES ASSUME NEW c \in Nearer(B, key, b)
               PROVE  FALSE
    OBVIOUS
  <2>1. c \in B /\ Clockwise(key, c) < Clockwise(key, b)
    BY DEF Nearer
  <2>2. Clockwise(key, c) \in Int /\ Clockwise(key, b) \in Int
    BY <2>1, ClockwiseFacts
  <2> QED
    BY <2>1, <2>2
<1> QED
  BY <1>1, FS_EmptySet DEF Order

LEMMA OrderLast ==
  ASSUME NEW B \in SUBSET Hashes, NEW key \in Hashes, NEW b \in B,
         \A c \in B : Clockwise(key, c) <= Clockwise(key, b)
  PROVE  Order(B, key, b) = Cardinality(B) - 1
<1>1. Nearer(B, key, b) = B \ {b}
  <2>1. ASSUME NEW c \in B, c # b
        PROVE  Clockwise(key, c) < Clockwise(key, b)
    <3>1. Clockwise(key, c) \in Int /\ Clockwise(key, b) \in Int
      BY ClockwiseFacts
    <3>2. Clockwise(key, c) # Clockwise(key, b)
      BY <2>1, ClockwiseApart
    <3> QED
      BY <3>1, <3>2
  <2>2. ~ (Clockwise(key, b) < Clockwise(key, b))
    BY ClockwiseFacts
  <2> QED
    BY <2>1, <2>2 DEF Nearer
<1> QED
  BY <1>1, HashesFinite, FS_RemoveElement DEF Order

LEMMA OrderNext ==
  ASSUME NEW B \in SUBSET Hashes, NEW key \in Hashes, NEW b \in B, NEW s \in B,
         Clockwise(key, b) < Clockwise(key, s),
         \A c \in B : ~ (Clockwise(key, b) < Clockwise(key, c)
                         /\ Clockwise(key, c) < Clockwise(key, s))
  PROVE  Order(B, key, s) = Order(B, key, b) + 1
<1>1. Nearer(B, key, s) = Nearer(B, key, b) \cup {b}
  <2>1. ASSUME NEW c \in B
        PROVE  Clockwise(key, c) < Clockwise(key, s)
                 <=> Clockwise(key, c) < Clockwise(key, b) \/ c = b
    <3>1. /\ Clockwise(key, c) \in Int /\ Clockwise(key, b) \in Int
          /\ Clockwise(key, s) \in Int
      BY ClockwiseFacts
    <3>2. Clockwise(key, c) = Clockwise(key, b) => c = b
      BY ClockwiseApart
    <3> QED
      BY <3>1, <3>2
  <2> QED
    BY <2>1 DEF Nearer
<1>2. b \notin Nearer(B, key, b)
  BY ClockwiseFacts DEF Nearer
<1>3. IsFiniteSet(Nearer(B, key, b))
  BY NearerFinite
<1> QED
  BY <1>1, <1>2, <1>3, FS_AddElement DEF Order

\* A bucket more puts those behind it off by one.
LEMMA OrderMore ==
  ASSUME NEW B \in SUBSET Hashes, NEW x, x \notin B, NEW key, NEW b
  PROVE  Order(B \cup {x}, key, b) =
           IF Clockwise(key, x) < Clockwise(key, b)
           THEN Order(B, key, b) + 1 ELSE Order(B, key, b)
<1>1. IsFiniteSet(Nearer(B, key, b)) /\ x \notin Nearer(B, key, b)
  BY NearerFinite
<1>2. CASE Clockwise(key, x) < Clockwise(key, b)
  <2>1. Nearer(B \cup {x}, key, b) = Nearer(B, key, b) \cup {x}
    BY <1>2 DEF Nearer
  <2> QED
    BY <1>1, <1>2, <2>1, FS_AddElement DEF Order
<1>3. CASE ~ (Clockwise(key, x) < Clockwise(key, b))
  <2>1. Nearer(B \cup {x}, key, b) = Nearer(B, key, b)
    BY <1>3 DEF Nearer
  <2> QED
    BY <1>3, <2>1 DEF Order
<1> QED
  BY <1>2, <1>3

-----------------------------------------------------------------------------
(* The iterator. *)

LEMMA LowerBoundFirst ==
  ASSUME Buckets \subseteq Hashes, Buckets # {}, NEW key \in Hashes
  PROVE  LowerBound(key) \in Buckets /\ Order(Buckets, key, LowerBound(key)) = 0
<1> DEFINE from == {b \in Buckets : b >= key}
           l == LowerBound(key)
<1>1. \A b \in Hashes : b \in Nat /\ b < Places
  BY PlacesAssumption DEF Hashes
<1>2. Buckets \in SUBSET Nat /\ from \in SUBSET Nat
  BY <1>1
<1>3. l = IF from = {} THEN Min(Buckets) ELSE Min(from)
  BY DEF LowerBound
<1> HIDE DEF l
<1>4. CASE from = {}
  <2>1. l \in Buckets /\ \A c \in Buckets : l <= c
    BY <1>2, <1>3, <1>4, LeastNat
  <2>2. ASSUME NEW c \in Buckets
        PROVE  Clockwise(key, l) <= Clockwise(key, c)
    <3>1. ~ (c >= key) /\ ~ (l >= key) /\ l <= c
      BY <1>4, <2>1
    <3>2. /\ Clockwise(key, c) = IF c >= key THEN c - key ELSE c - key + Places
          /\ Clockwise(key, l) = IF l >= key THEN l - key ELSE l - key + Places
      BY <2>1, ClockwiseFacts
    <3>3. c \in Nat /\ l \in Nat /\ key \in Nat /\ Places \in Nat
      BY <1>1, <2>1, PlacesAssumption
    <3> QED
      BY <3>1, <3>2, <3>3
  <2> QED
    BY <2>1, <2>2, OrderFirst DEF l
<1>5. CASE from # {}
  <2>1. l \in from /\ \A c \in from : l <= c
    BY <1>2, <1>3, <1>5, LeastNat
  <2>2. ASSUME NEW c \in Buckets
        PROVE  Clockwise(key, l) <= Clockwise(key, c)
    <3>1. l >= key /\ (c >= key => l <= c)
      BY <2>1
    <3>2. /\ Clockwise(key, c) = IF c >= key THEN c - key ELSE c - key + Places
          /\ Clockwise(key, l) = IF l >= key THEN l - key ELSE l - key + Places
      BY <2>1, ClockwiseFacts
    <3>3. /\ c \in Nat /\ l \in Nat /\ key \in Nat /\ Places \in Nat
          /\ l < Places /\ key < Places
      BY <1>1, <2>1, PlacesAssumption
    <3>4. CASE c >= key
      BY <3>1, <3>2, <3>3, <3>4
    <3>5. CASE ~ (c >= key)
      BY <3>1, <3>2, <3>3, <3>5
    <3> QED
      BY <3>4, <3>5
  <2> QED
    BY <2>1, <2>2, OrderFirst DEF l
<1> QED
  BY <1>4, <1>5

\* A step goes to the bucket that is next round the ring, or from the last one
\* to the first.
LEMMA StepNext ==
  ASSUME Buckets \subseteq Hashes, NEW key \in Hashes, NEW b \in Buckets
  PROVE  /\ Stepped[b] \in Buckets
         /\ Order(Buckets, key, Stepped[b]) =
              IF Order(Buckets, key, b) = Cardinality(Buckets) - 1
              THEN 0 ELSE Order(Buckets, key, b) + 1
<1> DEFINE after == {c \in Buckets : c > b}
           s == Stepped[b]
           W(c) == Clockwise(key, c)
<1>1. Places \in Nat \ {0} /\ \A c \in Hashes : c \in Nat /\ c < Places
  BY PlacesAssumption DEF Hashes
<1>2. Buckets \in SUBSET Nat /\ after \in SUBSET Nat /\ Buckets # {}
  BY <1>1
<1>3. s = IF after = {} THEN Min(Buckets) ELSE Min(after)
  BY DEF Stepped
<1> HIDE DEF s
<1>4. \A c \in Buckets :
        /\ W(c) = IF c >= key THEN c - key ELSE c - key + Places
        /\ c \in Nat /\ c < Places /\ W(c) \in Int
  BY <1>1, ClockwiseFacts
<1>5. key \in Nat /\ key < Places
  BY <1>1
<1>6. s \in Buckets
  BY <1>2, <1>3, LeastNat
<1> HIDE DEF W
<1>7. \/ W(b) < W(s) /\ \A c \in Buckets : ~ (W(b) < W(c) /\ W(c) < W(s))
      \/ \A c \in Buckets : W(c) <= W(b) /\ W(s) <= W(c)
  <2>1. CASE after = {}
    <3>1. \A c \in Buckets : s <= c /\ c <= b
      <4>1. \A c \in Buckets : s <= c
        BY <1>2, <1>3, <2>1, LeastNat
      <4>2. \A c \in Buckets : c <= b
        BY <1>4, <2>1
      <4> QED
        BY <4>1, <4>2
    <3>2. CASE s >= key \/ ~ (b >= key)
      <4>1. ASSUME NEW c \in Buckets
            PROVE  W(c) <= W(b) /\ W(s) <= W(c)
        BY <1>1, <1>4, <1>5, <1>6, <3>1, <3>2
      <4> QED
        BY <4>1
    <3>3. CASE ~ (s >= key) /\ b >= key
      <4>1. W(b) < W(s)
        BY <1>1, <1>4, <1>5, <1>6, <3>3
      <4>2. ASSUME NEW c \in Buckets
            PROVE  ~ (W(b) < W(c) /\ W(c) < W(s))
        BY <1>1, <1>4, <1>5, <1>6, <3>1, <3>3
      <4> QED
        BY <4>1, <4>2
    <3> QED
      BY <3>2, <3>3
  <2>2. CASE after # {}
    <3>1. s > b /\ \A c \in Buckets : c > b => s <= c
      BY <1>2, <1>3, <2>2, LeastNat
    <3>2. CASE s >= key /\ ~ (b >= key)
      <4>1. ASSUME NEW c \in Buckets
            PROVE  W(c) <= W(b) /\ W(s) <= W(c)
        BY <1>1, <1>4, <1>5, <1>6, <3>1, <3>2
      <4> QED
        BY <4>1
    <3>3. CASE ~ (s >= key) \/ b >= key
      <4>1. W(b) < W(s)
        BY <1>1, <1>4, <1>5, <1>6, <3>1, <3>3
      <4>2. ASSUME NEW c \in Buckets
            PROVE  ~ (W(b) < W(c) /\ W(c) < W(s))
        BY <1>1, <1>4, <1>5, <1>6, <3>1, <3>3
      <4> QED
        BY <4>1, <4>2
    <3> QED
      BY <3>2, <3>3
  <2> QED
    BY <2>1, <2>2
<1>8. CASE W(b) < W(s) /\ \A c \in Buckets : ~ (W(b) < W(c) /\ W(c) < W(s))
  <2>1. Order(Buckets, key, s) = Order(Buckets, key, b) + 1
    BY <1>6, <1>8, OrderNext DEF W
  <2>2. Order(Buckets, key, s) < Cardinality(Buckets)
    BY <1>6, OrderBound
  <2>3. Order(Buckets, key, b) \in Nat /\ Cardinality(Buckets) \in Nat
    BY NearerFinite, HashesFinite
  <2> QED
    BY <1>6, <2>1, <2>2, <2>3 DEF s
<1>9. CASE \A c \in Buckets : W(c) <= W(b) /\ W(s) <= W(c)
  <2>1. Order(Buckets, key, s) = 0
    BY <1>6, <1>9, OrderFirst DEF W
  <2>2. Order(Buckets, key, b) = Cardinality(Buckets) - 1
    BY <1>9, OrderLast DEF W
  <2> QED
    BY <1>6, <2>1, <2>2 DEF s
<1> QED
  BY <1>7, <1>8, <1>9

\* The iterator after each step is what its equations say.
LEMMA SweepComputed ==
  ASSUME Buckets \subseteq Hashes, Buckets # {}, NEW key \in Hashes, NEW n \in Nat
  PROVE  \E at : /\ at[0] = LowerBound(key)
                 /\ \A j \in 1 .. n : at[j] = Stepped[at[j - 1]]
                 /\ Sweep(key, n) = [j \in 1 .. n |-> at[j]]
<1> DEFINE F(at) == [j \in 0 .. n |-> IF j = 0 THEN LowerBound(key) ELSE Stepped[at[j - 1]]]
           chosen == CHOOSE at : at = F(at)
           step == [x \in (1 .. n) \X Buckets |-> Stepped[x[2]]]
<1>1. \A j \in 1 .. n, x \in Buckets :
        step[<<j, x>>] = Stepped[x] /\ step[<<j, x>>] \in Buckets
  <2> TAKE j \in 1 .. n, x \in Buckets
  <2>1. <<j, x>> \in (1 .. n) \X Buckets /\ <<j, x>>[2] = x
    OBVIOUS
  <2>2. Stepped[x] \in Buckets
    BY StepNext
  <2> QED
    BY <2>1, <2>2
<1>2. LowerBound(key) \in Buckets
  BY LowerBoundFirst
<1> HIDE DEF step
<1>3. Steps(Buckets, LowerBound(key), n, step)
  BY <1>1, <1>2 DEF Steps
<1>4. PICK at : /\ at \in [0 .. n -> Buckets] /\ at[0] = LowerBound(key)
                /\ \A j \in 1 .. n : at[j] = step[<<j, at[j - 1]>>]
  <2>1. PICK l : l = LowerBound(key)
    OBVIOUS
  <2>2. \E at : Stepwise(Buckets, l, n, step, at)
    BY <1>3, <2>1, RecursionExists
  <2> QED
    BY <2>1, <2>2 DEF Stepwise
<1>5. at = F(at)
  <2>1. \A j \in 1 .. n : at[j - 1] \in Buckets /\ at[j] = Stepped[at[j - 1]]
    <3>1. \A j \in 1 .. n : j - 1 \in 0 .. n
      OBVIOUS
    <3> QED
      BY <1>1, <1>4, <3>1
  <2>2. \A j \in 0 .. n : j = 0 \/ j \in 1 .. n
    OBVIOUS
  <2> QED
    BY <1>4, <2>1, <2>2
<1>6. chosen = F(chosen)
  <2> HIDE DEF F
  <2> QED
    BY <1>5
<1>7. Sweep(key, n) = [j \in 1 .. n |-> chosen[j]]
  BY DEF Sweep
<1> HIDE DEF chosen
<1>8. /\ chosen[0] = LowerBound(key)
      /\ \A j \in 1 .. n : chosen[j] = Stepped[chosen[j - 1]]
  <2>1. \A j \in 0 .. n :
          chosen[j] = IF j = 0 THEN LowerBound(key) ELSE Stepped[chosen[j - 1]]
    BY <1>6
  <2>2. 0 \in 0 .. n /\ \A j \in 1 .. n : j \in 0 .. n /\ j # 0
    OBVIOUS
  <2> QED
    BY <2>1, <2>2
<1> QED
  BY <1>7, <1>8

LEMMA ModuloNext ==
  ASSUME NEW m \in Nat \ {0}, NEW j \in Nat \ {0}
  PROVE  j % m = IF (j - 1) % m = m - 1 THEN 0 ELSE ((j - 1) % m) + 1
<1>1. PICK q \in Int, r \in 0 .. m - 1 :
             q = (j - 1) \div m /\ r = (j - 1) % m /\ j - 1 = m * q + r
  BY Division
<1>2. CASE r = m - 1
  <2>1. PICK p \in Int : p = m * q
    OBVIOUS
  <2>2. m * (q + 1) = p + m
    BY <2>1
  <2>3. j = m * (q + 1) + 0 /\ q + 1 \in Int /\ 0 \in 0 .. m - 1
    BY <1>1, <1>2, <2>1, <2>2
  <2>4. j % m = 0
    BY <2>3, ModuloIs
  <2> QED
    BY <1>1, <1>2, <2>4
<1>3. CASE r # m - 1
  <2>1. PICK p \in Int : p = m * q
    OBVIOUS
  <2>2. j = m * q + (r + 1) /\ r + 1 \in 0 .. m - 1
    BY <1>1, <1>3, <2>1
  <2>3. j % m = r + 1
    BY <2>2, ModuloIs
  <2> QED
    BY <1>1, <1>3, <2>3
<1> QED
  BY <1>2, <1>3

\* After j steps the iterator is at the bucket of order j, round and round.
LEMMA SweepOrder ==
  ASSUME Buckets \subseteq Hashes, Buckets # {}, NEW key \in Hashes, NEW n \in Nat
  PROVE  \A j \in 1 .. n :
           /\ Sweep(key, n)[j] \in Buckets
           /\ Order(Buckets, key, Sweep(key, n)[j]) = j % Cardinality(Buckets)
<1>1. PICK at : /\ at[0] = LowerBound(key)
                /\ \A j \in 1 .. n : at[j] = Stepped[at[j - 1]]
                /\ Sweep(key, n) = [j \in 1 .. n |-> at[j]]
  BY SweepComputed
<1>2. PICK m \in Nat \ {0} : m = Cardinality(Buckets)
  BY HashesFinite
<1> DEFINE I == {j \in 0 .. n : at[j] \in Buckets /\ Order(Buckets, key, at[j]) = j % m}
<1>3. 0 \in I
  <2>1. 0 = m * 0 + 0 /\ 0 \in 0 .. m - 1
    BY <1>2
  <2>2. 0 % m = 0
    BY <2>1, ModuloIs
  <2> QED
    BY <1>1, <2>2, LowerBoundFirst
<1>4. ASSUME NEW j \in 1 .. n, j - 1 \in I
      PROVE  j \in I
  <2>1. at[j - 1] \in Buckets /\ Order(Buckets, key, at[j - 1]) = (j - 1) % m
    BY <1>4
  <2>2. /\ at[j] \in Buckets
        /\ Order(Buckets, key, at[j]) =
             IF (j - 1) % m = m - 1 THEN 0 ELSE ((j - 1) % m) + 1
    BY <1>1, <1>2, <2>1, StepNext
  <2>3. j % m = IF (j - 1) % m = m - 1 THEN 0 ELSE ((j - 1) % m) + 1
    BY <1>2, ModuloNext
  <2> QED
    BY <2>2, <2>3
<1> HIDE DEF I
<1>5. \A j \in 0 .. n : j \in I
  BY <1>3, <1>4, SetInduction
<1>6. \A j \in 1 .. n : j \in I /\ Sweep(key, n)[j] = at[j]
  BY <1>1, <1>5
<1> QED
  BY <1>2, <1>6 DEF I

-----------------------------------------------------------------------------
(* The buckets are hashes, and so closest gives the backends as they lie. *)

RingInv == Buckets \subseteq Hashes

LEMMA NextRing == RingInv /\ [Next]_buckets => RingInv'
<1> SUFFICES ASSUME RingInv, [Next]_buckets PROVE RingInv'
  OBVIOUS
<1>1. ASSUME NEW bucket \in Hashes, NEW backend, AddBucket(bucket, backend)
      PROVE  RingInv'
  <2>1. DOMAIN buckets' = Buckets \cup {bucket}
    BY <1>1 DEF AddBucket
  <2> QED
    BY <2>1 DEF RingInv, Buckets
<1>2. ASSUME NEW bucket, RemoveBucket(bucket)
      PROVE  RingInv'
  <2>1. DOMAIN buckets' = Buckets \ {bucket}
    BY <1>2 DEF RemoveBucket, Erased, Restrict
  <2> QED
    BY <2>1 DEF RingInv, Buckets
<1>3. CASE UNCHANGED buckets
  BY <1>3 DEF RingInv, Buckets
<1> QED
  BY <1>1, <1>2, <1>3 DEF Next

LEMMA AlwaysRing == Spec => []RingInv
<1>1. Init => RingInv
  <2>1. DOMAIN <<>> = {}
    OBVIOUS
  <2> QED
    BY <2>1 DEF Init, RingInv, Buckets
<1> QED
  BY <1>1, NextRing, PTL DEF Spec

LEMMA NearestIs ==
  ASSUME Buckets \subseteq Hashes, NEW key \in Hashes, NEW b \in Buckets, NEW k,
         Order(Buckets, key, b) = k
  PROVE  Nearest(key, k) = b
<1> DEFINE P(x) == Cardinality({c \in Buckets : Clockwise(key, c) < Clockwise(key, x)}) = k
<1>1. P(b)
  BY DEF Order, Nearer
<1>2. \A x \in Buckets : P(x) => x = b
  BY OrderApart DEF Order, Nearer
<1>3. Nearest(key, k) = CHOOSE x \in Buckets : P(x)
  BY DEF Nearest
<1> HIDE DEF P
<1> QED
  BY <1>1, <1>2, <1>3

\* Whatever buckets have come and gone, closest gives the backends of the
\* buckets in the order in which one meets them going round the ring from the
\* key, the first one met last, and goes round again if more are asked for.
THEOREM AlwaysClosestExact == Spec => []ClosestExact
<1>1. RingInv => ClosestExact
  <2> SUFFICES ASSUME RingInv, NEW key \in Hashes, NEW n \in 0 .. MaxTaken
               PROVE  Closest(key, n) =
                        IF Cardinality(Buckets) = 0 THEN NULL
                        ELSE [j \in 1 .. n |->
                                buckets[Nearest(key, j % Cardinality(Buckets))]]
    BY DEF ClosestExact
  <2>1. Buckets \subseteq Hashes /\ n \in Nat
    BY TakenAssumption DEF RingInv
  <2>2. Cardinality(Buckets) = 0 <=> Buckets = {}
    BY <2>1, HashesFinite
  <2>3. CASE Buckets = {}
    BY <2>2, <2>3 DEF Closest
  <2>4. CASE Buckets # {}
    <3>1. Closest(key, n) = [j \in 1 .. n |-> buckets[Sweep(key, n)[j]]]
      BY <2>4 DEF Closest
    <3>2. \A j \in 1 .. n : Nearest(key, j % Cardinality(Buckets)) = Sweep(key, n)[j]
      BY <2>1, <2>4, SweepOrder, NearestIs
    <3> QED
      BY <2>2, <2>4, <3>1, <3>2
  <2> QED
    BY <2>3, <2>4
<1> QED
  BY <1>1, AlwaysRing, PTL

-----------------------------------------------------------------------------
(* A bucket that comes or goes. *)

\* The buckets that the first n steps visit.
Visited(B, key, n) ==
  {b \in B : \/ Order(B, key, b) \in 1 .. n
             \/ Order(B, key, b) = 0 /\ n = Cardinality(B)}

LEMMA SweepVisited ==
  Buckets \subseteq Hashes =>
    \A key \in Hashes, n \in Nat \ {0} :
      n <= Cardinality(Buckets) => Range(Sweep(key, n)) = Visited(Buckets, key, n)
<1> SUFFICES ASSUME Buckets \subseteq Hashes, NEW key \in Hashes, NEW n \in Nat \ {0},
                    n <= Cardinality(Buckets)
             PROVE  Range(Sweep(key, n)) = Visited(Buckets, key, n)
  OBVIOUS
<1>1. PICK m \in Nat : m = Cardinality(Buckets) /\ n <= m
  BY HashesFinite
<1>2. Buckets # {} /\ m \in Nat \ {0}
  BY <1>1, HashesFinite
<1>3. \A j \in 1 .. n : /\ Sweep(key, n)[j] \in Buckets
                        /\ Order(Buckets, key, Sweep(key, n)[j]) = j % m
  BY <1>1, <1>2, SweepOrder
<1>4. DOMAIN Sweep(key, n) = 1 .. n
  BY DEF Sweep
<1>5. \A j \in 1 .. n : j % m = IF j = m THEN 0 ELSE j
  <2> TAKE j \in 1 .. n
  <2>1. CASE j = m
    <3>1. j = m * 1 + 0 /\ 0 \in 0 .. m - 1
      BY <1>2, <2>1
    <3> QED
      BY <1>2, <2>1, <3>1, ModuloIs
  <2>2. CASE j # m
    <3>1. j = m * 0 + j /\ j \in 0 .. m - 1
      BY <1>1, <1>2, <2>2
    <3> QED
      BY <1>2, <2>2, <3>1, ModuloIs
  <2> QED
    BY <2>1, <2>2
<1>6. ASSUME NEW b \in Range(Sweep(key, n))
      PROVE  b \in Visited(Buckets, key, n)
  <2>1. PICK j \in 1 .. n : b = Sweep(key, n)[j]
    BY <1>4 DEF Range
  <2>2. b \in Buckets /\ Order(Buckets, key, b) = IF j = m THEN 0 ELSE j
    BY <1>3, <1>5, <2>1
  <2>3. j = m => n = m
    BY <1>1
  <2> QED
    BY <1>1, <2>2, <2>3 DEF Visited
<1>7. ASSUME NEW b \in Visited(Buckets, key, n)
      PROVE  b \in Range(Sweep(key, n))
  <2>1. /\ b \in Buckets
        /\ \/ Order(Buckets, key, b) \in 1 .. n
           \/ Order(Buckets, key, b) = 0 /\ n = m
    BY <1>1 DEF Visited
  <2>2. \E j \in 1 .. n : Order(Buckets, key, b) = j % m
    <3>1. CASE Order(Buckets, key, b) \in 1 .. n
      <4>1. Order(Buckets, key, b) # m
        BY <1>1, <2>1, OrderBound
      <4> QED
        BY <1>5, <3>1, <4>1
    <3>2. CASE Order(Buckets, key, b) = 0 /\ n = m
      <4>1. m \in 1 .. n
        BY <1>2, <3>2
      <4> QED
        BY <1>5, <3>2, <4>1
    <3> QED
      BY <2>1, <3>1, <3>2
  <2>3. PICK j \in 1 .. n : Order(Buckets, key, b) = j % m
    BY <2>2
  <2>4. b = Sweep(key, n)[j]
    BY <1>3, <2>1, <2>3, OrderApart
  <2> QED
    BY <1>4, <2>4 DEF Range
<1> QED
  BY <1>6, <1>7

LEMMA SweepVisitedNext ==
  (Buckets \subseteq Hashes =>
    \A key \in Hashes, n \in Nat \ {0} :
      n <= Cardinality(Buckets) => Range(Sweep(key, n)) = Visited(Buckets, key, n))'
BY SweepVisited, PTL

\* A bucket that comes takes the place of one at most.
LEMMA OneLess ==
  ASSUME NEW B \in SUBSET Hashes, NEW x \in Hashes, x \notin B, NEW key \in Hashes,
         NEW n \in Nat, n <= Cardinality(B),
         NEW y \in Visited(B, key, n) \ Visited(B \cup {x}, key, n)
  PROVE  Order(B, key, y) = IF n = Cardinality(B) THEN 0 ELSE n
<1>1. PICK m \in Nat : m = Cardinality(B)
  BY HashesFinite
<1>2. y \in B /\ y \in B \cup {x}
  BY DEF Visited
<1>3. PICK r \in Nat : r = Order(B, key, y) /\ r < m
  BY <1>1, <1>2, NearerFinite, OrderBound
<1>4. Cardinality(B \cup {x}) = m + 1
  BY <1>1, HashesFinite, FS_AddElement
<1>5. PICK s \in Nat : s = Order(B \cup {x}, key, y) /\ (s = r \/ s = r + 1)
  <2>1. Order(B \cup {x}, key, y) = r \/ Order(B \cup {x}, key, y) = r + 1
    BY <1>3, OrderMore
  <2> QED
    BY <2>1
<1>6. r \in 1 .. n \/ (r = 0 /\ n = m)
  BY <1>1, <1>3 DEF Visited
<1>7. ~ (s \in 1 .. n)
  BY <1>2, <1>5 DEF Visited
<1> QED
  BY <1>1, <1>3, <1>5, <1>6, <1>7

\* When a bucket goes, another leaves the list only where the one that goes was
\* the nearest, and so not in it; the other is then the second nearest.
LEMMA OneGone ==
  ASSUME NEW B \in SUBSET Hashes, NEW x \in Hashes, x \notin B, NEW key \in Hashes,
         NEW n \in Nat, n <= Cardinality(B),
         NEW y \in Visited(B \cup {x}, key, n) \ Visited(B, key, n), y # x
  PROVE  Order(B \cup {x}, key, y) = 1 /\ Order(B \cup {x}, key, x) = 0
<1>1. PICK m \in Nat : m = Cardinality(B)
  BY HashesFinite
<1>2. y \in B /\ y \in Hashes /\ B \cup {x} \in SUBSET Hashes
  BY DEF Visited
<1>3. Cardinality(B \cup {x}) = m + 1
  BY <1>1, HashesFinite, FS_AddElement
<1>4. PICK r \in Nat : r = Order(B, key, y) /\ r < m
  BY <1>1, <1>2, NearerFinite, OrderBound
<1>5. PICK s \in Nat : s = Order(B \cup {x}, key, y)
  BY <1>2, NearerFinite
<1>6. PICK z \in Nat : z = Order(B \cup {x}, key, x)
  BY <1>2, NearerFinite
<1>7. s \in 1 .. n
  BY <1>1, <1>3, <1>5 DEF Visited
<1>8. ~ (r \in 1 .. n) /\ ~ (r = 0 /\ n = m)
  BY <1>1, <1>2, <1>4 DEF Visited
<1>9. /\ Clockwise(key, x) < Clockwise(key, y) => s = r + 1
      /\ ~ (Clockwise(key, x) < Clockwise(key, y)) => s = r
  BY <1>4, <1>5, OrderMore
<1>10. Clockwise(key, x) < Clockwise(key, y) /\ s = 1
  BY <1>7, <1>8, <1>9
<1>11. z < s
  BY <1>2, <1>5, <1>6, <1>10, OrderGrows
<1> QED
  BY <1>5, <1>6, <1>10, <1>11

LEMMA AtMostOne ==
  ASSUME NEW T, \A y, z \in T : y = z
  PROVE  Cardinality(T) <= 1
<1>1. CASE T = {}
  BY <1>1, FS_EmptySet
<1>2. ASSUME NEW y \in T
      PROVE  Cardinality(T) <= 1
  <2>1. T = {y}
    BY <1>2
  <2> QED
    BY <2>1, FS_Singleton
<1> QED
  BY <1>1, <1>2

\* Of the first n buckets closest goes to from any key, a bucket that comes to
\* the ring or goes from it moves one out at most, however many others there
\* are and wherever the key lies.
THEOREM AlwaysOneChanges == Spec => OneChanges
<1> DEFINE Kept ==
      \A key \in Hashes, n \in 0 .. MaxTaken :
        n <= Cardinality(Buckets) /\ n <= Cardinality(Buckets') =>
          Cardinality(Range(Sweep(key, n)) \ Range(Sweep(key, n)')) <= 1
<1>1. RingInv /\ RingInv' /\ [Next]_buckets => [Kept]_buckets
  <2> SUFFICES ASSUME RingInv, RingInv', Next,
                      NEW key \in Hashes, NEW n \in 0 .. MaxTaken,
                      n <= Cardinality(Buckets), n <= Cardinality(Buckets')
               PROVE  Cardinality(Range(Sweep(key, n)) \ Range(Sweep(key, n)')) <= 1
    OBVIOUS
  <2>1. n \in Nat /\ Buckets \in SUBSET Hashes /\ Buckets' \in SUBSET Hashes
    BY TakenAssumption DEF RingInv, Hashes
  <2>2. CASE n = 0
    <3>1. Range(Sweep(key, n)) = {}
      BY <2>2 DEF Sweep, Range
    <3> QED
      BY <3>1, FS_EmptySet
  <2>3. CASE n # 0
    <3>1. Range(Sweep(key, n)) = Visited(Buckets, key, n)
      BY <2>1, <2>3, SweepVisited
    <3>2. Range(Sweep(key, n)') = Visited(Buckets', key, n)
      BY <2>1, <2>3, SweepVisitedNext DEF Hashes
    <3> DEFINE T == Visited(Buckets, key, n) \ Visited(Buckets', key, n)
    <3>3. ASSUME NEW x \in Hashes, Buckets' = Buckets \cup {x}, NEW y \in T, NEW z \in T
          PROVE  y = z
      <4>1. CASE x \in Buckets
        BY <3>3, <4>1
      <4>2. CASE x \notin Buckets
        <5>1. Order(Buckets, key, y) = Order(Buckets, key, z)
          BY <2>1, <3>3, <4>2, OneLess
        <5>2. y \in Buckets /\ z \in Buckets
          BY DEF Visited
        <5> QED
          BY <2>1, <5>1, <5>2, OrderApart
      <4> QED
        BY <4>1, <4>2
    <3>4. ASSUME NEW x \in Buckets, Buckets' = Buckets \ {x}, NEW y \in T, NEW z \in T
          PROVE  y = z
      <4>1. PICK B \in SUBSET Hashes : B = Buckets' /\ x \notin B /\ Buckets = B \cup {x}
        BY <2>1, <3>4
      <4>2. /\ x \in Hashes
            /\ y \in Visited(B \cup {x}, key, n) \ Visited(B, key, n)
            /\ z \in Visited(B \cup {x}, key, n) \ Visited(B, key, n)
        BY <2>1, <3>4, <4>1
      <4>3. y \in Buckets /\ z \in Buckets
        BY DEF Visited
      <4>4. n <= Cardinality(B)
        BY <4>1
      <4>5. y # x => Order(Buckets, key, y) = 1 /\ Order(Buckets, key, x) = 0
        BY <2>1, <4>1, <4>2, <4>4, OneGone
      <4>6. z # x => Order(Buckets, key, z) = 1 /\ Order(Buckets, key, x) = 0
        BY <2>1, <4>1, <4>2, <4>4, OneGone
      <4>7. x \in {y, z} => Order(Buckets, key, x) # 0
        <5> SUFFICES ASSUME x \in {y, z}, Order(Buckets, key, x) = 0 PROVE FALSE
          OBVIOUS
        <5>1. x \in Visited(Buckets, key, n)
          OBVIOUS
        <5>2. n = Cardinality(Buckets)
          BY <5>1 DEF Visited
        <5>3. Cardinality(Buckets) = Cardinality(B) + 1 /\ Cardinality(B) \in Nat
          BY <4>1, HashesFinite, FS_AddElement
        <5> QED
          BY <2>1, <4>4, <5>2, <5>3
      <4>8. y = x <=> z = x
        BY <4>5, <4>6, <4>7
      <4>9. y # x /\ z # x => y = z
        BY <2>1, <4>3, <4>5, <4>6, OrderApart
      <4> QED
        BY <4>8, <4>9
    <3>5. \A y, z \in T : y = z
      <4>1. ASSUME NEW bucket \in Hashes, NEW backend, AddBucket(bucket, backend)
            PROVE  Buckets' = Buckets \cup {bucket}
        BY <4>1 DEF AddBucket, Buckets
      <4>2. ASSUME NEW bucket, RemoveBucket(bucket)
            PROVE  bucket \in Buckets /\ Buckets' = Buckets \ {bucket}
        BY <4>2 DEF RemoveBucket, Erased, Restrict, Buckets
      <4>3. \/ \E x \in Hashes : Buckets' = Buckets \cup {x}
            \/ \E x \in Buckets : Buckets' = Buckets \ {x}
        BY <4>1, <4>2 DEF Next
      <4> QED
        BY <3>3, <3>4, <4>3
    <3> HIDE DEF T
    <3>6. Cardinality(T) <= 1
      BY <3>5, AtMostOne
    <3> QED
      BY <3>1, <3>2, <3>6 DEF T
  <2> QED
    BY <2>2, <2>3
<1> QED
  BY <1>1, AlwaysRing, PTL DEF Spec, OneChanges
=============================================================================
