------------------------------- MODULE Lemmas -------------------------------
(***************************************************************************)
(* Facts about numbers, sequences and finite sets of numbers that the      *)
(* proofs share.  The map of the store is walked in the order of its keys, *)
(* so how many of them come before a given one says when it is reached.    *)
(***************************************************************************)
EXTENDS Integers, Sequences, SequencesExt, FiniteSets, FiniteSetsExt,
        FiniteSetTheorems, SequenceTheorems, WellFoundedInduction, TLAPS

(* Numbers. *)

(* Quotient and remainder. *)
LEMMA Division ==
  ASSUME NEW a \in Int, NEW b \in Nat \ {0}
  PROVE  /\ a \div b \in Int
         /\ a % b \in 0 .. b - 1
         /\ a = b * (a \div b) + (a % b)
OBVIOUS

(* The quotient is the only integer that leaves a remainder in range. *)
LEMMA Quotient ==
  ASSUME NEW a \in Int, NEW b \in Nat \ {0}, NEW q \in Int, NEW r \in 0 .. b - 1,
         a = b * q + r
  PROVE  a \div b = q
OBVIOUS

\* What begins where another ends goes on from it.
LEMMA SumOfThree ==
  ASSUME NEW a \in Nat, NEW b \in Nat, NEW c \in Nat
  PROVE  a + b \in Nat /\ b + c \in Nat /\ a + (b + c) = (a + b) + c
OBVIOUS

\* A set of naturals that is not empty has a least element, which is Min.
LEMMA LeastNat ==
  ASSUME NEW S \in SUBSET Nat, S # {}
  PROVE  Min(S) \in S /\ \A y \in S : Min(S) <= y
<1> DEFINE R == {ss \in Nat \X Nat : ss[1] < ss[2]}
<1>1. PICK x \in S : \A y \in S : ~ (<<y, x>> \in R)
  <2>1. IsWellFoundedOn(R, Nat)
    BY NatLessThanWellFounded, Zenon DEF OpToRel
  <2> HIDE DEF R
  <2> QED
    BY <2>1, WFMin
<1>2. ASSUME NEW y \in S
      PROVE  x <= y
  <2>1. <<y, x>> \in Nat \X Nat /\ <<y, x>>[1] = y /\ <<y, x>>[2] = x
    OBVIOUS
  <2>2. y < x => <<y, x>> \in R
    BY <2>1, Zenon
  <2> QED
    BY <1>1, <2>2
<1> QED
  BY <1>2 DEF Min

\* One that lies below a bound has a greatest.
LEMMA GreatestNat ==
  ASSUME NEW S \in SUBSET Nat, S # {}, NEW b \in Nat, \A x \in S : x <= b
  PROVE  \E m \in S : \A x \in S : x <= m
<1> DEFINE D == {c \in Nat : \E x \in S : x + c = b}
<1>1. D \in SUBSET Nat /\ D # {}
  <2>1. PICK x \in S : TRUE
    OBVIOUS
  <2>2. b - x \in Nat /\ x + (b - x) = b
    BY <2>1
  <2> QED
    BY <2>1, <2>2
<1>2. PICK c \in D : \A d \in D : c <= d
  <2> HIDE DEF D
  <2> QED
    BY <1>1, LeastNat
<1>3. PICK m \in S : m + c = b
  OBVIOUS
<1>4. ASSUME NEW x \in S
      PROVE  x <= m
  <2>1. PICK d \in Nat : x + d = b
    <3>1. b - x \in Nat /\ x + (b - x) = b
      BY <1>4
    <3> QED
      BY <3>1
  <2>2. d \in D
    BY <2>1
  <2>3. c <= d /\ c \in Nat
    BY <1>2, <2>2
  <2> QED
    BY <1>3, <2>1, <2>3
<1> QED
  BY <1>4

\* A finite one lies below a bound.
LEMMA FiniteBounded ==
  ASSUME NEW S \in SUBSET Nat, IsFiniteSet(S)
  PROVE  \E b \in Nat : \A x \in S : x <= b
<1>1. PICK n \in Nat : ExistsBijection(1 .. n, S)
  BY FS_NatBijection
<1>2. PICK f \in [1 .. n -> S] : \A x \in S : \E k \in 1 .. n : f[k] = x
  BY <1>1 DEF ExistsBijection, Bijection, Surjection, Injection
<1> DEFINE Bounds(j) == {b \in Nat : \A k \in 1 .. j : f[k] <= b}
           Bad == {j \in 0 .. n : Bounds(j) = {}}
<1>3. Bad = {}
  <2> SUFFICES ASSUME Bad # {} PROVE FALSE
    OBVIOUS
  <2>1. PICK j \in Bad : \A i \in Bad : j <= i
    <3>1. Bad \in SUBSET Nat
      OBVIOUS
    <3> HIDE DEF Bad
    <3> QED
      BY <3>1, LeastNat
  <2>2. j \in 0 .. n /\ Bounds(j) = {}
    OBVIOUS
  <2>3. 0 \in Bounds(0)
    OBVIOUS
  <2>4. j # 0
    BY <2>2, <2>3, Zenon
  <2>5. j - 1 \in 0 .. n /\ j \in 1 .. n /\ ~ (j <= j - 1)
    BY <2>2, <2>4
  <2>6. j - 1 \notin Bad
    BY <2>1, <2>5
  <2>7. PICK b \in Nat : \A k \in 1 .. j - 1 : f[k] <= b
    BY <2>5, <2>6
  <2>8. PICK v \in Nat : v = f[j]
    BY <1>2, <2>5
  <2>9. PICK c \in Nat : b <= c /\ v <= c
    <3>1. b + v \in Nat /\ b <= b + v /\ v <= b + v
      OBVIOUS
    <3> QED
      BY <3>1
  <2>10. ASSUME NEW k \in 1 .. j PROVE f[k] <= c
    <3>1. CASE k = j
      BY <2>8, <2>9, <3>1
    <3>2. CASE k # j
      <4>1. k \in 1 .. j - 1 /\ k \in 1 .. n
        BY <2>2, <2>5, <2>10, <3>2
      <4>2. PICK w \in Nat : w = f[k] /\ w <= b
        BY <1>2, <2>7, <4>1
      <4> QED
        BY <2>9, <4>2
    <3> QED
      BY <3>1, <3>2
  <2>11. c \in Bounds(j)
    BY <2>10
  <2> QED
    BY <2>2, <2>11
<1>4. PICK b \in Nat : \A k \in 1 .. n : f[k] <= b
  <2>1. n \in 0 .. n
    OBVIOUS
  <2> QED
    BY <1>3, <2>1
<1> QED
  BY <1>2, <1>4

\* The lesser of two.
LEMMA MinOfTwo ==
  ASSUME NEW a \in Nat, NEW b \in Nat
  PROVE  /\ Min({a, b}) \in Nat /\ Min({a, b}) <= a /\ Min({a, b}) <= b
         /\ Min({a, b}) = a \/ Min({a, b}) = b
<1>1. {a, b} \in SUBSET Nat /\ {a, b} # {} /\ a \in {a, b} /\ b \in {a, b}
  OBVIOUS
<1>2. Min({a, b}) \in {a, b} /\ \A y \in {a, b} : Min({a, b}) <= y
  BY <1>1, LeastNat
<1> QED
  BY <1>1, <1>2

\* Induction: a set that has 0 and what follows each of its numbers.
LEMMA SetInduction ==
  ASSUME NEW I, NEW n \in Nat, 0 \in I, \A j \in 1 .. n : j - 1 \in I => j \in I
  PROVE  \A j \in 0 .. n : j \in I
<1> DEFINE Bad == {j \in 0 .. n : j \notin I}
<1> SUFFICES ASSUME Bad # {} PROVE FALSE
  OBVIOUS
<1>1. PICK j \in Bad : \A i \in Bad : j <= i
  <2>1. Bad \in SUBSET Nat
    OBVIOUS
  <2> HIDE DEF Bad
  <2> QED
    BY <2>1, LeastNat
<1>2. j \in 1 .. n /\ j - 1 \in 0 .. n /\ ~ (j <= j - 1)
  OBVIOUS
<1>3. j - 1 \in I
  BY <1>1, <1>2
<1> QED
  BY <1>2, <1>3

\* A step from each value to the next, and the values one gets with it.
Steps(S, a, n, step) ==
  n \in Nat /\ a \in S /\ \A j \in 1 .. n, x \in S : step[<<j, x>>] \in S
Stepwise(S, a, n, step, f) ==
  f \in [0 .. n -> S] /\ f[0] = a /\ \A j \in 1 .. n : f[j] = step[<<j, f[j - 1]>>]

\* What each value is made of the one before exists, as far as one likes.
LEMMA RecursionExists ==
  ASSUME NEW S, NEW a, NEW n, NEW step, Steps(S, a, n, step)
  PROVE  \E f : Stepwise(S, a, n, step, f)
<1> DEFINE I == {i \in 0 .. n : \E f : Stepwise(S, a, i, step, f)}
<1>1. n \in Nat /\ a \in S /\ \A j \in 1 .. n, x \in S : step[<<j, x>>] \in S
  BY DEF Steps
<1>2. 0 \in I
  <2>1. PICK g : g = [x \in 0 .. 0 |-> a]
    OBVIOUS
  <2>2. Stepwise(S, a, 0, step, g)
    BY <1>1, <2>1 DEF Stepwise
  <2> QED
    BY <1>1, <2>2
<1>3. ASSUME NEW i \in 1 .. n, i - 1 \in I
      PROVE  i \in I
  <2>1. PICK f : Stepwise(S, a, i - 1, step, f)
    BY <1>3
  <2>2. /\ f \in [0 .. i - 1 -> S] /\ f[0] = a /\ i \in Nat /\ i - 1 \in 0 .. i - 1
        /\ \A j \in 1 .. i - 1 : f[j] = step[<<j, f[j - 1]>>]
    BY <1>1, <2>1 DEF Stepwise
  <2>3. PICK v \in S : v = step[<<i, f[i - 1]>>]
    <3>1. f[i - 1] \in S
      BY <2>2
    <3> QED
      BY <1>1, <3>1
  <2>4. PICK g : g = [x \in 0 .. i |-> IF x = i THEN v ELSE f[x]]
    OBVIOUS
  <2>5. /\ g \in [0 .. i -> S] /\ g[i] = v
        /\ \A x \in 0 .. i - 1 : g[x] = f[x]
    BY <2>2, <2>4
  <2>6. ASSUME NEW j \in 1 .. i
        PROVE  g[j] = step[<<j, g[j - 1]>>]
    <3>1. j - 1 \in 0 .. i - 1 /\ g[j - 1] = f[j - 1]
      BY <2>2, <2>5
    <3>2. CASE j = i
      BY <2>3, <2>5, <3>1, <3>2
    <3>3. CASE j # i
      <4>1. j \in 1 .. i - 1 /\ g[j] = f[j]
        BY <2>2, <2>5, <3>3
      <4> QED
        BY <2>2, <3>1, <4>1
    <3> QED
      BY <3>2, <3>3
  <2>7. g[0] = a
    BY <2>2, <2>5
  <2>8. Stepwise(S, a, i, step, g)
    BY <2>5, <2>6, <2>7 DEF Stepwise
  <2> QED
    BY <1>1, <2>8
<1> HIDE DEF I
<1>4. n \in I
  BY <1>1, <1>2, <1>3, SetInduction
<1> QED
  BY <1>4 DEF I

-----------------------------------------------------------------------------
(* Sequences. *)

(* A prefix. *)
LEMMA PrefixFacts ==
  ASSUME NEW S, NEW s \in Seq(S), NEW m \in 0 .. Len(s)
  PROVE  /\ SubSeq(s, 1, m) \in Seq(S)
         /\ Len(SubSeq(s, 1, m)) = m
         /\ \A k \in 1 .. m : SubSeq(s, 1, m)[k] = s[k]
<1>1. m \in Nat /\ \A k \in 1 .. m : s[k] \in S
  BY LenProperties, ElementOfSeq
<1>2. /\ SubSeq(s, 1, m) \in Seq(S)
      /\ Len(SubSeq(s, 1, m)) = IF 1 <= m THEN m - 1 + 1 ELSE 0
      /\ \A k \in 1 .. m - 1 + 1 : SubSeq(s, 1, m)[k] = s[1 + k - 1]
  BY <1>1, SubSeqProperties
<1> QED
  BY <1>1, <1>2

(* A suffix. *)
LEMMA SuffixFacts ==
  ASSUME NEW S, NEW s \in Seq(S), NEW m \in 0 .. Len(s)
  PROVE  /\ SubSeq(s, m + 1, Len(s)) \in Seq(S)
         /\ Len(SubSeq(s, m + 1, Len(s))) = Len(s) - m
         /\ \A k \in 1 .. Len(s) - m : SubSeq(s, m + 1, Len(s))[k] = s[m + k]
<1>1. \A j \in Int, n \in Int : (\A k \in j .. n : s[k] \in S) =>
        /\ SubSeq(s, j, n) \in Seq(S)
        /\ Len(SubSeq(s, j, n)) = IF j <= n THEN n - j + 1 ELSE 0
        /\ \A k \in 1 .. n - j + 1 : SubSeq(s, j, n)[k] = s[j + k - 1]
  BY SubSeqProperties
<1>2. m + 1 \in Int /\ Len(s) \in Int /\ \A k \in m + 1 .. Len(s) : s[k] \in S
  BY LenProperties, ElementOfSeq
<1>3. /\ SubSeq(s, m + 1, Len(s)) \in Seq(S)
      /\ Len(SubSeq(s, m + 1, Len(s))) =
           IF m + 1 <= Len(s) THEN Len(s) - (m + 1) + 1 ELSE 0
      /\ \A k \in 1 .. Len(s) - (m + 1) + 1 :
           SubSeq(s, m + 1, Len(s))[k] = s[(m + 1) + k - 1]
  BY <1>1, <1>2
<1>4. Len(s) - (m + 1) + 1 = Len(s) - m /\ (m + 1 <= Len(s) \/ Len(s) - m = 0)
  BY <1>2
<1>5. ASSUME NEW k \in 1 .. Len(s) - m
      PROVE  SubSeq(s, m + 1, Len(s))[k] = s[m + k]
  <2>1. (m + 1) + k - 1 = m + k
    BY <1>2
  <2> QED
    BY <1>3, <1>4, <2>1
<1> QED
  BY <1>3, <1>4, <1>5

(* Taking an element out keeps the others and their order. *)
LEMMA RemoveAtFacts ==
  ASSUME NEW S, NEW s \in Seq(S), NEW i \in 1 .. Len(s)
  PROVE  /\ RemoveAt(s, i) \in Seq(S)
         /\ Len(RemoveAt(s, i)) = Len(s) - 1
         /\ \A k \in 1 .. Len(s) - 1 :
              RemoveAt(s, i)[k] = IF k < i THEN s[k] ELSE s[k + 1]
<1>1. Len(s) \in Nat /\ i \in Nat /\ i - 1 \in 0 .. Len(s) /\ i \in 0 .. Len(s)
  BY LenProperties
<1>2. PICK l \in Seq(S) : /\ l = SubSeq(s, 1, i - 1) /\ Len(l) = i - 1
                          /\ \A k \in 1 .. i - 1 : l[k] = s[k]
  BY <1>1, PrefixFacts
<1>3. PICK r \in Seq(S) : /\ r = SubSeq(s, i + 1, Len(s)) /\ Len(r) = Len(s) - i
                          /\ \A k \in 1 .. Len(s) - i : r[k] = s[i + k]
  <2>1. /\ SubSeq(s, i + 1, Len(s)) \in Seq(S)
        /\ Len(SubSeq(s, i + 1, Len(s))) = Len(s) - i
        /\ \A k \in 1 .. Len(s) - i : SubSeq(s, i + 1, Len(s))[k] = s[i + k]
    BY <1>1, SuffixFacts
  <2> QED
    BY <2>1
<1>4. /\ l \o r \in Seq(S) /\ Len(l \o r) = Len(l) + Len(r)
      /\ \A k \in 1 .. Len(l) + Len(r) :
           (l \o r)[k] = IF k <= Len(l) THEN l[k] ELSE r[k - Len(l)]
  BY ConcatProperties
<1>5. RemoveAt(s, i) = l \o r
  BY <1>2, <1>3 DEF RemoveAt
<1>6. Len(l) = i - 1 /\ Len(l) + Len(r) = Len(s) - 1
  <2>1. Len(l) = i - 1 /\ Len(r) = Len(s) - i
    BY <1>2, <1>3, Zenon
  <2> QED
    BY <1>1, <2>1
<1>7. ASSUME NEW k \in 1 .. Len(s) - 1
      PROVE  (l \o r)[k] = IF k < i THEN s[k] ELSE s[k + 1]
  <2>1. k \in Nat /\ k \in 1 .. Len(l) + Len(r)
    BY <1>1, <1>6
  <2>2. (l \o r)[k] = IF k <= Len(l) THEN l[k] ELSE r[k - Len(l)]
    BY <1>4, <2>1
  <2>3. CASE k < i
    <3>1. k \in 1 .. i - 1 /\ k <= Len(l)
      BY <1>1, <1>6, <2>1, <2>3
    <3> QED
      BY <1>2, <2>2, <2>3, <3>1
  <2>4. CASE ~ (k < i)
    <3>1. k - (i - 1) \in 1 .. Len(s) - i /\ i + (k - (i - 1)) = k + 1
          /\ ~ (k <= Len(l))
      BY <1>1, <1>6, <2>1, <2>4
    <3>2. (l \o r)[k] = r[k - (i - 1)]
      BY <1>6, <2>2, <3>1
    <3>3. r[k - (i - 1)] = s[k + 1]
      BY <1>3, <3>1
    <3> QED
      BY <2>4, <3>2, <3>3
  <2> QED
    BY <2>3, <2>4
<1> QED
  BY <1>4, <1>5, <1>6, <1>7

(* Putting an element in keeps the others and their order. *)
LEMMA InsertAtFacts ==
  ASSUME NEW S, NEW s \in Seq(S), NEW i \in 1 .. Len(s) + 1, NEW e \in S
  PROVE  /\ InsertAt(s, i, e) \in Seq(S)
         /\ Len(InsertAt(s, i, e)) = Len(s) + 1
         /\ \A k \in 1 .. Len(s) + 1 :
              InsertAt(s, i, e)[k] = IF k < i THEN s[k]
                                     ELSE IF k = i THEN e ELSE s[k - 1]
<1>1. /\ Len(s) \in Nat /\ i \in Nat /\ i - 1 \in 0 .. Len(s)
      /\ (i - 1) + 1 = i /\ Len(s) - (i - 1) = Len(s) + 1 - i
  <2>1. Len(s) \in Nat
    BY LenProperties
  <2> QED
    BY <2>1
<1>2. PICK l \in Seq(S) : /\ l = SubSeq(s, 1, i - 1) /\ Len(l) = i - 1
                          /\ \A k \in 1 .. i - 1 : l[k] = s[k]
  <2>1. /\ SubSeq(s, 1, i - 1) \in Seq(S)
        /\ Len(SubSeq(s, 1, i - 1)) = i - 1
        /\ \A k \in 1 .. i - 1 : SubSeq(s, 1, i - 1)[k] = s[k]
    BY <1>1, PrefixFacts
  <2> QED
    BY <2>1
<1>3. PICK r \in Seq(S) : /\ r = SubSeq(s, i, Len(s)) /\ Len(r) = Len(s) + 1 - i
                          /\ \A k \in 1 .. Len(s) + 1 - i : r[k] = s[(i - 1) + k]
  <2>1. /\ SubSeq(s, (i - 1) + 1, Len(s)) \in Seq(S)
        /\ Len(SubSeq(s, (i - 1) + 1, Len(s))) = Len(s) - (i - 1)
        /\ \A k \in 1 .. Len(s) - (i - 1) :
             SubSeq(s, (i - 1) + 1, Len(s))[k] = s[(i - 1) + k]
    BY <1>1, SuffixFacts
  <2>2. /\ SubSeq(s, i, Len(s)) \in Seq(S)
        /\ Len(SubSeq(s, i, Len(s))) = Len(s) + 1 - i
        /\ \A k \in 1 .. Len(s) + 1 - i : SubSeq(s, i, Len(s))[k] = s[(i - 1) + k]
    BY <1>1, <2>1
  <2> QED
    BY <2>2
<1>4. PICK m \in Seq(S) : m = <<e>> /\ Len(m) = 1 /\ m[1] = e
  <2>1. <<e>> \in Seq(S) /\ Len(<<e>>) = 1 /\ <<e>>[1] = e
    OBVIOUS
  <2> QED
    BY <2>1
<1>5. PICK lm \in Seq(S) :
        /\ lm = l \o m /\ Len(lm) = Len(l) + Len(m)
        /\ \A k \in 1 .. Len(l) + Len(m) :
             lm[k] = IF k <= Len(l) THEN l[k] ELSE m[k - Len(l)]
  <2>1. /\ l \o m \in Seq(S) /\ Len(l \o m) = Len(l) + Len(m)
        /\ \A k \in 1 .. Len(l) + Len(m) :
             (l \o m)[k] = IF k <= Len(l) THEN l[k] ELSE m[k - Len(l)]
    BY ConcatProperties
  <2> QED
    BY <2>1
<1>6. /\ lm \o r \in Seq(S) /\ Len(lm \o r) = Len(lm) + Len(r)
      /\ \A k \in 1 .. Len(lm) + Len(r) :
           (lm \o r)[k] = IF k <= Len(lm) THEN lm[k] ELSE r[k - Len(lm)]
  BY ConcatProperties
<1>7. InsertAt(s, i, e) = lm \o r
  BY <1>2, <1>3, <1>4, <1>5 DEF InsertAt
<1>8. Len(lm) = i /\ Len(lm) + Len(r) = Len(s) + 1
  <2>1. Len(lm) = Len(l) + Len(m) /\ Len(l) = i - 1 /\ Len(m) = 1
        /\ Len(r) = Len(s) + 1 - i
    BY <1>2, <1>3, <1>4, <1>5
  <2> QED
    BY <1>1, <2>1
<1>9. ASSUME NEW k \in 1 .. Len(s) + 1
      PROVE  (lm \o r)[k] = IF k < i THEN s[k] ELSE IF k = i THEN e ELSE s[k - 1]
  <2>1. (lm \o r)[k] = IF k <= i THEN lm[k] ELSE r[k - i]
    BY <1>6, <1>8
  <2>2. CASE k < i
    <3>1. k \in 1 .. i - 1 /\ k \in 1 .. Len(l) + Len(m) /\ k <= Len(l) /\ k <= i
      BY <1>1, <1>2, <1>4, <2>2
    <3> QED
      BY <1>2, <1>5, <2>1, <2>2, <3>1
  <2>3. CASE k = i
    <3>1. k \in 1 .. Len(l) + Len(m) /\ ~ (k <= Len(l)) /\ k - Len(l) = 1 /\ k <= i
      BY <1>1, <1>2, <1>4, <2>3
    <3>2. (lm \o r)[k] = e
      BY <1>4, <1>5, <2>1, <3>1
    <3> QED
      BY <1>1, <2>3, <3>2
  <2>4. CASE k > i
    <3>1. k - i \in 1 .. Len(s) + 1 - i /\ (i - 1) + (k - i) = k - 1
      BY <1>1, <2>4
    <3> QED
      BY <1>1, <1>3, <2>1, <2>4, <3>1
  <2>5. k < i \/ k = i \/ k > i
    BY <1>1
  <2> QED
    BY <2>2, <2>3, <2>4, <2>5
<1> QED
  BY <1>6, <1>7, <1>8, <1>9

(* Without its last element. *)
LEMMA FrontFacts ==
  ASSUME NEW S, NEW s \in Seq(S), s # <<>>
  PROVE  /\ Len(s) \in Nat \ {0}
         /\ Last(s) = s[Len(s)] /\ Last(s) \in S
         /\ Front(s) \in Seq(S)
         /\ Len(Front(s)) = Len(s) - 1
         /\ \A k \in 1 .. Len(s) - 1 : Front(s)[k] = s[k]
<1>1. Len(s) \in Nat \ {0} /\ Len(s) - 1 \in 0 .. Len(s)
  BY EmptySeq
<1>2. s[Len(s)] \in S
  BY <1>1, ElementOfSeq
<1> QED
  BY <1>1, <1>2, PrefixFacts DEF Front, Last

-----------------------------------------------------------------------------
(* Ranks: how many elements of a set come before a number. *)

\* What comes before a number, and how many.
Below(S, h) == {g \in S : g < h}
Rank(S, h) == Cardinality(Below(S, h))

LEMMA BelowElement ==
  ASSUME NEW S \in SUBSET Nat, NEW h, NEW x
  PROVE  x \in Below(S, h) <=> x \in S /\ x \in Nat /\ x < h
BY DEF Below

LEMMA BelowFinite ==
  ASSUME NEW S, IsFiniteSet(S), NEW h
  PROVE  /\ IsFiniteSet(Below(S, h)) /\ Rank(S, h) \in Nat
         /\ Cardinality(S) \in Nat /\ Rank(S, h) <= Cardinality(S)
<1>1. Below(S, h) \in SUBSET S
  BY DEF Below
<1> QED
  BY <1>1, FS_Subset, FS_CardinalityType DEF Rank

\* An element comes before those that are greater, with what is before it.
LEMMA RankGrows ==
  ASSUME NEW S \in SUBSET Nat, IsFiniteSet(S), NEW g \in S, NEW h \in Nat, g < h
  PROVE  Rank(S, g) < Rank(S, h)
<1>1. IsFiniteSet(Below(S, g)) /\ IsFiniteSet(Below(S, h)) /\ Rank(S, g) \in Nat /\ Rank(S, h) \in Nat
  BY BelowFinite
<1>2. g \notin Below(S, g) /\ Below(S, g) \cup {g} \in SUBSET Below(S, h)
  <2>1. g \in Nat /\ g \notin Below(S, g) /\ g \in Below(S, h)
    BY BelowElement
  <2>2. \A x \in Below(S, g) : x \in Below(S, h)
    BY <2>1, BelowElement
  <2> QED
    BY <2>1, <2>2
<1>3. Cardinality(Below(S, g) \cup {g}) = Rank(S, g) + 1
  BY <1>1, <1>2, FS_AddElement DEF Rank
<1>4. Cardinality(Below(S, g) \cup {g}) <= Rank(S, h)
  BY <1>1, <1>2, FS_Subset DEF Rank
<1> QED
  BY <1>1, <1>3, <1>4

\* So the rank says which element it is.
LEMMA RankOrder ==
  ASSUME NEW S \in SUBSET Nat, IsFiniteSet(S), NEW g \in S, NEW h \in S
  PROVE  /\ Rank(S, g) < Rank(S, h) <=> g < h
         /\ Rank(S, g) = Rank(S, h) <=> g = h
<1>1. Rank(S, g) \in Nat /\ Rank(S, h) \in Nat /\ g \in Nat /\ h \in Nat
  BY BelowFinite
<1>2. g < h => Rank(S, g) < Rank(S, h)
  BY RankGrows
<1>3. h < g => Rank(S, h) < Rank(S, g)
  BY RankGrows
<1> QED
  BY <1>1, <1>2, <1>3

\* It is less than their number.
LEMMA RankBound ==
  ASSUME NEW S, IsFiniteSet(S), S \in SUBSET Nat, NEW h \in S
  PROVE  Rank(S, h) < Cardinality(S)
<1>1. Below(S, h) \in SUBSET S /\ h \notin Below(S, h)
  BY DEF Below
<1>2. Rank(S, h) <= Cardinality(S) /\ (Rank(S, h) = Cardinality(S) => Below(S, h) = S)
  BY <1>1, FS_Subset DEF Rank
<1>3. Rank(S, h) \in Nat /\ Cardinality(S) \in Nat
  BY BelowFinite
<1> QED
  BY <1>1, <1>2, <1>3

\* Whatever is not first has one just before it.
LEMMA RankBefore ==
  ASSUME NEW S \in SUBSET Nat, IsFiniteSet(S), NEW h \in Nat, Below(S, h) # {}
  PROVE  \E g \in S : g < h /\ Rank(S, g) + 1 = Rank(S, h)
<1>1. Below(S, h) \in SUBSET Nat /\ \A x \in Below(S, h) : x <= h
  BY BelowElement
<1>2. PICK g \in Below(S, h) : \A x \in Below(S, h) : x <= g
  BY <1>1, GreatestNat
<1>3. g \in S /\ g < h /\ g \in Nat
  BY BelowElement
<1>4. Below(S, h) = Below(S, g) \cup {g} /\ g \notin Below(S, g)
  <2>1. g \notin Below(S, g)
    BY <1>3, BelowElement
  <2>2. ASSUME NEW x \in Below(S, h) PROVE x \in Below(S, g) \cup {g}
    <3>1. x \in S /\ x \in Nat /\ x <= g
      BY <1>2, BelowElement
    <3> QED
      BY <1>3, <3>1, BelowElement
  <2>3. ASSUME NEW x \in Below(S, g) \cup {g} PROVE x \in Below(S, h)
    BY <1>3, BelowElement
  <2> QED
    BY <2>1, <2>2, <2>3
<1>5. IsFiniteSet(Below(S, g))
  BY BelowFinite
<1>6. Rank(S, h) = Rank(S, g) + 1
  BY <1>4, <1>5, FS_AddElement DEF Rank
<1> QED
  BY <1>3, <1>6

\* Every rank below the number of elements is that of one of them.
LEMMA RankExists ==
  ASSUME NEW S \in SUBSET Nat, IsFiniteSet(S), NEW r \in Nat, r < Cardinality(S)
  PROVE  \E h \in S : Rank(S, h) = r
<1>1. PICK b \in Nat : \A x \in S : x <= b
  BY FiniteBounded
<1>2. Cardinality(S) \in Nat
  BY FS_CardinalityType
<1> DEFINE T == {h \in Nat : Rank(S, h) > r}
<1>3. b + 1 \in T
  <2>1. Below(S, b + 1) = S
    <3>1. \A x \in S : x \in Nat /\ x < b + 1
      BY <1>1
    <3> QED
      BY <3>1 DEF Below
  <2> QED
    BY <2>1 DEF Rank
<1>4. PICK m \in T : \A h \in T : m <= h
  <2>1. T \in SUBSET Nat /\ T # {}
    BY <1>3
  <2> HIDE DEF T
  <2> QED
    BY <2>1, LeastNat
<1>5. m \in Nat /\ Rank(S, m) > r /\ Rank(S, m) \in Nat
  BY BelowFinite
<1>6. Below(S, m) # {}
  BY <1>5, FS_EmptySet DEF Rank
<1>7. PICK g \in S : g < m /\ Rank(S, g) + 1 = Rank(S, m)
  BY <1>5, <1>6, RankBefore
<1>8. g \in Nat /\ Rank(S, g) \in Nat
  BY BelowFinite
<1>9. ~ (Rank(S, g) > r)
  BY <1>4, <1>7, <1>8
<1> QED
  BY <1>5, <1>7, <1>8, <1>9

\* A part has as many before a number at most.
LEMMA RankPart ==
  ASSUME NEW S, IsFiniteSet(S), NEW T \in SUBSET S, NEW h
  PROVE  IsFiniteSet(T) /\ Rank(T, h) \in Nat /\ Rank(T, h) <= Rank(S, h)
<1>1. IsFiniteSet(T)
  BY FS_Subset
<1>2. Below(T, h) \in SUBSET Below(S, h)
  BY DEF Below
<1>3. IsFiniteSet(Below(S, h))
  BY BelowFinite
<1> QED
  BY <1>1, <1>2, <1>3, FS_Subset, BelowFinite DEF Rank

\* A number that leaves a set takes one place at most.
LEMMA RankRemoved ==
  ASSUME NEW S, IsFiniteSet(S), NEW x, NEW h
  PROVE  /\ Rank(S \ {x}, h) = Rank(S, h) \/ Rank(S \ {x}, h) + 1 = Rank(S, h)
         /\ Rank(S, h) \in Nat /\ Rank(S \ {x}, h) \in Nat
<1>1. Below(S \ {x}, h) = Below(S, h) \ {x}
  BY DEF Below
<1>2. IsFiniteSet(Below(S, h)) /\ Rank(S, h) \in Nat
  BY BelowFinite
<1>3. /\ IsFiniteSet(Below(S, h) \ {x})
      /\ Cardinality(Below(S, h) \ {x}) =
           IF x \in Below(S, h) THEN Cardinality(Below(S, h)) - 1 ELSE Cardinality(Below(S, h))
  BY <1>2, FS_RemoveElement
<1>4. Rank(S \ {x}, h) \in Nat
  BY <1>1, <1>3, FS_CardinalityType DEF Rank
<1>5. Rank(S \ {x}, h) = Rank(S, h) \/ Rank(S \ {x}, h) = Rank(S, h) - 1
  BY <1>1, <1>3, Zenon DEF Rank
<1> QED
  BY <1>2, <1>4, <1>5

\* What is left of a set without its first r elements.
Upper(S, r) == {h \in S : Rank(S, h) >= r}

LEMMA UpperRank ==
  ASSUME NEW S \in SUBSET Nat, IsFiniteSet(S), NEW r \in Nat, r < Cardinality(S)
  PROVE  /\ IsFiniteSet(Upper(S, r)) /\ Cardinality(Upper(S, r)) = Cardinality(S) - r
         /\ \A h \in Upper(S, r) : Rank(Upper(S, r), h) = Rank(S, h) - r
<1>1. PICK x \in S : Rank(S, x) = r
  BY RankExists
<1>2. \A h \in S : Rank(S, h) \in Nat /\ h \in Nat /\ (Rank(S, h) < r <=> h < x)
  BY <1>1, BelowFinite, RankOrder
<1>3. IsFiniteSet(Below(S, x)) /\ Cardinality(Below(S, x)) = r
  BY <1>1, BelowFinite DEF Rank
<1>4. Upper(S, r) = S \ Below(S, x)
  <2>1. ASSUME NEW h \in S
        PROVE  h \in Upper(S, r) <=> h \notin Below(S, x)
    <3>1. Rank(S, h) \in Nat /\ (Rank(S, h) < r <=> h < x) /\ h \in Nat
      BY <1>2
    <3>2. h \in Below(S, x) <=> h < x
      BY <3>1, BelowElement
    <3>3. h \in Upper(S, r) <=> Rank(S, h) >= r
      BY DEF Upper
    <3> QED
      BY <3>1, <3>2, <3>3
  <2>2. Upper(S, r) \subseteq S
    BY DEF Upper
  <2> QED
    BY <2>1, <2>2
<1>5. Cardinality(S \cap Below(S, x)) = r
  <2>1. S \cap Below(S, x) = Below(S, x)
    BY DEF Below
  <2> QED
    BY <1>3, <2>1
<1>6. IsFiniteSet(Upper(S, r)) /\ Cardinality(Upper(S, r)) = Cardinality(S) - r
  BY <1>4, <1>5, FS_Difference
<1>7. ASSUME NEW h \in Upper(S, r)
      PROVE  Rank(Upper(S, r), h) = Rank(S, h) - r
  <2>1. h \in S /\ h \in Nat /\ x \in Nat /\ x <= h
    BY <1>2 DEF Upper
  <2>2. Below(Upper(S, r), h) = Below(S, h) \ Below(S, x)
    BY <1>4 DEF Below
  <2>3. Below(S, h) \cap Below(S, x) = Below(S, x)
    <3>1. \A y \in Below(S, x) : y \in Below(S, h)
      BY <2>1, BelowElement
    <3> QED
      BY <3>1
  <2>4. IsFiniteSet(Below(S, h))
    BY BelowFinite
  <2>5. Cardinality(Below(S, h) \ Below(S, x))
          = Cardinality(Below(S, h)) - Cardinality(Below(S, h) \cap Below(S, x))
    BY <2>4, FS_Difference
  <2> QED
    BY <1>3, <2>2, <2>3, <2>5 DEF Rank
<1> QED
  BY <1>6, <1>7

\* The element of a rank is the one a list in order has at that place.
LEMMA RankChosen ==
  ASSUME NEW S \in SUBSET Nat, IsFiniteSet(S), NEW r \in Nat, r < Cardinality(S),
         NEW h, h = CHOOSE x \in S : Cardinality({y \in S : y < x}) = r
  PROVE  h \in S /\ Rank(S, h) = r
<1>1. \E x \in S : Cardinality({y \in S : y < x}) = r
  BY RankExists DEF Rank, Below
<1> QED
  BY <1>1 DEF Rank, Below
=============================================================================
