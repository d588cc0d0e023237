---------------------------- MODULE ExtentProofs ----------------------------
(***************************************************************************)
(* The data file of the store, for every value of the constants: every     *)
(* extent a process may read lies in the file, so that a read ends; no     *)
(* unit has two owners and none has no owner; and a stored hash reads back *)
(* as its own chunk.  The last three hold until a fault is met, and of     *)
(* chunks that are not empty (NoEmptyChunk, below).                        *)
(***************************************************************************)
EXTENDS StoreProofs

-----------------------------------------------------------------------------
(* What the entries of a list span.  A list in order has a gap between any *)
(* two entries; it is within a bound when every entry ends there or before *)
(* it; it avoids an extent when no entry meets it, and it has the units of *)
(* its entries.                                                            *)

Spans(e, u) == e.first <= u /\ u < End(e)
Misses(e, offset, end) == End(e) <= offset \/ end <= e.first

Ordered(free) == \A j, k \in DOMAIN free : j < k => End(free[j]) < free[k].first
Within(free, bound) == \A k \in DOMAIN free : End(free[k]) <= bound
Avoids(free, offset, end) == \A k \in DOMAIN free : Misses(free[k], offset, end)
Has(free, u) == \E k \in DOMAIN free : Spans(free[k], u)

\* A new entry is as long as asked, or shorter where 32 bits do not hold it.
LEMMA FreeEntryFields ==
  ASSUME NEW first \in Nat, NEW second \in Nat
  PROVE  /\ FreeEntry(first, second) \in Entry
         /\ FreeEntry(first, second).first = first
         /\ End(FreeEntry(first, second)) \in Nat
         /\ first <= End(FreeEntry(first, second))
         /\ End(FreeEntry(first, second)) <= first + second
         /\ second < U32 => End(FreeEntry(first, second)) = first + second
<1>1. PICK r \in 0 .. U32 - 1 : r = second % U32
  BY Division, U32Assumption
<1>2. PICK q \in Int : second = U32 * q + r
  <2>1. /\ second \div U32 \in Int
        /\ second = U32 * (second \div U32) + (second % U32)
    BY Division, U32Assumption
  <2> QED
    BY <1>1, <2>1
<1>3. U32 \in Nat \ {0}
  BY U32Assumption
<1>4. q >= 0
  <2>1. q <= -1 => U32 * q <= -U32
    BY <1>3
  <2> QED
    BY <1>1, <1>2, <1>3, <2>1
<1>5. U32 * q >= 0 /\ (q >= 1 => U32 * q >= U32) /\ (q = 0 => U32 * q = 0)
  BY <1>3, <1>4
<1>6. r <= second /\ (second < U32 => r = second)
  BY <1>1, <1>2, <1>3, <1>4, <1>5
<1>7. FreeEntry(first, second) = [first |-> first, second |-> r]
  BY <1>1 DEF FreeEntry
<1> QED
  BY <1>1, <1>6, <1>7, FreeEntryType DEF End

\* A list of one entry.
LEMMA OneEntry ==
  ASSUME NEW e \in Entry
  PROVE  /\ <<e>> \in Seq(Entry) /\ Ordered(<<e>>)
         /\ \A b : End(e) <= b => Within(<<e>>, b)
         /\ \A u : Spans(e, u) => Has(<<e>>, u)
BY DEF Ordered, Within, Has

\* Taking an entry out of a list.
LEMMA EntryRemoved ==
  ASSUME NEW free \in Seq(Entry), NEW i \in 1 .. Len(free), NEW g, g = RemoveAt(free, i)
  PROVE  /\ g \in Seq(Entry)
         /\ Ordered(free) => Ordered(g)
         /\ \A b : Within(free, b) => Within(g, b)
         /\ \A a, c : (\A k \in DOMAIN free : k # i => Misses(free[k], a, c)) => Avoids(g, a, c)
         /\ \A u : Has(free, u) => Spans(free[i], u) \/ Has(g, u)
<1>1. /\ g \in Seq(Entry) /\ Len(g) = Len(free) - 1
      /\ \A k \in 1 .. Len(free) - 1 : g[k] = IF k < i THEN free[k] ELSE free[k + 1]
  BY RemoveAtFacts
<1>2. /\ Len(free) \in Nat /\ i \in Nat /\ DOMAIN free = 1 .. Len(free)
      /\ DOMAIN g = 1 .. Len(free) - 1
  BY <1>1, LenProperties
<1>3. \A k \in DOMAIN g : \E j \in DOMAIN free :
        g[k] = free[j] /\ j # i /\ j = IF k < i THEN k ELSE k + 1
  BY <1>1, <1>2
<1>4. \A j \in DOMAIN free : j # i => \E k \in DOMAIN g : g[k] = free[j]
  <2> SUFFICES ASSUME NEW j \in DOMAIN free, j # i PROVE \E k \in DOMAIN g : g[k] = free[j]
    OBVIOUS
  <2>1. CASE j < i
    <3>1. j \in DOMAIN g /\ g[j] = free[j]
      BY <1>1, <1>2, <2>1
    <3> QED
      BY <3>1
  <2>2. CASE j > i
    <3>1. j - 1 \in DOMAIN g /\ g[j - 1] = free[j]
      BY <1>1, <1>2, <2>2
    <3> QED
      BY <3>1
  <2> QED
    BY <1>2, <2>1, <2>2
<1>5. Ordered(free) => Ordered(g)
  <2> SUFFICES ASSUME Ordered(free), NEW k \in DOMAIN g, NEW l \in DOMAIN g, k < l
               PROVE  End(g[k]) < g[l].first
    BY DEF Ordered
  <2>1. PICK j \in DOMAIN free : g[k] = free[j] /\ j = IF k < i THEN k ELSE k + 1
    BY <1>3
  <2>2. PICK m \in DOMAIN free : g[l] = free[m] /\ m = IF l < i THEN l ELSE l + 1
    BY <1>3
  <2>3. j < m
    BY <1>2, <2>1, <2>2
  <2> QED
    BY <2>1, <2>2, <2>3 DEF Ordered
<1>6. \A b : Within(free, b) => Within(g, b)
  BY <1>3 DEF Within
<1>7. \A a, c : (\A k \in DOMAIN free : k # i => Misses(free[k], a, c)) => Avoids(g, a, c)
  BY <1>3 DEF Avoids
<1>8. \A u : Has(free, u) => Spans(free[i], u) \/ Has(g, u)
  BY <1>4 DEF Has
<1> QED
  BY <1>1, <1>5, <1>6, <1>7, <1>8

\* A list stays in order when an entry is replaced within the gaps around it.
LEMMA OrderedReplaced ==
  ASSUME NEW free \in Seq(Entry), NEW i \in 1 .. Len(free), NEW e \in Entry,
         NEW g, g = [free EXCEPT ![i] = e], Ordered(free),
         \A k \in DOMAIN free : k < i => End(free[k]) < e.first,
         \A k \in DOMAIN free : k > i => End(e) < free[k].first
  PROVE  Ordered(g)
<1> SUFFICES ASSUME NEW k \in DOMAIN g, NEW l \in DOMAIN g, k < l
             PROVE  End(g[k]) < g[l].first
  BY DEF Ordered
<1>1. /\ DOMAIN free = 1 .. Len(free) /\ DOMAIN g = DOMAIN free
      /\ g[i] = e /\ \A m \in DOMAIN free : m # i => g[m] = free[m]
  BY LenProperties
<1>2. CASE k = i
  BY <1>1, <1>2
<1>3. CASE l = i
  BY <1>1, <1>3
<1>4. CASE k # i /\ l # i
  BY <1>1, <1>4 DEF Ordered
<1> QED
  BY <1>2, <1>3, <1>4

\* Replacing an entry of a list.
LEMMA EntryReplaced ==
  ASSUME NEW free \in Seq(Entry), NEW i \in 1 .. Len(free), NEW e \in Entry,
         NEW g, g = [free EXCEPT ![i] = e]
  PROVE  /\ g \in Seq(Entry) /\ DOMAIN g = DOMAIN free
         /\ g[i] = e /\ \A k \in DOMAIN free : k # i => g[k] = free[k]
         /\ \A b : Within(free, b) /\ End(e) <= b => Within(g, b)
         /\ \A a, c : Avoids(free, a, c) /\ Misses(e, a, c) => Avoids(g, a, c)
         /\ \A u : (Has(free, u) /\ ~ Spans(free[i], u)) \/ Spans(e, u) => Has(g, u)
<1>1. g \in Seq(Entry) /\ Len(g) = Len(free)
  BY ExceptSeq
<1>2. /\ Len(free) \in Nat /\ DOMAIN free = 1 .. Len(free) /\ DOMAIN g = 1 .. Len(free)
  BY <1>1, LenProperties
<1>3. g[i] = e /\ \A k \in DOMAIN free : k # i => g[k] = free[k]
  BY <1>2
<1>5. \A b : Within(free, b) /\ End(e) <= b => Within(g, b)
  BY <1>2, <1>3 DEF Within
<1>6. \A a, c : Avoids(free, a, c) /\ Misses(e, a, c) => Avoids(g, a, c)
  BY <1>2, <1>3 DEF Avoids
<1>7. \A u : (Has(free, u) /\ ~ Spans(free[i], u)) \/ Spans(e, u) => Has(g, u)
  BY <1>2, <1>3 DEF Has
<1> QED
  BY <1>1, <1>2, <1>3, <1>5, <1>6, <1>7

\* A list stays in order when an entry is put into a gap, at its place.
LEMMA OrderedInserted ==
  ASSUME NEW free \in Seq(Entry), NEW i \in 1 .. Len(free) + 1, NEW e \in Entry,
         NEW g, g = InsertAt(free, i, e), Ordered(free),
         \A k \in DOMAIN free : k < i => End(free[k]) < e.first,
         \A k \in DOMAIN free : k >= i => End(e) < free[k].first
  PROVE  Ordered(g)
<1> SUFFICES ASSUME NEW k \in DOMAIN g, NEW l \in DOMAIN g, k < l
             PROVE  End(g[k]) < g[l].first
  BY DEF Ordered
<1>1. /\ Len(free) \in Nat /\ i \in Nat /\ DOMAIN free = 1 .. Len(free)
      /\ DOMAIN g = 1 .. Len(free) + 1
      /\ \A m \in DOMAIN g :
           g[m] = IF m < i THEN free[m] ELSE IF m = i THEN e ELSE free[m - 1]
  <2>1. /\ InsertAt(free, i, e) \in Seq(Entry)
        /\ Len(InsertAt(free, i, e)) = Len(free) + 1
        /\ \A m \in 1 .. Len(free) + 1 :
             InsertAt(free, i, e)[m] = IF m < i THEN free[m]
                                       ELSE IF m = i THEN e ELSE free[m - 1]
    BY InsertAtFacts
  <2> QED
    BY <2>1, LenProperties
<1>2. CASE k = i
  <2>1. l - 1 \in DOMAIN free /\ g[l] = free[l - 1] /\ l - 1 >= i /\ g[k] = e
    BY <1>1, <1>2
  <2> QED
    BY <2>1
<1>3. CASE l = i
  <2>1. k \in DOMAIN free /\ g[k] = free[k] /\ g[l] = e
    BY <1>1, <1>3
  <2> QED
    BY <1>3, <2>1
<1>4. CASE k # i /\ l # i
  <2>1. PICK j \in DOMAIN free : g[k] = free[j] /\ j = IF k < i THEN k ELSE k - 1
    BY <1>1, <1>4
  <2>2. PICK m \in DOMAIN free : g[l] = free[m] /\ m = IF l < i THEN l ELSE l - 1
    BY <1>1, <1>4
  <2>3. j < m
    BY <1>1, <1>4, <2>1, <2>2
  <2> QED
    BY <2>1, <2>2, <2>3 DEF Ordered
<1> QED
  BY <1>2, <1>3, <1>4

\* g is the list with e put in at i.
PutIn(free, i, e, g) ==
  /\ g \in Seq(Entry) /\ Len(g) = Len(free) + 1 /\ DOMAIN g = 1 .. Len(free) + 1
  /\ \A k \in 1 .. Len(free) + 1 :
       g[k] = IF k < i THEN free[k] ELSE IF k = i THEN e ELSE free[k - 1]

LEMMA EntryPutIn ==
  ASSUME NEW free \in Seq(Entry), NEW i \in 1 .. Len(free) + 1, NEW e \in Entry,
         NEW g, g = InsertAt(free, i, e)
  PROVE  PutIn(free, i, e, g)
<1>1. /\ InsertAt(free, i, e) \in Seq(Entry)
      /\ Len(InsertAt(free, i, e)) = Len(free) + 1
      /\ \A k \in 1 .. Len(free) + 1 :
           InsertAt(free, i, e)[k] = IF k < i THEN free[k]
                                     ELSE IF k = i THEN e ELSE free[k - 1]
  BY InsertAtFacts
<1>2. DOMAIN g = 1 .. Len(free) + 1
  BY <1>1, LenProperties
<1> QED
  BY <1>1, <1>2 DEF PutIn

\* Inserting an entry into a list.
LEMMA EntryInserted ==
  ASSUME NEW free \in Seq(Entry), NEW i \in 1 .. Len(free) + 1, NEW e \in Entry,
         NEW g, g = InsertAt(free, i, e)
  PROVE  /\ g \in Seq(Entry)
         /\ \A b : Within(free, b) /\ End(e) <= b => Within(g, b)
         /\ \A a, c : Avoids(free, a, c) /\ Misses(e, a, c) => Avoids(g, a, c)
         /\ \A u : Has(free, u) \/ Spans(e, u) => Has(g, u)
<1>1. /\ g \in Seq(Entry) /\ Len(g) = Len(free) + 1
      /\ \A k \in 1 .. Len(free) + 1 :
           g[k] = IF k < i THEN free[k] ELSE IF k = i THEN e ELSE free[k - 1]
  <2>1. PutIn(free, i, e, g)
    BY EntryPutIn
  <2> QED
    BY <2>1 DEF PutIn
<1>2. /\ Len(free) \in Nat /\ i \in Nat /\ DOMAIN free = 1 .. Len(free)
      /\ DOMAIN g = 1 .. Len(free) + 1
  BY <1>1, LenProperties
<1>3. \A k \in DOMAIN g : \/ k = i /\ g[k] = e
                          \/ k < i /\ k \in DOMAIN free /\ g[k] = free[k]
                          \/ k > i /\ k - 1 \in DOMAIN free /\ g[k] = free[k - 1]
  BY <1>1, <1>2
<1>4. \A j \in DOMAIN free : \E k \in DOMAIN g : g[k] = free[j]
  <2> SUFFICES ASSUME NEW j \in DOMAIN free PROVE \E k \in DOMAIN g : g[k] = free[j]
    OBVIOUS
  <2>1. CASE j < i
    <3>1. j \in DOMAIN g /\ g[j] = free[j]
      BY <1>1, <1>2, <2>1
    <3> QED
      BY <3>1
  <2>2. CASE j >= i
    <3>1. j + 1 \in DOMAIN g /\ g[j + 1] = free[j]
      BY <1>1, <1>2, <2>2
    <3> QED
      BY <3>1
  <2> QED
    BY <1>2, <2>1, <2>2
<1>6. \A b : Within(free, b) /\ End(e) <= b => Within(g, b)
  BY <1>3 DEF Within
<1>7. \A a, c : Avoids(free, a, c) /\ Misses(e, a, c) => Avoids(g, a, c)
  BY <1>3 DEF Avoids
<1>8. \A u : Has(free, u) \/ Spans(e, u) => Has(g, u)
  <2>1. i \in DOMAIN g /\ g[i] = e
    BY <1>1, <1>2
  <2> QED
    BY <1>4, <2>1 DEF Has
<1> QED
  BY <1>1, <1>6, <1>7, <1>8

-----------------------------------------------------------------------------
(* One iteration of DataFile::mark. *)

\* Every entry of g lies in one of free, and the gaps stay.
Shrinks(free, g) ==
  /\ \A b \in Nat : Within(free, b) => Within(g, b)
  /\ Ordered(free) => Ordered(g)
  /\ \A a \in Nat, c \in Nat : Avoids(free, a, c) => Avoids(g, a, c)

\* Replacing an entry by a part of it.
LEMMA EntryShrunk ==
  ASSUME NEW free \in Seq(Entry), NEW at \in 1 .. Len(free), NEW e \in Entry,
         free[at].first <= e.first, End(e) <= End(free[at]),
         NEW g, g = [free EXCEPT ![at] = e]
  PROVE  /\ g \in Seq(Entry) /\ DOMAIN g = DOMAIN free
         /\ g[at] = e /\ \A k \in DOMAIN free : k # at => g[k] = free[k]
         /\ Shrinks(free, g)
         /\ \A u : Has(free, u) => Spans(free[at], u) \/ Has(g, u)
         /\ \A u : Spans(e, u) => Has(g, u)
<1>1. DOMAIN free = 1 .. Len(free) /\ at \in DOMAIN free
  BY LenProperties
<1>2. \A k \in DOMAIN free : End(free[k]) \in Nat /\ free[k].first \in Nat
  BY <1>1, EntryFields
<1>3. e.first \in Nat /\ End(e) \in Nat
  BY DEF Entry, End
<1>4. \A b \in Nat : Within(free, b) => End(e) <= b
  BY <1>1, <1>2, <1>3 DEF Within
<1>5. Ordered(free) => /\ \A k \in DOMAIN free : k < at => End(free[k]) < e.first
                       /\ \A k \in DOMAIN free : k > at => End(e) < free[k].first
  BY <1>1, <1>2, <1>3 DEF Ordered
<1>6. \A a \in Nat, c \in Nat : Avoids(free, a, c) => Misses(e, a, c)
  BY <1>1, <1>2, <1>3 DEF Avoids, Misses
<1>7. /\ g \in Seq(Entry) /\ DOMAIN g = DOMAIN free
      /\ g[at] = e /\ \A k \in DOMAIN free : k # at => g[k] = free[k]
  BY EntryReplaced
<1>8. \A b \in Nat : Within(free, b) => Within(g, b)
  BY <1>4, EntryReplaced
<1>9. Ordered(free) => Ordered(g)
  BY <1>5, OrderedReplaced
<1>10. \A a \in Nat, c \in Nat : Avoids(free, a, c) => Avoids(g, a, c)
  BY <1>6, EntryReplaced
<1>11. /\ \A u : Has(free, u) => Spans(free[at], u) \/ Has(g, u)
       /\ \A u : Spans(e, u) => Has(g, u)
  BY EntryReplaced
<1> QED
  BY <1>7, <1>8, <1>9, <1>10, <1>11 DEF Shrinks

\* Of alternatives that exclude each other the one that holds is taken.
LEMMA OneOfFour ==
  ASSUME NEW p, NEW q, NEW r, NEW s, NEW x, NEW h, NEW t, NEW i, NEW o,
         NEW y, y = CASE p -> x [] q -> h [] r -> t [] s -> i [] OTHER -> o
  PROVE  /\ p /\ ~ q /\ ~ r /\ ~ s => y = x
         /\ q /\ ~ p /\ ~ r /\ ~ s => y = h
         /\ r /\ ~ p /\ ~ q /\ ~ s => y = t
         /\ s /\ ~ p /\ ~ q /\ ~ r => y = i
         /\ ~ p /\ ~ q /\ ~ r /\ ~ s => y = o
BY Zenon

\* mark erases an entry that the extent covers.
LEMMA MarkCovered ==
  ASSUME NEW free, NEW at, NEW offset, NEW end,
         Covered(free[at], offset, end), ~ HeadCut(free[at], offset, end),
         ~ TailCut(free[at], offset, end), ~ Inside(free[at], offset, end)
  PROVE  MarkEntry(free, at, offset, end) =
           RemoveAt(free, at)
BY OneOfFour, Zenon DEF MarkEntry, Erased

\* mark cuts the head off one.
LEMMA MarkHeadCut ==
  ASSUME NEW free, NEW at, NEW offset, NEW end,
         HeadCut(free[at], offset, end), ~ Covered(free[at], offset, end),
         ~ TailCut(free[at], offset, end), ~ Inside(free[at], offset, end)
  PROVE  MarkEntry(free, at, offset, end) =
           [free EXCEPT ![at] = FreeEntry(end, End(free[at]) - end)]
BY OneOfFour, Zenon DEF MarkEntry

\* mark cuts the tail off one.
LEMMA MarkTailCut ==
  ASSUME NEW free, NEW at, NEW offset, NEW end,
         TailCut(free[at], offset, end), ~ Covered(free[at], offset, end),
         ~ HeadCut(free[at], offset, end), ~ Inside(free[at], offset, end)
  PROVE  MarkEntry(free, at, offset, end) =
           [free EXCEPT ![at] = FreeEntry(free[at].first, offset - free[at].first)]
BY OneOfFour, Zenon DEF MarkEntry

\* mark makes two entries of one that the extent lies inside.
LEMMA MarkInside ==
  ASSUME NEW free, NEW at, NEW offset, NEW end,
         Inside(free[at], offset, end), ~ Covered(free[at], offset, end),
         ~ HeadCut(free[at], offset, end), ~ TailCut(free[at], offset, end)
  PROVE  MarkEntry(free, at, offset, end) =
           InsertAt([free EXCEPT ![at] = FreeEntry(end, End(free[at]) - end)], at,
                    FreeEntry(free[at].first, offset - free[at].first))
BY OneOfFour, Zenon DEF MarkEntry

\* mark leaves an entry alone that the extent misses.
LEMMA MarkMissed ==
  ASSUME NEW free, NEW at, NEW offset, NEW end,
         ~ Covered(free[at], offset, end), ~ HeadCut(free[at], offset, end),
         ~ TailCut(free[at], offset, end), ~ Inside(free[at], offset, end)
  PROVE  MarkEntry(free, at, offset, end) =
           free
BY OneOfFour, Zenon DEF MarkEntry

\* What is left of an entry lies in it, so bounds, gaps and other extents are
\* kept, and no unit outside the marked extent is lost.
LEMMA MarkKeeps ==
  ASSUME NEW free \in Seq(Entry), NEW at \in 1 .. Len(free),
         NEW offset \in Nat, NEW end \in Nat, offset <= end,
         NEW g, g = MarkEntry(free, at, offset, end)
  PROVE  /\ offset < end => Shrinks(free, g)
         /\ \A b \in Nat : Within(free, b) => Within(g, b)
         /\ free[at].second < U32 =>
              \A u \in Nat : Has(free, u) => (offset <= u /\ u < end) \/ Has(g, u)
<1>1. PICK f \in Nat, last \in Nat : /\ f = free[at].first /\ last = End(free[at])
                                /\ free[at].second = last - f /\ f <= last
  BY EntryFields
<1>2. \A u : Spans(free[at], u) <=> f <= u /\ u < last
  BY <1>1 DEF Spans
<1>3. U32 \in Nat
  BY U32Assumption
<1>4. CASE Covered(free[at], offset, end)
  <2>1. g = RemoveAt(free, at)
    <3>1. ~ HeadCut(free[at], offset, end) /\ ~ TailCut(free[at], offset, end)
          /\ ~ Inside(free[at], offset, end)
      BY <1>1, <1>4 DEF Covered, HeadCut, TailCut, Inside
    <3> QED
      BY <1>4, <3>1, MarkCovered
  <2>2. offset <= f /\ last <= end
    BY <1>1, <1>4 DEF Covered
  <2>3. \A a, c : Avoids(free, a, c) => \A k \in DOMAIN free : k # at => Misses(free[k], a, c)
    BY DEF Avoids
  <2>4. \A u \in Nat : Spans(free[at], u) => offset <= u /\ u < end
    BY <1>1, <1>2, <2>2
  <2> QED
    BY <2>1, <2>3, <2>4, EntryRemoved DEF Shrinks
<1>5. CASE HeadCut(free[at], offset, end)
  <2>1. ~ Covered(free[at], offset, end) /\ offset <= f /\ f < end /\ end < last
    BY <1>1, <1>5 DEF HeadCut, Covered
  <2>2. last - end \in Nat /\ end + (last - end) = last /\ last - end <= last - f
    BY <2>1
  <2>3. PICK e \in Entry : /\ e = FreeEntry(end, last - end) /\ e.first = end
                          /\ End(e) <= last /\ (last - end < U32 => End(e) = last)
    <3>1. PICK m \in Nat : m = last - end /\ end + m = last
      BY <2>2
    <3>2. /\ FreeEntry(end, m) \in Entry /\ FreeEntry(end, m).first = end
          /\ End(FreeEntry(end, m)) <= end + m
          /\ m < U32 => End(FreeEntry(end, m)) = end + m
      BY FreeEntryFields
    <3> QED
      BY <3>1, <3>2
  <2>4. g = [free EXCEPT ![at] = e]
    <3>1. ~ TailCut(free[at], offset, end) /\ ~ Inside(free[at], offset, end)
      BY <1>1, <2>1 DEF TailCut, Inside
    <3> QED
      BY <1>1, <1>5, <2>1, <2>3, <3>1, MarkHeadCut
  <2>5. f <= e.first /\ free[at].first <= e.first /\ End(e) <= End(free[at])
    BY <1>1, <2>1, <2>3
  <2>6. free[at].second < U32 =>
          \A u \in Nat : Spans(free[at], u) => (offset <= u /\ u < end) \/ Spans(e, u)
    <3> SUFFICES ASSUME free[at].second < U32, NEW u \in Nat, Spans(free[at], u)
                 PROVE  (offset <= u /\ u < end) \/ Spans(e, u)
      OBVIOUS
    <3>1. PICK m \in Nat : m = last - end /\ m < U32
      <4>1. last - f < U32
        BY <1>1
      <4> QED
        BY <1>3, <2>2, <4>1
    <3>2. e.first = end /\ End(e) = last
      BY <2>3, <3>1
    <3>3. f <= u /\ u < last
      BY <1>2
    <3>4. end <= u => Spans(e, u)
      BY <3>2, <3>3 DEF Spans
    <3> QED
      BY <2>1, <3>3, <3>4
  <2> QED
    BY <2>4, <2>5, <2>6, EntryShrunk DEF Shrinks
<1>6. CASE TailCut(free[at], offset, end)
  <2>1. /\ ~ Covered(free[at], offset, end) /\ ~ HeadCut(free[at], offset, end)
        /\ f < offset /\ offset < last /\ last <= end
    BY <1>1, <1>6 DEF TailCut, HeadCut, Covered
  <2>2. offset - f \in Nat /\ f + (offset - f) = offset /\ offset - f <= last - f
    BY <2>1
  <2>3. PICK e \in Entry : /\ e = FreeEntry(f, offset - f) /\ e.first = f
                          /\ End(e) <= offset /\ (offset - f < U32 => End(e) = offset)
    <3>1. PICK m \in Nat : m = offset - f /\ f + m = offset
      BY <2>2
    <3>2. /\ FreeEntry(f, m) \in Entry /\ FreeEntry(f, m).first = f
          /\ End(FreeEntry(f, m)) <= f + m
          /\ m < U32 => End(FreeEntry(f, m)) = f + m
      BY FreeEntryFields
    <3> QED
      BY <3>1, <3>2
  <2>4. g = [free EXCEPT ![at] = e]
    <3>1. ~ Inside(free[at], offset, end)
      BY <1>1, <2>1 DEF Inside
    <3> QED
      BY <1>1, <1>6, <2>1, <2>3, <3>1, MarkTailCut
  <2>5. free[at].first <= e.first /\ End(e) <= End(free[at])
    <3>1. End(e) \in Nat
      BY DEF Entry, End
    <3> QED
      BY <1>1, <2>1, <2>3, <3>1
  <2>6. free[at].second < U32 =>
          \A u \in Nat : Spans(free[at], u) => (offset <= u /\ u < end) \/ Spans(e, u)
    <3> SUFFICES ASSUME free[at].second < U32, NEW u \in Nat, Spans(free[at], u)
                 PROVE  (offset <= u /\ u < end) \/ Spans(e, u)
      OBVIOUS
    <3>1. PICK m \in Nat : m = offset - f /\ m < U32
      <4>1. last - f < U32
        BY <1>1
      <4> QED
        BY <1>3, <2>2, <4>1
    <3>2. e.first = f /\ End(e) = offset
      BY <2>3, <3>1
    <3>3. f <= u /\ u < last
      BY <1>2
    <3>4. u < offset => Spans(e, u)
      BY <3>2, <3>3 DEF Spans
    <3> QED
      BY <2>1, <3>3, <3>4
  <2> QED
    BY <2>4, <2>5, <2>6, EntryShrunk DEF Shrinks
<1>7. CASE Inside(free[at], offset, end)
  <2>1. /\ ~ Covered(free[at], offset, end) /\ ~ HeadCut(free[at], offset, end)
        /\ ~ TailCut(free[at], offset, end)
        /\ f < offset /\ end < last
    BY <1>1, <1>7 DEF Inside, TailCut, HeadCut, Covered
  <2>2. /\ last - end \in Nat /\ end + (last - end) = last /\ last - end <= last - f
        /\ offset - f \in Nat /\ f + (offset - f) = offset /\ offset - f <= last - f
    BY <2>1
  <2>3. PICK e \in Entry : /\ e = FreeEntry(end, last - end) /\ e.first = end
                          /\ End(e) <= last /\ (last - end < U32 => End(e) = last)
    <3>1. PICK m \in Nat : m = last - end /\ end + m = last
      BY <2>2
    <3>2. /\ FreeEntry(end, m) \in Entry /\ FreeEntry(end, m).first = end
          /\ End(FreeEntry(end, m)) <= end + m
          /\ m < U32 => End(FreeEntry(end, m)) = end + m
      BY FreeEntryFields
    <3> QED
      BY <3>1, <3>2
  <2>4. PICK d \in Entry : /\ d = FreeEntry(f, offset - f) /\ d.first = f
                          /\ End(d) <= offset /\ (offset - f < U32 => End(d) = offset)
    <3>1. PICK m \in Nat : m = offset - f /\ f + m = offset
      BY <2>2
    <3>2. /\ FreeEntry(f, m) \in Entry /\ FreeEntry(f, m).first = f
          /\ End(FreeEntry(f, m)) <= f + m
          /\ m < U32 => End(FreeEntry(f, m)) = f + m
      BY FreeEntryFields
    <3> QED
      BY <3>1, <3>2
  <2>5. /\ End(d) \in Nat /\ f <= End(d)
        /\ End(e) \in Nat /\ e.first \in Nat /\ e.first <= End(e)
    BY <2>4 DEF Entry, End
  <2>6. PICK h \in Seq(Entry) : h = [free EXCEPT ![at] = e]
    BY ExceptSeq
  <2>7. g = InsertAt(h, at, d)
    BY <1>1, <1>7, <2>1, <2>3, <2>4, <2>6, MarkInside
  <2>8. free[at].first <= e.first /\ End(e) <= End(free[at])
    BY <1>1, <2>1, <2>3
  <2>9. /\ DOMAIN h = DOMAIN free /\ h[at] = e
        /\ \A k \in DOMAIN free : k # at => h[k] = free[k]
        /\ Shrinks(free, h)
        /\ \A u : Has(free, u) => Spans(free[at], u) \/ Has(h, u)
        /\ \A u : Spans(e, u) => Has(h, u)
    <3>1. /\ DOMAIN h = DOMAIN free /\ h[at] = e
          /\ \A k \in DOMAIN free : k # at => h[k] = free[k]
      BY <2>6, LenProperties
    <3>2. Shrinks(free, h)
      BY <2>6, <2>8, EntryShrunk
    <3>3. \A u : Has(free, u) => Spans(free[at], u) \/ Has(h, u)
      BY <2>6, <2>8, EntryShrunk
    <3>4. \A u : Spans(e, u) => Has(h, u)
      BY <2>6, <2>8, EntryShrunk
    <3> QED
      BY <3>1, <3>2, <3>3, <3>4
  <2>10. at \in 1 .. Len(h) + 1 /\ DOMAIN h = 1 .. Len(h) /\ at \in DOMAIN free
    BY <2>9, LenProperties
  <2>11. \A k \in DOMAIN free : End(free[k]) \in Nat /\ free[k].first \in Nat
    BY LenProperties, EntryFields
  <2>12. \A b \in Nat : Within(free, b) => End(d) <= b
    BY <1>1, <2>1, <2>4, <2>5, <2>10 DEF Within
  <2>13. Ordered(free) /\ offset < end =>
           /\ \A k \in DOMAIN h : k < at => End(h[k]) < d.first
           /\ \A k \in DOMAIN h : k >= at => End(d) < h[k].first
    <3> SUFFICES ASSUME Ordered(free), offset < end
                 PROVE  /\ \A k \in DOMAIN h : k < at => End(h[k]) < d.first
                        /\ \A k \in DOMAIN h : k >= at => End(d) < h[k].first
      OBVIOUS
    <3>1. \A k \in DOMAIN free : k < at => End(free[k]) < f
      BY <1>1, <2>10 DEF Ordered
    <3>2. \A k \in DOMAIN free : k > at => last < free[k].first
      BY <1>1, <2>10 DEF Ordered
    <3>3. End(d) < end
      BY <2>4, <2>5
    <3>4. \A k \in DOMAIN h : k < at => End(h[k]) < d.first
      BY <2>4, <2>9, <2>10, <3>1
    <3>5. End(d) < h[at].first
      BY <2>3, <2>9, <3>3
    <3>6. \A k \in DOMAIN h : k > at => End(d) < h[k].first
      BY <2>1, <2>5, <2>9, <2>10, <2>11, <3>2, <3>3
    <3>7. \A k \in DOMAIN h : k >= at => k = at \/ k > at
      BY <2>10
    <3> QED
      BY <3>4, <3>5, <3>6, <3>7
  <2>14. \A a \in Nat, c \in Nat : Avoids(free, a, c) => Misses(d, a, c)
    BY <1>1, <2>1, <2>4, <2>5, <2>10 DEF Avoids, Misses
  <2>15. free[at].second < U32 =>
           \A u \in Nat : Spans(free[at], u) =>
             (offset <= u /\ u < end) \/ Spans(e, u) \/ Spans(d, u)
    <3> SUFFICES ASSUME free[at].second < U32, NEW u \in Nat, Spans(free[at], u)
                 PROVE  (offset <= u /\ u < end) \/ Spans(e, u) \/ Spans(d, u)
      OBVIOUS
    <3>1. End(e) = last /\ End(d) = offset
      <4>1. last - end < U32 /\ offset - f < U32
        <5>1. last - f < U32
          BY <1>1
        <5>2. last - end <= last - f /\ offset - f <= last - f
          BY <2>1
        <5>3. last - end \in Int /\ offset - f \in Int /\ last - f \in Int
          OBVIOUS
        <5> QED
          BY <1>3, <5>1, <5>2, <5>3
      <4> QED
        BY <2>3, <2>4, <4>1
    <3>2. f <= u /\ u < last
      BY <1>2
    <3> QED
      BY <2>3, <2>4, <3>1, <3>2 DEF Spans
  <2>16. /\ \A b : Within(h, b) /\ End(d) <= b => Within(g, b)
         /\ \A a, c : Avoids(h, a, c) /\ Misses(d, a, c) => Avoids(g, a, c)
         /\ \A u : Has(h, u) \/ Spans(d, u) => Has(g, u)
    BY <2>7, <2>10, EntryInserted
  <2>17. Ordered(free) /\ offset < end => Ordered(g)
    BY <2>7, <2>9, <2>10, <2>13, OrderedInserted DEF Shrinks
  <2> QED
    BY <2>9, <2>12, <2>14, <2>15, <2>16, <2>17 DEF Shrinks
<1>8. CASE ~ Covered(free[at], offset, end) /\ ~ HeadCut(free[at], offset, end)
           /\ ~ TailCut(free[at], offset, end) /\ ~ Inside(free[at], offset, end)
  <2>1. g = free
    BY <1>8, MarkMissed
  <2> QED
    BY <2>1 DEF Shrinks
<1> QED
  BY <1>4, <1>5, <1>6, <1>7, <1>8

\* The same of two alternatives.
LEMMA OneOfTwo ==
  ASSUME NEW p, NEW q, NEW x, NEW h, NEW o,
         NEW y, y = CASE p -> x [] q -> h [] OTHER -> o
  PROVE  /\ p /\ ~ q => y = x
         /\ q /\ ~ p => y = h
         /\ ~ p /\ ~ q => y = o
BY Zenon

\* Where the iterator goes.
LEMMA MarkNextCases ==
  ASSUME NEW free, NEW at, NEW offset, NEW end
  PROVE  /\ Covered(free[at], offset, end) /\ ~ Inside(free[at], offset, end)
              => MarkNext(free, at, offset, end) = IF at = 1 THEN 2 ELSE at
         /\ Inside(free[at], offset, end) /\ ~ Covered(free[at], offset, end)
              => MarkNext(free, at, offset, end) = at + 2
         /\ ~ Covered(free[at], offset, end) /\ ~ Inside(free[at], offset, end)
              => MarkNext(free, at, offset, end) = at + 1
<1>1. PICK p, q, x, y : /\ p = Covered(free[at], offset, end)
                        /\ q = Inside(free[at], offset, end)
                        /\ x = (IF at = 1 THEN 2 ELSE at) /\ y = MarkNext(free, at, offset, end)
  OBVIOUS
<1>2. y = CASE p -> x [] q -> at + 2 [] OTHER -> at + 1
  BY <1>1, Zenon DEF MarkNext
<1> QED
  BY <1>1, <1>2, OneOfTwo, Zenon

\* An iteration of mark leaves fewer entries ahead of the iterator.
LEMMA FewerAhead ==
  ASSUME NEW free \in Seq(Entry), NEW at \in 1 .. Len(free),
         NEW offset \in Nat, NEW end \in Nat
  PROVE  Len(MarkEntry(free, at, offset, end)) - MarkNext(free, at, offset, end)
           < Len(free) - at
<1>1. PICK f \in Nat, last \in Nat : f = free[at].first /\ last = End(free[at])
  BY EntryFields
<1>2. Len(free) \in Nat /\ at \in Nat
  BY LenProperties
<1>3. PICK g, nx : g = MarkEntry(free, at, offset, end) /\ nx = MarkNext(free, at, offset, end)
  OBVIOUS
<1>4. CASE Covered(free[at], offset, end)
  <2>1. /\ ~ HeadCut(free[at], offset, end) /\ ~ TailCut(free[at], offset, end)
        /\ ~ Inside(free[at], offset, end)
    BY <1>1, <1>4 DEF Covered, HeadCut, TailCut, Inside
  <2>2. g = RemoveAt(free, at) /\ nx = IF at = 1 THEN 2 ELSE at
    BY <1>3, <1>4, <2>1, MarkCovered, MarkNextCases
  <2>3. Len(g) = Len(free) - 1
    BY <2>2, RemoveAtFacts
  <2> QED
    BY <1>2, <1>3, <2>2, <2>3
<1>5. CASE Inside(free[at], offset, end)
  <2>1. /\ ~ HeadCut(free[at], offset, end) /\ ~ TailCut(free[at], offset, end)
        /\ ~ Covered(free[at], offset, end) /\ f < offset /\ end < last
    BY <1>1, <1>5 DEF Covered, HeadCut, TailCut, Inside
  <2>2. PICK e \in Entry, d \in Entry :
          e = FreeEntry(end, last - end) /\ d = FreeEntry(f, offset - f)
    <3>1. last - end \in Int /\ offset - f \in Int
      OBVIOUS
    <3> QED
      BY <3>1, FreeEntryType
  <2>3. PICK h \in Seq(Entry) : h = [free EXCEPT ![at] = e] /\ Len(h) = Len(free)
    <3>1. [free EXCEPT ![at] = e] \in Seq(Entry) /\ Len([free EXCEPT ![at] = e]) = Len(free)
      BY ExceptSeq
    <3> QED
      BY <3>1
  <2>4. g = InsertAt(h, at, d) /\ nx = at + 2
    <3>1. g = InsertAt(h, at, d)
      BY <1>1, <1>3, <1>5, <2>1, <2>2, <2>3, MarkInside
    <3>2. nx = at + 2
      BY <1>3, <1>5, <2>1, MarkNextCases
    <3> QED
      BY <3>1, <3>2
  <2>5. at \in 1 .. Len(h) + 1
    BY <1>2, <2>3
  <2>6. Len(g) = Len(h) + 1
    BY <2>4, <2>5, InsertAtFacts
  <2> QED
    BY <1>2, <1>3, <2>3, <2>4, <2>6
<1>6. CASE ~ Covered(free[at], offset, end) /\ ~ Inside(free[at], offset, end)
  <2>1. nx = at + 1
    BY <1>3, <1>6, MarkNextCases
  <2>2. Len(g) = Len(free)
    <3>1. CASE HeadCut(free[at], offset, end)
      <4>1. ~ TailCut(free[at], offset, end)
        BY <1>1, <3>1 DEF HeadCut, TailCut
      <4>2. g = [free EXCEPT ![at] = FreeEntry(end, last - end)]
        BY <1>1, <1>3, <1>6, <3>1, <4>1, MarkHeadCut
      <4>3. FreeEntry(end, last - end) \in Entry
        BY FreeEntryType
      <4> QED
        BY <4>2, <4>3, ExceptSeq
    <3>2. CASE TailCut(free[at], offset, end)
      <4>1. ~ HeadCut(free[at], offset, end)
        BY <1>1, <3>2 DEF HeadCut, TailCut
      <4>2. g = [free EXCEPT ![at] = FreeEntry(f, offset - f)]
        BY <1>1, <1>3, <1>6, <3>2, <4>1, MarkTailCut
      <4>3. FreeEntry(f, offset - f) \in Entry
        BY FreeEntryType
      <4> QED
        BY <4>2, <4>3, ExceptSeq
    <3>3. CASE ~ HeadCut(free[at], offset, end) /\ ~ TailCut(free[at], offset, end)
      BY <1>3, <1>6, <3>3, MarkMissed
    <3> QED
      BY <3>1, <3>2, <3>3
  <2> QED
    BY <1>2, <1>3, <2>1, <2>2
<1> QED
  BY <1>4, <1>5, <1>6

\* The iterator leaves no entry behind that meets the marked extent, provided
\* the one it steps over after erasing the head does not.
LEMMA MarkAdvances ==
  ASSUME NEW free \in Seq(Entry), NEW at \in 1 .. Len(free),
         NEW offset \in Nat, NEW end \in Nat, offset < end,
         \A k \in DOMAIN free : k < at => Misses(free[k], offset, end),
         Covered(free[at], offset, end) /\ at = 1 /\ 2 \in DOMAIN free
           => Misses(free[2], offset, end),
         NEW g, g = MarkEntry(free, at, offset, end),
         NEW nx, nx = MarkNext(free, at, offset, end)
  PROVE  nx > 1 /\ \A k \in DOMAIN g : k < nx => Misses(g[k], offset, end)
<1>1. PICK f \in Nat, last \in Nat : f = free[at].first /\ last = End(free[at]) /\ f <= last
  BY EntryFields
<1>2. Len(free) \in Nat /\ DOMAIN free = 1 .. Len(free) /\ at \in DOMAIN free
      /\ at \in Nat \ {0}
  BY LenProperties
<1>3. CASE Covered(free[at], offset, end)
  <2>1. /\ ~ HeadCut(free[at], offset, end) /\ ~ TailCut(free[at], offset, end)
        /\ ~ Inside(free[at], offset, end)
    BY <1>1, <1>3 DEF Covered, HeadCut, TailCut, Inside
  <2>2. g = RemoveAt(free, at) /\ nx = IF at = 1 THEN 2 ELSE at
    BY <1>3, <2>1, MarkCovered, MarkNextCases
  <2>3. /\ DOMAIN g = 1 .. Len(free) - 1
        /\ \A k \in 1 .. Len(free) - 1 : g[k] = IF k < at THEN free[k] ELSE free[k + 1]
    <3>1. /\ RemoveAt(free, at) \in Seq(Entry)
          /\ Len(RemoveAt(free, at)) = Len(free) - 1
          /\ \A k \in 1 .. Len(free) - 1 :
               RemoveAt(free, at)[k] = IF k < at THEN free[k] ELSE free[k + 1]
      BY RemoveAtFacts
    <3> QED
      BY <2>2, <3>1
  <2>4. CASE at = 1
    <3>1. \A k \in DOMAIN g : k < nx => k = 1 /\ 2 \in DOMAIN free /\ g[k] = free[2]
      BY <1>2, <2>2, <2>3, <2>4
    <3> QED
      BY <1>3, <2>2, <2>4, <3>1
  <2>5. CASE at # 1
    <3>1. \A k \in DOMAIN g : k < nx => k \in DOMAIN free /\ k < at /\ g[k] = free[k]
      BY <1>2, <2>2, <2>3, <2>5
    <3> QED
      BY <1>2, <2>2, <2>5, <3>1
  <2> QED
    BY <2>4, <2>5
<1>4. CASE Inside(free[at], offset, end)
  <2>1. /\ ~ HeadCut(free[at], offset, end) /\ ~ TailCut(free[at], offset, end)
        /\ ~ Covered(free[at], offset, end) /\ f < offset /\ end < last
    BY <1>1, <1>4 DEF Covered, HeadCut, TailCut, Inside
  <2>2. PICK e \in Entry : e = FreeEntry(end, last - end) /\ e.first = end
    <3>1. PICK m \in Nat : m = last - end
      BY <2>1
    <3>2. FreeEntry(end, m) \in Entry /\ FreeEntry(end, m).first = end
      BY FreeEntryFields
    <3> QED
      BY <3>1, <3>2
  <2>3. PICK d \in Entry : d = FreeEntry(f, offset - f) /\ End(d) <= offset
    <3>1. PICK m \in Nat : m = offset - f /\ f + m = offset
      BY <2>1
    <3>2. FreeEntry(f, m) \in Entry /\ End(FreeEntry(f, m)) <= f + m
      BY FreeEntryFields
    <3> QED
      BY <3>1, <3>2
  <2>4. PICK h \in Seq(Entry) : h = [free EXCEPT ![at] = e] /\ Len(h) = Len(free)
    <3>1. [free EXCEPT ![at] = e] \in Seq(Entry) /\ Len([free EXCEPT ![at] = e]) = Len(free)
      BY ExceptSeq
    <3> QED
      BY <3>1
  <2>5. g = InsertAt(h, at, d) /\ nx = at + 2
    <3>1. g = InsertAt(h, at, d)
      BY <1>1, <1>4, <2>1, <2>2, <2>3, <2>4, MarkInside
    <3>2. nx = at + 2
      BY <1>4, <2>1, MarkNextCases
    <3> QED
      BY <3>1, <3>2
  <2>6. h[at] = e /\ \A k \in DOMAIN free : k # at => h[k] = free[k]
    BY <1>2, <2>4
  <2>7. /\ DOMAIN g = 1 .. Len(h) + 1
        /\ \A k \in 1 .. Len(h) + 1 :
             g[k] = IF k < at THEN h[k] ELSE IF k = at THEN d ELSE h[k - 1]
    <3>1. at \in 1 .. Len(h) + 1
      BY <1>2, <2>4
    <3>2. PutIn(h, at, d, g)
      BY <2>5, <3>1, EntryPutIn
    <3> QED
      BY <3>2 DEF PutIn
  <2>8. ASSUME NEW k \in DOMAIN g, k < nx PROVE Misses(g[k], offset, end)
    <3>1. CASE k < at
      <4>1. k \in DOMAIN free /\ g[k] = free[k]
        BY <1>2, <2>4, <2>6, <2>7, <3>1
      <4> QED
        BY <3>1, <4>1
    <3>2. CASE k = at
      BY <2>3, <2>7, <3>2 DEF Misses
    <3>3. CASE k = at + 1
      <4>1. g[k] = h[k - 1] /\ k - 1 = at
        BY <1>2, <2>7, <3>3
      <4> QED
        BY <2>2, <2>6, <4>1 DEF Misses
    <3> QED
      BY <1>2, <2>5, <2>7, <2>8, <3>1, <3>2, <3>3
  <2> QED
    BY <1>2, <2>5, <2>8
<1>5. CASE ~ Covered(free[at], offset, end) /\ ~ Inside(free[at], offset, end)
  <2>1. nx = at + 1
    BY <1>5, MarkNextCases
  <2>2. PICK e \in Entry : Misses(e, offset, end) /\ g = [free EXCEPT ![at] = e]
    <3>1. CASE HeadCut(free[at], offset, end)
      <4>1. ~ TailCut(free[at], offset, end) /\ f < end /\ end < last
        BY <1>1, <1>5, <3>1 DEF Covered, HeadCut, TailCut
      <4>2. PICK e \in Entry : e = FreeEntry(end, last - end) /\ e.first = end
        <5>1. PICK m \in Nat : m = last - end
          BY <4>1
        <5>2. FreeEntry(end, m) \in Entry /\ FreeEntry(end, m).first = end
          BY FreeEntryFields
        <5> QED
          BY <5>1, <5>2
      <4>3. g = [free EXCEPT ![at] = e]
        BY <1>1, <1>5, <3>1, <4>1, <4>2, MarkHeadCut
      <4>4. Misses(e, offset, end)
        BY <4>2 DEF Misses
      <4> QED
        BY <4>3, <4>4
    <3>2. CASE TailCut(free[at], offset, end)
      <4>1. ~ HeadCut(free[at], offset, end) /\ f < offset
        BY <1>1, <1>5, <3>2 DEF Covered, HeadCut, TailCut
      <4>2. PICK d \in Entry : d = FreeEntry(f, offset - f) /\ End(d) <= offset
        <5>1. PICK m \in Nat : m = offset - f /\ f + m = offset
          BY <4>1
        <5>2. FreeEntry(f, m) \in Entry /\ End(FreeEntry(f, m)) <= f + m
          BY FreeEntryFields
        <5> QED
          BY <5>1, <5>2
      <4>3. g = [free EXCEPT ![at] = d]
        BY <1>1, <1>5, <3>2, <4>1, <4>2, MarkTailCut
      <4>4. Misses(d, offset, end)
        BY <4>2 DEF Misses
      <4> QED
        BY <4>3, <4>4
    <3>3. CASE ~ HeadCut(free[at], offset, end) /\ ~ TailCut(free[at], offset, end)
      <4>1. g = free
        BY <1>5, <3>3, MarkMissed
      <4>2. Misses(free[at], offset, end)
        BY <1>1, <1>5, <3>3 DEF Covered, HeadCut, TailCut, Inside, Misses
      <4>3. free[at] \in Entry /\ free = [free EXCEPT ![at] = free[at]]
        BY EntryFields
      <4> QED
        BY <4>1, <4>2, <4>3
    <3> QED
      BY <3>1, <3>2, <3>3
  <2>3. DOMAIN g = DOMAIN free /\ g[at] = e /\ \A k \in DOMAIN free : k # at => g[k] = free[k]
    BY <1>2, <2>2
  <2> QED
    BY <1>2, <2>1, <2>2, <2>3
<1> QED
  BY <1>3, <1>4, <1>5

-----------------------------------------------------------------------------
(* DataFile::release. *)

\* Where the walk stops.
LEMMA ReleasePointFacts ==
  ASSUME NEW free \in Seq(Entry), NEW offset, NEW i, i = ReleasePoint(free, offset)
  PROVE  /\ i \in 1 .. Len(free) + 1
         /\ \A k \in DOMAIN free : k < i => ~ StopsAt(free[k], offset)
         /\ i <= Len(free) => StopsAt(free[i], offset)
<1>2. Len(free) \in Nat /\ DOMAIN free = 1 .. Len(free)
  BY LenProperties
<1>1. PICK stops \in SUBSET Nat : stops = {k \in DOMAIN free : StopsAt(free[k], offset)}
  <2>1. {k \in DOMAIN free : StopsAt(free[k], offset)} \in SUBSET Nat
    BY <1>2
  <2> QED
    BY <2>1
<1>3. i = IF stops = {} THEN Len(free) + 1 ELSE Min(stops)
  BY <1>1 DEF ReleasePoint
<1>4. stops # {} => Min(stops) \in stops /\ \A y \in stops : Min(stops) <= y
  BY LeastNat
<1>5. CASE stops = {}
  BY <1>1, <1>2, <1>3, <1>5
<1>6. CASE stops # {}
  <2>1. i \in stops /\ \A y \in stops : i <= y
    BY <1>3, <1>4, <1>6
  <2>2. \A k \in DOMAIN free : k < i => k \notin stops
    BY <1>2, <2>1
  <2> QED
    BY <1>1, <1>2, <2>1, <2>2
<1> QED
  BY <1>5, <1>6

\* What release writes, in each of its cases.
LEMMA ReleaseCases ==
  ASSUME NEW free, NEW offset, NEW length \in Nat,
         NEW i, i = ReleasePoint(free, offset),
         NEW grown, grown = GrownAt(free, i, length)
  PROVE  /\ length = 0 => Release(free, offset, length) = free
         /\ length > 0 /\ Bridges(free, offset, length)
              => Release(free, offset, length) =
                   [free EXCEPT ![i] = grown,
                                ![i + 1] = FreeEntry(grown.first,
                                                     free[i + 1].second + grown.second)]
         /\ length > 0 /\ ~ Bridges(free, offset, length)
            /\ i <= Len(free) /\ End(free[i]) = offset
              => Release(free, offset, length) = [free EXCEPT ![i] = grown]
         /\ length > 0 /\ ~ Bridges(free, offset, length)
            /\ i <= Len(free) /\ End(free[i]) # offset /\ free[i].first = offset + length
              => Release(free, offset, length) =
                   [free EXCEPT ![i] = FreeEntry(offset, free[i].second + length)]
         /\ length > 0 /\ ~ Bridges(free, offset, length)
            /\ ~ (i <= Len(free) /\ (End(free[i]) = offset \/ free[i].first = offset + length))
              => Release(free, offset, length) = InsertAt(free, i, FreeEntry(offset, length))
<1>1. PICK p, q, r, s :
        /\ p = (length = 0)
        /\ q = (length > 0 /\ Bridges(free, offset, length))
        /\ r = (length > 0 /\ ~ Bridges(free, offset, length)
                /\ i <= Len(free) /\ End(free[i]) = offset)
        /\ s = (length > 0 /\ i <= Len(free) /\ End(free[i]) # offset
                /\ free[i].first = offset + length)
  OBVIOUS
<1>2. PICK h, t, u, v :
        /\ h = [free EXCEPT ![i] = grown,
                            ![i + 1] = FreeEntry(grown.first,
                                                 free[i + 1].second + grown.second)]
        /\ t = [free EXCEPT ![i] = grown]
        /\ u = [free EXCEPT ![i] = FreeEntry(offset, free[i].second + length)]
        /\ v = InsertAt(free, i, FreeEntry(offset, length))
  OBVIOUS
<1>3. Release(free, offset, length) = CASE p -> free [] q -> h [] r -> t [] s -> u [] OTHER -> v
  BY <1>1, <1>2, Zenon DEF Release
<1>4. /\ p /\ ~ q /\ ~ r /\ ~ s => Release(free, offset, length) = free
      /\ q /\ ~ p /\ ~ r /\ ~ s => Release(free, offset, length) = h
      /\ r /\ ~ p /\ ~ q /\ ~ s => Release(free, offset, length) = t
      /\ s /\ ~ p /\ ~ q /\ ~ r => Release(free, offset, length) = u
      /\ ~ p /\ ~ q /\ ~ r /\ ~ s => Release(free, offset, length) = v
  BY <1>3, OneOfFour, Zenon
<1>5. length > 0 <=> ~ (length = 0)
  OBVIOUS
<1>6. Bridges(free, offset, length) => End(free[i]) = offset
  BY DEF Bridges
<1>7. length = 0 => Release(free, offset, length) = free
  BY <1>1, <1>4, <1>5, Zenon
<1>8. length > 0 /\ Bridges(free, offset, length) => Release(free, offset, length) = h
  BY <1>1, <1>4, <1>5, <1>6, Zenon
<1>9. length > 0 /\ ~ Bridges(free, offset, length) /\ i <= Len(free) /\ End(free[i]) = offset
        => Release(free, offset, length) = t
  BY <1>1, <1>4, <1>5, Zenon
<1>10. length > 0 /\ ~ Bridges(free, offset, length)
       /\ i <= Len(free) /\ End(free[i]) # offset /\ free[i].first = offset + length
        => Release(free, offset, length) = u
  BY <1>1, <1>4, <1>5, Zenon
<1>11. length > 0 /\ ~ Bridges(free, offset, length)
       /\ ~ (i <= Len(free) /\ (End(free[i]) = offset \/ free[i].first = offset + length))
        => Release(free, offset, length) = v
  BY <1>1, <1>4, <1>5, Zenon
<1> QED
  BY <1>2, <1>7, <1>8, <1>9, <1>10, <1>11, Zenon

\* A bound on a list with one entry replaced.
LEMMA WithinReplaced ==
  ASSUME NEW free \in Seq(Entry), NEW i \in 1 .. Len(free), NEW e \in Entry,
         NEW b, Within(free, b), End(e) <= b,
         NEW g, g = [free EXCEPT ![i] = e]
  PROVE  Within(g, b)
BY EntryReplaced

\* In an ordered list no entry meets another.
LEMMA OrderedMisses ==
  ASSUME NEW free \in Seq(Entry), Ordered(free), NEW i \in DOMAIN free, NEW k \in DOMAIN free,
         k # i
  PROVE  Misses(free[k], free[i].first, End(free[i]))
<1>1. i \in 1 .. Len(free) /\ k \in 1 .. Len(free)
  OBVIOUS
<1>2. /\ free[i].first \in Nat /\ free[i].second \in Nat
      /\ End(free[i]) \in Nat /\ End(free[i]) = free[i].first + free[i].second
  BY <1>1, EntryFields
<1>3. /\ free[k].first \in Nat /\ free[k].second \in Nat
      /\ End(free[k]) \in Nat /\ End(free[k]) = free[k].first + free[k].second
  BY <1>1, EntryFields
<1>4. i < k \/ k < i
  BY <1>1
<1> QED
  BY <1>2, <1>3, <1>4 DEF Ordered, Misses

\* When find takes an entry whole, it leaves the list.
LEMMA TakeExact ==
  ASSUME NEW free \in Seq(Entry), NEW length \in Nat, Fits(free, length) # {}, Ordered(free),
         NEW i, i = FirstFit(free, length), free[i].second = length,
         NEW g, g = Take(free, i, length)
  PROVE  /\ i \in 1 .. Len(free)
         /\ free[i].first \in Nat /\ End(free[i]) = free[i].first + length
         /\ Ordered(g)
         /\ \A a, c : Avoids(free, a, c) => Avoids(g, a, c)
         /\ Avoids(g, free[i].first, End(free[i]))
         /\ \A u : Has(free, u) => Spans(free[i], u) \/ Has(g, u)
<1>1. i \in 1 .. Len(free)
  BY TakeType
<1>2. free[i].first \in Nat /\ End(free[i]) = free[i].first + length
  BY <1>1, EntryFields
<1>3. g = RemoveAt(free, i)
  BY DEF Take
<1>4. Ordered(g)
  BY <1>1, <1>3, EntryRemoved
<1>5. \A a, c : (\A k \in DOMAIN free : k # i => Misses(free[k], a, c)) => Avoids(g, a, c)
  BY <1>1, <1>3, EntryRemoved
<1>6. \A u : Has(free, u) => Spans(free[i], u) \/ Has(g, u)
  BY <1>1, <1>3, EntryRemoved
<1>7. \A a, c : Avoids(free, a, c) => Avoids(g, a, c)
  BY <1>5 DEF Avoids
<1>8. Avoids(g, free[i].first, End(free[i]))
  BY <1>1, <1>5, OrderedMisses
<1> QED
  BY <1>1, <1>2, <1>4, <1>6, <1>7, <1>8

\* What find takes lies in the entry it takes it from, and the list only
\* shrinks: find never reaches past the units the list had.
LEMMA TakeWithin ==
  ASSUME NEW free \in Seq(Entry), NEW length \in Nat, Fits(free, length) # {},
         NEW i, i = FirstFit(free, length), NEW g, g = Take(free, i, length),
         NEW b \in Nat, Within(free, b)
  PROVE  /\ free[i].first \in Nat /\ free[i].first + length <= b
         /\ Within(g, b)
<1>1. i \in 1 .. Len(free) /\ free[i].second >= length
  BY TakeType
<1>2. PICK f \in Nat, t \in Nat : f = free[i].first /\ t = free[i].second
  BY <1>1, EntryFields
<1>3. f + t <= b /\ t >= length /\ End(free[i]) = f + t
  BY <1>1, <1>2, EntryFields DEF Within
<1>4. CASE t = length
  BY <1>1, <1>2, <1>3, <1>4, EntryRemoved DEF Take
<1>5. CASE t # length
  <2>1. PICK e \in Entry : /\ e = FreeEntry(f, t - length)
                           /\ End(e) \in Nat /\ End(e) <= f + (t - length)
    <3>1. t - length \in Nat
      BY <1>3
    <3> QED
      BY <3>1, FreeEntryFields
  <2>2. g = [free EXCEPT ![i] = e]
    BY <1>2, <1>5, <2>1 DEF Take
  <2>3. End(e) <= b
    BY <1>3, <2>1
  <2>4. Within([free EXCEPT ![i] = e], b)
    BY <1>1, <2>1, <2>3, WithinReplaced
  <2> QED
    BY <1>2, <1>3, <2>2, <2>4
<1> QED
  BY <1>4, <1>5

\* What release gives back lies within every bound that the list and the
\* extent lie within, bridges included.
LEMMA ReleaseWithin ==
  ASSUME NEW free \in Seq(Entry), NEW offset \in Nat, NEW length \in Nat,
         NEW b \in Nat, Within(free, b), offset + length <= b
  PROVE  Within(Release(free, offset, length), b)
<1>1. PICK i \in 1 .. Len(free) + 1 : i = ReleasePoint(free, offset)
  BY ReleasePointFacts
<1>2. Len(free) \in Nat /\ DOMAIN free = 1 .. Len(free)
  BY LenProperties
<1>3. PICK g : g = Release(free, offset, length)
  OBVIOUS
<1>4. PICK grown : grown = GrownAt(free, i, length)
  OBVIOUS
<1>5. CASE length = 0
  BY <1>1, <1>5, ReleaseCases
<1>6. CASE length > 0 /\ Bridges(free, offset, length)
  <2>1. i < Len(free) /\ End(free[i]) = offset /\ free[i + 1].first = End(grown)
    BY <1>1, <1>4, <1>6 DEF Bridges
  <2>2. i \in 1 .. Len(free) /\ i + 1 \in 1 .. Len(free)
    BY <1>2, <2>1
  <2>3. /\ free[i].first \in Nat /\ free[i].second \in Nat
        /\ offset = free[i].first + free[i].second
        /\ free[i + 1].first \in Nat /\ free[i + 1].second \in Nat
        /\ End(free[i + 1]) = free[i + 1].first + free[i + 1].second
        /\ End(free[i + 1]) <= b
    BY <1>2, <2>1, <2>2, EntryFields DEF Within
  <2>4. /\ grown \in Entry /\ End(grown) <= offset + length
        /\ grown.first \in Nat /\ grown.second \in Nat
        /\ End(grown) = grown.first + grown.second
    <3>1. PICK t \in Nat, v \in Nat : t = free[i].second /\ v = free[i].first /\ v + t = offset
      BY <2>3
    <3>2. /\ free[i].second + length \in Nat
          /\ free[i].first + (free[i].second + length) = offset + length
      <4>1. t + length \in Nat /\ v + (t + length) = (v + t) + length
        BY SumOfThree
      <4> QED
        BY <3>1, <4>1
    <3>3. grown \in Entry /\ End(grown) <= offset + length
      <4>1. /\ FreeEntry(free[i].first, free[i].second + length) \in Entry
            /\ End(FreeEntry(free[i].first, free[i].second + length))
                 <= free[i].first + (free[i].second + length)
        BY <2>3, <3>2, FreeEntryFields
      <4> QED
        BY <1>4, <3>2, <4>1 DEF GrownAt
    <3>4. /\ grown.first \in Nat /\ grown.second \in Nat
          /\ End(grown) = grown.first + grown.second
      BY <3>3 DEF Entry, End
    <3> QED
      BY <3>3, <3>4
  <2>5. PICK e \in Entry : e = FreeEntry(grown.first, free[i + 1].second + grown.second)
                          /\ End(e) <= b
    <3>1. PICK m \in Nat : m = free[i + 1].second + grown.second /\ grown.first + m <= b
      <4>1. PICK t \in Nat, u \in Nat, v \in Nat :
              t = free[i + 1].second /\ u = grown.second /\ v = grown.first
        BY <2>3, <2>4
      <4>2. v + u + t <= b
        BY <2>1, <2>3, <2>4, <4>1
      <4>3. t + u \in Nat /\ v + (t + u) <= b
        BY <4>2
      <4> QED
        BY <4>1, <4>3
    <3>2. FreeEntry(grown.first, m) \in Entry /\ End(FreeEntry(grown.first, m)) \in Nat
          /\ End(FreeEntry(grown.first, m)) <= grown.first + m
      BY <2>4, FreeEntryFields
    <3> QED
      BY <2>4, <3>1, <3>2
  <2>6. PICK h \in Seq(Entry) : h = [free EXCEPT ![i] = grown] /\ Len(h) = Len(free)
    <3>1. [free EXCEPT ![i] = grown] \in Seq(Entry) /\ Len([free EXCEPT ![i] = grown]) = Len(free)
      BY <2>2, <2>4, ExceptSeq
    <3> QED
      BY <3>1
  <2>7. g = [h EXCEPT ![i + 1] = e]
    <3>1. g = [free EXCEPT ![i] = grown, ![i + 1] = e]
      BY <1>1, <1>3, <1>4, <1>6, <2>5, ReleaseCases
    <3> QED
      BY <2>6, <3>1
  <2>8. Within(h, b)
    <3>1. End(grown) <= b
      BY <2>3, <2>4
    <3> QED
      BY <2>2, <2>4, <2>6, <3>1, EntryReplaced
  <2>9. i + 1 \in 1 .. Len(h)
    BY <2>2, <2>6
  <2>10. Within([h EXCEPT ![i + 1] = e], b)
    BY <2>5, <2>8, <2>9, WithinReplaced
  <2> QED
    BY <1>3, <2>7, <2>10
<1>7. CASE length > 0 /\ ~ Bridges(free, offset, length)
           /\ i <= Len(free) /\ End(free[i]) = offset
  <2>1. i \in 1 .. Len(free)
    BY <1>2, <1>7
  <2>2. /\ free[i].first \in Nat /\ free[i].second \in Nat
        /\ offset = free[i].first + free[i].second
    BY <1>7, <2>1, EntryFields
  <2>3. grown \in Entry /\ End(grown) <= b
    <3>1. PICK m \in Nat : m = free[i].second + length /\ free[i].first + m = offset + length
      <4>1. PICK t \in Nat, v \in Nat : t = free[i].second /\ v = free[i].first /\ v + t = offset
        BY <2>2
      <4>2. t + length \in Nat /\ v + (t + length) = (v + t) + length
        BY SumOfThree
      <4> QED
        BY <4>1, <4>2
    <3>2. FreeEntry(free[i].first, m) \in Entry /\ End(FreeEntry(free[i].first, m)) \in Nat
          /\ End(FreeEntry(free[i].first, m)) <= free[i].first + m
      BY <2>2, FreeEntryFields
    <3> QED
      BY <1>4, <3>1, <3>2 DEF GrownAt
  <2>4. g = [free EXCEPT ![i] = grown]
    BY <1>1, <1>3, <1>4, <1>7, ReleaseCases
  <2> QED
    BY <1>3, <2>1, <2>3, <2>4, WithinReplaced
<1>8. CASE length > 0 /\ ~ Bridges(free, offset, length)
           /\ i <= Len(free) /\ End(free[i]) # offset /\ free[i].first = offset + length
  <2>1. i \in 1 .. Len(free)
    BY <1>2, <1>8
  <2>2. free[i].second \in Nat /\ free[i].first + free[i].second <= b
    BY <1>2, <2>1, EntryFields DEF Within
  <2>3. PICK e \in Entry : e = FreeEntry(offset, free[i].second + length) /\ End(e) <= b
    <3>1. PICK m \in Nat : m = free[i].second + length /\ offset + m <= b
      BY <1>8, <2>2
    <3>2. FreeEntry(offset, m) \in Entry /\ End(FreeEntry(offset, m)) \in Nat
          /\ End(FreeEntry(offset, m)) <= offset + m
      BY FreeEntryFields
    <3> QED
      BY <3>1, <3>2
  <2>4. g = [free EXCEPT ![i] = e]
    BY <1>1, <1>3, <1>8, <2>3, ReleaseCases
  <2>5. Within([free EXCEPT ![i] = e], b)
    BY <2>1, <2>3, WithinReplaced
  <2> QED
    BY <1>3, <2>4, <2>5
<1>9. CASE length > 0 /\ ~ Bridges(free, offset, length)
           /\ ~ (i <= Len(free) /\ (End(free[i]) = offset \/ free[i].first = offset + length))
  <2>1. PICK e \in Entry : e = FreeEntry(offset, length) /\ End(e) <= b
    <3>1. FreeEntry(offset, length) \in Entry /\ End(FreeEntry(offset, length)) \in Nat
          /\ End(FreeEntry(offset, length)) <= offset + length
      BY FreeEntryFields
    <3> QED
      BY <3>1
  <2>2. g = InsertAt(free, i, e)
    BY <1>1, <1>3, <1>9, <2>1, ReleaseCases
  <2> QED
    BY <1>1, <1>3, <2>1, <2>2, EntryInserted
<1> QED
  BY <1>5, <1>6, <1>7, <1>8, <1>9

\* What a release should do to a list in order: the list stays in order, an
\* extent that met neither the list nor the released one still meets no entry,
\* and where 32 bits hold every length no free unit is lost.
Returned(free, offset, end, g) ==
  /\ Ordered(g)
  /\ \A a \in Nat, c \in Nat :
       a < c /\ Avoids(free, a, c) /\ (c <= offset \/ end <= a) => Avoids(g, a, c)
  /\ end < U32 /\ Within(free, U32 - 1) =>
       \A u \in Nat : Has(free, u) \/ (offset <= u /\ u < end) => Has(g, u)

\* The entries around the point where the walk stops leave room for the extent.
LEMMA ReleaseRoom ==
  ASSUME NEW free \in Seq(Entry), NEW offset \in Nat, NEW end \in Nat, offset < end,
         Ordered(free), Avoids(free, offset, end),
         NEW i, i = ReleasePoint(free, offset)
  PROVE  /\ i \in 1 .. Len(free) + 1
         /\ \A k \in DOMAIN free : k < i => End(free[k]) < offset
         /\ i <= Len(free) => End(free[i]) = offset \/ end <= free[i].first
         /\ \A k \in DOMAIN free : k > i => end <= free[k].first
<1>1. /\ i \in 1 .. Len(free) + 1
      /\ \A k \in DOMAIN free : k < i => ~ StopsAt(free[k], offset)
      /\ i <= Len(free) => StopsAt(free[i], offset)
  BY ReleasePointFacts
<1>2. Len(free) \in Nat /\ DOMAIN free = 1 .. Len(free)
  BY LenProperties
<1>3. \A k \in DOMAIN free : /\ free[k].first \in Nat /\ End(free[k]) \in Nat
                            /\ free[k].first <= End(free[k])
  BY <1>2, EntryFields
<1>4. \A k \in DOMAIN free : End(free[k]) <= offset \/ end <= free[k].first
  BY DEF Avoids, Misses
<1>5. ASSUME NEW k \in DOMAIN free, k < i PROVE End(free[k]) < offset
  <2>1. End(free[k]) # offset /\ ~ (free[k].first > offset)
    BY <1>1, <1>5 DEF StopsAt
  <2> QED
    BY <1>3, <1>4, <2>1
<1>6. i <= Len(free) => End(free[i]) = offset \/ end <= free[i].first
  <2> SUFFICES ASSUME i <= Len(free) PROVE End(free[i]) = offset \/ end <= free[i].first
    OBVIOUS
  <2>1. i \in DOMAIN free
    BY <1>1, <1>2
  <2>2. End(free[i]) = offset \/ free[i].first > offset
    BY <1>1 DEF StopsAt
  <2> QED
    BY <1>3, <1>4, <2>1, <2>2
<1>7. ASSUME NEW k \in DOMAIN free, k > i PROVE end <= free[k].first
  <2>1. i \in DOMAIN free /\ i <= Len(free)
    BY <1>1, <1>2, <1>7
  <2>2. End(free[i]) < free[k].first
    BY <1>7, <2>1 DEF Ordered
  <2>3. offset <= End(free[i])
    BY <1>3, <1>6, <2>1
  <2> QED
    BY <1>3, <1>4, <2>1, <2>2, <2>3
<1> QED
  BY <1>1, <1>5, <1>6, <1>7

\* A release that bridges no two entries does what it should.
LEMMA ReleaseReturns ==
  ASSUME NEW free \in Seq(Entry), NEW offset \in Nat, NEW length \in Nat \ {0},
         Ordered(free), Avoids(free, offset, offset + length),
         ~ Bridges(free, offset, length)
  PROVE  Returned(free, offset, offset + length, Release(free, offset, length))
<1>1. PICK end \in Nat : end = offset + length /\ offset < end
  OBVIOUS
<1>2. PICK i : i = ReleasePoint(free, offset)
  OBVIOUS
<1>3. /\ i \in 1 .. Len(free) + 1
      /\ \A k \in DOMAIN free : k < i => End(free[k]) < offset
      /\ i <= Len(free) => End(free[i]) = offset \/ end <= free[i].first
      /\ \A k \in DOMAIN free : k > i => end <= free[k].first
  BY <1>1, <1>2, ReleaseRoom
<1>4. Len(free) \in Nat /\ DOMAIN free = 1 .. Len(free) /\ length > 0
  BY LenProperties
<1>5. \A k \in DOMAIN free : /\ free[k].first \in Nat /\ End(free[k]) \in Nat
                            /\ free[k].first <= End(free[k])
  <2>1. DOMAIN free = 1 .. Len(free)
    BY <1>4
  <2> QED
    BY <2>1, EntryFields
<1>6. PICK g : g = Release(free, offset, length)
  OBVIOUS
<1>7. U32 \in Nat
  BY U32Assumption
<1>8. CASE i <= Len(free) /\ End(free[i]) = offset
  <2>1. i \in DOMAIN free
    BY <1>3, <1>4, <1>8
  <2>2. PICK f \in Nat, m \in Nat : /\ f = free[i].first /\ m = free[i].second + length
                                  /\ f + m = end
    <3>1. PICK t \in Nat, v \in Nat : t = free[i].second /\ v = free[i].first /\ v + t = offset
      BY <1>4, <1>8, <2>1, EntryFields
    <3>2. t + length \in Nat /\ v + (t + length) = (v + t) + length
      BY SumOfThree
    <3> QED
      BY <1>1, <3>1, <3>2
  <2>3. PICK e \in Entry : /\ e = FreeEntry(f, m) /\ e.first = f /\ End(e) \in Nat
                          /\ End(e) <= end /\ (m < U32 => End(e) = end)
    <3>1. /\ FreeEntry(f, m) \in Entry /\ FreeEntry(f, m).first = f
          /\ End(FreeEntry(f, m)) \in Nat /\ End(FreeEntry(f, m)) <= f + m
          /\ m < U32 => End(FreeEntry(f, m)) = f + m
      BY FreeEntryFields
    <3> QED
      BY <2>2, <3>1
  <2>4. e = GrownAt(free, i, length)
    BY <2>2, <2>3 DEF GrownAt
  <2>5. g = [free EXCEPT ![i] = e]
    BY <1>2, <1>4, <1>6, <1>8, <2>4, ReleaseCases
  <2>6. Ordered(g)
    <3>1. \A k \in DOMAIN free : k < i => End(free[k]) < e.first
      BY <2>1, <2>2, <2>3 DEF Ordered
    <3>2. ASSUME NEW k \in DOMAIN free, k > i PROVE End(e) < free[k].first
      <4>1. k = i + 1 => free[k].first # End(e)
        <5>1. ~ (/\ length > 0 /\ i < Len(free) /\ End(free[i]) = offset
                 /\ free[i + 1].first = End(GrownAt(free, i, length)))
          BY <1>2 DEF Bridges
        <5>2. k = i + 1 => i < Len(free)
          BY <1>3, <1>4, <3>2
        <5> QED
          BY <1>4, <1>8, <2>4, <5>1, <5>2
      <4>2. k # i + 1 => i + 1 \in DOMAIN free /\ i + 1 > i /\ i + 1 < k
        BY <1>3, <1>4, <2>1, <3>2
      <4>3. k # i + 1 => end <= free[i + 1].first /\ End(free[i + 1]) < free[k].first
        BY <1>3, <4>2 DEF Ordered
      <4>4. end <= free[k].first /\ free[k].first \in Nat /\ End(e) \in Nat /\ End(e) <= end
        BY <1>3, <1>5, <2>3, <3>2
      <4>5. CASE k = i + 1
        BY <1>1, <4>1, <4>4, <4>5
      <4>6. CASE k # i + 1
        <5>1. /\ free[i + 1].first \in Nat /\ End(free[i + 1]) \in Nat
              /\ free[i + 1].first <= End(free[i + 1])
          BY <1>5, <4>2, <4>6
        <5> QED
          BY <1>1, <4>3, <4>4, <4>6, <5>1
      <4> QED
        BY <4>5, <4>6
    <3> QED
      BY <2>1, <2>5, <3>1, <3>2, <1>4, OrderedReplaced
  <2>7. ASSUME NEW a \in Nat, NEW c \in Nat, a < c, Avoids(free, a, c), c <= offset \/ end <= a
        PROVE  Avoids(g, a, c)
    <3>1. offset <= a \/ c <= f
      BY <1>8, <2>1, <2>2, <2>7 DEF Avoids, Misses
    <3>2. Misses(e, a, c)
      BY <2>3, <2>7, <3>1 DEF Misses
    <3> QED
      BY <1>4, <2>1, <2>5, <2>7, <3>2, EntryReplaced
  <2>8. ASSUME end < U32, NEW u \in Nat, Has(free, u) \/ (offset <= u /\ u < end)
        PROVE  Has(g, u)
    <3>1. End(e) = end
      BY <1>7, <2>2, <2>3, <2>8
    <3>2. Spans(free[i], u) \/ (offset <= u /\ u < end) => Spans(e, u)
      <4>1. Spans(free[i], u) <=> f <= u /\ u < offset
        BY <1>8, <2>2 DEF Spans
      <4>2. Spans(e, u) <=> f <= u /\ u < end
        BY <2>3, <3>1 DEF Spans
      <4>3. f <= offset
        BY <1>5, <1>8, <2>1, <2>2
      <4> QED
        BY <1>1, <4>1, <4>2, <4>3
    <3> QED
      BY <1>4, <2>1, <2>5, <2>8, <3>2, EntryReplaced
  <2> QED
    BY <1>1, <1>6, <2>6, <2>7, <2>8 DEF Returned
<1>9. CASE i <= Len(free) /\ End(free[i]) # offset /\ free[i].first = end
  <2>1. i \in DOMAIN free
    BY <1>3, <1>4, <1>9
  <2>2. PICK m \in Nat : m = free[i].second + length /\ offset + m = End(free[i])
    <3>1. PICK t \in Nat : t = free[i].second /\ end + t = End(free[i])
      BY <1>4, <1>9, <2>1, EntryFields
    <3>2. t + length \in Nat /\ offset + (t + length) = End(free[i])
      BY <1>1, <3>1
    <3> QED
      BY <3>1, <3>2
  <2>3. PICK e \in Entry : /\ e = FreeEntry(offset, m) /\ e.first = offset /\ End(e) \in Nat
                          /\ End(e) <= End(free[i]) /\ (m < U32 => End(e) = End(free[i]))
    <3>1. /\ FreeEntry(offset, m) \in Entry /\ FreeEntry(offset, m).first = offset
          /\ End(FreeEntry(offset, m)) \in Nat /\ End(FreeEntry(offset, m)) <= offset + m
          /\ m < U32 => End(FreeEntry(offset, m)) = offset + m
      BY FreeEntryFields
    <3> QED
      BY <2>2, <3>1
  <2>4. g = [free EXCEPT ![i] = e]
    BY <1>1, <1>2, <1>4, <1>6, <1>9, <2>2, <2>3, ReleaseCases
  <2>5. Ordered(g)
    <3>1. \A k \in DOMAIN free : k < i => End(free[k]) < e.first
      BY <1>3, <2>3
    <3>2. \A k \in DOMAIN free : k > i => End(e) < free[k].first
      BY <1>5, <2>1, <2>3 DEF Ordered
    <3> QED
      BY <1>4, <2>1, <2>4, <3>1, <3>2, OrderedReplaced
  <2>6. ASSUME NEW a \in Nat, NEW c \in Nat, a < c, Avoids(free, a, c), c <= offset \/ end <= a
        PROVE  Avoids(g, a, c)
    <3>1. End(free[i]) <= a \/ c <= end
      BY <1>9, <2>1, <2>6 DEF Avoids, Misses
    <3>2. Misses(e, a, c)
      BY <1>5, <2>1, <2>3, <2>6, <3>1 DEF Misses
    <3> QED
      BY <1>4, <2>1, <2>4, <2>6, <3>2, EntryReplaced
  <2>7. ASSUME Within(free, U32 - 1), NEW u \in Nat, Has(free, u) \/ (offset <= u /\ u < end)
        PROVE  Has(g, u)
    <3>1. End(free[i]) <= U32 - 1
      BY <2>1, <2>7 DEF Within
    <3>2. End(e) = End(free[i])
      BY <1>5, <1>7, <2>1, <2>2, <2>3, <3>1
    <3>3. Spans(free[i], u) \/ (offset <= u /\ u < end) => Spans(e, u)
      BY <1>1, <1>5, <1>9, <2>1, <2>3, <3>2 DEF Spans
    <3> QED
      BY <1>4, <2>1, <2>4, <2>7, <3>3, EntryReplaced
  <2> QED
    BY <1>1, <1>6, <2>5, <2>6, <2>7 DEF Returned
<1>10. CASE ~ (i <= Len(free) /\ (End(free[i]) = offset \/ free[i].first = end))
  <2>1. PICK e \in Entry : /\ e = FreeEntry(offset, length) /\ e.first = offset /\ End(e) \in Nat
                          /\ End(e) <= end /\ (length < U32 => End(e) = end)
    <3>1. /\ FreeEntry(offset, length) \in Entry /\ FreeEntry(offset, length).first = offset
          /\ End(FreeEntry(offset, length)) \in Nat
          /\ End(FreeEntry(offset, length)) <= offset + length
          /\ length < U32 => End(FreeEntry(offset, length)) = offset + length
      BY FreeEntryFields
    <3> QED
      BY <1>1, <3>1
  <2>2. g = InsertAt(free, i, e)
    BY <1>1, <1>2, <1>4, <1>6, <1>10, <2>1, ReleaseCases
  <2>3. Ordered(g)
    <3>1. \A k \in DOMAIN free : k < i => End(free[k]) < e.first
      BY <1>3, <2>1
    <3>2. ASSUME NEW k \in DOMAIN free, k >= i PROVE End(e) < free[k].first
      <4>1. i \in DOMAIN free /\ i <= Len(free)
        BY <1>3, <1>4, <3>2
      <4>2. end < free[i].first
        <5>1. free[i].first \in Nat /\ free[i].first # end
          BY <1>5, <1>10, <4>1
        <5>2. end <= free[i].first
          BY <1>3, <1>10, <4>1
        <5> QED
          BY <1>1, <5>1, <5>2
      <4>3. k # i => End(free[i]) < free[k].first
        <5>1. k \in Nat /\ i \in Nat
          BY <1>4, <3>2, <4>1
        <5> QED
          BY <3>2, <4>1, <5>1 DEF Ordered
      <4> QED
        BY <1>5, <2>1, <3>2, <4>1, <4>2, <4>3
    <3> QED
      BY <1>3, <2>2, <3>1, <3>2, OrderedInserted
  <2>4. ASSUME NEW a \in Nat, NEW c \in Nat, a < c, Avoids(free, a, c), c <= offset \/ end <= a
        PROVE  Avoids(g, a, c)
    <3>1. Misses(e, a, c)
      BY <2>1, <2>4 DEF Misses
    <3> QED
      BY <1>3, <2>2, <2>4, <3>1, EntryInserted
  <2>5. ASSUME end < U32, NEW u \in Nat, Has(free, u) \/ (offset <= u /\ u < end)
        PROVE  Has(g, u)
    <3>1. length < U32 /\ End(e) = end
      BY <1>1, <1>7, <2>1, <2>5
    <3>2. offset <= u /\ u < end => Spans(e, u)
      BY <2>1, <3>1 DEF Spans
    <3> QED
      BY <1>3, <2>2, <2>5, <3>2, EntryInserted
  <2> QED
    BY <1>1, <1>6, <2>3, <2>4, <2>5 DEF Returned
<1> QED
  BY <1>8, <1>9, <1>10

\* One past the last unit of a slot's extent, and of the extent of the add.
Past(i) == idx[i].offset + idx[i].length
PastAdd == cur.offset + Length[cur.hash]

-----------------------------------------------------------------------------
(* Every extent lies in the file, in slots no chunk has any more too: the   *)
(* add that takes such a slot over makes it active before it writes the    *)
(* new offset.  Only between the offset and the flags is the extent of its *)
(* slot made of two, which is what a kill there leaves behind.             *)

\* What a running process knows of its file.
InFile ==
  /\ dsize <= dsz /\ dsz <= ROUNDUP(dsize)
  /\ Within(dfree, dsize)
  /\ \A i \in DOMAIN idx : (pc = "flags" /\ i = cur.slot) \/ Past(i) <= dsize

FileOK ==
  /\ pc = "down" => \A i \in DOMAIN idx : Past(i) <= dsz
  /\ pc # "down" => InFile
  /\ pc \in AddPoints => PastAdd <= dsize
  /\ pc = "flags" => idx[cur.slot].offset = cur.offset

FileInv ==
  /\ TypeInv
  /\ dsz <= MaxData
  /\ "flags" \notin faults => FileOK

\* The variables these speak of have their types.
LEMMA TypedFile ==
  ASSUME TypeInv
  PROVE  /\ Records(isz) \in Nat
         /\ idx \in [0 .. Records(isz) - 1 -> Slot] /\ DOMAIN idx = 0 .. Records(isz) - 1
         /\ \A i \in DOMAIN idx : /\ idx[i] \in Slot /\ Past(i) \in Nat
                                  /\ idx[i].offset \in Nat /\ idx[i].length \in Nat
                                  /\ Past(i) = idx[i].offset + idx[i].length
         /\ dsz \in Nat /\ dsize \in Nat /\ dfree \in Seq(Entry) /\ it \in Nat /\ it # 0
         /\ li \in Nat /\ cur \in Add /\ cur.offset \in Nat
         /\ pc \in AddPoints => cur.hash \in Hashes /\ PastAdd \in Nat
<1>1. Records(isz) \in Nat /\ idx \in [0 .. Records(isz) - 1 -> Slot]
  BY TypedIndex
<1>2. \A i \in DOMAIN idx : idx[i] \in Slot
  BY <1>1
<1>3. \A i \in DOMAIN idx : Past(i) \in Nat /\ idx[i].offset \in Nat /\ idx[i].length \in Nat
  BY <1>2 DEF Slot, Past
<1>4. dsz \in Nat /\ dsize \in Nat /\ dfree \in Seq(Entry) /\ it \in Nat /\ it # 0 /\ li \in Nat
  BY DEF TypeInv, TypeOK, DiskTypeOK, MemoryTypeOK
<1>5. cur \in Add
  BY DEF TypeInv, TypeOK, MemoryTypeOK
<1>6. cur.offset \in Nat
  BY <1>5 DEF Add
<1>7. pc \in AddPoints => cur.hash \in Hashes /\ PastAdd \in Nat
  BY <1>6, LengthAssumption DEF TypeInv, PastAdd
<1> QED
  BY <1>1, <1>2, <1>3, <1>4, <1>5, <1>6, <1>7 DEF Past

\* The same of the state after a step.
LEMMA TypedFileNext ==
  (TypeInv =>
         /\ Records(isz) \in Nat
         /\ idx \in [0 .. Records(isz) - 1 -> Slot] /\ DOMAIN idx = 0 .. Records(isz) - 1
         /\ \A i \in DOMAIN idx : /\ idx[i] \in Slot /\ Past(i) \in Nat
                                  /\ idx[i].offset \in Nat /\ idx[i].length \in Nat
                                  /\ Past(i) = idx[i].offset + idx[i].length
         /\ dsz \in Nat /\ dsize \in Nat /\ dfree \in Seq(Entry) /\ it \in Nat /\ it # 0
         /\ li \in Nat /\ cur \in Add /\ cur.offset \in Nat
         /\ pc \in AddPoints => cur.hash \in Hashes /\ PastAdd \in Nat)'
BY TypedFile, PTL

\* A step that leaves the file, the list and the slots alone, outside an add.
LEMMA FileKept ==
  ASSUME FileInv, TypeInv', pc \notin {"down", "flags"},
         pc' \notin AddPoints \cup {"down"}, faults \subseteq faults',
         UNCHANGED <<idx, dsz, dsize, dfree, cur>>
  PROVE  FileInv'
BY DEF FileInv, FileOK, InFile, Within, Past, PastAdd, AddPoints

\* Store::Store, DataFile::DataFile: the list is one entry for all the file.
LEMMA OpenFile == FileInv /\ TypeInv' /\ Open => FileInv'
<1> SUFFICES ASSUME FileInv, TypeInv', Open PROVE FileInv'
  OBVIOUS
<1>1. /\ pc = "down" /\ pc' = "load" /\ dsize' = dsz /\ dsz' = dsz /\ faults' = faults
      /\ dfree' = <<FreeEntry(0, dsz)>> /\ idx' = Slotted(idx, isz')
  BY DEF Open
<1>2. TypeInv /\ dsz \in Nat /\ dsz <= MaxData
  BY TypedFile DEF FileInv
<1>3. Within(dfree', dsz)
  <2>1. FreeEntry(0, dsz) \in Entry /\ End(FreeEntry(0, dsz)) <= dsz
    <3>1. End(FreeEntry(0, dsz)) <= 0 + dsz
      BY <1>2, FreeEntryFields
    <3> QED
      BY <1>2, <3>1, FreeEntryFields
  <2> QED
    BY <1>1, <2>1, OneEntry
<1>4. dsz <= ROUNDUP(dsz)
  BY <1>2, RoundedUp
<1>5. ASSUME "flags" \notin faults, NEW i \in DOMAIN idx'
      PROVE  Past(i)' <= dsz
  <2>1. idx'[i] = IF i \in DOMAIN idx THEN idx[i] ELSE ZeroSlot
    BY <1>1, <1>5 DEF Slotted
  <2>2. CASE i \in DOMAIN idx
    BY <1>1, <1>5, <2>1, <2>2 DEF FileInv, FileOK, Past
  <2>3. CASE i \notin DOMAIN idx
    BY <1>2, <2>1, <2>3 DEF Past, ZeroSlot
  <2> QED
    BY <2>2, <2>3
<1> QED
  BY <1>1, <1>2, <1>3, <1>4, <1>5 DEF FileInv, FileOK, InFile, AddPoints

\* Marking takes units off the list.
LEMMA MarkStepFile == FileInv /\ TypeInv' /\ MarkStep => FileInv'
<1> SUFFICES ASSUME FileInv, TypeInv', MarkStep PROVE FileInv'
  OBVIOUS
<1>1. /\ pc = "mark" /\ pc' = "mark" /\ it <= Len(dfree)
      /\ dfree' = MarkEntry(dfree, it, idx[li].offset, Past(li))
      /\ UNCHANGED <<idx, dsz, dsize, cur, faults>>
  BY DEF MarkStep, disk, Past
<1>2. TypeInv
  BY DEF FileInv
<1>3. li \in DOMAIN idx
  BY <1>1, <1>2, SlotsInFile, TypedFile DEF TypeInv
<1>4. PICK o \in Nat, e \in Nat : o = idx[li].offset /\ e = Past(li) /\ o <= e
  BY <1>2, <1>3, TypedFile
<1>5. dfree \in Seq(Entry) /\ it \in 1 .. Len(dfree) /\ dsize \in Nat
  BY <1>1, <1>2, TypedFile
<1>6. Within(dfree, dsize) => Within(dfree', dsize)
  <2>1. dfree' = MarkEntry(dfree, it, o, e)
    BY <1>1, <1>4
  <2> QED
    BY <1>4, <1>5, <2>1, MarkKeeps
<1> QED
  BY <1>1, <1>6 DEF FileInv, FileOK, InFile, Past, AddPoints

\* An add into the list takes units that lie in the file, and does not grow it.
LEMMA AddFitFile == \A h \in Hashes, flags \in Flags : FileInv /\ TypeInv' /\ AddFit(h, flags) => FileInv'
<1> SUFFICES ASSUME NEW h \in Hashes, NEW flags \in Flags, FileInv, TypeInv', AddFit(h, flags)
             PROVE  FileInv'
  OBVIOUS
<1>1. PICK i : i = FirstFit(dfree, Length[h])
  OBVIOUS
<1>2. /\ pc = "idle" /\ pc' = "create" /\ Fits(dfree, Length[h]) # {}
      /\ EndOfWrite(dsz, dfree[i].first, Length[h]) <= MaxData
      /\ dfree' = Take(dfree, i, Length[h])
      /\ dsz' = EndOfWrite(dsz, dfree[i].first, Length[h])
      /\ cur'.hash = h /\ cur'.offset = dfree[i].first
      /\ faults \subseteq faults' /\ faults' \subseteq faults \cup {"partial"}
      /\ UNCHANGED <<idx, dsize>>
  BY <1>1 DEF AddFit
<1>3. dfree \in Seq(Entry) /\ dsize \in Nat /\ dsz \in Nat /\ Length[h] \in Nat
  BY TypedFile, LengthAssumption DEF FileInv
<1> SUFFICES ASSUME "flags" \notin faults' PROVE FileOK'
  BY <1>2 DEF FileInv
<1>4. /\ dsize <= dsz /\ dsz <= ROUNDUP(dsize) /\ Within(dfree, dsize)
      /\ \A j \in DOMAIN idx : Past(j) <= dsize
  BY <1>2 DEF FileInv, FileOK, InFile
<1>5. /\ dfree[i].first \in Nat /\ dfree[i].first + Length[h] <= dsize
      /\ Within(dfree', dsize)
  BY <1>1, <1>2, <1>3, <1>4, TakeWithin
<1>6. dsz' = dsz
  BY <1>2, <1>3, <1>4, <1>5 DEF EndOfWrite
<1> QED
  BY <1>2, <1>4, <1>5, <1>6 DEF FileOK, InFile, Past, PastAdd

\* An add past the end of the file grows it by what it takes.
LEMMA AddGrowFile == \A h \in Hashes, flags \in Flags : FileInv /\ TypeInv' /\ AddGrow(h, flags) => FileInv'
<1> SUFFICES ASSUME NEW h \in Hashes, NEW flags \in Flags, FileInv, TypeInv', AddGrow(h, flags)
             PROVE  FileInv'
  OBVIOUS
<1>1. /\ pc = "idle" /\ pc' = "create"
      /\ dsize' = dsize + Length[h] /\ dsz' = ROUNDUP(dsize') /\ dsz' <= MaxData
      /\ cur'.hash = h /\ cur'.offset = dsize
      /\ UNCHANGED <<idx, dfree, faults>>
  BY DEF AddGrow
<1>2. dfree \in Seq(Entry) /\ dsize \in Nat /\ Length[h] \in Nat /\ dsize' \in Nat
  BY <1>1, TypedFile, LengthAssumption DEF FileInv
<1>3. dsize' <= dsz' /\ dsz' \in Nat
  BY <1>1, <1>2, RoundedUp
<1> SUFFICES ASSUME "flags" \notin faults PROVE FileOK'
  BY <1>1 DEF FileInv
<1>4. Within(dfree, dsize) /\ \A j \in DOMAIN idx : Past(j) <= dsize
  BY <1>1 DEF FileInv, FileOK, InFile
<1>5. Within(dfree', dsize')
  <2>1. \A k \in DOMAIN dfree : End(dfree[k]) \in Nat
    BY <1>2, EntryFields
  <2> QED
    BY <1>1, <1>2, <1>4, <2>1 DEF Within
<1>6. \A j \in DOMAIN idx : Past(j) <= dsize'
  <2>1. \A j \in DOMAIN idx : Past(j) \in Nat
    BY TypedFile DEF FileInv
  <2> QED
    BY <1>1, <1>2, <1>4, <2>1
<1>7. PastAdd' <= dsize'
  BY <1>1, <1>2 DEF PastAdd
<1> QED
  BY <1>1, <1>3, <1>5, <1>6, <1>7 DEF FileOK, InFile, Past

\* The slots a growth of the index adds read as zeros.
LEMMA CreateFile == FileInv /\ TypeInv' /\ (CreatePop \/ CreateGrow) => FileInv'
<1> SUFFICES ASSUME FileInv, TypeInv', CreatePop \/ CreateGrow PROVE FileInv'
  OBVIOUS
<1>1. /\ pc = "create" /\ pc' = "active"
      /\ cur'.hash = cur.hash /\ cur'.offset = cur.offset
      /\ UNCHANGED <<dsz, dsize, dfree, faults>>
      /\ idx' = idx \/ idx' = Slotted(idx, isz')
  <2>1. cur \in Add
    BY TypedFile DEF FileInv
  <2>2. cur' = [cur EXCEPT !.slot = cur'.slot]
    BY <2>1 DEF CreatePop, CreateGrow, Add
  <2>3. cur'.hash = cur.hash /\ cur'.offset = cur.offset
    BY <2>1, <2>2 DEF Add
  <2> QED
    BY <2>3 DEF CreatePop, CreateGrow, disk, dvars
<1>2. dsz \in Nat /\ dsize \in Nat
  BY TypedFile DEF FileInv
<1>3. ASSUME "flags" \notin faults, NEW i \in DOMAIN idx'
      PROVE  Past(i)' <= dsize
  <2>1. idx'[i] = IF i \in DOMAIN idx THEN idx[i] ELSE ZeroSlot
    BY <1>1, <1>3 DEF Slotted
  <2>2. CASE i \in DOMAIN idx
    BY <1>1, <1>3, <2>1, <2>2 DEF FileInv, FileOK, InFile, Past
  <2>3. CASE i \notin DOMAIN idx
    BY <1>2, <2>1, <2>3 DEF Past, ZeroSlot
  <2> QED
    BY <2>2, <2>3
<1> QED
  BY <1>1, <1>3 DEF FileInv, FileOK, InFile, PastAdd, AddPoints

\* The first two writes of a new slot leave its old extent in place.
LEMMA ActiveHashFile == FileInv /\ TypeInv' /\ (AddActive \/ AddHash) => FileInv'
<1> SUFFICES ASSUME FileInv, TypeInv', AddActive \/ AddHash PROVE FileInv'
  OBVIOUS
<1>1. /\ pc \in {"active", "hash"} /\ pc' \in {"hash", "offset"}
      /\ UNCHANGED <<dsz, dsize, dfree, cur, faults>>
  BY DEF AddActive, AddHash, dvars
<1>2. /\ cur.slot \in DOMAIN idx /\ cur.hash \in Hashes
      /\ idx \in [DOMAIN idx -> Slot]
  BY <1>1, CurrentSlot DEF FileInv, AddPoints
<1>3. /\ DOMAIN idx' = DOMAIN idx
      /\ \A i \in DOMAIN idx : idx'[i].offset = idx[i].offset /\ idx'[i].length = idx[i].length
  <2> DEFINE D == DOMAIN idx
  <2>1. CASE AddActive
    <3>1. PICK c \in D : c = cur.slot
      BY <1>2
    <3>2. PICK g : g = [idx EXCEPT ![c].active = TRUE]
      OBVIOUS
    <3>3. idx \in [D -> Slot]
      BY <1>2
    <3>4. /\ g \in [D -> Slot] /\ \A j \in D \ {c} : g[j] = idx[j]
          /\ g[c].offset = idx[c].offset /\ g[c].length = idx[c].length
      <4> HIDE DEF D
      <4>1. g \in [D -> Slot]
        BY <3>2, <3>3, SetActive
      <4>2. \A j \in D \ {c} : g[j] = idx[j]
        BY <3>2, <3>3, SetActive
      <4>3. g[c].offset = idx[c].offset
        BY <3>2, <3>3, SetActive
      <4>4. g[c].length = idx[c].length
        BY <3>2, <3>3, SetActive
      <4> QED
        BY <4>1, <4>2, <4>3, <4>4
    <3>5. idx' = g
      BY <2>1, <3>1, <3>2, Zenon DEF AddActive
    <3> QED
      BY <3>1, <3>4, <3>5
  <2>2. CASE AddHash
    <3>1. idx' = [idx EXCEPT ![cur.slot].hash = cur.hash]
      BY <2>2 DEF AddHash
    <3>2. idx' \in [D -> Slot] /\ \A j \in D \ {cur.slot} : idx'[j] = idx[j]
      BY <1>2, <3>1, SetHash
    <3>3. idx'[cur.slot].offset = idx[cur.slot].offset /\ idx'[cur.slot].length = idx[cur.slot].length
      BY <1>2, <3>1, SetHash
    <3> QED
      BY <3>2, <3>3
  <2> QED
    BY <2>1, <2>2
<1>4. \A i \in DOMAIN idx' : Past(i)' = Past(i)
  BY <1>3 DEF Past
<1> QED
  BY <1>1, <1>3, <1>4 DEF FileInv, FileOK, InFile, PastAdd, AddPoints

\* The offset: the slot's extent is the new one with the old length.
LEMMA AddOffsetFile == FileInv /\ TypeInv' /\ AddOffset => FileInv'
<1> SUFFICES ASSUME FileInv, TypeInv', AddOffset PROVE FileInv'
  OBVIOUS
<1>1. /\ pc = "offset" /\ pc' = "flags"
      /\ idx' = [idx EXCEPT ![cur.slot].offset = cur.offset]
      /\ UNCHANGED <<dsz, dsize, dfree, cur, faults>>
  BY DEF AddOffset, dvars
<1>2. /\ cur.slot \in DOMAIN idx /\ cur.offset \in Nat
      /\ idx \in [DOMAIN idx -> Slot]
  BY <1>1, CurrentSlot, TypedFile DEF FileInv, AddPoints
<1>3. DOMAIN idx' = DOMAIN idx /\ \A i \in DOMAIN idx \ {cur.slot} : idx'[i] = idx[i]
  BY <1>1, <1>2, SetOffset
<1>4. idx'[cur.slot].offset = cur.offset
  BY <1>1, <1>2, SetOffset
<1>5. \A i \in DOMAIN idx' : i # cur.slot => Past(i)' = Past(i)
  BY <1>3 DEF Past
<1> QED
  BY <1>1, <1>3, <1>4, <1>5 DEF FileInv, FileOK, InFile, PastAdd, AddPoints

\* The flags make it the extent of the add.
LEMMA AddFlagsFile == FileInv /\ TypeInv' /\ AddFlags => FileInv'
<1> SUFFICES ASSUME FileInv, TypeInv', AddFlags PROVE FileInv'
  OBVIOUS
<1>1. /\ pc = "flags" /\ pc' = "idle"
      /\ UNCHANGED <<dsz, dsize, dfree, faults>>
  BY DEF AddFlags, dvars
<1>2. cur.slot \in DOMAIN idx /\ DOMAIN idx' = DOMAIN idx
  BY <1>1, CurrentSlot, FlagsWritten DEF FileInv, AddPoints
<1>3. PICK c \in DOMAIN idx :
        /\ c = cur.slot
        /\ \A i \in DOMAIN idx : i # c => idx'[i] = idx[i]
        /\ idx'[c].offset = idx[c].offset
        /\ idx'[c].length = Length[cur.hash]
  <2>1. DOMAIN idx = 0 .. Records(isz) - 1
    BY TypedFile DEF FileInv
  <2> QED
    BY <1>2, <2>1, FlagsWritten DEF FileInv
<1>4. /\ \A i \in DOMAIN idx' : i # c => Past(i)' = Past(i)
      /\ idx[c].offset = cur.offset => Past(c)' = PastAdd
  BY <1>2, <1>3 DEF Past, PastAdd
<1> QED
  BY <1>1, <1>2, <1>3, <1>4 DEF FileInv, FileOK, InFile, AddPoints

\* A removed chunk's extent goes back to the list, and its slot keeps it.
LEMMA RemoveFile == \A h : FileInv /\ TypeInv' /\ RemoveChunk(h) => FileInv'
<1> SUFFICES ASSUME NEW h, FileInv, TypeInv', RemoveChunk(h) PROVE FileInv'
  OBVIOUS
<1>1. /\ pc = "idle" /\ pc' = "idle"
      /\ dfree' = Release(dfree, idx[records[h]].offset, idx[records[h]].length)
      /\ faults \subseteq faults' /\ faults' \subseteq faults \cup {"bridge"}
      /\ UNCHANGED <<dsz, dsize, cur>>
  BY DEF RemoveChunk, Found
<1>2. PICK r \in DOMAIN idx :
        /\ r = records[h] /\ DOMAIN idx' = DOMAIN idx
        /\ \A j \in DOMAIN idx : j # r => idx'[j] = idx[j]
        /\ idx'[r].offset = idx[r].offset /\ idx'[r].length = idx[r].length
  <2>1. TypeInv /\ Found(h) /\ DOMAIN idx = 0 .. Records(isz) - 1
    BY TypedFile DEF FileInv, RemoveChunk
  <2>2. records[h] \in DOMAIN idx
    BY <2>1, FoundSlot
  <2> QED
    BY <2>1, <2>2, Deactivated
<1>3. \A i \in DOMAIN idx' : Past(i)' = Past(i)
  BY <1>2 DEF Past
<1>4. PICK o \in Nat, m \in Nat : o = idx[r].offset /\ m = idx[r].length /\ Past(r) = o + m
  BY <1>2, TypedFile DEF FileInv
<1>5. dfree \in Seq(Entry) /\ dsize \in Nat
  BY TypedFile DEF FileInv
<1>6. Within(dfree, dsize) /\ Past(r) <= dsize => Within(dfree', dsize)
  BY <1>1, <1>2, <1>4, <1>5, ReleaseWithin
<1> QED
  BY <1>1, <1>2, <1>3, <1>6 DEF FileInv, FileOK, InFile, AddPoints

\* adjrefs changes the references only.
LEMMA AdjrefsFile == \A h, d : d \in Deltas /\ FileInv /\ TypeInv' /\ Adjrefs(h, d) => FileInv'
<1> SUFFICES ASSUME NEW h, NEW d \in Deltas, FileInv, TypeInv', Adjrefs(h, d) PROVE FileInv'
  OBVIOUS
<1>1. pc = "idle" /\ pc' = "idle" /\ UNCHANGED <<dsz, dsize, dfree, cur, faults>>
  BY DEF Adjrefs, Found, dvars
<1>2. DOMAIN idx' = DOMAIN idx /\ \A i \in DOMAIN idx : Past(i)' = Past(i)
  <2>1. TypeInv /\ DOMAIN idx = 0 .. Records(isz) - 1
    BY TypedFile DEF FileInv
  <2> QED
    BY <2>1, Recounted DEF Past
<1> QED
  BY <1>1, <1>2 DEF FileInv, FileOK, InFile, AddPoints

\* A kill between the offset and the flags leaves an extent that may end
\* anywhere, and the fault that says so; any other end leaves extents that lie
\* in the file.
LEMMA EndFile == FileInv /\ TypeInv' /\ (Close \/ Crash) => FileInv'
<1> SUFFICES ASSUME FileInv, TypeInv', Close \/ Crash PROVE FileInv'
  OBVIOUS
<1>1. /\ pc # "down" /\ pc' = "down" /\ UNCHANGED <<idx, dsz>>
      /\ faults \subseteq faults' /\ (pc = "flags" => "flags" \in faults')
  BY DEF Close, Crash, disk, TornPoints
<1>2. dsize \in Nat /\ dsz \in Nat /\ \A i \in DOMAIN idx : Past(i) \in Nat
  BY TypedFile DEF FileInv
<1>3. \A i \in DOMAIN idx : Past(i)' = Past(i)
  BY <1>1 DEF Past
<1> QED
  BY <1>1, <1>2, <1>3 DEF FileInv, FileOK, InFile, AddPoints

\* Every step keeps the extents in the file.
LEMMA NextFile == FileInv /\ [Next]_vars => FileInv'
<1> SUFFICES ASSUME FileInv, [Next]_vars PROVE FileInv'
  OBVIOUS
<1>1. TypeInv' /\ faults \subseteq faults'
  BY NextType, FaultsStay DEF FileInv
<1>2. CASE LoadFree \/ LoadActive \/ MarkDone \/ LoadDone
  BY <1>1, <1>2, FileKept DEF LoadFree, LoadActive, MarkDone, LoadDone, disk, dvars, AddPoints
<1>3. CASE Open \/ MarkStep
  BY <1>1, <1>3, OpenFile, MarkStepFile
<1>4. CASE \E h \in Hashes, flags \in Flags : AddFit(h, flags) \/ AddGrow(h, flags)
  BY <1>1, <1>4, AddFitFile, AddGrowFile
<1>5. CASE CreateHang \/ CloseHang \/ \E h : Leak(h) \/ GetHang(h)
  BY <1>1, <1>5, FileKept DEF CreateHang, CloseHang, Leak, GetHang, Found, disk, dvars, AddPoints
<1>6. CASE CreatePop \/ CreateGrow \/ AddActive \/ AddHash \/ AddOffset \/ AddFlags
  BY <1>1, <1>6, CreateFile, ActiveHashFile, AddOffsetFile, AddFlagsFile
<1>7. CASE \E h : RemoveChunk(h) \/ \E d \in Deltas : Adjrefs(h, d)
  BY <1>1, <1>7, RemoveFile, AdjrefsFile
<1>8. CASE Close \/ Crash
  BY <1>1, <1>8, EndFile
<1>9. CASE UNCHANGED vars
  BY <1>1, <1>9 DEF vars, disk, dvars, FileInv, FileOK, InFile, Within, Past, PastAdd
<1> QED
  BY <1>2, <1>3, <1>4, <1>5, <1>6, <1>7, <1>8, <1>9 DEF Next, Loading, Adding, Calling

\* A store that was never opened has an empty file.
LEMMA InitFile == Init => FileInv
<1> SUFFICES ASSUME Init PROVE FileInv
  OBVIOUS
<1>1. TypeInv
  BY InitType
<1> QED
  BY <1>1, BoundsAssumption DEF Init, FileInv, FileOK, AddPoints

\* A slot of a chunk lies in the file.
LEMMA FinishedInFile ==
  ASSUME FileInv, "flags" \notin faults
  PROVE  \A i \in Finished : i \in DOMAIN idx /\ Past(i) <= dsz
<1>1. dsize \in Nat /\ dsz \in Nat /\ \A i \in DOMAIN idx : Past(i) \in Nat
  BY TypedFile DEF FileInv
<1>2. \A i \in Finished : i \in DOMAIN idx /\ (pc = "flags" => i # cur.slot)
  BY DEF Finished, Active, Pending, AddPoints
<1> QED
  BY <1>1, <1>2 DEF FileInv, FileOK, InFile

\* Unless an add was killed between its offset and its flags, the extent of
\* every chunk lies in the data file, so that the loop of DataFile::load ends.
THEOREM ExtentsAlwaysInFile == Spec => []ExtentsInFile
<1>1. FileInv => ExtentsInFile
  BY FinishedInFile DEF ExtentsInFile, Finished, Past
<1> QED
  BY <1>1, InitFile, NextFile, PTL DEF Spec

\* The slot the loading loop marks is one of the file's.
LEMMA MarkedSlot ==
  ASSUME TypeInv, pc = "mark"
  PROVE  idx[li].offset \in Nat /\ idx[li].length \in Nat
<1>1. li \in 0 .. Records(isz) - 1
  BY SlotsInFile DEF TypeInv
<1> QED
  BY <1>1 DEF TypeInv, TypeOK, DiskTypeOK, Slot

\* The loop of mark ends: each iteration leaves fewer entries ahead of the
\* iterator, whether it erases one, cuts one, makes two of one or passes it.
THEOREM MarkAlwaysProgresses == Spec => MarkProgress
<1> DEFINE Progress == pc = "mark" /\ pc' = "mark" => Len(dfree') - it' < Len(dfree) - it
<1>1. TypeInv /\ [Next]_vars => [Progress]_vars
  <2> SUFFICES ASSUME TypeInv, Next, pc = "mark", pc' = "mark"
               PROVE  Len(dfree') - it' < Len(dfree) - it
    OBVIOUS
  <2>1. MarkStep
    BY DEF Next, Loading, Adding, Calling, Open, LoadFree, LoadActive, MarkDone, LoadDone,
           AddFit, AddGrow, CreatePop, CreateGrow, CreateHang, AddActive, AddHash,
           AddOffset, AddFlags, RemoveChunk, Leak, GetHang, Adjrefs, Found, Close,
           CloseHang, Crash
  <2>2. PICK o, e : o = idx[li].offset /\ e = idx[li].offset + idx[li].length
    OBVIOUS
  <2>3. /\ it <= Len(dfree)
        /\ dfree' = MarkEntry(dfree, it, o, e) /\ it' = MarkNext(dfree, it, o, e)
    BY <2>1, <2>2 DEF MarkStep
  <2>4. dfree \in Seq(Entry) /\ it \in 1 .. Len(dfree) /\ o \in Nat /\ e \in Nat
    <3>1. dfree \in Seq(Entry) /\ it \in Nat \ {0} /\ Len(dfree) \in Nat
      BY LenProperties DEF TypeInv, TypeOK, MemoryTypeOK
    <3>2. o \in Nat /\ e \in Nat
      BY <2>2, MarkedSlot
    <3> QED
      BY <2>3, <3>1, <3>2
  <2> QED
    BY <2>3, <2>4, FewerAhead
<1> QED
  BY <1>1, InitType, NextType, PTL DEF Spec, MarkProgress

-----------------------------------------------------------------------------
(* No unit belongs to two.  While the list is marked, a slot the loop has  *)
(* passed is off the list, and the slot it is at is off the entries its    *)
(* iterator has passed.  After erasing the head of the list the iterator   *)
(* steps over the entry behind it, and what lets it do so is that the list *)
(* and the slots passed cover the file: between two entries there is a     *)
(* unit of an earlier slot, so that no other extent reaches from one entry *)
(* to the next.  An empty extent takes no unit, yet splits the entry it is *)
(* in, and then one does: that is why no chunk may be empty.               *)

NoEmptyChunk == \A h \in Hashes : Length[h] > 0

HasUnit(i, u) == idx[i].offset <= u /\ u < Past(i)
AddHasUnit(u) == cur.offset <= u /\ u < PastAdd

SlotsApart ==
  \A i, j \in Finished : i # j => Past(i) <= idx[j].offset \/ Past(j) <= idx[i].offset
LengthsRight ==
  \A i \in Finished : idx[i].length = Length[idx[i].hash] /\ idx[i].length > 0
FreeApart ==
  Ordered(dfree) /\ \A i \in Finished : i < Horizon => Avoids(dfree, idx[i].offset, Past(i))
MarkApart ==
  pc = "mark" => \A k \in DOMAIN dfree : k < it => Misses(dfree[k], idx[li].offset, Past(li))
AddApart ==
  pc \in AddPoints =>
    /\ Avoids(dfree, cur.offset, PastAdd)
    /\ \A i \in Finished : Past(i) <= cur.offset \/ PastAdd <= idx[i].offset
LoadCovers ==
  pc \in {"load", "mark"} =>
    /\ Within(dfree, dsize % U32)
    /\ \A u \in Nat : u < dsize % U32 =>
         \/ Has(dfree, u)
         \/ \E i \in Finished : i < li /\ HasUnit(i, u)
         \/ pc = "mark" /\ it > 1 /\ HasUnit(li, u)

Space ==
  /\ SlotsApart /\ LengthsRight
  /\ Loaded => FreeApart
  /\ MarkApart /\ AddApart /\ LoadCovers

SpaceInv == MapInv /\ FileInv /\ (faults = {} => Space)

\* What they say of one slot of a chunk.
LEMMA ChunkExtent ==
  ASSUME SpaceInv, faults = {}, NEW i \in Finished
  PROVE  /\ i \in DOMAIN idx /\ i \in Nat
         /\ idx[i].offset \in Nat /\ Past(i) \in Nat /\ idx[i].offset < Past(i)
         /\ idx[i].length \in Nat /\ Past(i) = idx[i].offset + idx[i].length
         /\ idx[i].length = Length[idx[i].hash]
         /\ idx[i].hash \in Hashes
         /\ Serving => i < Horizon
         /\ pc # "down" => Past(i) <= dsize
<1>1. TypeInv /\ IndexInv /\ i \in DOMAIN idx
  BY DEF SpaceInv, FileInv, MapInv, Finished, Active
<1>2. /\ i \in Nat /\ idx[i].offset \in Nat /\ Past(i) \in Nat
      /\ idx[i].length \in Nat /\ Past(i) = idx[i].offset + idx[i].length
  BY <1>1, TypedFile
<1>3. idx[i].length > 0 /\ idx[i].length = Length[idx[i].hash]
  BY DEF SpaceInv, Space, LengthsRight
<1>4. Serving => i < Horizon
  BY <1>1, AllTallied DEF Tallied, Serving, AddPoints
<1>5. idx[i].hash \in Hashes
  BY DEF SpaceInv, MapInv, MapComplete, HashesKnown, Torn
<1>6. pc # "down" => Past(i) <= dsize
  BY <1>1 DEF SpaceInv, FileInv, FileOK, InFile, Finished, Pending, AddPoints
<1> QED
  BY <1>1, <1>2, <1>3, <1>4, <1>5, <1>6

\* A step that leaves the slots of chunks and the list alone.
LEMMA SpaceKept ==
  ASSUME SpaceInv, Space, Untouched, dfree' = dfree,
         Loaded' => Loaded /\ \A i \in Finished : i < Horizon' => i < Horizon,
         MarkApart', AddApart', LoadCovers'
  PROVE  Space'
<1>1. \A i \in Finished : idx'[i] = idx[i] /\ Past(i)' = Past(i)
  BY DEF Untouched, Past
<1>2. Finished' = Finished
  BY DEF Untouched
<1>3. SlotsApart' /\ LengthsRight'
  BY <1>1, <1>2 DEF Space, SlotsApart, LengthsRight
<1>4. Loaded' => FreeApart'
  BY <1>1, <1>2 DEF Space, FreeApart, Avoids
<1> QED
  BY <1>3, <1>4 DEF Space

\* Opening the store puts the whole file in the list.
LEMMA OpenSpace == SpaceInv /\ faults = {} /\ Open => Space'
<1> SUFFICES ASSUME SpaceInv, faults = {}, Open PROVE Space'
  OBVIOUS
<1>1. /\ pc = "down" /\ pc' = "load" /\ li' = li /\ dsize' = dsz
      /\ dfree' = <<FreeEntry(0, dsz)>>
  BY DEF Open, loop
<1>2. IndexInv /\ TypeInv /\ dsz \in Nat /\ li = 0 /\ Space
  BY <1>1, TypedFile DEF SpaceInv, MapInv, IndexInv, FileInv, Fresh
<1>3. Untouched
  BY <1>2, OpenUntouched
<1>4. \A i \in Finished : idx'[i] = idx[i] /\ Past(i)' = Past(i) /\ i \in Nat
  BY <1>3, ChunkExtent DEF Untouched, Past
<1>5. PICK e : e = FreeEntry(0, dsz) /\ dfree' = <<e>>
  BY <1>1
<1>6. dsz % U32 \in Nat
  BY <1>2, U32Assumption, Division
<1>7. e \in Entry /\ e.first = 0 /\ End(e) = dsz % U32
  BY <1>5, <1>6 DEF FreeEntry, Entry, End
<1>8. Ordered(dfree') /\ Within(dfree', dsz % U32)
  BY <1>5, <1>6, <1>7, OneEntry
<1>9. \A u \in Nat : u < dsz % U32 => Has(dfree', u)
  <2> SUFFICES ASSUME NEW u \in Nat, u < dsz % U32 PROVE Has(dfree', u)
    OBVIOUS
  <2>1. Spans(e, u)
    BY <1>7 DEF Spans
  <2> QED
    BY <1>5, <1>7, <2>1, OneEntry
<1>10. SlotsApart' /\ LengthsRight'
  BY <1>2, <1>3, <1>4 DEF Untouched, Space, SlotsApart, LengthsRight
<1>11. Horizon' = 0
  BY <1>1, <1>2 DEF Horizon
<1>12. FreeApart'
  BY <1>3, <1>4, <1>8, <1>11 DEF FreeApart, Untouched
<1> QED
  BY <1>1, <1>8, <1>9, <1>10, <1>12 DEF Space, MarkApart, AddApart, LoadCovers, AddPoints

\* The loop passes a slot without a chunk, begins to mark one with a chunk, or
\* ends.
LEMMA LoadSpace == SpaceInv /\ faults = {} /\ (LoadFree \/ LoadActive \/ LoadDone) => Space'
<1> SUFFICES ASSUME SpaceInv, faults = {}, LoadFree \/ LoadActive \/ LoadDone PROVE Space'
  OBVIOUS
<1>1. /\ pc = "load" /\ pc' \in {"load", "mark", "idle"}
      /\ UNCHANGED <<idx, dsize, dfree, isize>>
  BY DEF LoadFree, LoadActive, LoadDone, disk, ivars, dvars
<1>2. IndexInv /\ TypeInv /\ Space /\ li \in Nat /\ Records(isize) \in Nat
  BY TypedFile, TypedIndex DEF SpaceInv, MapInv, FileInv
<1>3. Untouched
  BY <1>2, LoadingUntouched DEF Loading
<1>4. \A i \in Finished : i \in Nat /\ Past(i)' = Past(i) /\ idx'[i] = idx[i]
  BY <1>1, <1>3, ChunkExtent DEF Untouched, Past
<1>5. \A i \in Finished : i < Horizon' => i < Horizon
  <2>1. CASE LoadFree
    <3>1. pc' = "load" /\ li' = li + 1 /\ li \notin Finished
      BY <2>1 DEF LoadFree, Finished, Active
    <3> QED
      BY <1>1, <1>2, <1>4, <3>1 DEF Horizon
  <2>2. CASE LoadActive
    BY <1>1, <2>2 DEF LoadActive, Horizon
  <2>3. CASE LoadDone
    <3>1. Horizon' = Records(isize) /\ li >= Records(isize)
      BY <1>1, <1>2, <2>3, TypedIndex DEF LoadDone, Horizon, loop
    <3> QED
      BY <1>1, <1>2, <1>4, <3>1 DEF Horizon
  <2> QED
    BY <2>1, <2>2, <2>3
<1>6. MarkApart' /\ AddApart'
  BY <1>1, <1>2, TypedFile DEF MarkApart, AddApart, AddPoints, LoadFree, LoadActive, LoadDone
<1>7. LoadCovers'
  <2> SUFFICES ASSUME pc' \in {"load", "mark"} PROVE LoadCovers'
    BY DEF LoadCovers
  <2>1. li' >= li /\ li' \in Nat
    BY <1>2 DEF LoadFree, LoadActive, LoadDone, loop
  <2>2. ASSUME NEW u \in Nat, u < dsize % U32, NEW i \in Finished, i < li, HasUnit(i, u)
        PROVE  i \in Finished' /\ i < li' /\ HasUnit(i, u)'
    BY <1>2, <1>3, <1>4, <2>1, <2>2 DEF Untouched, HasUnit
  <2>3. Within(dfree, dsize % U32)
    BY <1>1, <1>2 DEF Space, LoadCovers
  <2>4. \A u \in Nat : u < dsize % U32 =>
         Has(dfree, u) \/ \E i \in Finished : i < li /\ HasUnit(i, u)
    BY <1>1, <1>2 DEF Space, LoadCovers
  <2> QED
    BY <1>1, <2>2, <2>3, <2>4 DEF LoadCovers
<1> QED
  BY <1>1, <1>2, <1>3, <1>5, <1>6, <1>7, SpaceKept DEF Loaded

\* A marked slot is off every entry of the list.
LEMMA MarkDoneSpace == SpaceInv /\ faults = {} /\ MarkDone => Space'
<1> SUFFICES ASSUME SpaceInv, faults = {}, MarkDone PROVE Space'
  OBVIOUS
<1>1. /\ pc = "mark" /\ pc' = "load" /\ it > Len(dfree) /\ li' = li + 1
      /\ UNCHANGED <<idx, dsize, dfree>>
  BY DEF MarkDone, disk, dvars
<1>2. IndexInv /\ Space /\ li \in Nat /\ it \in Nat /\ dfree \in Seq(Entry)
  BY TypedFile DEF SpaceInv, MapInv, FileInv
<1>3. Untouched
  BY <1>2, LoadingUntouched DEF Loading
<1>4. \A i \in Finished : i \in Nat /\ Past(i)' = Past(i) /\ idx'[i] = idx[i]
  BY <1>1, <1>3, ChunkExtent DEF Untouched, Past
<1>5. SlotsApart' /\ LengthsRight'
  BY <1>2, <1>3, <1>4 DEF Untouched, Space, SlotsApart, LengthsRight
<1>6. Ordered(dfree) /\ \A i \in Finished : i < li => Avoids(dfree, idx[i].offset, Past(i))
  BY <1>1, <1>2 DEF Space, FreeApart, Loaded, Horizon
<1>7. Avoids(dfree, idx[li].offset, Past(li))
  BY <1>1, <1>2 DEF Space, MarkApart, Avoids
<1>8. \A i \in Finished : i < li' => i < li \/ i = li
  BY <1>1, <1>2, <1>4
<1>9. \A i \in Finished : i < li' => Avoids(dfree', idx'[i].offset, Past(i)')
  BY <1>1, <1>4, <1>6, <1>7, <1>8
<1>10. FreeApart'
  BY <1>1, <1>3, <1>6, <1>9 DEF FreeApart, Horizon, Untouched
<1>11. LoadCovers'
  <2>1. li \in Finished
    BY <1>1, <1>2 DEF IndexInv, LoopExact, Finished, Pending, AddPoints
  <2>2. /\ Within(dfree, dsize % U32)
        /\ \A u \in Nat : u < dsize % U32 =>
             \/ Has(dfree, u) \/ (\E i \in Finished : i < li /\ HasUnit(i, u)) \/ HasUnit(li, u)
    BY <1>1, <1>2 DEF Space, LoadCovers
  <2>3. \A i \in Finished, u \in Nat :
          i < li \/ i = li => i \in Finished' /\ i < li' /\ (HasUnit(i, u) => HasUnit(i, u)')
    BY <1>1, <1>2, <1>3, <1>4 DEF Untouched, HasUnit
  <2>4. \A u \in Nat : u < dsize % U32 =>
          Has(dfree, u) \/ \E i \in Finished' : i < li' /\ HasUnit(i, u)'
    BY <1>2, <2>1, <2>2, <2>3
  <2> QED
    BY <1>1, <2>2, <2>4 DEF LoadCovers
<1> QED
  BY <1>1, <1>5, <1>10, <1>11 DEF Space, MarkApart, AddApart, AddPoints

\* One iteration of mark keeps the rest of the list, and the entries it has
\* passed are off the slot: also when it erases the head and steps over the
\* entry behind it.
LEMMA MarkStepSpace == SpaceInv /\ faults = {} /\ MarkStep => Space'
<1> SUFFICES ASSUME SpaceInv, faults = {}, MarkStep PROVE Space'
  OBVIOUS
<1>1. /\ pc = "mark" /\ pc' = "mark" /\ it <= Len(dfree)
      /\ dfree' = MarkEntry(dfree, it, idx[li].offset, Past(li))
      /\ it' = MarkNext(dfree, it, idx[li].offset, Past(li))
      /\ UNCHANGED <<idx, dsize, li>>
  BY DEF MarkStep, disk, Past
<1>2. IndexInv /\ Space /\ dfree \in Seq(Entry) /\ it \in 1 .. Len(dfree) /\ dsize \in Nat
  BY <1>1, TypedFile DEF SpaceInv, MapInv, FileInv
<1>3. Untouched
  BY <1>2, LoadingUntouched DEF Loading
<1>4. \A i \in Finished : i \in Nat /\ Past(i)' = Past(i) /\ idx'[i] = idx[i]
  BY <1>1, <1>3, ChunkExtent DEF Untouched, Past
<1>5. li \in Finished
  BY <1>1, <1>2 DEF IndexInv, LoopExact, Finished, Pending, AddPoints
<1>6. PICK a \in Nat, c \in Nat : a = idx[li].offset /\ c = Past(li) /\ a < c
  BY <1>5, ChunkExtent
<1>7. PICK m \in Nat : m = dsize % U32 /\ m < U32
  <2>1. dsize \in Int /\ U32 \in Nat \ {0}
    BY <1>2, U32Assumption
  <2>2. dsize % U32 \in 0 .. U32 - 1
    BY <2>1, Division
  <2> QED
    BY <2>1, <2>2
<1>8. /\ Ordered(dfree) /\ Within(dfree, m)
      /\ \A i \in Finished : i < li => Avoids(dfree, idx[i].offset, Past(i))
      /\ \A k \in DOMAIN dfree : k < it => Misses(dfree[k], a, c)
  BY <1>1, <1>2, <1>6, <1>7
  DEF Space, FreeApart, MarkApart, LoadCovers, Loaded, Horizon
<1>9. \A u \in Nat : u < m =>
        \/ Has(dfree, u) \/ (\E i \in Finished : i < li /\ HasUnit(i, u))
        \/ it > 1 /\ HasUnit(li, u)
  BY <1>1, <1>2, <1>7 DEF Space, LoadCovers
<1>10. Covered(dfree[it], a, c) /\ it = 1 /\ 2 \in DOMAIN dfree => Misses(dfree[2], a, c)
  <2> SUFFICES ASSUME Covered(dfree[1], a, c), it = 1, 2 \in DOMAIN dfree,
                      ~ Misses(dfree[2], a, c)
               PROVE  FALSE
    OBVIOUS
  <2>1. /\ dfree[1] \in Entry /\ dfree[1].first \in Nat /\ dfree[1].second \in Nat
        /\ End(dfree[1]) \in Nat /\ End(dfree[1]) = dfree[1].first + dfree[1].second
    BY <1>2, EntryFields
  <2>2. dfree[2].first \in Nat /\ End(dfree[2]) \in Nat /\ dfree[2].first <= End(dfree[2])
    BY <1>2, EntryFields
  <2>3. PICK u \in Nat : u = End(dfree[1])
    BY <2>1
  <2>4. a <= u /\ u < c /\ u < m
    <3>1. u < dfree[2].first
      BY <1>2, <1>8, <2>3 DEF Ordered
    <3>2. End(dfree[2]) <= m /\ dfree[2].first < c /\ a < End(dfree[2])
      BY <1>6, <1>8, <2>2 DEF Within, Misses
    <3>3. a <= u
      BY <1>6, <2>1, <2>3 DEF Covered
    <3> QED
      BY <1>6, <1>7, <2>2, <3>1, <3>2, <3>3
  <2>5. ~ Has(dfree, u)
    <3> SUFFICES ASSUME NEW k \in DOMAIN dfree, Spans(dfree[k], u) PROVE FALSE
      BY DEF Has
    <3>1. dfree[k].first \in Nat /\ dfree[k].first <= u /\ u < End(dfree[k])
      BY <1>2, EntryFields DEF Spans
    <3>2. k # 1
      BY <2>3, <3>1
    <3>3. 1 < k /\ 1 \in DOMAIN dfree
      BY <1>2, <3>2
    <3>4. u < dfree[k].first
      BY <1>8, <2>3, <3>3 DEF Ordered
    <3> QED
      BY <3>1, <3>4
  <2>6. PICK i \in Finished : i < li /\ HasUnit(i, u)
    BY <1>9, <2>4, <2>5
  <2>7. PICK d \in Nat, e \in Nat : d = idx[i].offset /\ e = Past(i)
    BY <2>6, ChunkExtent
  <2>8. e <= a \/ c <= d
    <3>1. i # li
      BY <1>4, <1>5, <2>6
    <3> QED
      BY <1>2, <1>5, <1>6, <2>7, <3>1 DEF Space, SlotsApart
  <2> QED
    BY <1>6, <2>4, <2>6, <2>7, <2>8 DEF HasUnit
<1>11. PICK g, nx : g = dfree' /\ nx = it'
  OBVIOUS
<1>12. g = MarkEntry(dfree, it, a, c) /\ nx = MarkNext(dfree, it, a, c)
  BY <1>1, <1>6, <1>11
<1>13. /\ Shrinks(dfree, g)
       /\ \A u \in Nat : Has(dfree, u) => (a <= u /\ u < c) \/ Has(g, u)
  <2>1. dfree[it].second < U32
    <3>1. /\ dfree[it].first \in Nat /\ dfree[it].second \in Nat
          /\ End(dfree[it]) = dfree[it].first + dfree[it].second
      BY <1>2, EntryFields
    <3>2. End(dfree[it]) <= m
      BY <1>2, <1>8 DEF Within
    <3> QED
      BY <1>7, <3>1, <3>2, U32Assumption
  <2>2. a <= c
    BY <1>6
  <2>3. Shrinks(dfree, g)
    BY <1>2, <1>6, <1>12, <2>2, MarkKeeps
  <2>4. \A u \in Nat : Has(dfree, u) => (a <= u /\ u < c) \/ Has(g, u)
    BY <1>2, <1>6, <1>12, <2>1, <2>2, MarkKeeps
  <2> QED
    BY <2>3, <2>4
<1>14. nx > 1 /\ \A k \in DOMAIN g : k < nx => Misses(g[k], a, c)
  BY <1>2, <1>6, <1>8, <1>10, <1>12, MarkAdvances
<1>15. FreeApart'
  <2>1. Ordered(g)
    BY <1>8, <1>13 DEF Shrinks
  <2>2. \A i \in Finished : i < li => Avoids(g, idx[i].offset, Past(i))
    BY <1>8, <1>13, ChunkExtent DEF Shrinks
  <2> QED
    BY <1>1, <1>3, <1>4, <1>11, <2>1, <2>2 DEF FreeApart, Horizon, Untouched
<1>16. LoadCovers'
  <2>1. Within(g, m)
    BY <1>7, <1>8, <1>13 DEF Shrinks
  <2>2. \A u \in Nat : a <= u /\ u < c <=> HasUnit(li, u)
    BY <1>6 DEF HasUnit
  <2>3. \A u \in Nat : u < m =>
          Has(g, u) \/ (\E i \in Finished : i < li /\ HasUnit(i, u)) \/ HasUnit(li, u)
    BY <1>9, <1>13, <2>2
  <2>4. \A i \in Finished, u \in Nat : i \in Finished' /\ (HasUnit(i, u) => HasUnit(i, u)')
    BY <1>3, <1>4 DEF Untouched, HasUnit
  <2>5. \A u \in Nat : HasUnit(li, u) => HasUnit(li, u)'
    BY <1>1, <1>5, <2>4
  <2>6. \A u \in Nat : u < m =>
          Has(g, u) \/ (\E i \in Finished' : i < li /\ HasUnit(i, u)') \/ HasUnit(li, u)'
    BY <2>3, <2>4, <2>5
  <2> QED
    BY <1>1, <1>7, <1>11, <1>14, <2>1, <2>6 DEF LoadCovers
<1>17. SlotsApart' /\ LengthsRight'
  BY <1>2, <1>3, <1>4 DEF Untouched, Space, SlotsApart, LengthsRight
<1>18. MarkApart'
  BY <1>1, <1>4, <1>5, <1>6, <1>11, <1>14 DEF MarkApart
<1> QED
  BY <1>1, <1>15, <1>16, <1>17, <1>18 DEF Space, AddApart, AddPoints

\* An add takes an entry whole, or the defect of find has been exercised.
LEMMA ExactFit ==
  ASSUME SpaceInv, faults = {}, NoEmptyChunk,
         NEW h \in Hashes, NEW flags \in Flags, AddFit(h, flags), faults' = {},
         NEW i, i = FirstFit(dfree, Length[h])
  PROVE  /\ dfree \in Seq(Entry) /\ Length[h] \in Nat /\ Length[h] > 0
         /\ Fits(dfree, Length[h]) # {} /\ dfree[i].second = Length[h]
         /\ dfree' = Take(dfree, i, Length[h])
         /\ pc = "idle" /\ pc' = "create" /\ UNCHANGED <<idx, isize, dsize>>
         /\ cur'.hash = h /\ cur'.offset = dfree[i].first
         /\ Ordered(dfree)
<1>1. /\ pc = "idle" /\ pc' = "create" /\ Fits(dfree, Length[h]) # {}
      /\ dfree' = Take(dfree, i, Length[h])
      /\ cur'.hash = h /\ cur'.offset = dfree[i].first
      /\ ~(Length[h] > 0 /\ dfree[i].second > Length[h])
      /\ UNCHANGED <<idx, isize, dsize>>
  BY DEF AddFit, ivars
<1>2. /\ dfree \in Seq(Entry) /\ Length[h] \in Nat /\ Length[h] > 0
  BY TypedFile, LengthAssumption DEF SpaceInv, FileInv, NoEmptyChunk
<1>3. i \in 1 .. Len(dfree) /\ dfree[i].second >= Length[h]
  BY <1>1, <1>2, TakeType
<1>4. dfree[i].second \in Nat
  BY <1>2, <1>3, EntryFields
<1>5. Ordered(dfree)
  BY <1>1 DEF SpaceInv, Space, FreeApart, Loaded, Serving
<1> QED
  BY <1>1, <1>2, <1>3, <1>4, <1>5

\* An add that takes an entry whole owns what no chunk and no entry has.
LEMMA AddFitSpace ==
  \A h \in Hashes, flags \in Flags :
    SpaceInv /\ faults = {} /\ NoEmptyChunk /\ AddFit(h, flags) /\ faults' = {} => Space'
<1> SUFFICES ASSUME NEW h \in Hashes, NEW flags \in Flags,
                    SpaceInv, faults = {}, NoEmptyChunk, AddFit(h, flags), faults' = {}
             PROVE  Space'
  OBVIOUS
<1>1. PICK i : i = FirstFit(dfree, Length[h])
  OBVIOUS
<1>2. /\ dfree \in Seq(Entry) /\ Length[h] \in Nat
      /\ Fits(dfree, Length[h]) # {} /\ dfree[i].second = Length[h]
      /\ dfree' = Take(dfree, i, Length[h])
      /\ pc = "idle" /\ pc' = "create" /\ UNCHANGED <<idx, isize, dsize>>
      /\ cur'.hash = h /\ cur'.offset = dfree[i].first
      /\ Ordered(dfree)
  BY <1>1, ExactFit
<1>3. /\ i \in 1 .. Len(dfree)
      /\ dfree[i].first \in Nat /\ End(dfree[i]) = dfree[i].first + Length[h]
      /\ Ordered(dfree')
      /\ \A a, c : Avoids(dfree, a, c) => Avoids(dfree', a, c)
      /\ Avoids(dfree', dfree[i].first, End(dfree[i]))
  BY <1>1, <1>2, TakeExact
<1>4. Space /\ Untouched
  BY AddBeginUntouched DEF SpaceInv
<1>5. \A j \in Finished : /\ idx'[j] = idx[j] /\ Past(j)' = Past(j) /\ j < Horizon
                          /\ Avoids(dfree, idx[j].offset, Past(j))
  BY <1>2, <1>4, ChunkExtent DEF Untouched, Past, Space, FreeApart, Loaded, Serving
<1>6. SlotsApart' /\ LengthsRight'
  BY <1>4, <1>5 DEF Untouched, Space, SlotsApart, LengthsRight
<1>7. FreeApart'
  BY <1>3, <1>4, <1>5 DEF FreeApart, Untouched
<1>8. PastAdd' = End(dfree[i]) /\ cur'.offset = dfree[i].first
  BY <1>2, <1>3 DEF PastAdd
<1>9. \A j \in Finished : Past(j) <= dfree[i].first \/ End(dfree[i]) <= idx[j].offset
  BY <1>3, <1>5 DEF Avoids, Misses
<1>10. AddApart'
  BY <1>3, <1>4, <1>5, <1>8, <1>9 DEF AddApart, Untouched
<1> QED
  BY <1>2, <1>6, <1>7, <1>10 DEF Space, MarkApart, LoadCovers

\* What a running process knows of its file is where the next add goes past it.
LEMMA AddGrowSpace ==
  \A h \in Hashes, flags \in Flags : SpaceInv /\ faults = {} /\ AddGrow(h, flags) => Space'
<1> SUFFICES ASSUME NEW h \in Hashes, NEW flags \in Flags, SpaceInv, faults = {}, AddGrow(h, flags)
             PROVE  Space'
  OBVIOUS
<1>1. /\ pc = "idle" /\ pc' = "create" /\ cur'.offset = dsize
      /\ UNCHANGED <<idx, isize, dfree>>
  BY DEF AddGrow, ivars
<1>2. Space /\ Untouched /\ dsize \in Nat /\ dfree \in Seq(Entry)
  BY AddBeginUntouched, TypedFile DEF SpaceInv, FileInv
<1>3. Within(dfree, dsize)
  BY <1>1 DEF SpaceInv, FileInv, FileOK, InFile
<1>4. \A j \in Finished : Past(j)' = Past(j) /\ Past(j) <= dsize
  BY <1>1, <1>2, ChunkExtent DEF Untouched, Past
<1>5. Avoids(dfree, dsize, PastAdd')
  BY <1>3 DEF Within, Avoids, Misses
<1>6. AddApart'
  BY <1>1, <1>2, <1>4, <1>5 DEF AddApart, Untouched
<1>7. \A j \in Finished : j < Horizon' => j < Horizon
  BY <1>1 DEF Horizon
<1> QED
  BY <1>1, <1>2, <1>6, <1>7, SpaceKept DEF MarkApart, LoadCovers, Loaded, Serving

\* A step of an add before its last leaves the add what it is.
LEMMA SameAdd ==
  ASSUME TypeInv, CreatePop \/ CreateGrow \/ AddActive \/ AddHash \/ AddOffset
  PROVE  /\ pc \in AddPoints /\ pc' \in AddPoints
         /\ cur'.hash = cur.hash /\ cur'.offset = cur.offset
         /\ UNCHANGED <<dfree, dsize, img, dsz>>
<1>1. cur \in Add
  BY TypedFile
<1>2. cur' = [cur EXCEPT !.slot = cur'.slot]
  BY <1>1 DEF CreatePop, CreateGrow, AddActive, AddHash, AddOffset, Add
<1>3. cur'.hash = cur.hash /\ cur'.offset = cur.offset
  BY <1>1, <1>2 DEF Add
<1> QED
  BY <1>3 DEF CreatePop, CreateGrow, AddActive, AddHash, AddOffset, disk, dvars, AddPoints

\* A step of an add before its last leaves the chunks alone.
LEMMA AddingSpace ==
  SpaceInv /\ faults = {}
  /\ (CreatePop \/ CreateGrow \/ AddActive \/ AddHash \/ AddOffset)
  => Space'
<1> SUFFICES ASSUME SpaceInv, faults = {},
                    CreatePop \/ CreateGrow \/ AddActive \/ AddHash \/ AddOffset
             PROVE  Space'
  OBVIOUS
<1>1. /\ pc \in AddPoints /\ pc' \in AddPoints
      /\ cur'.hash = cur.hash /\ cur'.offset = cur.offset
      /\ dfree' = dfree
  BY SameAdd DEF SpaceInv, FileInv
<1>2. Space /\ Untouched
  BY CreatePopUntouched, CreateGrowUntouched, WritesUntouched DEF SpaceInv, MapInv
<1>3. Serving /\ Loaded
  BY <1>1 DEF Serving, Loaded
<1>4. \A i \in Finished : i < Horizon /\ idx'[i] = idx[i] /\ Past(i)' = Past(i)
  BY <1>2, <1>3, ChunkExtent DEF Untouched, Past
<1>5. AddApart'
  BY <1>1, <1>2, <1>4 DEF AddApart, Space, PastAdd, Untouched
<1>6. MarkApart' /\ LoadCovers'
  BY <1>1 DEF MarkApart, LoadCovers, AddPoints
<1> QED
  BY <1>1, <1>2, <1>3, <1>4, <1>5, <1>6, SpaceKept

\* The slot an add has written holds the extent the add owns.
LEMMA AddedExtent ==
  ASSUME SpaceInv, faults = {}, AddFlags, NEW s, s = cur.slot
  PROVE  /\ s \notin Finished /\ Finished' = Finished \cup {s}
         /\ \A i \in Finished : idx'[i] = idx[i]
         /\ idx'[s].offset = cur.offset /\ idx'[s].length = Length[cur.hash]
         /\ idx'[s].hash = cur.hash
         /\ Past(s)' = PastAdd
         /\ pc = "flags" /\ pc' = "idle" /\ cur.hash \in Hashes
         /\ UNCHANGED <<dfree, dsize, isize, img, dsz>>
<1>1. /\ pc = "flags" /\ pc' = "idle" /\ UNCHANGED <<dfree, dsize, isize, img, dsz>>
  BY DEF AddFlags, ivars, dvars
<1>2. IndexInv /\ TypeInv
  BY DEF SpaceInv, MapInv, FileInv
<1>3. /\ s \notin Finished /\ Finished' = Finished \cup {s}
      /\ \A i \in Finished : idx'[i] = idx[i]
      /\ idx'[s].hash = cur.hash /\ idx'[s].length = Length[cur.hash]
  BY <1>2, FinishedAdded
<1>4. idx'[s].offset = idx[s].offset
  BY <1>2, FlagsWritten
<1>5. idx[s].offset = cur.offset
  BY <1>1 DEF SpaceInv, FileInv, FileOK
<1>6. cur.hash \in Hashes
  BY <1>1, <1>2, TypedFile DEF AddPoints
<1>7. Past(s)' = PastAdd
  BY <1>3, <1>4, <1>5 DEF Past, PastAdd
<1> QED
  BY <1>1, <1>3, <1>4, <1>5, <1>6, <1>7

\* The last write of an add makes its extent a chunk's.
LEMMA AddFlagsSpace == SpaceInv /\ faults = {} /\ NoEmptyChunk /\ AddFlags => Space'
<1> SUFFICES ASSUME SpaceInv, faults = {}, NoEmptyChunk, AddFlags PROVE Space'
  OBVIOUS
<1>1. PICK s : s = cur.slot
  OBVIOUS
<1>2. /\ s \notin Finished /\ Finished' = Finished \cup {s}
      /\ \A i \in Finished : idx'[i] = idx[i]
      /\ idx'[s].offset = cur.offset /\ idx'[s].length = Length[cur.hash]
      /\ idx'[s].hash = cur.hash
      /\ Past(s)' = PastAdd
      /\ pc = "flags" /\ pc' = "idle" /\ cur.hash \in Hashes
      /\ UNCHANGED <<dfree, dsize, isize>>
  BY <1>1, AddedExtent
<1>3. \A i \in Finished : Past(i)' = Past(i)
  BY <1>2 DEF Past
<1>4. /\ Space /\ Loaded
      /\ Avoids(dfree, cur.offset, PastAdd)
      /\ \A i \in Finished : Past(i) <= cur.offset \/ PastAdd <= idx[i].offset
  BY <1>2 DEF SpaceInv, Space, AddApart, AddPoints, Loaded, Serving
<1>5. SlotsApart'
  BY <1>2, <1>3, <1>4 DEF SlotsApart, Space
<1>6. LengthsRight'
  BY <1>2, <1>4 DEF LengthsRight, Space, NoEmptyChunk
<1>7. FreeApart'
  <2>1. \A i \in Finished : Avoids(dfree, idx[i].offset, Past(i))
    BY <1>2, <1>4, ChunkExtent DEF Space, FreeApart, Serving, AddPoints
  <2>2. \A i \in Finished' : Avoids(dfree', idx'[i].offset, Past(i)')
    BY <1>2, <1>3, <1>4, <2>1
  <2> QED
    BY <1>2, <1>4, <2>2 DEF Space, FreeApart
<1> QED
  BY <1>2, <1>5, <1>6, <1>7 DEF Space, MarkApart, AddApart, LoadCovers, AddPoints

\* A remove gives the extent of its chunk back, or bridges two entries.
LEMMA RemovedExtent ==
  ASSUME SpaceInv, faults = {}, NEW h, RemoveChunk(h), faults' = {}
  PROVE  /\ pc = "idle" /\ pc' = "idle" /\ UNCHANGED <<dsize, isize, img, dsz>>
         /\ records[h] \in Finished /\ Finished' = Finished \ {records[h]}
         /\ \A i \in Finished' : idx'[i] = idx[i] /\ Past(i)' = Past(i)
         /\ Returned(dfree, idx[records[h]].offset, Past(records[h]), dfree')
<1>1. /\ pc = "idle" /\ pc' = "idle" /\ UNCHANGED <<dsize, isize, img, dsz>>
      /\ dfree' = Release(dfree, idx[records[h]].offset, idx[records[h]].length)
      /\ ~Bridges(dfree, idx[records[h]].offset, idx[records[h]].length)
  BY DEF RemoveChunk, Found
<1>2. /\ records[h] \in Finished /\ Finished' = Finished \ {records[h]}
      /\ \A i \in Finished' : idx'[i] = idx[i]
  BY FinishedRemoved DEF SpaceInv, MapInv
<1>3. PICK o \in Nat, m \in Nat \ {0} :
        o = idx[records[h]].offset /\ m = idx[records[h]].length /\ Past(records[h]) = o + m
  BY <1>2, ChunkExtent DEF SpaceInv, Space, LengthsRight
<1>4. dfree \in Seq(Entry) /\ Ordered(dfree) /\ Avoids(dfree, o, o + m)
  BY <1>1, <1>2, <1>3, ChunkExtent, TypedFile
  DEF SpaceInv, FileInv, Space, FreeApart, Loaded, Serving
<1>5. Returned(dfree, o, o + m, Release(dfree, o, m))
  BY <1>1, <1>3, <1>4, ReleaseReturns
<1> QED
  BY <1>1, <1>2, <1>3, <1>5 DEF Past

\* A removed chunk's units go to the list, and the others' stay off it.
LEMMA RemoveSpace == \A h : SpaceInv /\ faults = {} /\ RemoveChunk(h) /\ faults' = {} => Space'
<1> SUFFICES ASSUME NEW h, SpaceInv, faults = {}, RemoveChunk(h), faults' = {} PROVE Space'
  OBVIOUS
<1>1. PICK r : r = records[h]
  OBVIOUS
<1>2. /\ pc = "idle" /\ pc' = "idle"
      /\ r \in Finished /\ Finished' = Finished \ {r}
      /\ \A i \in Finished' : idx'[i] = idx[i] /\ Past(i)' = Past(i)
      /\ Returned(dfree, idx[r].offset, Past(r), dfree')
  BY <1>1, RemovedExtent
<1>3. Space
  BY DEF SpaceInv
<1>4. SlotsApart' /\ LengthsRight'
  BY <1>2, <1>3 DEF Space, SlotsApart, LengthsRight
<1>5. FreeApart'
  <2>1. Ordered(dfree')
    BY <1>2 DEF Returned
  <2>2. ASSUME NEW i \in Finished, i # r
        PROVE  Avoids(dfree', idx[i].offset, Past(i))
    <3>1. PICK a \in Nat, c \in Nat : a = idx[i].offset /\ c = Past(i) /\ a < c
      BY ChunkExtent
    <3>2. Avoids(dfree, a, c)
      BY <1>2, <1>3, <3>1, ChunkExtent DEF Space, FreeApart, Loaded, Serving
    <3>3. c <= idx[r].offset \/ Past(r) <= a
      BY <1>2, <1>3, <2>2, <3>1 DEF Space, SlotsApart
    <3> QED
      BY <1>2, <3>1, <3>2, <3>3 DEF Returned
  <2> QED
    BY <1>2, <2>1, <2>2 DEF FreeApart
<1> QED
  BY <1>2, <1>4, <1>5 DEF Space, MarkApart, AddApart, LoadCovers, AddPoints

\* adjrefs moves no extent.
LEMMA AdjrefsSpace ==
  \A h, d : d \in Deltas /\ SpaceInv /\ faults = {} /\ Adjrefs(h, d) => Space'
<1> SUFFICES ASSUME NEW h, NEW d \in Deltas, SpaceInv, faults = {}, Adjrefs(h, d) PROVE Space'
  OBVIOUS
<1>1. pc = "idle" /\ pc' = "idle" /\ UNCHANGED <<isize, dfree>>
  BY DEF Adjrefs, Found, dvars, ivars
<1>2. /\ Finished' = Finished
      /\ \A i \in Finished : /\ idx'[i].offset = idx[i].offset /\ idx'[i].length = idx[i].length
                             /\ idx'[i].hash = idx[i].hash /\ Past(i)' = Past(i)
  BY FinishedRecounted DEF SpaceInv, MapInv, Past
<1>3. Space
  BY DEF SpaceInv
<1>4. SlotsApart' /\ LengthsRight'
  BY <1>2, <1>3 DEF Space, SlotsApart, LengthsRight
<1>5. FreeApart'
  BY <1>1, <1>2, <1>3 DEF Space, FreeApart, Loaded, Serving, Horizon
<1> QED
  BY <1>1, <1>4, <1>5 DEF Space, MarkApart, AddApart, LoadCovers, AddPoints

\* A leaked pin, a hang and an end of the process move none.
LEMMA OtherSpace ==
  SpaceInv /\ faults = {} /\ faults' = {}
  /\ (CreateHang \/ CloseHang \/ Close \/ Crash \/ \E h : Leak(h) \/ GetHang(h))
  => Space'
<1> SUFFICES ASSUME SpaceInv, faults = {}, faults' = {},
                    CreateHang \/ CloseHang \/ Close \/ Crash \/ \E h : Leak(h) \/ GetHang(h)
             PROVE  Space'
  OBVIOUS
<1>1. \/ pc = "idle" /\ pc' = "idle" /\ UNCHANGED <<isize, dfree>>
      \/ pc' \in {"stuck", "down"}
  BY DEF CreateHang, CloseHang, Close, Crash, Leak, GetHang, Found, dvars
<1>2. Space /\ Untouched
  BY OthersUntouched, CrashUntouched DEF SpaceInv, MapInv, Crash
<1>3. \A i \in Finished : idx'[i] = idx[i] /\ Past(i)' = Past(i)
  BY <1>2 DEF Untouched, Past
<1>4. SlotsApart' /\ LengthsRight'
  BY <1>2, <1>3 DEF Untouched, Space, SlotsApart, LengthsRight
<1>5. Loaded' => FreeApart'
  BY <1>1, <1>2, <1>3
  DEF Space, FreeApart, Loaded, Serving, Horizon, Avoids, Untouched, AddPoints
<1> QED
  BY <1>1, <1>4, <1>5 DEF Space, MarkApart, AddApart, LoadCovers, AddPoints

\* Nor has it chunks or a list.
LEMMA InitSpace == Init => SpaceInv
<1> SUFFICES ASSUME Init PROVE Space
  BY InitMap, InitFile DEF SpaceInv
<1>1. Finished = {}
  BY DEF Init, Finished, Active
<1> QED
  BY <1>1
  DEF Init, Space, SlotsApart, LengthsRight, Loaded, Serving, MarkApart, AddApart, LoadCovers,
      AddPoints

\* Every step keeps the extents apart.
LEMMA NextSpace ==
  ASSUME NoEmptyChunk
  PROVE  SpaceInv /\ [Next]_vars => SpaceInv'
<1> SUFFICES ASSUME SpaceInv, [Next]_vars, faults' = {} PROVE Space'
  BY NextMap, NextFile DEF SpaceInv
<1>1. faults = {} /\ Space
  BY FaultsStay DEF SpaceInv
<1>2. CASE Loading
  BY <1>1, <1>2, OpenSpace, LoadSpace, MarkStepSpace, MarkDoneSpace DEF Loading
<1>3. CASE \E h \in Hashes, flags \in Flags : AddFit(h, flags) \/ AddGrow(h, flags)
  BY <1>1, <1>3, AddFitSpace, AddGrowSpace
<1>4. CASE Adding
  BY <1>1, <1>4, AddingSpace, AddFlagsSpace, OtherSpace DEF Adding
<1>5. CASE Calling
  BY <1>1, <1>5, RemoveSpace, AdjrefsSpace, OtherSpace DEF Calling
<1>6. CASE Close \/ CloseHang \/ Crash
  BY <1>1, <1>6, OtherSpace
<1>7. CASE UNCHANGED vars
  <2>1. /\ Finished' = Finished /\ Horizon' = Horizon /\ (Loaded' <=> Loaded)
        /\ \A i \in Finished : Past(i)' = Past(i)
    BY <1>7
    DEF vars, disk, ivars, loop, Finished, Active, Pending, Horizon, Loaded, Serving, Past
  <2>2. SlotsApart' /\ LengthsRight' /\ (Loaded' => FreeApart')
    BY <1>1, <1>7, <2>1 DEF vars, disk, dvars, Space, SlotsApart, LengthsRight, FreeApart
  <2>3. MarkApart' /\ AddApart' /\ LoadCovers'
    BY <1>1, <1>7, <2>1
    DEF vars, disk, dvars, loop, Space, MarkApart, AddApart, LoadCovers, Past, PastAdd, HasUnit
  <2> QED
    BY <2>2, <2>3 DEF Space
<1> QED
  BY <1>2, <1>3, <1>4, <1>5, <1>6, <1>7 DEF Next

\* Extents that lie apart have no unit in common.
LEMMA ApartExtents ==
  ASSUME NEW a \in Nat, NEW l \in Nat, NEW b \in Nat, NEW m \in Nat,
         a + l <= b \/ b + m <= a
  PROVE  Extent(a, l) \cap Extent(b, m) = {}
BY DEF Extent

\* The same of an entry of the list and an extent off it.
LEMMA EntryApart ==
  ASSUME NEW free \in Seq(Entry), NEW k \in DOMAIN free, NEW a \in Nat, NEW l \in Nat,
         Misses(free[k], a, a + l)
  PROVE  Extent(a, l) \cap Extent(free[k].first, free[k].second) = {}
<1>1. /\ free[k].first \in Nat /\ free[k].second \in Nat
      /\ End(free[k]) = free[k].first + free[k].second
  BY EntryFields
<1> QED
  BY <1>1, ApartExtents DEF Misses

\* Slots, entries and the add's extent that lie apart share no unit.
LEMMA SpaceNoOverlap == SpaceInv => NoOverlap
<1> SUFFICES ASSUME SpaceInv, Serving, faults = {}
             PROVE  /\ \A i, j \in Held : i # j => SlotExtent(i) \cap SlotExtent(j) = {}
                    /\ \A i \in Held, k \in DOMAIN dfree : SlotExtent(i) \cap FreeExtent(k) = {}
                    /\ \A j, k \in DOMAIN dfree : j # k => FreeExtent(j) \cap FreeExtent(k) = {}
                    /\ \A x \in PendingExtents :
                         /\ \A i \in Held : x \cap SlotExtent(i) = {}
                         /\ \A k \in DOMAIN dfree : x \cap FreeExtent(k) = {}
  BY DEF NoOverlap
<1>1. /\ Space /\ FreeApart /\ dfree \in Seq(Entry)
      /\ pc \in AddPoints => cur.hash \in Hashes /\ cur.offset \in Nat
  BY TypedFile DEF SpaceInv, FileInv, Space, Loaded
<1>2. Held \subseteq Finished
  BY DEF SpaceInv, MapInv, IndexInv, Loaded, MapExact, Held
<1>3. ASSUME NEW i \in Held
      PROVE  /\ i \in Finished /\ i < Horizon
             /\ idx[i].offset \in Nat /\ idx[i].length \in Nat
             /\ Past(i) = idx[i].offset + idx[i].length
  BY <1>2, <1>3, ChunkExtent
<1>4. ASSUME NEW i \in Held, NEW j \in Held, i # j
      PROVE  SlotExtent(i) \cap SlotExtent(j) = {}
  <2>1. Past(i) <= idx[j].offset \/ Past(j) <= idx[i].offset
    BY <1>1, <1>3, <1>4 DEF Space, SlotsApart
  <2> QED
    BY <1>3, <1>4, <2>1, ApartExtents DEF SlotExtent
<1>5. ASSUME NEW i \in Held, NEW k \in DOMAIN dfree
      PROVE  SlotExtent(i) \cap FreeExtent(k) = {}
  <2>1. Misses(dfree[k], idx[i].offset, Past(i))
    BY <1>1, <1>3, <1>5 DEF FreeApart, Avoids
  <2> QED
    BY <1>1, <1>3, <1>5, <2>1, EntryApart DEF SlotExtent, FreeExtent
<1>6. ASSUME NEW j \in DOMAIN dfree, NEW k \in DOMAIN dfree, j # k
      PROVE  FreeExtent(j) \cap FreeExtent(k) = {}
  <2>1. Misses(dfree[k], dfree[j].first, End(dfree[j]))
    BY <1>1, <1>6, OrderedMisses DEF FreeApart
  <2>2. PICK a \in Nat, l \in Nat : /\ a = dfree[j].first /\ l = dfree[j].second
                                   /\ End(dfree[j]) = a + l
    BY <1>1, <1>6, EntryFields
  <2> QED
    BY <1>1, <1>6, <2>1, <2>2, EntryApart DEF FreeExtent
<1>7. ASSUME pc \in AddPoints
      PROVE  LET x == Extent(cur.offset, Length[cur.hash])
             IN  /\ \A i \in Held : x \cap SlotExtent(i) = {}
                 /\ \A k \in DOMAIN dfree : x \cap FreeExtent(k) = {}
  <2>1. PICK a \in Nat, l \in Nat : /\ a = cur.offset /\ l = Length[cur.hash]
                                   /\ PastAdd = a + l
    BY <1>1, <1>7, LengthAssumption DEF PastAdd
  <2>2. ASSUME NEW i \in Held
        PROVE  Extent(a, l) \cap SlotExtent(i) = {}
    <3>1. Past(i) <= a \/ a + l <= idx[i].offset
      BY <1>1, <1>3, <1>7, <2>1, <2>2 DEF Space, AddApart
    <3> QED
      BY <1>3, <2>1, <2>2, <3>1, ApartExtents DEF SlotExtent
  <2>3. ASSUME NEW k \in DOMAIN dfree
        PROVE  Extent(a, l) \cap FreeExtent(k) = {}
    <3>1. Misses(dfree[k], a, a + l)
      BY <1>1, <1>7, <2>1, <2>3 DEF Space, AddApart, Avoids
    <3> QED
      BY <1>1, <2>1, <2>3, <3>1, EntryApart DEF FreeExtent
  <2> QED
    BY <2>1, <2>2, <2>3
<1> QED
  BY <1>4, <1>5, <1>6, <1>7 DEF PendingExtents

\* As long as no defect of the list has been exercised and no add was torn, no
\* unit of the data file belongs to two chunks, to a chunk and the free list,
\* or twice to the free list, whatever was added, removed and reopened.
THEOREM ExtentsNeverOverlap ==
  ASSUME NoEmptyChunk
  PROVE  Spec => []NoOverlap
<1>1. SpaceInv /\ [Next]_vars => SpaceInv'
  BY NextSpace
<1> QED
  BY <1>1, InitSpace, SpaceNoOverlap, PTL DEF Spec

-----------------------------------------------------------------------------
(* No unit is lost, where the file is smaller than what an entry can count *)
(* (a larger one is cut to its size modulo 2^32 when it is opened).        *)

SmallFile == MaxData < U32

Covers ==
  Serving => \A u \in Nat : u < dsize =>
    \/ Has(dfree, u)
    \/ \E i \in Finished : HasUnit(i, u)
    \/ pc \in AddPoints /\ AddHasUnit(u)

CoverInv == SpaceInv /\ (faults = {} => Covers)

\* No size wraps.
LEMMA SmallSize ==
  ASSUME FileInv, SmallFile, faults = {}, pc # "down"
  PROVE  dsize \in Nat /\ dsize < U32 /\ dsize % U32 = dsize /\ Within(dfree, U32 - 1)
<1>1. /\ dsize \in Nat /\ dsz \in Nat /\ dfree \in Seq(Entry)
      /\ dsize <= dsz /\ dsz <= MaxData /\ Within(dfree, dsize)
  BY TypedFile DEF FileInv, FileOK, InFile
<1>2. dsize < U32 /\ U32 \in Nat \ {0}
  BY <1>1, BoundsAssumption, U32Assumption DEF SmallFile
<1>3. dsize % U32 = dsize
  <2>1. dsize = U32 * 0 + dsize /\ dsize \in 0 .. U32 - 1
    BY <1>1, <1>2
  <2>2. dsize \div U32 = 0
    BY <1>1, <1>2, <2>1, Quotient
  <2>3. dsize % U32 \in 0 .. U32 - 1 /\ dsize = U32 * (dsize \div U32) + (dsize % U32)
    BY <1>1, <1>2, Division
  <2> QED
    BY <1>1, <1>2, <2>2, <2>3
<1>4. \A k \in DOMAIN dfree : End(dfree[k]) \in Nat
  BY <1>1, EntryFields
<1> QED
  BY <1>1, <1>2, <1>3, <1>4 DEF Within

\* A step that leaves the file, the list and the extents alone.
LEMMA CoverKept ==
  ASSUME Covers, Serving' => Serving, UNCHANGED <<dfree, dsize>>,
         Finished' = Finished,
         \A i \in Finished : idx'[i].offset = idx[i].offset /\ idx'[i].length = idx[i].length,
         pc \in AddPoints /\ Serving' =>
           pc' \in AddPoints /\ cur'.offset = cur.offset /\ cur'.hash = cur.hash
  PROVE  Covers'
<1>1. \A i \in Finished, u \in Nat : HasUnit(i, u) => HasUnit(i, u)'
  BY DEF HasUnit, Past
<1>2. \A u \in Nat : Serving' /\ pc \in AddPoints /\ AddHasUnit(u) => AddHasUnit(u)'
  BY DEF AddHasUnit, PastAdd
<1> QED
  BY <1>1, <1>2 DEF Covers

\* When the loading loop ends, the slots it has passed are all there are.
LEMMA LoadDoneCover == SpaceInv /\ SmallFile /\ faults = {} /\ LoadDone => Covers'
<1> SUFFICES ASSUME SpaceInv, SmallFile, faults = {}, LoadDone PROVE Covers'
  OBVIOUS
<1>1. pc = "load" /\ pc' = "idle" /\ UNCHANGED <<idx, dsize, dfree>>
  BY DEF LoadDone, disk, dvars
<1>2. dsize % U32 = dsize
  BY <1>1, SmallSize DEF SpaceInv
<1>3. \A u \in Nat : u < dsize => Has(dfree, u) \/ \E i \in Finished : HasUnit(i, u)
  BY <1>1, <1>2 DEF SpaceInv, Space, LoadCovers
<1>4. Finished' = Finished /\ \A i \in Finished : Past(i)' = Past(i)
  BY <1>1 DEF Finished, Active, Pending, Past, AddPoints
<1> QED
  BY <1>1, <1>3, <1>4 DEF Covers, HasUnit

\* An add takes over the units it takes off the list.
LEMMA AddFitCover ==
  \A h \in Hashes, flags \in Flags :
    CoverInv /\ faults = {} /\ NoEmptyChunk /\ AddFit(h, flags) /\ faults' = {} => Covers'
<1> SUFFICES ASSUME NEW h \in Hashes, NEW flags \in Flags,
                    CoverInv, faults = {}, NoEmptyChunk, AddFit(h, flags), faults' = {}
             PROVE  Covers'
  OBVIOUS
<1>1. PICK i : i = FirstFit(dfree, Length[h])
  OBVIOUS
<1>2. /\ dfree \in Seq(Entry) /\ Length[h] \in Nat
      /\ Fits(dfree, Length[h]) # {} /\ dfree[i].second = Length[h]
      /\ dfree' = Take(dfree, i, Length[h])
      /\ pc = "idle" /\ pc' = "create" /\ UNCHANGED <<idx, dsize>>
      /\ cur'.hash = h /\ cur'.offset = dfree[i].first
      /\ Ordered(dfree)
  BY <1>1, ExactFit DEF CoverInv
<1>3. /\ dfree[i].first \in Nat /\ End(dfree[i]) = dfree[i].first + Length[h]
      /\ \A u : Has(dfree, u) => Spans(dfree[i], u) \/ Has(dfree', u)
  BY <1>1, <1>2, TakeExact
<1>4. \A u : Spans(dfree[i], u) => AddHasUnit(u)'
  BY <1>2, <1>3 DEF Spans, AddHasUnit, PastAdd
<1>5. Finished' = Finished /\ \A j \in Finished : Past(j)' = Past(j)
  BY <1>2 DEF Finished, Active, Pending, Past, AddPoints
<1>6. \A u \in Nat : u < dsize => Has(dfree, u) \/ \E j \in Finished : HasUnit(j, u)
  BY <1>2 DEF CoverInv, Covers, Serving, AddPoints
<1> QED
  BY <1>2, <1>3, <1>4, <1>5, <1>6 DEF Covers, HasUnit, AddPoints

\* An add past the end takes over the units the file grows by.
LEMMA AddGrowCover ==
  \A h \in Hashes, flags \in Flags : CoverInv /\ faults = {} /\ AddGrow(h, flags) => Covers'
<1> SUFFICES ASSUME NEW h \in Hashes, NEW flags \in Flags, CoverInv, faults = {}, AddGrow(h, flags)
             PROVE  Covers'
  OBVIOUS
<1>1. /\ pc = "idle" /\ pc' = "create" /\ dsize' = dsize + Length[h]
      /\ cur'.hash = h /\ cur'.offset = dsize
      /\ UNCHANGED <<idx, dfree>>
  BY DEF AddGrow
<1>2. dsize \in Nat /\ Length[h] \in Nat
  BY TypedFile, LengthAssumption DEF CoverInv, SpaceInv, FileInv
<1>3. \A u \in Nat : u < dsize' => u < dsize \/ AddHasUnit(u)'
  BY <1>1, <1>2 DEF AddHasUnit, PastAdd
<1>4. Finished' = Finished /\ \A j \in Finished : Past(j)' = Past(j)
  BY <1>1 DEF Finished, Active, Pending, Past, AddPoints
<1>5. \A u \in Nat : u < dsize => Has(dfree, u) \/ \E j \in Finished : HasUnit(j, u)
  BY <1>1 DEF CoverInv, Covers, Serving, AddPoints
<1> QED
  BY <1>1, <1>3, <1>4, <1>5 DEF Covers, HasUnit, AddPoints

\* The last write of an add makes the units it owns a chunk's.
LEMMA AddFlagsCover == CoverInv /\ faults = {} /\ AddFlags => Covers'
<1> SUFFICES ASSUME CoverInv, faults = {}, AddFlags PROVE Covers'
  OBVIOUS
<1>1. PICK s : s = cur.slot
  OBVIOUS
<1>2. /\ Finished' = Finished \cup {s}
      /\ \A i \in Finished : idx'[i] = idx[i]
      /\ idx'[s].offset = cur.offset /\ Past(s)' = PastAdd
      /\ pc = "flags" /\ pc' = "idle" /\ UNCHANGED <<dfree, dsize>>
  BY <1>1, AddedExtent DEF CoverInv
<1>3. \A u \in Nat : AddHasUnit(u) => HasUnit(s, u)'
  BY <1>2 DEF AddHasUnit, HasUnit
<1>4. \A i \in Finished, u \in Nat : HasUnit(i, u) => HasUnit(i, u)'
  BY <1>2 DEF HasUnit, Past
<1>5. Covers
  BY DEF CoverInv
<1>6. \A u \in Nat : u < dsize => Has(dfree, u) \/ \E i \in Finished' : HasUnit(i, u)'
  BY <1>2, <1>3, <1>4, <1>5 DEF Covers, Serving, AddPoints
<1> QED
  BY <1>2, <1>6 DEF Covers

\* A remove gives all the units of its chunk to the list.
LEMMA RemoveCover ==
  \A h : CoverInv /\ SmallFile /\ faults = {} /\ RemoveChunk(h) /\ faults' = {} => Covers'
<1> SUFFICES ASSUME NEW h, CoverInv, SmallFile, faults = {}, RemoveChunk(h), faults' = {}
             PROVE  Covers'
  OBVIOUS
<1>1. PICK r : r = records[h]
  OBVIOUS
<1>2. /\ pc = "idle" /\ pc' = "idle" /\ dsize' = dsize
      /\ r \in Finished /\ Finished' = Finished \ {r}
      /\ \A i \in Finished' : idx'[i] = idx[i] /\ Past(i)' = Past(i)
      /\ Returned(dfree, idx[r].offset, Past(r), dfree')
  BY <1>1, RemovedExtent DEF CoverInv
<1>3. Past(r) < U32 /\ Within(dfree, U32 - 1)
  <2>1. FileInv /\ SpaceInv
    BY DEF CoverInv, SpaceInv
  <2>2. dsize \in Nat /\ dsize < U32 /\ Within(dfree, U32 - 1)
    BY <1>2, <2>1, SmallSize
  <2>3. Past(r) \in Nat /\ Past(r) <= dsize
    BY <1>2, <2>1, ChunkExtent
  <2> QED
    BY <2>2, <2>3, U32Assumption
<1>4. \A u \in Nat : Has(dfree, u) \/ HasUnit(r, u) => Has(dfree', u)
  BY <1>2, <1>3 DEF Returned, HasUnit
<1>5. \A i \in Finished', u \in Nat : HasUnit(i, u) => HasUnit(i, u)'
  BY <1>2 DEF HasUnit
<1>6. \A u \in Nat : u < dsize => Has(dfree, u) \/ \E j \in Finished : HasUnit(j, u)
  BY <1>2 DEF CoverInv, Covers, Serving, AddPoints
<1>7. \A u \in Nat : u < dsize => Has(dfree', u) \/ \E j \in Finished' : HasUnit(j, u)'
  BY <1>2, <1>4, <1>5, <1>6
<1> QED
  BY <1>2, <1>7 DEF Covers

\* The other steps move no unit, or end the process.
LEMMA OtherCover ==
  CoverInv /\ faults = {}
  /\ \/ Loading /\ ~LoadDone
     \/ CreatePop \/ CreateGrow \/ CreateHang \/ AddActive \/ AddHash \/ AddOffset
     \/ Close \/ CloseHang \/ Crash \/ UNCHANGED vars
     \/ \E h : Leak(h) \/ GetHang(h) \/ \E d \in Deltas : Adjrefs(h, d)
  => Covers'
<1> SUFFICES ASSUME CoverInv, faults = {},
                    \/ Loading /\ ~LoadDone
                    \/ CreatePop \/ CreateGrow \/ CreateHang \/ AddActive \/ AddHash \/ AddOffset
                    \/ Close \/ CloseHang \/ Crash \/ UNCHANGED vars
                    \/ \E h : Leak(h) \/ GetHang(h) \/ \E d \in Deltas : Adjrefs(h, d)
             PROVE  Covers'
  OBVIOUS
<1>1. TypeInv /\ IndexInv /\ Covers
  BY DEF CoverInv, SpaceInv, FileInv, MapInv
<1>2. CASE CreatePop \/ CreateGrow \/ AddActive \/ AddHash \/ AddOffset
  <2>1. Untouched
    BY <1>1, <1>2, CreatePopUntouched, CreateGrowUntouched, WritesUntouched
  <2>2. /\ pc \in AddPoints /\ pc' \in AddPoints
        /\ cur'.hash = cur.hash /\ cur'.offset = cur.offset
        /\ UNCHANGED <<dfree, dsize>>
    BY <1>1, <1>2, SameAdd
  <2> QED
    BY <1>1, <2>1, <2>2, CoverKept DEF Untouched, Serving
<1>3. CASE \E h : Leak(h)
  <2>1. /\ Untouched /\ pc = "idle" /\ pc' = "idle" /\ UNCHANGED <<dfree, dsize>>
    BY <1>3, OthersUntouched DEF Leak, Found, dvars
  <2> QED
    BY <1>1, <2>1, CoverKept DEF Untouched, Serving, AddPoints
<1>4. CASE \E h : \E d \in Deltas : Adjrefs(h, d)
  <2>1. PICK h : \E d \in Deltas : Adjrefs(h, d)
    BY <1>4
  <2>2. PICK d \in Deltas : Adjrefs(h, d)
    BY <2>1
  <2>3. pc = "idle" /\ pc' = "idle" /\ UNCHANGED <<dfree, dsize>>
    BY <2>2 DEF Adjrefs, Found, dvars
  <2>4. /\ Finished' = Finished
        /\ \A i \in Finished : idx'[i].offset = idx[i].offset /\ idx'[i].length = idx[i].length
    BY <1>1, <2>2, FinishedRecounted
  <2> QED
    BY <1>1, <2>3, <2>4, CoverKept DEF Serving, AddPoints
<1>5. CASE UNCHANGED vars
  <2>1. Untouched /\ UNCHANGED <<dfree, dsize, pc, cur>>
    BY <1>5, OthersUntouched DEF vars, dvars
  <2> QED
    BY <1>1, <2>1, CoverKept DEF Untouched, Serving
<1>6. CASE \/ (Loading /\ ~LoadDone) \/ CreateHang \/ Close \/ CloseHang \/ Crash
           \/ \E h : GetHang(h)
  <2>1. pc' \in {"load", "mark", "stuck", "down"}
    BY <1>6
    DEF Loading, Open, LoadFree, LoadActive, MarkStep, MarkDone,
        CreateHang, Close, CloseHang, Crash, GetHang
  <2> QED
    BY <2>1 DEF Covers, Serving, AddPoints
<1> QED
  BY <1>2, <1>3, <1>4, <1>5, <1>6

\* Every step keeps every unit somewhere.
LEMMA NextCover ==
  ASSUME NoEmptyChunk, SmallFile
  PROVE  CoverInv /\ [Next]_vars => CoverInv'
<1> SUFFICES ASSUME CoverInv, [Next]_vars, faults' = {} PROVE Covers'
  BY NextSpace DEF CoverInv
<1>1. faults = {} /\ SpaceInv
  BY FaultsStay DEF CoverInv
<1>2. CASE Loading
  BY <1>1, <1>2, LoadDoneCover, OtherCover
<1>3. CASE \E h \in Hashes, flags \in Flags : AddFit(h, flags) \/ AddGrow(h, flags)
  BY <1>1, <1>3, AddFitCover, AddGrowCover
<1>4. CASE Adding
  BY <1>1, <1>4, AddFlagsCover, OtherCover DEF Adding
<1>5. CASE Calling
  BY <1>1, <1>5, RemoveCover, OtherCover DEF Calling
<1>6. CASE Close \/ CloseHang \/ Crash \/ UNCHANGED vars
  BY <1>1, <1>6, OtherCover
<1> QED
  BY <1>2, <1>3, <1>4, <1>5, <1>6 DEF Next

\* The slots of the map are those of the chunks.
LEMMA AllHeld == MapInv /\ Serving /\ ~Torn => Held = Finished
<1> SUFFICES ASSUME MapInv, Serving, ~Torn PROVE Held = Finished
  OBVIOUS
<1>1. IndexInv /\ AllMapped /\ pc # "mark"
  BY DEF MapInv, MapComplete, Loaded, Serving, AddPoints
<1>2. \A i \in Finished : i < Horizon
  BY <1>1, AllTallied DEF Tallied
<1>3. \A i \in Finished : idx[i].hash \in DOMAIN records /\ records[idx[i].hash] = i
  BY <1>1, <1>2 DEF AllMapped
<1>4. \A h \in DOMAIN records : records[h] \in Finished
  BY <1>1 DEF IndexInv, MapExact, Loaded
<1> QED
  BY <1>3, <1>4 DEF Held

\* What covers the file has each unit of it, and none outside it.
LEMMA CoverNoLoss == CoverInv => NoLoss
<1> SUFFICES ASSUME CoverInv, Serving, faults = {}
             PROVE  0 .. dsize - 1 = UNION ( {SlotExtent(i) : i \in Held}
                                        \cup {FreeExtent(k) : k \in DOMAIN dfree}
                                        \cup PendingExtents )
  BY DEF NoLoss
<1>1. SpaceInv /\ FileInv /\ Covers /\ pc # "down"
  BY DEF CoverInv, SpaceInv, Serving, AddPoints
<1>2. /\ dfree \in Seq(Entry) /\ dsize \in Nat
      /\ pc \in AddPoints => /\ cur.hash \in Hashes /\ cur.offset \in Nat
                             /\ PastAdd \in Nat /\ PastAdd <= dsize
                             /\ Length[cur.hash] \in Nat
  BY <1>1, TypedFile, LengthAssumption DEF FileInv, FileOK
<1>3. Held = Finished
  BY <1>1, AllHeld DEF SpaceInv, Torn
<1>4. Within(dfree, dsize)
  BY <1>1 DEF FileInv, FileOK, InFile
<1>5. \A i \in Finished : \A u : u \in SlotExtent(i) <=> u \in Nat /\ HasUnit(i, u)
  BY <1>1, ChunkExtent DEF SlotExtent, Extent, HasUnit
<1>6. \A k \in DOMAIN dfree : \A u : u \in FreeExtent(k) <=> u \in Nat /\ Spans(dfree[k], u)
  <2> SUFFICES ASSUME NEW k \in DOMAIN dfree, NEW u
               PROVE  u \in FreeExtent(k) <=> u \in Nat /\ Spans(dfree[k], u)
    OBVIOUS
  <2>1. PICK a \in Nat, l \in Nat : /\ a = dfree[k].first /\ l = dfree[k].second
                                   /\ End(dfree[k]) = a + l
    BY <1>2, EntryFields
  <2> QED
    BY <2>1 DEF FreeExtent, Extent, Spans
<1>7. pc \in AddPoints =>
        \A u : u \in Extent(cur.offset, Length[cur.hash]) <=> u \in Nat /\ AddHasUnit(u)
  BY <1>2 DEF Extent, AddHasUnit, PastAdd
<1>8. ASSUME NEW u \in 0 .. dsize - 1
      PROVE  \/ \E i \in Held : u \in SlotExtent(i)
             \/ \E k \in DOMAIN dfree : u \in FreeExtent(k)
             \/ \E x \in PendingExtents : u \in x
  <2>1. u \in Nat /\ u < dsize
    BY <1>2, <1>8
  <2>2. \/ Has(dfree, u) \/ \E i \in Finished : HasUnit(i, u)
        \/ pc \in AddPoints /\ AddHasUnit(u)
    BY <1>1, <2>1 DEF Covers
  <2> QED
    BY <1>3, <1>5, <1>6, <1>7, <2>1, <2>2 DEF Has, PendingExtents
<1>9. ASSUME NEW u,
             \/ \E i \in Held : u \in SlotExtent(i)
             \/ \E k \in DOMAIN dfree : u \in FreeExtent(k)
             \/ \E x \in PendingExtents : u \in x
      PROVE  u \in 0 .. dsize - 1
  <2>1. CASE \E i \in Held : u \in SlotExtent(i)
    BY <1>1, <1>2, <1>3, <1>5, <2>1, ChunkExtent DEF HasUnit
  <2>2. CASE \E k \in DOMAIN dfree : u \in FreeExtent(k)
    <3>1. PICK k \in DOMAIN dfree : u \in Nat /\ Spans(dfree[k], u)
      BY <1>6, <2>2
    <3>2. End(dfree[k]) \in Nat /\ End(dfree[k]) <= dsize
      BY <1>2, <1>4, EntryFields DEF Within
    <3> QED
      BY <1>2, <3>1, <3>2 DEF Spans
  <2>3. CASE \E x \in PendingExtents : u \in x
    BY <1>2, <1>7, <2>3 DEF PendingExtents, AddHasUnit
  <2> QED
    BY <1>9, <2>1, <2>2, <2>3
<1> QED
  BY <1>8, <1>9

\* As long as no defect of the list has been exercised and no add was torn,
\* each unit of the data file belongs to a chunk, to the add in progress or to
\* the free list, and nothing outside the file does.
THEOREM ExtentsNeverLost ==
  ASSUME NoEmptyChunk, SmallFile
  PROVE  Spec => []NoLoss
<1>1. CoverInv /\ [Next]_vars => CoverInv'
  BY NextCover
<1>2. Init => CoverInv
  BY InitSpace DEF CoverInv, Init, Covers, Serving, AddPoints
<1> QED
  BY <1>1, <1>2, CoverNoLoss, PTL DEF Spec

-----------------------------------------------------------------------------
(* The extent of a chunk holds its content.                                *)

\* The units of the chunk of h are at the given offset.
Holds(units, offset, h) == \A k \in Nat : k < Length[h] => units[offset + k] = <<h, k>>

Content ==
  /\ \A i \in Finished : Holds(img, idx[i].offset, idx[i].hash)
  /\ pc \in AddPoints => Holds(img, cur.offset, cur.hash)

ContentInv == SpaceInv /\ (faults = {} => Content)

\* DataFile::save writes the units of its extent and no other.
LEMMA SavedUnits ==
  ASSUME NEW size \in Nat, NEW units \in [0 .. size - 1 -> Unit],
         NEW offset \in Nat, NEW h \in Hashes,
         NEW g, g = Saved(units, size, offset, h)
  PROVE  /\ Holds(g, offset, h)
         /\ \A u \in Nat : u < size /\ (u < offset \/ offset + Length[h] <= u) => g[u] = units[u]
<1>1. PICK m \in Nat : m = Length[h]
  BY LengthAssumption
<1>2. PICK e \in Nat : e = EndOfWrite(size, offset, m) /\ e >= size /\ (m > 0 => e >= offset + m)
  BY DEF EndOfWrite
<1>3. g = [u \in 0 .. e - 1 |->
             IF offset <= u /\ u < offset + m THEN <<h, u - offset>>
             ELSE IF u < size THEN units[u] ELSE Blank]
  BY <1>1, <1>2 DEF Saved
<1>4. ASSUME NEW k \in Nat, k < m
      PROVE  g[offset + k] = <<h, k>>
  <2>1. PICK u \in 0 .. e - 1 : u = offset + k
    BY <1>2, <1>4
  <2>2. offset <= u /\ u < offset + m /\ u - offset = k
    BY <1>4, <2>1
  <2> QED
    BY <1>3, <2>1, <2>2
<1>5. ASSUME NEW u \in Nat, u < size, u < offset \/ offset + m <= u
      PROVE  g[u] = units[u]
  BY <1>2, <1>3, <1>5
<1> QED
  BY <1>1, <1>4, <1>5 DEF Holds

\* What lies before a write, or behind it, is what it was.
LEMMA HoldsKept ==
  ASSUME NEW units, NEW g, NEW size \in Nat, NEW offset \in Nat, NEW end \in Nat,
         \A u \in Nat : u < size /\ (u < offset \/ end <= u) => g[u] = units[u],
         NEW a \in Nat, NEW h \in Hashes, a + Length[h] <= size,
         a + Length[h] <= offset \/ end <= a,
         Holds(units, a, h)
  PROVE  Holds(g, a, h)
<1>1. PICK m \in Nat : m = Length[h]
  BY LengthAssumption
<1> SUFFICES ASSUME NEW k \in Nat, k < m PROVE g[a + k] = <<h, k>>
  BY <1>1 DEF Holds
<1>2. PICK u \in Nat : u = a + k
  OBVIOUS
<1>3. u < size /\ (u < offset \/ end <= u)
  BY <1>1, <1>2
<1> QED
  BY <1>1, <1>2, <1>3 DEF Holds

\* A step that writes no unit.
LEMMA ContentKept ==
  ASSUME Content, img' = img, Finished' \subseteq Finished,
         \A i \in Finished' : idx'[i].offset = idx[i].offset /\ idx'[i].hash = idx[i].hash,
         pc' \in AddPoints =>
           pc \in AddPoints /\ cur'.offset = cur.offset /\ cur'.hash = cur.hash
  PROVE  Content'
BY DEF Content, Holds

\* An add writes into the extent it takes off the list.
LEMMA AddFitContent ==
  \A h \in Hashes, flags \in Flags :
    ContentInv /\ faults = {} /\ NoEmptyChunk /\ AddFit(h, flags) /\ faults' = {} => Content'
<1> SUFFICES ASSUME NEW h \in Hashes, NEW flags \in Flags,
                    ContentInv, faults = {}, NoEmptyChunk, AddFit(h, flags), faults' = {}
             PROVE  Content'
  OBVIOUS
<1>1. PICK i : i = FirstFit(dfree, Length[h])
  OBVIOUS
<1>2. SpaceInv /\ Content /\ TypeInv
  BY DEF ContentInv, SpaceInv, FileInv
<1>3. /\ dfree \in Seq(Entry) /\ Length[h] \in Nat
      /\ Fits(dfree, Length[h]) # {} /\ dfree[i].second = Length[h] /\ Ordered(dfree)
      /\ pc = "idle" /\ pc' = "create" /\ idx' = idx
      /\ cur'.hash = h /\ cur'.offset = dfree[i].first
  BY <1>1, <1>2, ExactFit
<1>4. PICK o \in Nat, e \in Nat : /\ o = dfree[i].first /\ e = o + Length[h]
                                 /\ i \in 1 .. Len(dfree) /\ End(dfree[i]) = e
  <2>1. /\ i \in 1 .. Len(dfree) /\ dfree[i].first \in Nat
        /\ End(dfree[i]) = dfree[i].first + Length[h]
    BY <1>1, <1>3, TakeExact
  <2> QED
    BY <1>3, <2>1
<1>5. img' = Saved(img, dsz, o, h)
  BY <1>1, <1>4 DEF AddFit
<1>6. dsz \in Nat /\ img \in [0 .. dsz - 1 -> Unit]
  BY <1>2 DEF TypeInv, TypeOK, DiskTypeOK
<1>7. /\ Holds(img', o, h)
      /\ \A u \in Nat : u < dsz /\ (u < o \/ e <= u) => img'[u] = img[u]
  <2>1. PICK g : g = img' /\ g = Saved(img, dsz, o, h)
    BY <1>5
  <2>2. Holds(g, o, h)
    BY <1>6, <2>1, SavedUnits
  <2>3. \A u \in Nat : u < dsz /\ (u < o \/ o + Length[h] <= u) => g[u] = img[u]
    BY <1>6, <2>1, SavedUnits
  <2> QED
    BY <1>4, <2>1, <2>2, <2>3
<1>8. Finished' = Finished
  BY <1>3 DEF Finished, Active, Pending, AddPoints
<1>9. ASSUME NEW j \in Finished
      PROVE  Holds(img', idx[j].offset, idx[j].hash)
  <2>1. PICK a \in Nat, g \in Hashes : /\ a = idx[j].offset /\ g = idx[j].hash
                                      /\ Past(j) = a + Length[g]
    BY <1>2, ChunkExtent
  <2>2. a + Length[g] <= dsz
    <3>1. Past(j) <= dsize /\ Past(j) \in Nat /\ dsize <= dsz /\ dsize \in Nat
      BY <1>2, <1>3, ChunkExtent, TypedFile DEF SpaceInv, FileInv, FileOK, InFile
    <3> QED
      BY <1>6, <2>1, <3>1
  <2>3. a + Length[g] <= o \/ e <= a
    <3>1. Avoids(dfree, a, a + Length[g])
      BY <1>2, <1>3, <2>1, ChunkExtent DEF SpaceInv, Space, FreeApart, Loaded, Serving
    <3> QED
      BY <1>3, <1>4, <3>1 DEF Avoids, Misses
  <2>4. Holds(img, a, g)
    BY <1>2, <2>1 DEF Content
  <2>5. Holds(img', a, g)
    BY <1>6, <1>7, <2>2, <2>3, <2>4, HoldsKept
  <2> QED
    BY <2>1, <2>5
<1> QED
  BY <1>3, <1>4, <1>7, <1>8, <1>9 DEF Content

\* A longer file keeps its units, and the add writes behind those of the chunks.
LEMMA AddGrowContent ==
  \A h \in Hashes, flags \in Flags : ContentInv /\ faults = {} /\ AddGrow(h, flags) => Content'
<1> SUFFICES ASSUME NEW h \in Hashes, NEW flags \in Flags, ContentInv, faults = {}, AddGrow(h, flags)
             PROVE  Content'
  OBVIOUS
<1>1. SpaceInv /\ Content /\ TypeInv
  BY DEF ContentInv, SpaceInv, FileInv
<1>2. /\ dsize \in Nat /\ Length[h] \in Nat /\ dsz \in Nat /\ dsize <= dsz
      /\ img \in [0 .. dsz - 1 -> Unit]
  BY <1>1, TypedFile, LengthAssumption
  DEF SpaceInv, FileInv, FileOK, InFile, AddGrow, TypeInv, TypeOK, DiskTypeOK
<1>3. PICK r \in Nat : r = ROUNDUP(dsize + Length[h]) /\ r >= dsize + Length[h]
  <2>1. dsize + Length[h] \in Nat
    BY <1>2
  <2>2. ROUNDUP(dsize + Length[h]) \in Nat /\ ROUNDUP(dsize + Length[h]) >= dsize + Length[h]
    BY <2>1, RoundedUp
  <2> QED
    BY <2>2
<1>4. /\ pc = "idle" /\ pc' = "create" /\ idx' = idx
      /\ cur'.hash = h /\ cur'.offset = dsize
      /\ img' = Saved(Truncated(img, r), r, dsize, h)
  BY <1>3 DEF AddGrow
<1>5. PICK f : f = Truncated(img, r) /\ f \in [0 .. r - 1 -> Unit]
  BY <1>2, TruncatedType
<1>6. \A u \in Nat : u < dsize => f[u] = img[u]
  <2> SUFFICES ASSUME NEW u \in Nat, u < dsize PROVE f[u] = img[u]
    OBVIOUS
  <2>1. u \in 0 .. r - 1 /\ u \in DOMAIN img
    BY <1>2, <1>3
  <2> QED
    BY <1>5, <2>1 DEF Truncated
<1>7. /\ Holds(img', dsize, h)
      /\ \A u \in Nat : u < r /\ (u < dsize \/ dsize + Length[h] <= u) => img'[u] = f[u]
  BY <1>2, <1>4, <1>5, SavedUnits
<1>8. \A u \in Nat : u < dsize => img'[u] = img[u]
  BY <1>2, <1>3, <1>6, <1>7
<1>9. Finished' = Finished
  BY <1>4 DEF Finished, Active, Pending, AddPoints
<1>10. ASSUME NEW j \in Finished
       PROVE  Holds(img', idx[j].offset, idx[j].hash)
  <2>1. PICK a \in Nat, g \in Hashes : /\ a = idx[j].offset /\ g = idx[j].hash
                                      /\ a + Length[g] <= dsize
    BY <1>1, <1>4, ChunkExtent
  <2>2. Holds(img, a, g)
    BY <1>1, <2>1 DEF Content
  <2>3. Holds(img', a, g)
    <3>1. PICK m \in Nat : m = Length[g] /\ a + m <= dsize
      BY <2>1, LengthAssumption
    <3>2. ASSUME NEW k \in Nat, k < m PROVE img'[a + k] = <<g, k>>
      <4>1. PICK u \in Nat : u = a + k /\ u < dsize
        BY <1>2, <3>1, <3>2
      <4> QED
        BY <1>8, <2>2, <3>1, <3>2, <4>1 DEF Holds
    <3> QED
      BY <3>1, <3>2 DEF Holds
  <2> QED
    BY <2>1, <2>3
<1> QED
  BY <1>4, <1>7, <1>9, <1>10 DEF Content

\* The last write of an add makes its content a chunk's.
LEMMA AddFlagsContent == ContentInv /\ faults = {} /\ AddFlags => Content'
<1> SUFFICES ASSUME ContentInv, faults = {}, AddFlags PROVE Content'
  OBVIOUS
<1>1. PICK s : s = cur.slot
  OBVIOUS
<1>2. /\ Finished' = Finished \cup {s}
      /\ \A i \in Finished : idx'[i] = idx[i]
      /\ idx'[s].offset = cur.offset /\ idx'[s].hash = cur.hash
      /\ pc = "flags" /\ pc' = "idle" /\ img' = img
  BY <1>1, AddedExtent DEF ContentInv
<1>3. Content
  BY DEF ContentInv
<1> QED
  BY <1>2, <1>3 DEF Content, AddPoints

\* The other steps write no unit.
LEMMA OtherContent ==
  ContentInv /\ faults = {} /\ faults' = {}
  /\ \/ Loading
     \/ CreatePop \/ CreateGrow \/ CreateHang \/ AddActive \/ AddHash \/ AddOffset
     \/ Calling
     \/ Close \/ CloseHang \/ Crash \/ UNCHANGED vars
  => Content'
<1> SUFFICES ASSUME ContentInv, faults = {}, faults' = {},
                    \/ Loading
                    \/ CreatePop \/ CreateGrow \/ CreateHang \/ AddActive \/ AddHash \/ AddOffset
                    \/ Calling
                    \/ Close \/ CloseHang \/ Crash \/ UNCHANGED vars
             PROVE  Content'
  OBVIOUS
<1>1. TypeInv /\ IndexInv /\ SpaceInv /\ Content
  BY DEF ContentInv, SpaceInv, FileInv, MapInv
<1>2. CASE CreatePop \/ CreateGrow \/ AddActive \/ AddHash \/ AddOffset
  <2>1. Untouched
    BY <1>1, <1>2, CreatePopUntouched, CreateGrowUntouched, WritesUntouched
  <2>2. pc \in AddPoints /\ cur'.hash = cur.hash /\ cur'.offset = cur.offset /\ img' = img
    BY <1>1, <1>2, SameAdd
  <2> QED
    BY <1>1, <2>1, <2>2, ContentKept DEF Untouched
<1>3. CASE Loading
  <2>1. Untouched /\ img' = img /\ pc' \notin AddPoints
    BY <1>1, <1>3, LoadingUntouched
    DEF Loading, Open, LoadFree, LoadActive, MarkStep, MarkDone, LoadDone, disk, AddPoints
  <2> QED
    BY <1>1, <2>1, ContentKept DEF Untouched
<1>4. CASE \/ CreateHang \/ Close \/ CloseHang \/ Crash
           \/ \E h : Leak(h) \/ GetHang(h)
  <2>1. img' = img /\ pc' \notin AddPoints
    BY <1>4 DEF CreateHang, Close, CloseHang, Crash, Leak, GetHang, Found, disk, AddPoints
  <2>2. Untouched
    BY <1>1, <1>4, OthersUntouched, CrashUntouched DEF Crash
  <2> QED
    BY <1>1, <2>1, <2>2, ContentKept DEF Untouched
<1>5. CASE \E h : RemoveChunk(h)
  <2>1. PICK h : RemoveChunk(h)
    BY <1>5
  <2>2. /\ pc' = "idle" /\ img' = img /\ Finished' \subseteq Finished
        /\ \A i \in Finished' : idx'[i] = idx[i]
    BY <1>1, <2>1, RemovedExtent
  <2> QED
    BY <1>1, <2>2, ContentKept DEF AddPoints
<1>6. CASE \E h : \E d \in Deltas : Adjrefs(h, d)
  <2>1. PICK h : \E d \in Deltas : Adjrefs(h, d)
    BY <1>6
  <2>2. PICK d \in Deltas : Adjrefs(h, d)
    BY <2>1
  <2>3. pc' = "idle" /\ img' = img
    BY <2>2 DEF Adjrefs, Found
  <2>4. /\ Finished' = Finished
        /\ \A i \in Finished : idx'[i].offset = idx[i].offset /\ idx'[i].hash = idx[i].hash
    BY <1>1, <2>2, FinishedRecounted
  <2> QED
    BY <1>1, <2>3, <2>4, ContentKept DEF AddPoints
<1>7. CASE UNCHANGED vars
  <2>1. Untouched /\ UNCHANGED <<img, pc, cur>>
    BY <1>7, OthersUntouched DEF vars, disk
  <2> QED
    BY <1>1, <2>1, ContentKept DEF Untouched
<1> QED
  BY <1>2, <1>3, <1>4, <1>5, <1>6, <1>7 DEF Calling

\* Every step keeps the content of the chunks.
LEMMA NextContent ==
  ASSUME NoEmptyChunk
  PROVE  ContentInv /\ [Next]_vars => ContentInv'
<1> SUFFICES ASSUME ContentInv, [Next]_vars, faults' = {} PROVE Content'
  BY NextSpace DEF ContentInv
<1>1. faults = {}
  BY FaultsStay
<1>2. CASE Loading \/ Calling \/ Close \/ CloseHang \/ Crash \/ UNCHANGED vars
  BY <1>1, <1>2, OtherContent
<1>3. CASE \E h \in Hashes, flags \in Flags : AddFit(h, flags) \/ AddGrow(h, flags)
  BY <1>1, <1>3, AddFitContent, AddGrowContent
<1>4. CASE Adding
  BY <1>1, <1>4, AddFlagsContent, OtherContent DEF Adding
<1> QED
  BY <1>2, <1>3, <1>4 DEF Next

\* The slots a serving process reads are those whose units are the chunk's.
LEMMA ContentFound == ContentInv => ContentSafe
<1> SUFFICES ASSUME ContentInv, faults = {}, Serving,
                    NEW h \in DOMAIN records \cap Hashes, NEW i, i = records[h]
             PROVE  /\ idx[i].length = Length[h]
                    /\ \A k \in 0 .. idx[i].length - 1 :
                         /\ idx[i].offset + k \in DOMAIN img
                         /\ img[idx[i].offset + k] = <<h, k>>
  BY DEF ContentSafe, ContentAddressed
<1>1. SpaceInv /\ Content /\ pc # "down"
  BY DEF ContentInv, Serving, AddPoints
<1>2. i \in Finished /\ idx[i].hash = h
  BY <1>1 DEF SpaceInv, MapInv, IndexInv, Loaded, MapExact
<1>3. /\ idx[i].offset \in Nat /\ idx[i].length \in Nat /\ idx[i].length = Length[h]
      /\ Past(i) = idx[i].offset + idx[i].length /\ Past(i) <= dsz
  BY <1>1, <1>2, ChunkExtent, FinishedInFile DEF SpaceInv
<1>4. dsz \in Nat /\ DOMAIN img = 0 .. dsz - 1
  BY <1>1 DEF SpaceInv, FileInv, TypeInv, TypeOK, DiskTypeOK
<1>5. Holds(img, idx[i].offset, h)
  BY <1>1, <1>2 DEF Content
<1> QED
  BY <1>3, <1>4, <1>5 DEF Holds

\* As long as no defect of the list has been exercised and no add was torn,
\* reading a stored hash gives the chunk of that hash, whatever was added,
\* removed and reopened.
THEOREM ContentAlwaysSafe ==
  ASSUME NoEmptyChunk
  PROVE  Spec => []ContentSafe
<1>1. ContentInv /\ [Next]_vars => ContentInv'
  BY NextContent
<1>2. Init => ContentInv
  <2> SUFFICES ASSUME Init PROVE Content
    BY InitSpace DEF ContentInv
  <2>1. Finished = {}
    BY DEF Init, Finished, Active
  <2> QED
    BY <2>1 DEF Init, Content, AddPoints
<1> QED
  BY <1>1, <1>2, ContentFound, PTL DEF Spec
=============================================================================
