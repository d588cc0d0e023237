----------------------------- MODULE StoreProofs -----------------------------
(***************************************************************************)
(* Invariants of Store for every set of hashes, every lengths, every page, *)
(* record and header size, and any kill.                                   *)
(*                                                                         *)
(* TypeOK is not inductive: a slot number read from the stack, from the    *)
(* map or from the add in progress is used to reach into the index file,   *)
(* so it has to lie inside it.  TypeInv says that it does.                 *)
(*                                                                         *)
(* First come the lemmas about the operators Store is built from: the free *)
(* list, sizes and slot counts, files cut and extended, one field of one   *)
(* record written, the records map and the counts; then TypeInv; and after *)
(* it the index, with a comment of its own.                                *)
(***************************************************************************)
EXTENDS StoreProperties, Lemmas

-----------------------------------------------------------------------------
(* The free list stays a list of entries. *)

\* A new free entry is one.
LEMMA FreeEntryType ==
  ASSUME NEW first \in Nat, NEW second \in Int
  PROVE  FreeEntry(first, second) \in Entry
<1>1. second % U32 \in 0 .. U32 - 1
  BY U32Assumption, Division
<1>2. second % U32 \in Nat
  BY <1>1, U32Assumption
<1> QED
  BY <1>2 DEF FreeEntry, Entry

(* DataFile::find takes from an entry of the list. *)
LEMMA TakeType ==
  ASSUME NEW free \in Seq(Entry), NEW length \in Nat, Fits(free, length) # {}
  PROVE  /\ FirstFit(free, length) \in 1 .. Len(free)
         /\ free[FirstFit(free, length)] \in Entry
         /\ free[FirstFit(free, length)].second >= length
         /\ Take(free, FirstFit(free, length), length) \in Seq(Entry)
<1> DEFINE i == FirstFit(free, length)
<1>1. Fits(free, length) \in SUBSET Nat
  BY DEF Fits
<1>2. i \in Fits(free, length)
  BY <1>1, LeastNat DEF FirstFit
<1>3. i \in 1 .. Len(free) /\ free[i].second >= length /\ free[i] \in Entry
  BY <1>2 DEF Fits
<1>4. RemoveAt(free, i) \in Seq(Entry)
  BY <1>3, RemoveAtFacts
<1>5. FreeEntry(free[i].first, free[i].second - length) \in Entry
  <2>1. free[i].first \in Nat /\ free[i].second - length \in Int
    BY <1>3 DEF Entry
  <2> HIDE DEF i
  <2> QED
    BY <2>1, FreeEntryType
<1>6. [free EXCEPT ![i] = FreeEntry(free[i].first, free[i].second - length)] \in Seq(Entry)
  BY <1>3, <1>5, ExceptSeq
<1> QED
  BY <1>3, <1>4, <1>6 DEF Take

(* Replacing one entry. *)
LEMMA ReplaceType ==
  ASSUME NEW free \in Seq(Entry), NEW i \in 1 .. Len(free),
         NEW first \in Nat, NEW second \in Int
  PROVE  [free EXCEPT ![i] = FreeEntry(first, second)] \in Seq(Entry)
<1>1. FreeEntry(first, second) \in Entry
  BY FreeEntryType
<1> QED
  BY <1>1, ExceptSeq

\* What an entry's fields are, and where it ends.
LEMMA EntryFields ==
  ASSUME NEW free \in Seq(Entry), NEW i \in 1 .. Len(free)
  PROVE  /\ free[i] \in Entry
         /\ free[i].first \in Nat /\ free[i].second \in Nat
         /\ End(free[i]) \in Nat /\ End(free[i]) = free[i].first + free[i].second
<1>1. free[i] \in Entry
  BY ElementOfSeq
<1> QED
  BY <1>1 DEF Entry, End

(* DataFile::mark edits the entry its iterator stands on. *)
LEMMA MarkType ==
  ASSUME NEW free \in Seq(Entry), NEW at \in 1 .. Len(free),
         NEW offset \in Nat, NEW end \in Nat
  PROVE  /\ MarkEntry(free, at, offset, end) \in Seq(Entry)
         /\ MarkNext(free, at, offset, end) \in Nat \ {0}
<1> DEFINE e == free[at]
<1>1. e.first \in Nat /\ e.second \in Nat /\ End(e) \in Nat
  BY EntryFields
<1>2. RemoveAt(free, at) \in Seq(Entry)
  BY RemoveAtFacts
<1>3. [free EXCEPT ![at] = FreeEntry(end, End(e) - end)] \in Seq(Entry)
  <2>1. End(e) - end \in Int
    BY <1>1
  <2> QED
    BY <2>1, ReplaceType
<1>4. [free EXCEPT ![at] = FreeEntry(e.first, offset - e.first)] \in Seq(Entry)
  <2>1. offset - e.first \in Int
    BY <1>1
  <2> QED
    BY <1>1, <2>1, ReplaceType
<1>5. InsertAt([free EXCEPT ![at] = FreeEntry(end, End(e) - end)], at,
               FreeEntry(e.first, offset - e.first)) \in Seq(Entry)
  <2>1. PICK g \in Seq(Entry) : g = [free EXCEPT ![at] = FreeEntry(end, End(e) - end)]
    BY <1>3
  <2>2. Len(g) = Len(free) /\ at \in 1 .. Len(g) + 1
    BY <2>1, LenProperties
  <2>3. PICK x \in Entry : x = FreeEntry(e.first, offset - e.first)
    BY <1>1, FreeEntryType
  <2>4. InsertAt(g, at, x) \in Seq(Entry)
    BY <2>2, InsertAtFacts
  <2> QED
    BY <2>1, <2>3, <2>4
<1>6. MarkEntry(free, at, offset, end) \in Seq(Entry)
  BY <1>2, <1>3, <1>4, <1>5 DEF MarkEntry, Erased
<1>7. MarkNext(free, at, offset, end) \in Nat \ {0}
  <2>1. at \in Nat \ {0}
    BY LenProperties
  <2> QED
    BY <2>1 DEF MarkNext
<1> QED
  BY <1>6, <1>7

(* DataFile::release edits at most two entries, or inserts one. *)
LEMMA ReleaseType ==
  ASSUME NEW free \in Seq(Entry), NEW offset \in Nat, NEW length \in Nat
  PROVE  Release(free, offset, length) \in Seq(Entry)
<1> DEFINE i == ReleasePoint(free, offset)
           stops == {k \in DOMAIN free : StopsAt(free[k], offset)}
           grown == GrownAt(free, i, length)
           bridged == FreeEntry(grown.first, free[i + 1].second + grown.second)
<1>1. Len(free) \in Nat /\ DOMAIN free = 1 .. Len(free)
  BY LenProperties
<1>2. i \in 1 .. Len(free) + 1
  <2>1. CASE stops = {}
    BY <1>1, <2>1 DEF ReleasePoint
  <2>2. CASE stops # {}
    <3>1. stops \in SUBSET Nat /\ stops \subseteq 1 .. Len(free)
      BY <1>1
    <3>2. Min(stops) \in stops
      <4> HIDE DEF stops
      <4> QED
        BY <2>2, <3>1, LeastNat
    <3> QED
      BY <1>1, <2>2, <3>1, <3>2 DEF ReleasePoint
  <2> QED
    BY <2>1, <2>2
<1> HIDE DEF i
<1>3. InsertAt(free, i, FreeEntry(offset, length)) \in Seq(Entry)
  <2>1. PICK x \in Entry : x = FreeEntry(offset, length)
    BY FreeEntryType
  <2>2. InsertAt(free, i, x) \in Seq(Entry)
    BY <1>2, InsertAtFacts
  <2> QED
    BY <2>1, <2>2
<1>4. ASSUME i <= Len(free)
      PROVE  /\ grown \in Entry
             /\ [free EXCEPT ![i] = grown] \in Seq(Entry)
             /\ [free EXCEPT ![i] = FreeEntry(offset, free[i].second + length)] \in Seq(Entry)
  <2>1. i \in 1 .. Len(free)
    BY <1>1, <1>2, <1>4
  <2>2. free[i].first \in Nat /\ free[i].second + length \in Int
    BY <2>1, EntryFields
  <2>3. grown \in Entry
    BY <2>2, FreeEntryType DEF GrownAt
  <2> QED
    BY <2>1, <2>2, <2>3, ReplaceType DEF GrownAt
<1>5. ASSUME i < Len(free)
      PROVE  [free EXCEPT ![i] = grown, ![i + 1] = bridged] \in Seq(Entry)
  <2>1. i \in 1 .. Len(free) /\ i + 1 \in 1 .. Len(free) /\ i <= Len(free)
    BY <1>1, <1>2, <1>5
  <2>2. free[i + 1].second \in Nat
    BY <2>1, EntryFields
  <2>3. grown.first \in Nat /\ grown.second \in Nat
    BY <1>4, <2>1 DEF Entry
  <2>4. bridged \in Entry
    BY <2>2, <2>3, FreeEntryType
  <2> HIDE DEF bridged, grown
  <2>5. [free EXCEPT ![i] = grown] \in Seq(Entry)
        /\ Len([free EXCEPT ![i] = grown]) = Len(free)
    BY <1>4, <2>1, ExceptSeq
  <2>6. [[free EXCEPT ![i] = grown] EXCEPT ![i + 1] = bridged] \in Seq(Entry)
    BY <2>1, <2>4, <2>5, ExceptSeq
  <2> QED
    BY <2>6
<1>6. Bridges(free, offset, length) => i < Len(free)
  BY DEF Bridges, i
<1> QED
  BY <1>3, <1>4, <1>5, <1>6 DEF Release, i

-----------------------------------------------------------------------------
(* Sizes. *)

(* A file is never cut below the size that was asked for (AutoFile::setsize). *)
LEMMA RoundedUp ==
  ASSUME NEW x \in Nat
  PROVE  ROUNDUP(x) \in Nat /\ ROUNDUP(x) >= x
<1> DEFINE y == x + (PAGESIZE - 1)
<1>1. y \in Nat /\ PAGESIZE \in Nat \ {0}
  BY PageAssumption
<1>2. /\ y \div PAGESIZE \in Int
      /\ y % PAGESIZE \in 0 .. PAGESIZE - 1
      /\ y = PAGESIZE * (y \div PAGESIZE) + (y % PAGESIZE)
  BY <1>1, Division
<1>3. PAGESIZE * (y \div PAGESIZE) >= x
  BY <1>1, <1>2
<1>4. PAGESIZE * (y \div PAGESIZE) \in Int
  BY <1>1, <1>2
<1> QED
  BY <1>3, <1>4 DEF ROUNDUP

(* A larger index file holds at least as many records. *)
LEMMA RecordsMonotone ==
  ASSUME NEW a \in Nat, NEW b \in Nat, a <= b
  PROVE  Records(a) \in Nat /\ Records(b) \in Nat /\ Records(a) <= Records(b)
<1>1. HEADER \in Nat /\ RECORD \in Nat \ {0}
  BY IndexAssumption
<1>2. \A x \in Nat : Records(x) \in Nat
  <2> TAKE x \in Nat
  <2>1. CASE x < HEADER
    BY <2>1 DEF Records
  <2>2. CASE x >= HEADER
    <3>1. PICK q \in Int, r \in 0 .. RECORD - 1 :
            q = (x - HEADER) \div RECORD /\ x - HEADER = RECORD * q + r
      BY <1>1, <2>2, Division
    <3>2. q \in Nat
      BY <1>1, <2>2, <3>1
    <3> QED
      BY <1>1, <2>2, <3>1, <3>2 DEF Records
  <2> QED
    BY <1>1, <2>1, <2>2
<1>3. Records(a) <= Records(b)
  <2>1. CASE a < HEADER
    BY <1>1, <1>2, <2>1 DEF Records
  <2>2. CASE a >= HEADER
    <3>1. PICK p \in Int, r \in 0 .. RECORD - 1 :
            p = (a - HEADER) \div RECORD /\ a - HEADER = RECORD * p + r
      BY <1>1, <2>2, Division
    <3>2. PICK q \in Int, s \in 0 .. RECORD - 1 :
            q = (b - HEADER) \div RECORD /\ b - HEADER = RECORD * q + s
      BY <1>1, <2>2, Division
    <3>3. q < p => RECORD * q + RECORD <= RECORD * p
      <4> SUFFICES ASSUME q < p PROVE RECORD * q + RECORD <= RECORD * p
        OBVIOUS
      <4>1. PICK k \in Nat : p = q + 1 + k
        <5> WITNESS p - q - 1 \in Nat
        <5> QED OBVIOUS
      <4>2. RECORD * p = RECORD * q + RECORD + RECORD * k /\ RECORD * k >= 0
        BY <1>1, <4>1
      <4> QED
        BY <1>1, <4>2
    <3>4. p <= q
      BY <1>1, <3>1, <3>2, <3>3
    <3> QED
      BY <1>1, <2>2, <3>1, <3>2, <3>4 DEF Records
  <2> QED
    BY <1>1, <2>1, <2>2
<1> QED
  BY <1>2, <1>3

(* An index grown by INDEXGROWTH records has that many more slots. *)
LEMMA RecordsGrown ==
  ASSUME NEW a \in Nat, a >= HEADER
  PROVE  /\ a + INDEXGROWTH * RECORD \in Nat
         /\ Records(a) \in Nat
         /\ Records(a + INDEXGROWTH * RECORD) = Records(a) + INDEXGROWTH
<1>1. HEADER \in Nat /\ RECORD \in Nat \ {0} /\ INDEXGROWTH \in Nat
  BY IndexAssumption
<1>2. INDEXGROWTH * RECORD \in Nat
  BY <1>1
<1>3. PICK q \in Int, r \in 0 .. RECORD - 1 :
        q = (a - HEADER) \div RECORD /\ a - HEADER = RECORD * q + r
  BY <1>1, Division
<1>4. PICK b \in Nat : b = a + INDEXGROWTH * RECORD
  BY <1>2
<1>5. PICK c \in Int, p \in Int :
        c = b - HEADER /\ p = q + INDEXGROWTH /\ c = RECORD * p + r
  BY <1>1, <1>3, <1>4
<1>6. c \div RECORD = p
  BY <1>1, <1>5, Quotient
<1>7. Records(a) = q /\ Records(b) = q + INDEXGROWTH
  BY <1>1, <1>2, <1>3, <1>4, <1>5, <1>6 DEF Records
<1>8. Records(a) \in Nat
  BY RecordsMonotone
<1> QED
  BY <1>4, <1>7, <1>8

-----------------------------------------------------------------------------
(* Files. *)

\* A slot of zeros is a slot.
LEMMA ZeroSlotType == ZeroSlot \in Slot
BY RefsAssumption DEF ZeroSlot, Slot, ZeroHash, ChunkTypes

(* The slots of a file that was cut or extended: what was there, and zeros. *)
LEMMA SlottedType ==
  ASSUME NEW k \in Nat, NEW slots \in [0 .. k - 1 -> Slot], NEW size
  PROVE  /\ Slotted(slots, size) \in [0 .. Records(size) - 1 -> Slot]
         /\ \A i \in 0 .. Records(size) - 1 :
              Slotted(slots, size)[i] = IF i \in 0 .. k - 1 THEN slots[i] ELSE ZeroSlot
BY ZeroSlotType DEF Slotted

\* No add in progress is one of the values of cur.
LEMMA NoAddType == NoAdd \in Add
BY RefsAssumption DEF NoAdd, Add, ZeroHash, ChunkTypes

\* The flags a client may give have a type and references that fit.
LEMMA FlagsType ==
  ASSUME NEW flags \in Flags
  PROVE  /\ flags.type \in Types /\ flags.type \in ChunkTypes \cup {"OTHER"}
         /\ flags.refs \in GivenRefs /\ flags.refs \in 0 .. REFS - 1
BY TypesAssumption, GivenRefsAssumption DEF Flags

\* A unit of zeros is a unit.
LEMMA BlankType == Blank \in Unit
BY DEF Blank, Unit, ZeroHash

\* A data file cut or extended (AutoFile::setsize) holds units.
LEMMA TruncatedType ==
  ASSUME NEW k \in Nat, NEW units \in [0 .. k - 1 -> Unit], NEW size \in Nat
  PROVE  Truncated(units, size) \in [0 .. size - 1 -> Unit]
BY BlankType DEF Truncated

\* A data file written to (DataFile::save) holds units.
LEMMA SavedType ==
  ASSUME NEW size \in Nat, NEW units \in [0 .. size - 1 -> Unit],
         NEW offset \in Nat, NEW h \in Hashes
  PROVE  /\ EndOfWrite(size, offset, Length[h]) \in Nat
         /\ Saved(units, size, offset, h)
              \in [0 .. EndOfWrite(size, offset, Length[h]) - 1 -> Unit]
<1>1. Length[h] \in Nat
  BY LengthAssumption
<1>2. EndOfWrite(size, offset, Length[h]) \in Nat
  BY <1>1 DEF EndOfWrite
<1>3. \A u \in 0 .. EndOfWrite(size, offset, Length[h]) - 1 :
        offset <= u => <<h, u - offset>> \in Unit
  BY <1>2 DEF Unit
<1>4. \A u \in 0 .. EndOfWrite(size, offset, Length[h]) - 1 :
        u < size => units[u] \in Unit
  BY <1>2
<1> QED
  BY <1>1, <1>2, <1>3, <1>4, BlankType DEF Saved

-----------------------------------------------------------------------------
(* The maps of the store. *)

\* Counting a chunk or its removal leaves counts.
LEMMA CountedType ==
  ASSUME NEW counts \in [ChunkTypes -> Int], NEW t, NEW d \in Int
  PROVE  Counted(counts, t, d) \in [ChunkTypes -> Int]
BY DEF Counted

\* Store::records with one hash more.
LEMMA MappedType ==
  ASSUME NEW H, NEW T, NEW map, DOMAIN map \subseteq H, map \in [DOMAIN map -> T],
         NEW h \in H, NEW i \in T
  PROVE  /\ DOMAIN Mapped(map, h, i) \subseteq H
         /\ Mapped(map, h, i) \in [DOMAIN Mapped(map, h, i) -> T]
BY DEF Mapped

\* Store::records with one hash less.
LEMMA UnmappedType ==
  ASSUME NEW H, NEW T, NEW map, DOMAIN map \subseteq H, map \in [DOMAIN map -> T], NEW h
  PROVE  /\ DOMAIN Unmapped(map, h) \subseteq H
         /\ Unmapped(map, h) \in [DOMAIN Unmapped(map, h) -> T]
BY DEF Unmapped, Restrict

\* A growth of the index frees the new slots but the first
\* (IndexFile::create).
LEMMA NewSlotsFacts ==
  ASSUME NEW a \in Nat, NEW b \in Nat, a < b
  PROVE  /\ NewSlots(a, b) \in Seq(Nat)
         /\ DOMAIN NewSlots(a, b) = 1 .. b - a - 1
         /\ \A k \in 1 .. b - a - 1 : NewSlots(a, b)[k] = a + k
<1>1. PICK m \in Nat : m = b - a - 1
  OBVIOUS
<1>2. NewSlots(a, b) = [k \in 1 .. m |-> a + k]
  BY <1>1 DEF NewSlots
<1>3. NewSlots(a, b) \in [1 .. m -> Nat]
  BY <1>2
<1>4. NewSlots(a, b) \in Seq(Nat)
  BY <1>3, SeqDef
<1> QED
  BY <1>1, <1>2, <1>4

-----------------------------------------------------------------------------
(* One field of one slot written, as a store through record_t* does. *)

\* Setting a slot's active flag changes nothing else.
LEMMA SetActive ==
  ASSUME NEW D, NEW f \in [D -> Slot], NEW i \in D,
         NEW g, g = [f EXCEPT ![i].active = TRUE]
  PROVE  /\ g \in [D -> Slot]
         /\ \A j \in D \ {i} : g[j] = f[j]
         /\ g[i].active = TRUE /\ g[i].hash = f[i].hash /\ g[i].offset = f[i].offset
         /\ g[i].length = f[i].length /\ g[i].type = f[i].type /\ g[i].refs = f[i].refs
BY DEF Slot

\* Clearing a slot's active flag changes nothing else.
LEMMA SetInactive ==
  ASSUME NEW D, NEW f \in [D -> Slot], NEW i \in D,
         NEW g, g = [f EXCEPT ![i].active = FALSE]
  PROVE  /\ g \in [D -> Slot]
         /\ \A j \in D \ {i} : g[j] = f[j]
         /\ g[i].active = FALSE /\ g[i].hash = f[i].hash /\ g[i].offset = f[i].offset
         /\ g[i].length = f[i].length /\ g[i].type = f[i].type /\ g[i].refs = f[i].refs
BY DEF Slot

\* Writing a slot's hash changes nothing else.
LEMMA SetHash ==
  ASSUME NEW D, NEW f \in [D -> Slot], NEW i \in D, NEW v \in Hashes \cup {ZeroHash},
         NEW g, g = [f EXCEPT ![i].hash = v]
  PROVE  /\ g \in [D -> Slot]
         /\ \A j \in D \ {i} : g[j] = f[j]
         /\ g[i].active = f[i].active /\ g[i].hash = v /\ g[i].offset = f[i].offset
         /\ g[i].length = f[i].length /\ g[i].type = f[i].type /\ g[i].refs = f[i].refs
BY DEF Slot

\* Writing a slot's offset changes nothing else.
LEMMA SetOffset ==
  ASSUME NEW D, NEW f \in [D -> Slot], NEW i \in D, NEW v \in Nat,
         NEW g, g = [f EXCEPT ![i].offset = v]
  PROVE  /\ g \in [D -> Slot]
         /\ \A j \in D \ {i} : g[j] = f[j]
         /\ g[i].active = f[i].active /\ g[i].hash = f[i].hash /\ g[i].offset = v
         /\ g[i].length = f[i].length /\ g[i].type = f[i].type /\ g[i].refs = f[i].refs
BY DEF Slot

\* Writing a slot's length changes nothing else.
LEMMA SetLength ==
  ASSUME NEW D, NEW f \in [D -> Slot], NEW i \in D, NEW v \in Nat,
         NEW g, g = [f EXCEPT ![i].length = v]
  PROVE  /\ g \in [D -> Slot]
         /\ \A j \in D \ {i} : g[j] = f[j]
         /\ g[i].active = f[i].active /\ g[i].hash = f[i].hash /\ g[i].offset = f[i].offset
         /\ g[i].length = v /\ g[i].type = f[i].type /\ g[i].refs = f[i].refs
BY DEF Slot

\* Writing a slot's type changes nothing else.
LEMMA SetType ==
  ASSUME NEW D, NEW f \in [D -> Slot], NEW i \in D, NEW v \in ChunkTypes \cup {"OTHER"},
         NEW g, g = [f EXCEPT ![i].type = v]
  PROVE  /\ g \in [D -> Slot]
         /\ \A j \in D \ {i} : g[j] = f[j]
         /\ g[i].active = f[i].active /\ g[i].hash = f[i].hash /\ g[i].offset = f[i].offset
         /\ g[i].length = f[i].length /\ g[i].type = v /\ g[i].refs = f[i].refs
BY DEF Slot

\* Writing a slot's refs changes nothing else.
LEMMA SetRefs ==
  ASSUME NEW D, NEW f \in [D -> Slot], NEW i \in D, NEW v \in 0 .. REFS - 1,
         NEW g, g = [f EXCEPT ![i].refs = v]
  PROVE  /\ g \in [D -> Slot]
         /\ \A j \in D \ {i} : g[j] = f[j]
         /\ g[i].active = f[i].active /\ g[i].hash = f[i].hash /\ g[i].offset = f[i].offset
         /\ g[i].length = f[i].length /\ g[i].type = f[i].type /\ g[i].refs = v
BY DEF Slot

-----------------------------------------------------------------------------
(* The inductive invariant. *)

\* The index file is at least as large as the part the process looks at, and
\* each slot number the process holds is in that part.
TypeInv ==
  /\ TypeOK
  /\ pc = "down" => isize = 0
  /\ pc # "down" => HEADER <= isize /\ isize <= isz
  /\ \A k \in DOMAIN ifree : ifree[k] \in Slots
  /\ \A h \in DOMAIN records : records[h] \in Slots
  /\ pc = "mark" => li \in Slots
  /\ pc \in AddPoints => cur.hash \in Hashes
  /\ pc \in AddPoints \ {"create"} => cur.slot \in Slots

-----------------------------------------------------------------------------

\* The slots the process knows of (IndexFile::records) are in the file.
LEMMA SlotsInFile ==
  ASSUME TypeInv
  PROVE  Slots \subseteq Nat /\ (pc # "down" => Slots \subseteq 0 .. Records(isz) - 1)
<1>1. isize \in Nat /\ isz \in Nat
  BY DEF TypeInv, TypeOK, MemoryTypeOK, DiskTypeOK
<1>2. Records(isize) \in Nat /\ Records(isz) \in Nat
  BY <1>1, RecordsMonotone
<1>3. pc # "down" => Records(isize) <= Records(isz)
  BY <1>1, RecordsMonotone DEF TypeInv
<1> QED
  BY <1>2, <1>3 DEF Slots

\* What a process that ends leaves behind.
LEMMA ForgetType ==
  ASSUME TypeInv, Forget, UNCHANGED disk, pc' = "down",
         faults' \subseteq {"partial", "bridge"} \cup TornPoints
  PROVE  TypeInv'
<1>1. DiskTypeOK'
  BY DEF TypeInv, TypeOK, DiskTypeOK, disk
<1>2. MemoryTypeOK'
  <2>1. /\ isize' = 0 /\ use' = 0 /\ dsize' = 0
        /\ ifree' = <<>> /\ dfree' = <<>> /\ records' = <<>>
        /\ n' = Zeros /\ cur' = NoAdd
    BY DEF Forget
  <2>2. n' \in [ChunkTypes -> Int]
    BY <2>1 DEF Zeros
  <2>3. cur' \in Add
    BY <2>1, NoAddType
  <2>4. /\ DOMAIN records' \subseteq Hashes \cup {ZeroHash}
        /\ records' \in [DOMAIN records' -> Nat]
    BY <2>1
  <2>5. ifree' \in Seq(Nat) /\ dfree' \in Seq(Entry)
    BY <2>1
  <2> QED
    BY <2>1, <2>2, <2>3, <2>4, <2>5 DEF MemoryTypeOK
<1>3. pc' \in Points /\ li' \in Nat /\ it' \in Nat \ {0}
  BY DEF Forget, Points
<1>4. DOMAIN ifree' = {} /\ DOMAIN records' = {} /\ isize' = 0
  BY DEF Forget
<1> QED
  BY <1>1, <1>2, <1>3, <1>4 DEF TypeInv, TypeOK, AddPoints

\* The invariant holds of an empty store.
THEOREM InitType == Init => TypeInv
<1> SUFFICES ASSUME Init PROVE TypeInv
  OBVIOUS
<1>1. DiskTypeOK
  <2>1. Records(0) = 0
    BY IndexAssumption DEF Records
  <2> QED
    BY <2>1 DEF Init, DiskTypeOK
<1>2. MemoryTypeOK
  <2>1. n \in [ChunkTypes -> Int]
    BY DEF Init, Zeros
  <2>2. cur \in Add
    BY NoAddType DEF Init
  <2>3. DOMAIN records \subseteq Hashes \cup {ZeroHash} /\ records \in [DOMAIN records -> Nat]
    BY DEF Init
  <2> QED
    BY <2>1, <2>2, <2>3 DEF Init, MemoryTypeOK
<1> QED
  BY <1>1, <1>2 DEF Init, TypeInv, TypeOK, Points, AddPoints

-----------------------------------------------------------------------------
(* Opening. *)

\* Opening the files (the constructors of AutoFile, IndexFile and DataFile)
\* keeps TypeInv.
LEMMA OpenType == TypeInv /\ Open => TypeInv'
<1> SUFFICES ASSUME TypeInv, Open PROVE TypeInv'
  OBVIOUS
<1>1. isz' \in Nat /\ isize' \in Nat /\ HEADER <= isize' /\ isize' <= isz'
  BY IndexAssumption, RoundedUp DEF Open, TypeInv, TypeOK, DiskTypeOK
<1>2. DiskTypeOK'
  <2>1. Records(isz) \in Nat
    BY RecordsMonotone DEF TypeInv, TypeOK, DiskTypeOK
  <2>2. idx' \in [0 .. Records(isz') - 1 -> Slot]
    BY <2>1, SlottedType DEF Open, TypeInv, TypeOK, DiskTypeOK
  <2> QED
    BY <1>1, <2>2 DEF Open, TypeInv, TypeOK, DiskTypeOK
<1>3. MemoryTypeOK'
  <2>1. dsize' \in Nat /\ dfree' \in Seq(Entry)
    BY FreeEntryType DEF Open, TypeInv, TypeOK, DiskTypeOK
  <2> QED
    BY <1>1, <2>1 DEF Open, TypeInv, TypeOK, MemoryTypeOK
<1>4. Slots \subseteq Slots'
  BY <1>1, RecordsMonotone DEF Slots, Open, TypeInv
<1>5. pc' = "load" /\ ifree' = ifree /\ records' = records
      /\ li' = li /\ it' = it /\ faults' = faults
  BY DEF Open, loop
<1> QED
  BY <1>1, <1>2, <1>3, <1>4, <1>5 DEF TypeInv, TypeOK, Points, AddPoints

\* Loading an inactive slot (IndexFile's constructor) keeps TypeInv.
LEMMA LoadFreeType == TypeInv /\ LoadFree => TypeInv'
<1> SUFFICES ASSUME TypeInv, LoadFree PROVE TypeInv'
  OBVIOUS
<1>1. /\ pc = "load" /\ li \in Slots /\ ifree' = Append(ifree, li) /\ li' = li + 1
      /\ pc' = pc /\ UNCHANGED <<idx, isz, img, dsz, isize, use, dsize, dfree>>
      /\ UNCHANGED <<records, n, cur, it, faults>>
  BY DEF LoadFree, disk, dvars
<1>2. li \in Nat /\ ifree \in Seq(Nat)
  BY DEF TypeInv, TypeOK, MemoryTypeOK
<1>3. ifree' \in Seq(Nat) /\ \A k \in DOMAIN ifree' : ifree'[k] \in Slots
  BY <1>1, <1>2 DEF TypeInv
<1>4. Slots' = Slots /\ DiskTypeOK' /\ MemoryTypeOK'
  BY <1>1, <1>3 DEF Slots, TypeInv, TypeOK, DiskTypeOK, MemoryTypeOK
<1> QED
  BY <1>1, <1>2, <1>3, <1>4 DEF TypeInv, TypeOK, AddPoints

\* Coming to an active slot (Store's constructor) keeps TypeInv.
LEMMA LoadActiveType == TypeInv /\ LoadActive => TypeInv'
<1> SUFFICES ASSUME TypeInv, LoadActive PROVE TypeInv'
  OBVIOUS
<1>1. /\ pc = "load" /\ li \in Slots /\ n' = Counted(n, idx[li].type, 1) /\ it' = 1
      /\ pc' = "mark" /\ UNCHANGED <<idx, isz, img, dsz, isize, ifree, use, dsize, dfree>>
      /\ UNCHANGED <<records, cur, li, faults>>
  BY DEF LoadActive, disk, ivars, dvars
<1>2. n' \in [ChunkTypes -> Int]
  BY <1>1, CountedType DEF TypeInv, TypeOK, MemoryTypeOK
<1>3. Slots' = Slots /\ DiskTypeOK' /\ MemoryTypeOK'
  BY <1>1, <1>2 DEF Slots, TypeInv, TypeOK, DiskTypeOK, MemoryTypeOK
<1> QED
  BY <1>1, <1>3 DEF TypeInv, TypeOK, AddPoints, Points

\* One iteration of DataFile::mark keeps TypeInv.
LEMMA MarkStepType == TypeInv /\ MarkStep => TypeInv'
<1> SUFFICES ASSUME TypeInv, MarkStep PROVE TypeInv'
  OBVIOUS
<1> DEFINE offset == idx[li].offset
           end == idx[li].offset + idx[li].length
<1>1. /\ pc = "mark" /\ it <= Len(dfree)
      /\ dfree' = MarkEntry(dfree, it, offset, end)
      /\ it' = MarkNext(dfree, it, offset, end)
      /\ pc' = pc /\ UNCHANGED <<idx, isz, img, dsz, isize, ifree, use, dsize>>
      /\ UNCHANGED <<records, n, cur, li, faults>>
  BY DEF MarkStep, disk, ivars
<1>2. idx[li] \in Slot
  BY <1>1, SlotsInFile DEF TypeInv, TypeOK, DiskTypeOK
<1>3. offset \in Nat /\ end \in Nat
  BY <1>2 DEF Slot
<1>4. dfree \in Seq(Entry) /\ it \in 1 .. Len(dfree)
  BY <1>1 DEF TypeInv, TypeOK, MemoryTypeOK
<1>5. dfree' \in Seq(Entry) /\ it' \in Nat \ {0}
  <2> HIDE DEF offset, end
  <2>1. PICK o \in Nat, e \in Nat : o = offset /\ e = end
    BY <1>3
  <2>2. MarkEntry(dfree, it, o, e) \in Seq(Entry) /\ MarkNext(dfree, it, o, e) \in Nat \ {0}
    BY <1>4, MarkType
  <2> QED
    BY <1>1, <2>1, <2>2
<1>6. Slots' = Slots /\ DiskTypeOK' /\ MemoryTypeOK'
  BY <1>1, <1>5 DEF Slots, TypeInv, TypeOK, DiskTypeOK, MemoryTypeOK
<1> QED
  BY <1>1, <1>5, <1>6 DEF TypeInv, TypeOK, AddPoints

\* The map entry of a loaded slot (Store's constructor) keeps TypeInv.
LEMMA MarkDoneType == TypeInv /\ MarkDone => TypeInv'
<1> SUFFICES ASSUME TypeInv, MarkDone PROVE TypeInv'
  OBVIOUS
<1>1. /\ pc = "mark" /\ records' = Mapped(records, idx[li].hash, li)
      /\ li' = li + 1 /\ pc' = "load"
      /\ UNCHANGED <<idx, isz, img, dsz, isize, ifree, use, dsize, dfree>>
      /\ UNCHANGED <<n, cur, it, faults>>
  BY DEF MarkDone, disk, ivars, dvars
<1>2. idx[li] \in Slot /\ li \in Slots /\ li \in Nat
  BY <1>1, SlotsInFile DEF TypeInv, TypeOK, DiskTypeOK
<1>3. idx[li].hash \in Hashes \cup {ZeroHash}
  BY <1>2 DEF Slot
<1>4. /\ DOMAIN records' \subseteq Hashes \cup {ZeroHash}
      /\ records' \in [DOMAIN records' -> Nat]
      /\ \A h \in DOMAIN records' : records'[h] \in Slots
  <2>1. PICK x \in Hashes \cup {ZeroHash} : x = idx[li].hash
    BY <1>3
  <2>2. records' = Mapped(records, x, li)
    BY <1>1, <2>1
  <2>3. /\ DOMAIN records' = DOMAIN records \cup {x}
        /\ \A h \in DOMAIN records' : records'[h] = IF h = x THEN li ELSE records[h]
    BY <2>2 DEF Mapped
  <2>4. \A h \in DOMAIN records' : records'[h] \in Slots
    BY <1>2, <2>3 DEF TypeInv
  <2> QED
    BY <1>2, <2>2, <2>4, MappedType DEF TypeInv, TypeOK, MemoryTypeOK
<1>5. Slots' = Slots /\ DiskTypeOK' /\ MemoryTypeOK'
  BY <1>1, <1>4 DEF Slots, TypeInv, TypeOK, DiskTypeOK, MemoryTypeOK
<1> QED
  BY <1>1, <1>2, <1>4, <1>5 DEF TypeInv, TypeOK, AddPoints, Points

-----------------------------------------------------------------------------
(* Store::add. *)

\* An add into a free extent (DataFile::find) keeps TypeInv.
LEMMA AddFitType == \A h \in Hashes, flags \in Flags : TypeInv /\ AddFit(h, flags) => TypeInv'
<1> SUFFICES ASSUME NEW h \in Hashes, NEW flags \in Flags, TypeInv, AddFit(h, flags)
             PROVE  TypeInv'
  OBVIOUS
<1> DEFINE i == FirstFit(dfree, Length[h])
           offset == dfree[i].first
<1>1. /\ pc = "idle" /\ Fits(dfree, Length[h]) # {}
      /\ dfree' = Take(dfree, i, Length[h])
      /\ img' = Saved(img, dsz, offset, h)
      /\ dsz' = EndOfWrite(dsz, offset, Length[h])
      /\ cur' = [hash |-> h, type |-> flags.type, refs |-> flags.refs,
                 offset |-> offset, slot |-> 0]
      /\ pc' = "create"
      /\ faults' \subseteq faults \cup {"partial"}
      /\ UNCHANGED <<idx, isz, isize, ifree, use, dsize, records, n, li, it>>
  BY DEF AddFit, ivars, loop
<1>2. Length[h] \in Nat /\ dfree \in Seq(Entry)
  BY LengthAssumption DEF TypeInv, TypeOK, MemoryTypeOK
<1>3. dfree' \in Seq(Entry) /\ dfree[i] \in Entry
  BY <1>1, <1>2, TakeType
<1>4. offset \in Nat
  BY <1>3 DEF Entry
<1>5. DiskTypeOK'
  BY <1>1, <1>4, SavedType DEF TypeInv, TypeOK, DiskTypeOK
<1>6. cur' \in Add /\ cur'.hash \in Hashes
  BY <1>1, <1>4, FlagsType DEF Add
<1>7. Slots' = Slots /\ MemoryTypeOK'
  BY <1>1, <1>3, <1>6 DEF Slots, TypeInv, TypeOK, MemoryTypeOK
<1> QED
  BY <1>1, <1>5, <1>6, <1>7 DEF TypeInv, TypeOK, AddPoints, Points

\* An add past the end of the data file (DataFile::find) keeps TypeInv.
LEMMA AddGrowType == \A h \in Hashes, flags \in Flags : TypeInv /\ AddGrow(h, flags) => TypeInv'
<1> SUFFICES ASSUME NEW h \in Hashes, NEW flags \in Flags, TypeInv, AddGrow(h, flags)
             PROVE  TypeInv'
  OBVIOUS
<1> DEFINE rounded == ROUNDUP(dsize + Length[h])
<1>1. /\ pc = "idle" /\ dsize' = dsize + Length[h]
      /\ img' = Saved(Truncated(img, rounded), rounded, dsize, h)
      /\ dsz' = rounded
      /\ cur' = [hash |-> h, type |-> flags.type, refs |-> flags.refs,
                 offset |-> dsize, slot |-> 0]
      /\ pc' = "create"
      /\ UNCHANGED <<idx, isz, isize, ifree, use, dfree, records, n, li, it, faults>>
  BY DEF AddGrow, ivars, loop
<1>2. Length[h] \in Nat /\ dsize \in Nat /\ dsize' \in Nat
  BY <1>1, LengthAssumption DEF TypeInv, TypeOK, MemoryTypeOK
<1>3. rounded \in Nat /\ rounded >= dsize + Length[h]
  BY <1>2, RoundedUp
<1>4. EndOfWrite(rounded, dsize, Length[h]) = rounded
  BY <1>2, <1>3 DEF EndOfWrite
<1>5. Truncated(img, rounded) \in [0 .. rounded - 1 -> Unit]
  BY <1>3, TruncatedType DEF TypeInv, TypeOK, DiskTypeOK
<1>6. DiskTypeOK'
  <2> HIDE DEF rounded
  <2>1. PICK r \in Nat : r = rounded
    BY <1>3
  <2>2. PICK units \in [0 .. r - 1 -> Unit] : units = Truncated(img, rounded)
    BY <1>5, <2>1
  <2>3. Saved(units, r, dsize, h) \in [0 .. EndOfWrite(r, dsize, Length[h]) - 1 -> Unit]
    BY <1>2, SavedType
  <2>4. img' \in [0 .. rounded - 1 -> Unit]
    BY <1>1, <1>4, <2>1, <2>2, <2>3
  <2> QED
    BY <1>1, <1>3, <2>4 DEF TypeInv, TypeOK, DiskTypeOK
<1>7. cur' \in Add /\ cur'.hash \in Hashes
  BY <1>1, <1>2, FlagsType DEF Add
<1>8. Slots' = Slots /\ MemoryTypeOK'
  BY <1>1, <1>2, <1>7 DEF Slots, TypeInv, TypeOK, MemoryTypeOK
<1> QED
  BY <1>1, <1>6, <1>7, <1>8 DEF TypeInv, TypeOK, AddPoints, Points

\* A slot from the stack (IndexFile::create) keeps TypeInv.
LEMMA CreatePopType == TypeInv /\ CreatePop => TypeInv'
<1> SUFFICES ASSUME TypeInv, CreatePop PROVE TypeInv'
  OBVIOUS
<1>1. /\ pc = "create" /\ ifree # <<>> /\ pc' = "active"
      /\ cur' = [cur EXCEPT !.slot = Last(ifree)] /\ ifree' = Front(ifree)
      /\ UNCHANGED <<idx, isz, img, dsz, isize, use, dsize, dfree>>
      /\ UNCHANGED <<records, n, li, it, faults>>
  BY DEF CreatePop, Popped, disk, dvars, loop
<1>2. ifree \in Seq(Nat) /\ DOMAIN ifree = 1 .. Len(ifree)
  BY DEF TypeInv, TypeOK, MemoryTypeOK
<1>3. /\ Len(ifree) \in DOMAIN ifree
      /\ Last(ifree) = ifree[Len(ifree)] /\ Last(ifree) \in Nat
      /\ ifree' \in Seq(Nat)
      /\ DOMAIN ifree' = 1 .. Len(ifree) - 1
      /\ \A k \in 1 .. Len(ifree) - 1 : ifree'[k] = ifree[k]
  <2>1. /\ Len(ifree) \in Nat \ {0}
        /\ Last(ifree) = ifree[Len(ifree)] /\ Last(ifree) \in Nat
        /\ Front(ifree) \in Seq(Nat)
        /\ Len(Front(ifree)) = Len(ifree) - 1
        /\ \A k \in 1 .. Len(ifree) - 1 : Front(ifree)[k] = ifree[k]
    BY <1>1, <1>2, FrontFacts
  <2>2. PICK s \in Seq(Nat) : s = Front(ifree) /\ DOMAIN s = 1 .. Len(s)
    BY <2>1
  <2> QED
    BY <1>1, <1>2, <2>1, <2>2
<1>4. Last(ifree) \in Slots /\ \A k \in DOMAIN ifree' : ifree'[k] \in Slots
  BY <1>2, <1>3 DEF TypeInv
<1>5. cur' \in Add /\ cur'.hash = cur.hash /\ cur'.slot = Last(ifree)
  <2>1. PICK last \in Nat : last = Last(ifree)
    BY <1>3
  <2> QED
    BY <1>1, <2>1 DEF TypeInv, TypeOK, MemoryTypeOK, Add
<1>6. Slots' = Slots /\ DiskTypeOK' /\ MemoryTypeOK'
  BY <1>1, <1>3, <1>5 DEF Slots, TypeInv, TypeOK, DiskTypeOK, MemoryTypeOK
<1> QED
  BY <1>1, <1>4, <1>5, <1>6 DEF TypeInv, TypeOK, AddPoints, Points

\* What a growth of the index does to the slots.
LEMMA IndexGrowth ==
  ASSUME TypeInv, CreateGrow
  PROVE  /\ isize' \in Nat /\ isz' \in Nat /\ HEADER <= isize' /\ isize' <= isz'
         /\ Records(isize) \in Nat
         /\ Records(isize') = Records(isize) + INDEXGROWTH
         /\ INDEXGROWTH \in Nat \ {0}
<1>1. isize' = isize + INDEXGROWTH * RECORD /\ isz' = ROUNDUP(isize')
  BY DEF CreateGrow, IndexGrown
<1>2. isize \in Nat /\ HEADER <= isize
  BY DEF TypeInv, TypeOK, MemoryTypeOK, CreateGrow
<1>3. /\ isize' \in Nat /\ Records(isize) \in Nat
      /\ Records(isize') = Records(isize) + INDEXGROWTH
  BY <1>1, <1>2, RecordsGrown
<1>4. isz' \in Nat /\ isz' >= isize'
  BY <1>1, <1>3, RoundedUp
<1>5. HEADER \in Nat /\ INDEXGROWTH \in Nat \ {0} /\ INDEXGROWTH * RECORD \in Nat
  BY IndexAssumption
<1>6. HEADER <= isize'
  BY <1>1, <1>2, <1>5
<1> QED
  BY <1>3, <1>4, <1>5, <1>6

\* A growth of the index (IndexFile::create) keeps TypeInv.
LEMMA CreateGrowType == TypeInv /\ CreateGrow => TypeInv'
<1> SUFFICES ASSUME TypeInv, CreateGrow PROVE TypeInv'
  OBVIOUS
<1>1. /\ pc = "create" /\ pc' = "active"
      /\ idx' = Slotted(idx, isz')
      /\ cur' = [cur EXCEPT !.slot = Records(isize)]
      /\ ifree' = NewSlots(Records(isize), Records(isize'))
      /\ UNCHANGED <<img, dsz, use, dsize, dfree, records, n, li, it, faults>>
  BY DEF CreateGrow, dvars, loop
<1>2. /\ isize' \in Nat /\ isz' \in Nat /\ HEADER <= isize' /\ isize' <= isz'
      /\ Records(isize) \in Nat /\ Records(isize') = Records(isize) + INDEXGROWTH
      /\ INDEXGROWTH \in Nat \ {0}
  BY IndexGrowth
<1>3. DiskTypeOK'
  <2>1. Records(isz) \in Nat
    BY RecordsMonotone DEF TypeInv, TypeOK, DiskTypeOK
  <2>2. idx' \in [0 .. Records(isz') - 1 -> Slot]
    BY <1>1, <2>1, SlottedType DEF TypeInv, TypeOK, DiskTypeOK
  <2> QED
    BY <1>1, <1>2, <2>2 DEF TypeInv, TypeOK, DiskTypeOK
<1>4. /\ Slots \subseteq Slots' /\ Records(isize) \in Slots'
      /\ ifree' \in Seq(Nat) /\ \A k \in DOMAIN ifree' : ifree'[k] \in Slots'
  <2>1. PICK a \in Nat, b \in Nat : a = Records(isize) /\ b = Records(isize') /\ a < b
    BY <1>2
  <2>2. Slots = 0 .. a - 1 /\ Slots' = 0 .. b - 1 /\ ifree' = NewSlots(a, b)
    BY <1>1, <2>1 DEF Slots
  <2>3. /\ ifree' \in Seq(Nat) /\ DOMAIN ifree' = 1 .. b - a - 1
        /\ \A k \in 1 .. b - a - 1 : ifree'[k] = a + k
    BY <2>1, <2>2, NewSlotsFacts
  <2>4. Slots \subseteq Slots' /\ Records(isize) \in Slots'
    BY <2>1, <2>2
  <2>5. \A k \in DOMAIN ifree' : ifree'[k] \in Slots'
    BY <2>1, <2>2, <2>3
  <2> QED
    BY <2>3, <2>4, <2>5
<1>5. cur' \in Add /\ cur'.hash = cur.hash /\ cur'.slot = Records(isize)
  <2>1. PICK a \in Nat : a = Records(isize)
    BY <1>2
  <2> QED
    BY <1>1, <2>1 DEF TypeInv, TypeOK, MemoryTypeOK, Add
<1>6. MemoryTypeOK'
  BY <1>1, <1>2, <1>4, <1>5 DEF TypeInv, TypeOK, MemoryTypeOK
<1> QED
  BY <1>1, <1>2, <1>3, <1>4, <1>5, <1>6 DEF TypeInv, TypeOK, AddPoints, Points

\* A write to the slot of the add that leaves the process where it may still
\* be killed.
LEMMA SlotWriteType ==
  ASSUME TypeInv, pc \in AddPoints \ {"create"}, pc' \in AddPoints \ {"create"},
         idx' \in [0 .. Records(isz) - 1 -> Slot],
         UNCHANGED <<isz, img, dsz, isize, ifree, use, dsize, dfree>>,
         UNCHANGED <<records, n, cur, li, it, faults>>
  PROVE  TypeInv'
<1>1. Slots' = Slots /\ DiskTypeOK' /\ MemoryTypeOK'
  BY DEF Slots, TypeInv, TypeOK, DiskTypeOK, MemoryTypeOK
<1> QED
  BY <1>1 DEF TypeInv, TypeOK, AddPoints, Points

\* The slot of the add in progress is one of the file's.
LEMMA CurrentSlot ==
  ASSUME TypeInv, pc \in AddPoints \ {"create"}
  PROVE  /\ cur.slot \in 0 .. Records(isz) - 1 /\ cur.slot \in Slots
         /\ cur.hash \in Hashes /\ cur \in Add
         /\ idx \in [0 .. Records(isz) - 1 -> Slot] /\ idx[cur.slot] \in Slot
<1>1. cur.slot \in Slots /\ cur.hash \in Hashes /\ cur \in Add
  BY DEF TypeInv, TypeOK, MemoryTypeOK, AddPoints
<1>2. pc # "down"
  BY DEF AddPoints
<1> QED
  BY <1>1, <1>2, SlotsInFile DEF TypeInv, TypeOK, DiskTypeOK

\* Marking the slot active (IndexFile::create) keeps TypeInv.
LEMMA AddActiveType == TypeInv /\ AddActive => TypeInv'
<1> SUFFICES ASSUME TypeInv, AddActive PROVE TypeInv'
  OBVIOUS
<1>1. pc \in AddPoints \ {"create"} /\ pc' \in AddPoints \ {"create"}
  BY DEF AddActive, AddPoints
<1>2. idx' \in [0 .. Records(isz) - 1 -> Slot]
  <2> DEFINE D == 0 .. Records(isz) - 1
  <2>1. PICK i \in D : i = cur.slot
    BY <1>1, CurrentSlot
  <2>2. PICK g : g = [idx EXCEPT ![i].active = TRUE]
    OBVIOUS
  <2>3. idx \in [D -> Slot]
    BY <1>1, CurrentSlot
  <2>4. g \in [D -> Slot]
    <3> HIDE DEF D
    <3> QED
      BY <2>2, <2>3, SetActive
  <2> QED
    BY <2>1, <2>2, <2>4, Zenon DEF AddActive
<1> QED
  BY <1>1, <1>2, SlotWriteType DEF AddActive, ivars, dvars, loop

\* Writing the slot's hash (Store::add) keeps TypeInv.
LEMMA AddHashType == TypeInv /\ AddHash => TypeInv'
<1> SUFFICES ASSUME TypeInv, AddHash PROVE TypeInv'
  OBVIOUS
<1>1. pc \in AddPoints \ {"create"} /\ pc' \in AddPoints \ {"create"}
  BY DEF AddHash, AddPoints
<1>2. idx' \in [0 .. Records(isz) - 1 -> Slot]
  <2> DEFINE D == 0 .. Records(isz) - 1
  <2>1. cur.slot \in D /\ idx \in [D -> Slot] /\ cur.hash \in Hashes \cup {ZeroHash}
    BY <1>1, CurrentSlot
  <2>2. PICK i \in D, v \in Hashes \cup {ZeroHash} : i = cur.slot /\ v = cur.hash
    BY <2>1
  <2>3. PICK g : g = [idx EXCEPT ![i].hash = v]
    OBVIOUS
  <2>4. g \in [D -> Slot]
    <3> HIDE DEF D
    <3> QED
      BY <2>1, <2>3, SetHash
  <2> QED
    BY <2>2, <2>3, <2>4, Zenon DEF AddHash
<1> QED
  BY <1>1, <1>2, SlotWriteType DEF AddHash, ivars, dvars, loop

\* Writing the slot's offset (Store::add) keeps TypeInv.
LEMMA AddOffsetType == TypeInv /\ AddOffset => TypeInv'
<1> SUFFICES ASSUME TypeInv, AddOffset PROVE TypeInv'
  OBVIOUS
<1>1. pc \in AddPoints \ {"create"} /\ pc' \in AddPoints \ {"create"}
  BY DEF AddOffset, AddPoints
<1>2. cur.offset \in Nat
  BY <1>1, CurrentSlot DEF Add
<1>3. idx' \in [0 .. Records(isz) - 1 -> Slot]
  <2> DEFINE D == 0 .. Records(isz) - 1
  <2>1. cur.slot \in D /\ idx \in [D -> Slot] /\ cur.offset \in Nat
    BY <1>1, <1>2, CurrentSlot
  <2>2. PICK i \in D, v \in Nat : i = cur.slot /\ v = cur.offset
    BY <2>1
  <2>3. PICK g : g = [idx EXCEPT ![i].offset = v]
    OBVIOUS
  <2>4. g \in [D -> Slot]
    <3> HIDE DEF D
    <3> QED
      BY <2>1, <2>3, SetOffset
  <2> QED
    BY <2>2, <2>3, <2>4, Zenon DEF AddOffset
<1> QED
  BY <1>1, <1>3, SlotWriteType DEF AddOffset, ivars, dvars, loop

\* What the last write of an add leaves in its slot.
LEMMA FlagsWritten ==
  ASSUME TypeInv, AddFlags
  PROVE  /\ idx' \in [0 .. Records(isz) - 1 -> Slot]
         /\ \A j \in 0 .. Records(isz) - 1 : j # cur.slot => idx'[j] = idx[j]
         /\ idx'[cur.slot].active = idx[cur.slot].active
         /\ idx'[cur.slot].hash = idx[cur.slot].hash
         /\ idx'[cur.slot].offset = idx[cur.slot].offset
         /\ idx'[cur.slot].length = Length[cur.hash]
         /\ idx'[cur.slot].type = cur.type
         /\ idx'[cur.slot].refs = cur.refs
<1>1. pc \in AddPoints \ {"create"}
  BY DEF AddFlags, AddPoints
<1> DEFINE D == 0 .. Records(isz) - 1
<1>2. cur.slot \in D /\ idx \in [D -> Slot] /\ cur.hash \in Hashes /\ cur \in Add
  BY <1>1, CurrentSlot
<1>3. PICK i \in D, len \in Nat, type \in ChunkTypes \cup {"OTHER"}, refs \in 0 .. REFS - 1 :
        i = cur.slot /\ len = Length[cur.hash] /\ type = cur.type /\ refs = cur.refs
  <2>1. /\ Length[cur.hash] \in Nat
        /\ cur.type \in ChunkTypes \cup {"OTHER"} /\ cur.refs \in 0 .. REFS - 1
    BY <1>2, LengthAssumption DEF Add
  <2> QED
    BY <1>2, <2>1
<1> HIDE DEF D
<1>4. PICK f : f = [idx EXCEPT ![i].length = len]
  OBVIOUS
<1>5. /\ f \in [D -> Slot] /\ \A j \in D \ {i} : f[j] = idx[j]
      /\ f[i].active = idx[i].active /\ f[i].hash = idx[i].hash
      /\ f[i].offset = idx[i].offset /\ f[i].length = len
  BY <1>2, <1>4, SetLength
<1>6. PICK g : g = [f EXCEPT ![i].type = type]
  OBVIOUS
<1>7. /\ g \in [D -> Slot] /\ \A j \in D \ {i} : g[j] = f[j]
      /\ g[i].active = f[i].active /\ g[i].hash = f[i].hash
      /\ g[i].offset = f[i].offset /\ g[i].length = f[i].length /\ g[i].type = type
  BY <1>5, <1>6, SetType
<1>8. PICK r : r = [g EXCEPT ![i].refs = refs]
  OBVIOUS
<1>9. /\ r \in [D -> Slot] /\ \A j \in D \ {i} : r[j] = g[j]
      /\ r[i].active = g[i].active /\ r[i].hash = g[i].hash
      /\ r[i].offset = g[i].offset /\ r[i].length = g[i].length
      /\ r[i].type = g[i].type /\ r[i].refs = refs
  BY <1>7, <1>8, SetRefs
<1>10. idx' = r
  <2>1. idx' = [[[idx EXCEPT ![cur.slot].length = Length[cur.hash]]
                      EXCEPT ![cur.slot].type = cur.type]
                      EXCEPT ![cur.slot].refs = cur.refs]
    BY Zenon DEF AddFlags
  <2> QED
    BY <1>3, <1>4, <1>6, <1>8, <2>1, Zenon
<1> QED
  BY <1>3, <1>5, <1>7, <1>9, <1>10 DEF D

\* Writing the slot's flags, the end of an add keeps TypeInv.
LEMMA AddFlagsType == TypeInv /\ AddFlags => TypeInv'
<1> SUFFICES ASSUME TypeInv, AddFlags PROVE TypeInv'
  OBVIOUS
<1>1. /\ pc = "flags" /\ pc' = "idle" /\ n' = Counted(n, cur.type, 1)
      /\ records' = Mapped(records, cur.hash, cur.slot) /\ cur' = NoAdd
      /\ UNCHANGED <<isz, img, dsz, isize, ifree, use, dsize, dfree, li, it, faults>>
  BY DEF AddFlags, ivars, dvars, loop
<1>2. cur.slot \in Slots /\ cur.hash \in Hashes /\ cur.slot \in Nat
  BY <1>1, CurrentSlot DEF AddPoints
<1>3. DiskTypeOK'
  BY <1>1, FlagsWritten DEF TypeInv, TypeOK, DiskTypeOK
<1>4. \A h \in DOMAIN records' : records'[h] \in Slots
  <2>1. /\ DOMAIN records' = DOMAIN records \cup {cur.hash}
        /\ \A h \in DOMAIN records' :
             records'[h] = IF h = cur.hash THEN cur.slot ELSE records[h]
    BY <1>1 DEF Mapped
  <2> QED
    BY <1>2, <2>1 DEF TypeInv
<1>5. DOMAIN records' \subseteq Hashes \cup {ZeroHash} /\ records' \in [DOMAIN records' -> Nat]
  BY <1>1, <1>2, MappedType DEF TypeInv, TypeOK, MemoryTypeOK
<1>6. n' \in [ChunkTypes -> Int]
  BY <1>1, CountedType DEF TypeInv, TypeOK, MemoryTypeOK
<1>7. cur' \in Add
  BY <1>1, NoAddType
<1>8. Slots' = Slots /\ MemoryTypeOK'
  BY <1>1, <1>5, <1>6, <1>7 DEF Slots, TypeInv, TypeOK, MemoryTypeOK
<1> QED
  BY <1>1, <1>3, <1>4, <1>8 DEF TypeInv, TypeOK, AddPoints, Points

-----------------------------------------------------------------------------
(* The other calls. *)

\* The slot a call finds is one of the file's.
LEMMA FoundSlot ==
  ASSUME TypeInv, NEW h, Found(h)
  PROVE  /\ pc = "idle" /\ h \in DOMAIN records /\ idx[records[h]].active
         /\ records[h] \in Nat /\ records[h] \in Slots
         /\ records[h] \in 0 .. Records(isz) - 1
         /\ idx \in [0 .. Records(isz) - 1 -> Slot] /\ idx[records[h]] \in Slot
<1>1. pc = "idle" /\ h \in DOMAIN records /\ idx[records[h]].active
  BY DEF Found, Stored
<1>2. records[h] \in Slots
  BY <1>1 DEF TypeInv
<1> QED
  BY <1>1, <1>2, SlotsInFile DEF TypeInv, TypeOK, DiskTypeOK

\* What a remove leaves in the slot.
LEMMA Deactivated ==
  ASSUME TypeInv, NEW h, RemoveChunk(h)
  PROVE  /\ idx' \in [0 .. Records(isz) - 1 -> Slot]
         /\ \A j \in 0 .. Records(isz) - 1 : j # records[h] => idx'[j] = idx[j]
         /\ idx'[records[h]].active = FALSE
         /\ idx'[records[h]].offset = idx[records[h]].offset
         /\ idx'[records[h]].length = idx[records[h]].length
<1> DEFINE D == 0 .. Records(isz) - 1
<1>1. PICK i \in D : i = records[h]
  BY FoundSlot DEF RemoveChunk
<1>2. PICK g : g = [idx EXCEPT ![i].active = FALSE]
  OBVIOUS
<1>3. idx \in [D -> Slot]
  BY FoundSlot DEF RemoveChunk
<1>4. /\ g \in [D -> Slot] /\ g[i].active = FALSE /\ \A j \in D \ {i} : g[j] = idx[j]
      /\ g[i].offset = idx[i].offset /\ g[i].length = idx[i].length
  <2> HIDE DEF D
  <2>1. g \in [D -> Slot]
    BY <1>2, <1>3, SetInactive
  <2>2. \A j \in D \ {i} : g[j] = idx[j]
    BY <1>2, <1>3, SetInactive
  <2>3. g[i].active = FALSE
    BY <1>2, <1>3, SetInactive
  <2>4. g[i].offset = idx[i].offset
    BY <1>2, <1>3, SetInactive
  <2>5. g[i].length = idx[i].length
    BY <1>2, <1>3, SetInactive
  <2> QED
    BY <2>1, <2>2, <2>3, <2>4, <2>5
<1>5. idx' = g
  BY <1>1, <1>2, Zenon DEF RemoveChunk
<1> QED
  BY <1>1, <1>4, <1>5

\* Store::remove keeps TypeInv.
LEMMA RemoveChunkType == \A h : TypeInv /\ RemoveChunk(h) => TypeInv'
<1> SUFFICES ASSUME NEW h, TypeInv, RemoveChunk(h) PROVE TypeInv'
  OBVIOUS
<1>1. /\ pc = "idle" /\ Found(h)
      /\ ifree' = Append(ifree, records[h])
      /\ n' = Counted(n, idx[records[h]].type, -1)
      /\ dfree' = Release(dfree, idx[records[h]].offset, idx[records[h]].length)
      /\ records' = Unmapped(records, h)
      /\ faults' \subseteq faults \cup {"bridge"}
      /\ UNCHANGED <<isz, img, dsz, pc, isize, use, dsize, cur, li, it>>
  BY DEF RemoveChunk, Found, loop
<1>2. records[h] \in Slots /\ records[h] \in Nat /\ idx[records[h]] \in Slot
  BY <1>1, FoundSlot
<1>3. idx[records[h]].offset \in Nat /\ idx[records[h]].length \in Nat
  BY <1>2 DEF Slot
<1>4. DiskTypeOK'
  BY <1>1, Deactivated DEF TypeInv, TypeOK, DiskTypeOK
<1>5. ifree' \in Seq(Nat) /\ \A k \in DOMAIN ifree' : ifree'[k] \in Slots
  BY <1>1, <1>2 DEF TypeInv, TypeOK, MemoryTypeOK
<1>6. n' \in [ChunkTypes -> Int]
  <2>1. PICK d \in Int : d = -1
    OBVIOUS
  <2>2. n' = Counted(n, idx[records[h]].type, d)
    BY <1>1, <2>1
  <2> QED
    BY <2>2, CountedType DEF TypeInv, TypeOK, MemoryTypeOK
<1>7. dfree' \in Seq(Entry)
  BY <1>1, <1>3, ReleaseType DEF TypeInv, TypeOK, MemoryTypeOK
<1>8. /\ DOMAIN records' \subseteq Hashes \cup {ZeroHash}
      /\ records' \in [DOMAIN records' -> Nat]
  BY <1>1, UnmappedType DEF TypeInv, TypeOK, MemoryTypeOK
<1>9. \A x \in DOMAIN records' : records'[x] \in Slots
  <2>1. /\ DOMAIN records' = DOMAIN records \ {h}
        /\ \A x \in DOMAIN records' : records'[x] = records[x]
    BY <1>1 DEF Unmapped, Restrict
  <2> QED
    BY <2>1 DEF TypeInv
<1>10. Slots' = Slots /\ MemoryTypeOK'
  BY <1>1, <1>5, <1>6, <1>7, <1>8 DEF Slots, TypeInv, TypeOK, MemoryTypeOK
<1> QED
  BY <1>1, <1>4, <1>5, <1>9, <1>10 DEF TypeInv, TypeOK, AddPoints

\* What an adjrefs leaves in the slot: all but the references, and these
\* counted within sixteen bits.
LEMMA Recounted ==
  ASSUME TypeInv, NEW h, NEW d \in Deltas, Adjrefs(h, d)
  PROVE  /\ idx' \in [0 .. Records(isz) - 1 -> Slot]
         /\ \A j \in 0 .. Records(isz) - 1 :
              /\ idx'[j].active = idx[j].active /\ idx'[j].hash = idx[j].hash
              /\ idx'[j].offset = idx[j].offset /\ idx'[j].length = idx[j].length
              /\ idx'[j].type = idx[j].type
              /\ j # records[h] => idx'[j].refs = idx[j].refs
         /\ idx'[records[h]].refs = (idx[records[h]].refs + d) % REFS
<1> DEFINE D == 0 .. Records(isz) - 1
<1>1. /\ records[h] \in D /\ idx \in [D -> Slot] /\ idx[records[h]] \in Slot
  BY FoundSlot DEF Adjrefs
<1>2. (idx[records[h]].refs + d) % REFS \in 0 .. REFS - 1
  <2>1. idx[records[h]].refs \in Nat /\ d \in Int /\ REFS \in Nat \ {0}
    BY <1>1, DeltasAssumption, RefsAssumption DEF Slot
  <2>2. PICK sum \in Int : sum = idx[records[h]].refs + d
    BY <2>1
  <2>3. sum % REFS \in 0 .. REFS - 1
    BY <2>1, Division
  <2> QED
    BY <2>2, <2>3
<1>3. PICK i \in D, v \in 0 .. REFS - 1 :
        i = records[h] /\ v = (idx[records[h]].refs + d) % REFS
  BY <1>1, <1>2
<1>4. PICK g : g = [idx EXCEPT ![i].refs = v]
  OBVIOUS
<1>5. /\ g \in [D -> Slot] /\ \A j \in D \ {i} : g[j] = idx[j]
      /\ g[i].active = idx[i].active /\ g[i].hash = idx[i].hash
      /\ g[i].offset = idx[i].offset /\ g[i].length = idx[i].length
      /\ g[i].type = idx[i].type /\ g[i].refs = v
  <2> HIDE DEF D
  <2> QED
    BY <1>1, <1>4, SetRefs
<1>6. idx' = g
  BY <1>3, <1>4, Zenon DEF Adjrefs
<1>7. \A j \in D :
         /\ g[j].active = idx[j].active /\ g[j].hash = idx[j].hash
         /\ g[j].offset = idx[j].offset /\ g[j].length = idx[j].length
         /\ g[j].type = idx[j].type
         /\ j # i => g[j].refs = idx[j].refs
  BY <1>5
<1> QED
  BY <1>3, <1>5, <1>6, <1>7

\* Store::adjrefs keeps TypeInv.
LEMMA AdjrefsType == \A h, d : d \in Deltas /\ TypeInv /\ Adjrefs(h, d) => TypeInv'
<1> SUFFICES ASSUME NEW h, NEW d \in Deltas, TypeInv, Adjrefs(h, d) PROVE TypeInv'
  OBVIOUS
<1>1. /\ UNCHANGED <<isz, img, dsz, pc, isize, ifree, use, dsize, dfree>>
      /\ UNCHANGED <<records, n, cur, li, it, faults>>
  BY DEF Adjrefs, ivars, dvars, loop
<1>2. Slots' = Slots /\ DiskTypeOK' /\ MemoryTypeOK'
  BY <1>1, Recounted DEF Slots, TypeInv, TypeOK, DiskTypeOK, MemoryTypeOK
<1> QED
  BY <1>1, <1>2 DEF TypeInv, TypeOK

\* A step that only moves the program counter, to a place where the process
\* waits, or leaks a pin.
LEMMA ControlType ==
  ASSUME TypeInv, use' \in Nat, pc' \in {"stuck", "idle"},
         pc # "down",
         UNCHANGED <<idx, isz, img, dsz, isize, ifree, dsize, dfree>>,
         UNCHANGED <<records, n, cur, li, it, faults>>
  PROVE  TypeInv'
<1>1. Slots' = Slots /\ DiskTypeOK' /\ MemoryTypeOK'
  BY DEF Slots, TypeInv, TypeOK, DiskTypeOK, MemoryTypeOK
<1> QED
  BY <1>1 DEF TypeInv, TypeOK, AddPoints, Points

-----------------------------------------------------------------------------

\* Every step of opening the store keeps TypeInv.
LEMMA LoadingType == TypeInv /\ Loading => TypeInv'
<1>1. TypeInv /\ LoadDone => TypeInv'
  BY ControlType DEF LoadDone, disk, ivars, dvars, loop, TypeInv, TypeOK, MemoryTypeOK
<1> QED
  BY <1>1, OpenType, LoadFreeType, LoadActiveType, MarkStepType, MarkDoneType DEF Loading

\* Every step of an add after its first keeps TypeInv.
LEMMA AddingType == TypeInv /\ Adding => TypeInv'
<1>1. TypeInv /\ CreateHang => TypeInv'
  BY ControlType DEF CreateHang, disk, ivars, dvars, loop, TypeInv, TypeOK, MemoryTypeOK
<1> QED
  BY <1>1, CreatePopType, CreateGrowType, AddActiveType, AddHashType, AddOffsetType,
     AddFlagsType DEF Adding

\* Every other call keeps TypeInv.
LEMMA CallingType == TypeInv /\ Calling => TypeInv'
<1> SUFFICES ASSUME TypeInv, NEW h \in Hashes \cup {ZeroHash},
                    \/ RemoveChunk(h) \/ Leak(h) \/ GetHang(h)
                    \/ \E d \in Deltas : Adjrefs(h, d)
             PROVE  TypeInv'
  BY DEF Calling
<1>1. CASE RemoveChunk(h)
  BY <1>1, RemoveChunkType
<1>2. CASE Leak(h)
  <2>1. use' \in Nat
    BY <1>2 DEF Leak, TypeInv, TypeOK, MemoryTypeOK
  <2> QED
    BY <1>2, <2>1, ControlType DEF Leak, Found, disk, dvars, loop
<1>3. CASE GetHang(h)
  <2>1. use' \in Nat
    BY <1>3 DEF GetHang, ivars, TypeInv, TypeOK, MemoryTypeOK
  <2> QED
    BY <1>3, <2>1, ControlType DEF GetHang, Found, disk, ivars, dvars, loop
<1>4. CASE \E d \in Deltas : Adjrefs(h, d)
  BY <1>4, AdjrefsType
<1> QED
  BY <1>1, <1>2, <1>3, <1>4

\* The end of the process (a destructor, or a kill) keeps TypeInv.
LEMMA EndType == TypeInv /\ (Close \/ CloseHang \/ Crash) => TypeInv'
<1> SUFFICES ASSUME TypeInv, Close \/ CloseHang \/ Crash PROVE TypeInv'
  OBVIOUS
<1>1. CASE Close
  BY <1>1, ForgetType DEF Close, TypeInv, TypeOK
<1>2. CASE CloseHang
  BY <1>2, ControlType DEF CloseHang, disk, ivars, dvars, loop, TypeInv, TypeOK, MemoryTypeOK
<1>3. CASE Crash
  BY <1>3, ForgetType DEF Crash, TypeInv, TypeOK
<1> QED
  BY <1>1, <1>2, <1>3

\* A step of somebody else keeps TypeInv.
LEMMA StutterType == TypeInv /\ UNCHANGED vars => TypeInv'
<1> SUFFICES ASSUME TypeInv, UNCHANGED vars PROVE TypeInv'
  OBVIOUS
<1>1. /\ UNCHANGED <<idx, isz, img, dsz, pc, isize, ifree, use, dsize, dfree>>
      /\ UNCHANGED <<records, n, cur, li, it, faults>>
  BY DEF vars, disk, ivars, dvars, loop
<1>2. Slots' = Slots /\ DiskTypeOK' /\ MemoryTypeOK'
  BY <1>1 DEF Slots, TypeInv, TypeOK, DiskTypeOK, MemoryTypeOK
<1> QED
  BY <1>1, <1>2 DEF TypeInv, TypeOK

\* The invariant is inductive: every step keeps it.
THEOREM NextType == TypeInv /\ [Next]_vars => TypeInv'
<1> SUFFICES ASSUME TypeInv, [Next]_vars PROVE TypeInv'
  OBVIOUS
<1>1. CASE \E h \in Hashes, flags \in Flags : AddFit(h, flags) \/ AddGrow(h, flags)
  BY <1>1, AddFitType, AddGrowType
<1> QED
  BY <1>1, LoadingType, AddingType, CallingType, EndType, StutterType DEF Next

\* Every variable of the store keeps its type, and no slot number the process
\* holds leads outside the index file, in every reachable state.
THEOREM TypeCorrect == Spec => []TypeOK
<1>1. TypeInv => TypeOK
  BY DEF TypeInv
<1> QED
  BY <1>1, InitType, NextType, PTL DEF Spec

-----------------------------------------------------------------------------
(***************************************************************************)
(* The index of the store is exact, for every value of the constants and   *)
(* after any kill: the stack of free slots holds each slot no chunk has    *)
(* once, the map leads from a hash to an active slot of that hash, and the *)
(* counters count the chunks.  Where no add is killed between its writes   *)
(* no slot is lost either, and the store implements the map of Backend.    *)
(*                                                                         *)
(* None of it is inductive.  While the index is loaded, all of it speaks   *)
(* only of the slots the loop has passed; the slots past the size the      *)
(* process works with, which a restart or a growth will take in, have to   *)
(* be inactive; an add in progress owns a slot that is not free, is active *)
(* after its first write, carries its hash after its second, and has a     *)
(* hash the map does not know.  That no slot is lost also has to be said   *)
(* of the file alone: no two slots of chunks have one hash, or a restart   *)
(* would let the later one hide the other.                                 *)
(***************************************************************************)

\* The slots the process has seen.
Horizon == IF pc \in {"load", "mark"} THEN li ELSE Records(isize)

\* The slots that are not free, and those that hold a finished chunk.
Used == Active \cup Pending
Finished == Active \ Pending

StackExact ==
  /\ \A j, k \in DOMAIN ifree : j # k => ifree[j] # ifree[k]
  /\ \A k \in DOMAIN ifree : ifree[k] < Horizon /\ ifree[k] \notin Used
  /\ \A i \in Nat : i < Horizon /\ i \notin Used => \E k \in DOMAIN ifree : ifree[k] = i

MapExact ==
  \A h \in DOMAIN records :
    records[h] < Horizon /\ records[h] \in Finished /\ idx[records[h]].hash = h

\* The slot of the add in progress.
AddExact ==
  /\ pc = "active" => cur.slot \notin Active
  /\ pc \in TornPoints => cur.slot \in Active
  /\ pc \in {"offset", "flags"} => idx[cur.slot].hash = cur.hash

\* The loading loop.
LoopExact ==
  /\ pc = "load" => li <= Records(isize)
  /\ pc = "mark" => li \in Active

Fresh == li = 0 /\ ifree = <<>> /\ records = <<>>
Loaded == pc \in {"load", "mark"} \/ Serving

IndexInv ==
  /\ TypeInv
  /\ pc = "down" => Fresh
  /\ Loaded => Active \subseteq Slots /\ StackExact /\ MapExact
  /\ AddExact
  /\ LoopExact

-----------------------------------------------------------------------------
(* Active slots and their hashes, from one state to the next. *)

\* What TypeInv says of the index and of loading.
LEMMA TypedIndex ==
  ASSUME TypeInv
  PROVE  /\ isize \in Nat /\ isz \in Nat /\ Records(isize) \in Nat /\ Records(isz) \in Nat
         /\ idx \in [0 .. Records(isz) - 1 -> Slot]
         /\ Active \subseteq 0 .. Records(isz) - 1
         /\ Slots = 0 .. Records(isize) - 1
         /\ ifree \in Seq(Nat) /\ DOMAIN ifree = 1 .. Len(ifree) /\ Len(ifree) \in Nat
         /\ li \in Nat
<1>1. isize \in Nat /\ isz \in Nat /\ idx \in [0 .. Records(isz) - 1 -> Slot]
      /\ ifree \in Seq(Nat) /\ li \in Nat
  BY DEF TypeInv, TypeOK, DiskTypeOK, MemoryTypeOK
<1>2. Records(isize) \in Nat /\ Records(isz) \in Nat
  BY <1>1, RecordsMonotone
<1>3. DOMAIN ifree = 1 .. Len(ifree) /\ Len(ifree) \in Nat
  BY <1>1
<1>4. Active \subseteq 0 .. Records(isz) - 1
  BY <1>1 DEF Active
<1> QED
  BY <1>1, <1>2, <1>3, <1>4 DEF Slots

\* A file cut or extended beyond its active slots keeps them.
LEMMA ResizedActive ==
  ASSUME NEW k \in Nat, NEW f \in [0 .. k - 1 -> Slot], NEW size, NEW m \in Nat,
         m = Records(size), \A i \in 0 .. k - 1 : f[i].active => i < m,
         NEW g, g = Slotted(f, size)
  PROVE  /\ DOMAIN g = 0 .. m - 1
         /\ \A i \in 0 .. m - 1 : g[i].active => i < k /\ f[i].active
         /\ \A i \in 0 .. k - 1 : f[i].active => i < m /\ g[i] = f[i]
<1>1. /\ g \in [0 .. m - 1 -> Slot]
      /\ \A i \in 0 .. m - 1 : g[i] = IF i \in 0 .. k - 1 THEN f[i] ELSE ZeroSlot
  BY SlottedType
<1>2. ~ ZeroSlot.active
  BY DEF ZeroSlot
<1> QED
  BY <1>1, <1>2

\* Cutting or extending the index file to at least as many records keeps its
\* slots.
LEMMA ResizedIndex ==
  ASSUME TypeInv, NEW m \in Nat, m = Records(isz'), idx' = Slotted(idx, isz'),
         \A i \in Active : i < m
  PROVE  Active' = Active /\ \A i \in Active : idx'[i] = idx[i]
<1>1. PICK k \in Nat : k = Records(isz)
  BY TypedIndex
<1>2. idx \in [0 .. k - 1 -> Slot]
  BY <1>1, TypedIndex
<1>3. PICK f \in [0 .. k - 1 -> Slot] : f = idx
  BY <1>2
<1>4. PICK g : g = Slotted(f, isz')
  OBVIOUS
<1>5. \A i \in 0 .. k - 1 : f[i].active => i < m
  BY <1>3 DEF Active
<1>6. /\ DOMAIN g = 0 .. m - 1
      /\ \A i \in 0 .. m - 1 : g[i].active => i < k /\ f[i].active
      /\ \A i \in 0 .. k - 1 : f[i].active => i < m /\ g[i] = f[i]
  BY <1>4, <1>5, ResizedActive
<1>7. idx' = g
  BY <1>3, <1>4
<1>8. Active = {i \in 0 .. k - 1 : f[i].active}
  BY <1>3 DEF Active
<1>9. Active' = {i \in 0 .. m - 1 : g[i].active}
  BY <1>6, <1>7 DEF Active
<1>10. Active' \subseteq Active
  BY <1>6, <1>8, <1>9
<1>11. Active \subseteq Active'
  <2> SUFFICES ASSUME NEW i \in Active PROVE i \in Active'
    OBVIOUS
  <2>1. i \in 0 .. k - 1 /\ f[i].active
    BY <1>8
  <2>2. i < m /\ g[i] = f[i]
    BY <1>6, <2>1
  <2>3. i \in 0 .. m - 1
    BY <2>1, <2>2
  <2> QED
    BY <1>9, <2>1, <2>2, <2>3
<1>12. \A i \in Active : idx'[i] = idx[i]
  BY <1>3, <1>6, <1>7, <1>8
<1> QED
  BY <1>10, <1>11, <1>12

\* Opening the index file changes no active slot.
LEMMA OpenActive ==
  ASSUME TypeInv, Open
  PROVE  /\ Active' = Active /\ Active \subseteq Slots'
         /\ \A i \in Active : idx'[i] = idx[i]
<1>1. /\ isz \in Nat /\ isz' \in Nat /\ isize' \in Nat
      /\ idx' = Slotted(idx, isz')
      /\ isz < HEADER => isz' >= isz
      /\ isz >= HEADER => isz' = isz /\ isize' = isz
  <2>1. isz \in Nat /\ HEADER \in Nat
    BY TypedIndex, IndexAssumption
  <2>2. ROUNDUP(HEADER) \in Nat /\ ROUNDUP(HEADER) >= HEADER
    BY <2>1, RoundedUp
  <2>3. /\ isz' = IF isz < HEADER THEN ROUNDUP(HEADER) ELSE isz
        /\ isize' = IF isz < HEADER THEN HEADER ELSE isz
        /\ idx' = Slotted(idx, isz')
    BY DEF Open
  <2>4. isz < HEADER => ROUNDUP(HEADER) >= isz
    BY <2>1, <2>2
  <2> QED
    BY <2>1, <2>2, <2>3, <2>4
<1>2. isz <= isz'
  BY <1>1, IndexAssumption
<1>3. Records(isz) \in Nat /\ Records(isz') \in Nat /\ Records(isz) <= Records(isz')
  BY <1>1, <1>2, RecordsMonotone
<1>4. Active \subseteq 0 .. Records(isz) - 1
  BY TypedIndex
<1>5. \A i \in Active : i < Records(isz')
  BY <1>3, <1>4
<1>6. Active' = Active /\ \A i \in Active : idx'[i] = idx[i]
  BY <1>1, <1>3, <1>5, ResizedIndex
<1>7. Active \subseteq Slots'
  <2>1. CASE isz < HEADER
    <3>1. Records(isz) = 0
      BY <2>1 DEF Records
    <3> QED
      BY <1>4, <3>1
  <2>2. CASE isz >= HEADER
    BY <1>1, <1>4, <2>2 DEF Slots
  <2> QED
    BY <1>1, <2>1, <2>2, IndexAssumption
<1> QED
  BY <1>6, <1>7

\* Growing the index file changes no active slot.
LEMMA CreateGrowActive ==
  ASSUME TypeInv, CreateGrow, Active \subseteq Slots
  PROVE  /\ Active' = Active
         /\ \A i \in Active : idx'[i] = idx[i]
<1>1. isize \in Nat /\ isize' \in Nat /\ isz' \in Nat /\ isize' <= isz'
      /\ idx' = Slotted(idx, isz')
      /\ Records(isize) \in Nat /\ Records(isize') = Records(isize) + INDEXGROWTH
      /\ INDEXGROWTH \in Nat
  BY TypedIndex, IndexGrowth DEF CreateGrow
<1>2. Records(isz') \in Nat /\ Records(isize') <= Records(isz')
  BY <1>1, RecordsMonotone
<1>3. \A i \in Active : i < Records(isz')
  BY <1>1, <1>2 DEF Slots
<1> QED
  BY <1>1, <1>2, <1>3, ResizedIndex

-----------------------------------------------------------------------------
(* The steps that leave the stack and the map alone. *)

\* A step that leaves the index, the stack and the map alone keeps what
\* IndexInv says of them.
LEMMA Reindexed ==
  ASSUME IndexInv, TypeInv', Loaded, Loaded', pc' # "down",
         Horizon' = Horizon, Used' = Used, Finished' = Finished,
         Active' \subseteq Slots', ifree' = ifree, records' = records,
         \A h \in DOMAIN records : idx'[records[h]].hash = idx[records[h]].hash,
         AddExact', LoopExact'
  PROVE  IndexInv'
<1>1. StackExact /\ MapExact
  BY DEF IndexInv
<1>2. StackExact'
  BY <1>1 DEF StackExact
<1>3. MapExact'
  BY <1>1 DEF MapExact
<1> QED
  BY <1>2, <1>3 DEF IndexInv

\* The index is as it was, and neither end of the step is inside an add.
LEMMA IndexKept ==
  ASSUME IndexInv, TypeInv', Loaded, Loaded', pc' # "down",
         idx' = idx, isize' = isize, ifree' = ifree, records' = records,
         Horizon' = Horizon, Pending' = Pending, AddExact', LoopExact'
  PROVE  IndexInv'
<1>1. Active' = Active /\ Slots' = Slots
  BY DEF Active, Slots
<1>2. Active' \subseteq Slots'
  BY <1>1 DEF IndexInv
<1>3. Used' = Used /\ Finished' = Finished
  BY <1>1 DEF Used, Finished
<1> QED
  BY <1>2, <1>3, Reindexed

\* Coming to an active slot (Store's constructor) keeps IndexInv.
LEMMA LoadActiveIndex == IndexInv /\ LoadActive => IndexInv'
<1> SUFFICES ASSUME IndexInv, LoadActive PROVE IndexInv'
  OBVIOUS
<1>1. /\ pc = "load" /\ li \in Slots /\ idx[li].active /\ pc' = "mark"
      /\ UNCHANGED <<idx, isz, isize, ifree, records, cur, li>>
  BY DEF LoadActive, disk, ivars
<1>2. TypeInv'
  BY LoadActiveType DEF IndexInv
<1>3. li \in Active /\ Active' = Active
  BY <1>1, SlotsInFile, TypedIndex DEF Active, IndexInv
<1>4. AddExact' /\ LoopExact' /\ Horizon' = Horizon /\ Pending' = Pending
  BY <1>1, <1>3 DEF AddExact, LoopExact, Horizon, Pending, AddPoints, TornPoints
<1> QED
  BY <1>1, <1>2, <1>4, IndexKept DEF Loaded

\* One iteration of DataFile::mark keeps IndexInv.
LEMMA MarkStepIndex == IndexInv /\ MarkStep => IndexInv'
<1> SUFFICES ASSUME IndexInv, MarkStep PROVE IndexInv'
  OBVIOUS
<1>1. /\ pc = "mark" /\ pc' = pc
      /\ UNCHANGED <<idx, isz, isize, ifree, records, cur, li>>
  BY DEF MarkStep, disk, ivars
<1>2. TypeInv'
  BY MarkStepType DEF IndexInv
<1>3. AddExact' /\ LoopExact' /\ Horizon' = Horizon /\ Pending' = Pending
  BY <1>1 DEF IndexInv, AddExact, LoopExact, Horizon, Pending, AddPoints, TornPoints, Active
<1> QED
  BY <1>1, <1>2, <1>3, IndexKept DEF Loaded

\* The end of loading keeps IndexInv.
LEMMA LoadDoneIndex == IndexInv /\ LoadDone => IndexInv'
<1> SUFFICES ASSUME IndexInv, LoadDone PROVE IndexInv'
  OBVIOUS
<1>1. /\ pc = "load" /\ li \notin Slots /\ pc' = "idle"
      /\ UNCHANGED <<idx, isz, isize, ifree, records, cur, li>>
  BY DEF LoadDone, disk, ivars, loop
<1>2. TypeInv'
  BY NextType DEF IndexInv, Next, Loading
<1>3. li = Records(isize)
  BY <1>1, TypedIndex DEF IndexInv, LoopExact
<1>4. AddExact' /\ LoopExact' /\ Horizon' = Horizon /\ Pending' = Pending
  BY <1>1, <1>3 DEF AddExact, LoopExact, Horizon, Pending, AddPoints, TornPoints
<1> QED
  BY <1>1, <1>2, <1>4, IndexKept DEF Loaded, Serving

\* An add up to its write of the data keeps IndexInv.
LEMMA AddBeginIndex ==
  \A h \in Hashes, flags \in Flags : IndexInv /\ (AddFit(h, flags) \/ AddGrow(h, flags)) => IndexInv'
<1> SUFFICES ASSUME NEW h \in Hashes, NEW flags \in Flags, IndexInv,
                    AddFit(h, flags) \/ AddGrow(h, flags)
             PROVE  IndexInv'
  OBVIOUS
<1>1. /\ pc = "idle" /\ pc' = "create"
      /\ UNCHANGED <<idx, isz, isize, ifree, records, li>>
  BY DEF AddFit, AddGrow, ivars, loop
<1>2. TypeInv'
  BY AddFitType, AddGrowType DEF IndexInv
<1>3. AddExact' /\ LoopExact' /\ Horizon' = Horizon /\ Pending' = Pending
  BY <1>1 DEF AddExact, LoopExact, Horizon, Pending, AddPoints, TornPoints
<1> QED
  BY <1>1, <1>2, <1>3, IndexKept DEF Loaded, Serving, AddPoints

\* An early return that skips IndexFile::done keeps IndexInv.
LEMMA LeakIndex == \A h : IndexInv /\ Leak(h) /\ TypeInv' => IndexInv'
<1> SUFFICES ASSUME NEW h, IndexInv, Leak(h), TypeInv' PROVE IndexInv'
  OBVIOUS
<1>1. /\ pc = "idle" /\ pc' = pc
      /\ UNCHANGED <<idx, isz, isize, ifree, records, li>>
  BY DEF Leak, Found, disk, loop
<1>2. AddExact' /\ LoopExact' /\ Horizon' = Horizon /\ Pending' = Pending
  BY <1>1 DEF AddExact, LoopExact, Horizon, Pending, AddPoints, TornPoints
<1> QED
  BY <1>1, <1>2, IndexKept DEF Loaded, Serving

-----------------------------------------------------------------------------
(* The writes of an add. *)

\* The slot of the add is neither free nor one a chunk holds.
LEMMA ActiveWritten ==
  ASSUME IndexInv, AddActive
  PROVE  /\ Active' = Active \cup {cur.slot}
         /\ \A j \in Active : j # cur.slot => idx'[j].hash = idx[j].hash
<1> DEFINE D == 0 .. Records(isz) - 1
<1>1. TypeInv /\ pc = "active" /\ pc \in AddPoints \ {"create"}
  BY DEF IndexInv, AddActive, AddPoints
<1>2. PICK i \in D : i = cur.slot
  BY <1>1, CurrentSlot
<1>3. idx \in [D -> Slot]
  BY <1>1, CurrentSlot
<1>4. PICK g : g = [idx EXCEPT ![i].active = TRUE]
  OBVIOUS
<1>5. idx' = g
  BY <1>2, <1>4, Zenon DEF AddActive
<1> HIDE DEF D
<1>6. g \in [D -> Slot]
  BY <1>3, <1>4, SetActive
<1>7. \A j \in D \ {i} : g[j] = idx[j]
  BY <1>3, <1>4, SetActive
<1>8. g[i].active = TRUE
  BY <1>3, <1>4, SetActive
<1>9. DOMAIN idx = D /\ DOMAIN idx' = D
  BY <1>3, <1>5, <1>6
<1>10. \A j \in D : idx'[j].active <=> idx[j].active \/ j = i
  BY <1>5, <1>7, <1>8
<1>11. Active' = Active \cup {i}
  BY <1>9, <1>10 DEF Active
<1>12. \A j \in Active : j # i => idx'[j].hash = idx[j].hash
  BY <1>5, <1>7, <1>9 DEF Active
<1> QED
  BY <1>2, <1>11, <1>12

\* Marking the slot active (IndexFile::create) keeps IndexInv.
LEMMA AddActiveIndex == IndexInv /\ AddActive => IndexInv'
<1> SUFFICES ASSUME IndexInv, AddActive PROVE IndexInv'
  OBVIOUS
<1>1. /\ pc = "active" /\ pc' = "hash"
      /\ UNCHANGED <<isz, isize, ifree, records, cur, li>>
  BY DEF AddActive, ivars, loop
<1>2. TypeInv' /\ TypeInv /\ MapExact
  BY <1>1, AddActiveType DEF IndexInv, Serving, Loaded, AddPoints
<1>3. /\ Active' = Active \cup {cur.slot}
      /\ \A j \in Active : j # cur.slot => idx'[j].hash = idx[j].hash
  BY ActiveWritten
<1>4. Pending = {cur.slot} /\ Pending' = {cur.slot} /\ Horizon' = Horizon /\ Slots' = Slots
  BY <1>1 DEF Pending, AddPoints, Horizon, Slots
<1>5. Used' = Used /\ Finished' = Finished
  BY <1>3, <1>4 DEF Used, Finished
<1>6. cur.slot \in Slots
  BY <1>1, <1>2, CurrentSlot DEF AddPoints
<1>7. Active' \subseteq Slots'
  BY <1>1, <1>3, <1>4, <1>6 DEF IndexInv, Serving, Loaded, AddPoints
<1>8. \A h \in DOMAIN records : idx'[records[h]].hash = idx[records[h]].hash
  BY <1>2, <1>3, <1>4 DEF MapExact, Finished
<1>9. AddExact' /\ LoopExact'
  BY <1>1, <1>3 DEF AddExact, LoopExact
<1> QED
  BY <1>1, <1>2, <1>4, <1>5, <1>7, <1>8, <1>9, Reindexed DEF Loaded, Serving, AddPoints

\* A write to a slot that leaves it active, or inactive, and every other slot
\* alone.
LEMMA SameActive ==
  ASSUME TypeInv, idx' \in [0 .. Records(isz) - 1 -> Slot],
         \A j \in 0 .. Records(isz) - 1 : idx'[j].active = idx[j].active
  PROVE  Active' = Active
<1>1. DOMAIN idx = 0 .. Records(isz) - 1 /\ DOMAIN idx' = 0 .. Records(isz) - 1
  BY TypedIndex
<1> QED
  BY <1>1 DEF Active

\* Writing the slot's hash (Store::add) keeps IndexInv.
LEMMA AddHashIndex == IndexInv /\ AddHash => IndexInv'
<1> SUFFICES ASSUME IndexInv, AddHash PROVE IndexInv'
  OBVIOUS
<1>1. /\ pc = "hash" /\ pc' = "offset"
      /\ UNCHANGED <<isz, isize, ifree, records, cur, li>>
  BY DEF AddHash, ivars, loop
<1>2. TypeInv' /\ TypeInv /\ MapExact
  BY <1>1, AddHashType DEF IndexInv, Serving, Loaded, AddPoints
<1>3. /\ idx' \in [0 .. Records(isz) - 1 -> Slot]
      /\ \A j \in 0 .. Records(isz) - 1 : idx'[j].active = idx[j].active
      /\ \A j \in 0 .. Records(isz) - 1 : j # cur.slot => idx'[j] = idx[j]
      /\ idx'[cur.slot].hash = cur.hash
  <2>1. pc \in AddPoints \ {"create"}
    BY <1>1 DEF AddPoints
  <2> DEFINE D == 0 .. Records(isz) - 1
  <2>2. cur.slot \in D /\ idx \in [D -> Slot] /\ cur.hash \in Hashes \cup {ZeroHash}
    BY <1>2, <2>1, CurrentSlot
  <2>3. PICK i \in D, v \in Hashes \cup {ZeroHash} : i = cur.slot /\ v = cur.hash
    BY <2>2
  <2>4. PICK g : g = [idx EXCEPT ![i].hash = v]
    OBVIOUS
  <2>5. idx' = g
    BY <2>3, <2>4, Zenon DEF AddHash
  <2>6. g \in [D -> Slot] /\ (\A j \in D \ {i} : g[j] = idx[j])
        /\ g[i].active = idx[i].active /\ g[i].hash = v
    <3> HIDE DEF D
    <3> QED
      BY <2>2, <2>4, SetHash
  <2> QED
    BY <2>3, <2>5, <2>6
<1>4. Active' = Active
  BY <1>2, <1>3, SameActive
<1>5. Pending = {cur.slot} /\ Pending' = {cur.slot} /\ Horizon' = Horizon /\ Slots' = Slots
  BY <1>1 DEF Pending, AddPoints, Horizon, Slots
<1>6. Used' = Used /\ Finished' = Finished
  BY <1>4, <1>5 DEF Used, Finished
<1>7. Active' \subseteq Slots'
  BY <1>1, <1>4, <1>5 DEF IndexInv, Serving, Loaded, AddPoints
<1>8. \A h \in DOMAIN records : idx'[records[h]].hash = idx[records[h]].hash
  <2>1. Active \subseteq 0 .. Records(isz) - 1
    BY <1>2, TypedIndex
  <2> QED
    BY <1>2, <1>3, <1>5, <2>1 DEF MapExact, Finished
<1>9. AddExact' /\ LoopExact'
  BY <1>1, <1>3, <1>4 DEF IndexInv, AddExact, LoopExact, TornPoints
<1> QED
  BY <1>1, <1>2, <1>5, <1>6, <1>7, <1>8, <1>9, Reindexed DEF Loaded, Serving, AddPoints

\* Writing the slot's offset (Store::add) keeps IndexInv.
LEMMA AddOffsetIndex == IndexInv /\ AddOffset => IndexInv'
<1> SUFFICES ASSUME IndexInv, AddOffset PROVE IndexInv'
  OBVIOUS
<1>1. /\ pc = "offset" /\ pc' = "flags"
      /\ UNCHANGED <<isz, isize, ifree, records, cur, li>>
  BY DEF AddOffset, ivars, loop
<1>2. TypeInv' /\ TypeInv /\ MapExact
  BY <1>1, AddOffsetType DEF IndexInv, Serving, Loaded, AddPoints
<1>3. /\ idx' \in [0 .. Records(isz) - 1 -> Slot]
      /\ \A j \in 0 .. Records(isz) - 1 : idx'[j].active = idx[j].active
      /\ \A j \in 0 .. Records(isz) - 1 : idx'[j].hash = idx[j].hash
      /\ cur.slot \in 0 .. Records(isz) - 1
  <2>1. pc \in AddPoints \ {"create"}
    BY <1>1 DEF AddPoints
  <2> DEFINE D == 0 .. Records(isz) - 1
  <2>2. cur.slot \in D /\ idx \in [D -> Slot] /\ cur.offset \in Nat
    BY <1>2, <2>1, CurrentSlot DEF Add
  <2>3. PICK i \in D, v \in Nat : i = cur.slot /\ v = cur.offset
    BY <2>2
  <2>4. PICK g : g = [idx EXCEPT ![i].offset = v]
    OBVIOUS
  <2>5. idx' = g
    BY <2>3, <2>4, Zenon DEF AddOffset
  <2>6. g \in [D -> Slot] /\ (\A j \in D \ {i} : g[j] = idx[j])
        /\ g[i].active = idx[i].active /\ g[i].hash = idx[i].hash
    <3> HIDE DEF D
    <3> QED
      BY <2>2, <2>4, SetOffset
  <2> QED
    BY <2>3, <2>5, <2>6
<1>4. Active' = Active
  BY <1>2, <1>3, SameActive
<1>5. Pending = {cur.slot} /\ Pending' = {cur.slot} /\ Horizon' = Horizon /\ Slots' = Slots
  BY <1>1 DEF Pending, AddPoints, Horizon, Slots
<1>6. Used' = Used /\ Finished' = Finished
  BY <1>4, <1>5 DEF Used, Finished
<1>7. Active' \subseteq Slots'
  BY <1>1, <1>4, <1>5 DEF IndexInv, Serving, Loaded, AddPoints
<1>8. \A h \in DOMAIN records : idx'[records[h]].hash = idx[records[h]].hash
  <2>1. Active \subseteq 0 .. Records(isz) - 1
    BY <1>2, TypedIndex
  <2> QED
    BY <1>2, <1>3, <2>1 DEF MapExact, Finished
<1>9. AddExact' /\ LoopExact'
  BY <1>1, <1>3, <1>4 DEF IndexInv, AddExact, LoopExact, TornPoints
<1> QED
  BY <1>1, <1>2, <1>5, <1>6, <1>7, <1>8, <1>9, Reindexed DEF Loaded, Serving, AddPoints

\* Store::adjrefs keeps IndexInv.
LEMMA AdjrefsIndex == \A h, d : d \in Deltas /\ IndexInv /\ Adjrefs(h, d) => IndexInv'
<1> SUFFICES ASSUME NEW h, NEW d \in Deltas, IndexInv, Adjrefs(h, d) PROVE IndexInv'
  OBVIOUS
<1>1. /\ pc = "idle" /\ pc' = "idle"
      /\ UNCHANGED <<isz, isize, ifree, records, cur, li>>
  BY DEF Adjrefs, Found, ivars, loop
<1>2. TypeInv' /\ TypeInv /\ MapExact
  BY <1>1, AdjrefsType DEF IndexInv, Serving, Loaded
<1>3. /\ idx' \in [0 .. Records(isz) - 1 -> Slot]
      /\ \A j \in 0 .. Records(isz) - 1 : idx'[j].active = idx[j].active
      /\ \A j \in 0 .. Records(isz) - 1 : idx'[j].hash = idx[j].hash
  BY <1>2, Recounted
<1>4. Active' = Active
  BY <1>2, <1>3, SameActive
<1>5. Pending' = Pending /\ Horizon' = Horizon /\ Slots' = Slots
  BY <1>1 DEF Pending, AddPoints, Horizon, Slots
<1>6. Used' = Used /\ Finished' = Finished
  BY <1>4, <1>5 DEF Used, Finished
<1>7. Active' \subseteq Slots'
  BY <1>1, <1>4, <1>5 DEF IndexInv, Serving, Loaded
<1>8. \A x \in DOMAIN records : idx'[records[x]].hash = idx[records[x]].hash
  <2>1. Active \subseteq 0 .. Records(isz) - 1
    BY <1>2, TypedIndex
  <2> QED
    BY <1>2, <1>3, <2>1 DEF MapExact, Finished
<1>9. AddExact' /\ LoopExact'
  BY <1>1 DEF AddExact, LoopExact, TornPoints
<1> QED
  BY <1>1, <1>2, <1>5, <1>6, <1>7, <1>8, <1>9, Reindexed DEF Loaded, Serving

-----------------------------------------------------------------------------
(* Opening. *)

\* Opening the files (the constructors of AutoFile, IndexFile and DataFile)
\* keeps IndexInv.
LEMMA OpenIndex == IndexInv /\ Open => IndexInv'
<1> SUFFICES ASSUME IndexInv, Open PROVE IndexInv'
  OBVIOUS
<1>1. /\ pc = "down" /\ pc' = "load"
      /\ UNCHANGED <<ifree, records, li>>
  BY DEF Open, loop
<1>2. TypeInv' /\ TypeInv
  BY OpenType DEF IndexInv
<1>3. li' = 0 /\ ifree' = <<>> /\ records' = <<>>
  BY <1>1 DEF IndexInv, Fresh
<1>4. Active' \subseteq Slots'
  BY <1>2, OpenActive
<1>5. Horizon' = 0 /\ DOMAIN ifree' = {} /\ DOMAIN records' = {}
  BY <1>1, <1>3 DEF Horizon
<1>6. StackExact' /\ MapExact'
  BY <1>5 DEF StackExact, MapExact
<1>7. Records(isize') \in Nat
  BY <1>2, RecordsMonotone DEF TypeInv, TypeOK, MemoryTypeOK
<1>8. AddExact' /\ LoopExact'
  BY <1>1, <1>3, <1>7 DEF AddExact, LoopExact, TornPoints
<1> QED
  BY <1>1, <1>2, <1>4, <1>6, <1>8 DEF IndexInv

\* Loading an inactive slot (IndexFile's constructor) keeps IndexInv.
LEMMA LoadFreeIndex == IndexInv /\ LoadFree => IndexInv'
<1> SUFFICES ASSUME IndexInv, LoadFree PROVE IndexInv'
  OBVIOUS
<1>1. /\ pc = "load" /\ pc' = "load" /\ li \in Slots /\ ~idx[li].active
      /\ ifree' = Append(ifree, li) /\ li' = li + 1
      /\ UNCHANGED <<idx, isz, isize, records, cur>>
  BY DEF LoadFree, disk
<1>2. TypeInv' /\ TypeInv /\ StackExact /\ MapExact
  BY <1>1, LoadFreeType DEF IndexInv, Loaded
<1>3. /\ Active' = Active /\ Slots' = Slots /\ Pending = {} /\ Pending' = {}
      /\ Horizon = li /\ Horizon' = li + 1 /\ Used = Active /\ Used' = Active
      /\ Finished = Active /\ Finished' = Active
  BY <1>1 DEF Active, Slots, Pending, AddPoints, Horizon, Used, Finished
<1>4. li \in Nat /\ ifree \in Seq(Nat) /\ li \notin Active
  BY <1>1, <1>2, TypedIndex DEF Active
<1>5. /\ DOMAIN ifree = 1 .. Len(ifree) /\ DOMAIN ifree' = 1 .. Len(ifree) + 1
      /\ \A k \in 1 .. Len(ifree) : ifree'[k] = ifree[k] /\ ifree[k] \in Nat
      /\ ifree'[Len(ifree) + 1] = li /\ Len(ifree) \in Nat
  BY <1>1, <1>4
<1>6. StackExact'
  <2>1. /\ \A j, k \in 1 .. Len(ifree) : j # k => ifree[j] # ifree[k]
        /\ \A k \in 1 .. Len(ifree) : ifree[k] < li /\ ifree[k] \notin Active
        /\ \A i \in Nat : i < li /\ i \notin Active => \E k \in 1 .. Len(ifree) : ifree[k] = i
    BY <1>2, <1>3, <1>5 DEF StackExact
  <2>2. \A j, k \in DOMAIN ifree' : j # k => ifree'[j] # ifree'[k]
    <3> SUFFICES ASSUME NEW j \in 1 .. Len(ifree) + 1, NEW k \in 1 .. Len(ifree) + 1, j # k
                 PROVE  ifree'[j] # ifree'[k]
      BY <1>5
    <3>1. CASE j \in 1 .. Len(ifree) /\ k \in 1 .. Len(ifree)
      BY <1>5, <2>1, <3>1
    <3>2. CASE j \in 1 .. Len(ifree) /\ k = Len(ifree) + 1
      BY <1>4, <1>5, <2>1, <3>2
    <3>3. CASE j = Len(ifree) + 1 /\ k \in 1 .. Len(ifree)
      BY <1>4, <1>5, <2>1, <3>3
    <3>4. Len(ifree) \in Nat
      BY <1>5
    <3> QED
      BY <3>1, <3>2, <3>3, <3>4
  <2>3. \A k \in DOMAIN ifree' : ifree'[k] < li + 1 /\ ifree'[k] \notin Active
    BY <1>4, <1>5, <2>1
  <2>4. \A i \in Nat : i < li + 1 /\ i \notin Active => \E k \in DOMAIN ifree' : ifree'[k] = i
    <3> SUFFICES ASSUME NEW i \in Nat, i < li + 1, i \notin Active
                 PROVE  \E k \in DOMAIN ifree' : ifree'[k] = i
      OBVIOUS
    <3>1. CASE i = li
      BY <1>5, <3>1
    <3>2. CASE i < li
      BY <1>5, <2>1, <3>2
    <3> QED
      BY <1>4, <3>1, <3>2
  <2> QED
    BY <1>3, <2>2, <2>3, <2>4 DEF StackExact
<1>7. MapExact'
  <2>1. \A h \in DOMAIN records : records[h] \in Nat /\ records[h] < li
    BY <1>2, <1>3 DEF MapExact, TypeInv, TypeOK, MemoryTypeOK
  <2>2. \A h \in DOMAIN records : records[h] < li + 1
    BY <1>4, <2>1
  <2> QED
    BY <1>1, <1>2, <1>3, <2>2 DEF MapExact
<1>8. AddExact' /\ LoopExact'
  <2>1. li < Records(isize) /\ Records(isize) \in Nat
    BY <1>1, <1>2, TypedIndex
  <2> QED
    BY <1>1, <1>4, <2>1 DEF AddExact, LoopExact, TornPoints
<1>9. Active' \subseteq Slots'
  BY <1>1, <1>3 DEF IndexInv, Loaded
<1> QED
  BY <1>1, <1>2, <1>6, <1>7, <1>8, <1>9 DEF IndexInv

\* The map entry of a loaded slot (Store's constructor) keeps IndexInv.
LEMMA MarkDoneIndex == IndexInv /\ MarkDone => IndexInv'
<1> SUFFICES ASSUME IndexInv, MarkDone PROVE IndexInv'
  OBVIOUS
<1>1. /\ pc = "mark" /\ pc' = "load" /\ records' = Mapped(records, idx[li].hash, li)
      /\ li' = li + 1
      /\ UNCHANGED <<idx, isz, isize, ifree, cur>>
  BY DEF MarkDone, disk, ivars
<1>2. TypeInv' /\ TypeInv /\ StackExact /\ MapExact /\ li \in Active
  BY <1>1, MarkDoneType DEF IndexInv, Loaded, LoopExact
<1>3. /\ Active' = Active /\ Slots' = Slots /\ Pending = {} /\ Pending' = {}
      /\ Horizon = li /\ Horizon' = li + 1 /\ Used = Active /\ Used' = Active
      /\ Finished = Active /\ Finished' = Active
  BY <1>1 DEF Active, Slots, Pending, AddPoints, Horizon, Used, Finished
<1>4. li \in Nat /\ \A k \in DOMAIN ifree : ifree[k] \in Nat
  BY <1>2, TypedIndex
<1>5. StackExact'
  <2>1. \A k \in DOMAIN ifree : ifree[k] < li
    BY <1>2, <1>3 DEF StackExact
  <2>2. \A k \in DOMAIN ifree : ifree[k] < li + 1
    BY <1>4, <2>1
  <2>3. \A i \in Nat : i < li + 1 /\ i \notin Active => i < li
    BY <1>2, <1>4
  <2> QED
    BY <1>1, <1>2, <1>3, <2>2, <2>3 DEF StackExact
<1>6. MapExact'
  <2>1. \A h \in DOMAIN records : records[h] \in Nat /\ records[h] < li
    BY <1>2, <1>3 DEF MapExact, TypeInv, TypeOK, MemoryTypeOK
  <2>2. \A h \in DOMAIN records : records[h] < li + 1
    BY <1>4, <2>1
  <2>3. PICK x : x = idx[li].hash
    OBVIOUS
  <2>4. /\ DOMAIN records' = DOMAIN records \cup {x}
        /\ \A h \in DOMAIN records' : records'[h] = IF h = x THEN li ELSE records[h]
    BY <1>1, <2>3 DEF Mapped
  <2>5. li < li + 1
    BY <1>4
  <2> QED
    BY <1>1, <1>2, <1>3, <2>2, <2>3, <2>4, <2>5 DEF MapExact
<1>7. AddExact' /\ LoopExact'
  <2>1. li < Records(isize) /\ Records(isize) \in Nat
    BY <1>1, <1>2, TypedIndex DEF IndexInv, Loaded
  <2> QED
    BY <1>1, <1>4, <2>1 DEF AddExact, LoopExact, TornPoints
<1>8. Active' \subseteq Slots'
  BY <1>1, <1>3 DEF IndexInv, Loaded
<1> QED
  BY <1>1, <1>2, <1>5, <1>6, <1>7, <1>8 DEF IndexInv

-----------------------------------------------------------------------------
(* A slot for the add. *)

\* A slot from the stack (IndexFile::create) keeps IndexInv.
LEMMA CreatePopIndex == IndexInv /\ CreatePop => IndexInv'
<1> SUFFICES ASSUME IndexInv, CreatePop PROVE IndexInv'
  OBVIOUS
<1>1. /\ pc = "create" /\ ifree # <<>> /\ pc' = "active"
      /\ cur' = [cur EXCEPT !.slot = Last(ifree)] /\ ifree' = Front(ifree)
      /\ UNCHANGED <<idx, isz, isize, records, li>>
  BY DEF CreatePop, Popped, disk, loop
<1>2. TypeInv' /\ TypeInv /\ StackExact /\ MapExact
  BY <1>1, CreatePopType DEF IndexInv, Loaded, Serving, AddPoints
<1>3. /\ Active' = Active /\ Slots' = Slots /\ Horizon' = Horizon
      /\ Used = Active /\ Finished = Active
  BY <1>1 DEF Active, Slots, Pending, AddPoints, Horizon, Used, Finished
<1>4. /\ Len(ifree) \in Nat \ {0} /\ DOMAIN ifree = 1 .. Len(ifree)
      /\ DOMAIN ifree' = 1 .. Len(ifree) - 1
      /\ \A k \in 1 .. Len(ifree) - 1 : ifree'[k] = ifree[k]
      /\ Last(ifree) = ifree[Len(ifree)]
  <2>1. ifree \in Seq(Nat) /\ DOMAIN ifree = 1 .. Len(ifree)
    BY <1>2, TypedIndex
  <2>2. /\ Len(ifree) \in Nat \ {0} /\ Last(ifree) = ifree[Len(ifree)]
        /\ Front(ifree) \in Seq(Nat) /\ Len(Front(ifree)) = Len(ifree) - 1
        /\ \A k \in 1 .. Len(ifree) - 1 : Front(ifree)[k] = ifree[k]
    BY <1>1, <2>1, FrontFacts
  <2>3. PICK s \in Seq(Nat) : s = Front(ifree) /\ DOMAIN s = 1 .. Len(s)
    BY <2>2
  <2> QED
    BY <1>1, <2>1, <2>2, <2>3
<1>5. PICK m : m = Len(ifree) /\ m \in 1 .. Len(ifree)
  BY <1>4
<1>6. PICK s : s = ifree[m] /\ cur'.slot = s
  <2>1. cur \in Add
    BY <1>2 DEF TypeInv, TypeOK, MemoryTypeOK
  <2> QED
    BY <1>1, <1>4, <1>5, <2>1 DEF Add
<1>7. Pending' = {s} /\ Used' = Active \cup {s} /\ Finished' = Active \ {s}
  BY <1>1, <1>3, <1>6 DEF Pending, AddPoints, Used, Finished
<1>8. s \notin Active
  BY <1>2, <1>3, <1>4, <1>5, <1>6 DEF StackExact
<1>9. StackExact'
  <2>1. /\ \A j, k \in 1 .. m : j # k => ifree[j] # ifree[k]
        /\ \A k \in 1 .. m : ifree[k] < Horizon /\ ifree[k] \notin Active
        /\ \A i \in Nat : i < Horizon /\ i \notin Active => \E k \in 1 .. m : ifree[k] = i
    BY <1>2, <1>3, <1>4, <1>5 DEF StackExact
  <2>2. m \in Nat \ {0} /\ DOMAIN ifree' = 1 .. m - 1
        /\ \A k \in 1 .. m - 1 : ifree'[k] = ifree[k]
    BY <1>4, <1>5
  <2>3. \A j, k \in DOMAIN ifree' : j # k => ifree'[j] # ifree'[k]
    BY <2>1, <2>2
  <2>4. \A k \in DOMAIN ifree' : ifree'[k] < Horizon /\ ifree'[k] \notin Active \cup {s}
    BY <1>6, <2>1, <2>2
  <2>5. \A i \in Nat : i < Horizon /\ i \notin Active \cup {s}
                       => \E k \in DOMAIN ifree' : ifree'[k] = i
    <3> SUFFICES ASSUME NEW i \in Nat, i < Horizon, i \notin Active \cup {s}
                 PROVE  \E k \in DOMAIN ifree' : ifree'[k] = i
      OBVIOUS
    <3>1. PICK k \in 1 .. m : ifree[k] = i
      BY <2>1
    <3>2. k # m
      BY <1>6, <3>1
    <3> QED
      BY <2>2, <3>1, <3>2
  <2> QED
    BY <1>3, <1>7, <2>3, <2>4, <2>5 DEF StackExact
<1>10. MapExact'
  BY <1>1, <1>2, <1>3, <1>7, <1>8 DEF MapExact
<1>11. AddExact' /\ LoopExact'
  BY <1>1, <1>3, <1>6, <1>8 DEF AddExact, LoopExact, TornPoints
<1>12. Active' \subseteq Slots'
  BY <1>1, <1>3 DEF IndexInv, Loaded, Serving, AddPoints
<1> QED
  BY <1>1, <1>2, <1>9, <1>10, <1>11, <1>12 DEF IndexInv

\* A growth of the index (IndexFile::create) keeps IndexInv.
LEMMA CreateGrowIndex == IndexInv /\ CreateGrow => IndexInv'
<1> SUFFICES ASSUME IndexInv, CreateGrow PROVE IndexInv'
  OBVIOUS
<1>1. /\ pc = "create" /\ pc' = "active" /\ ifree = <<>>
      /\ cur' = [cur EXCEPT !.slot = Records(isize)]
      /\ ifree' = NewSlots(Records(isize), Records(isize'))
      /\ UNCHANGED <<records, li>>
  BY DEF CreateGrow, loop
<1>2. TypeInv' /\ TypeInv /\ StackExact /\ MapExact /\ Active \subseteq Slots
  BY <1>1, CreateGrowType DEF IndexInv, Loaded, Serving, AddPoints
<1>3. PICK a \in Nat, b \in Nat : a = Records(isize) /\ b = Records(isize') /\ a < b
  BY <1>2, IndexGrowth
<1>4. Active' = Active /\ \A i \in Active : idx'[i] = idx[i]
  BY <1>2, CreateGrowActive
<1>5. cur'.slot = a
  <2>1. cur \in Add
    BY <1>2 DEF TypeInv, TypeOK, MemoryTypeOK
  <2> QED
    BY <1>1, <1>3, <2>1 DEF Add
<1>6. /\ Used = Active /\ Finished = Active /\ Horizon = a /\ Horizon' = b
      /\ Pending' = {a} /\ Used' = Active \cup {a} /\ Finished' = Active \ {a}
  BY <1>1, <1>3, <1>4, <1>5 DEF Pending, AddPoints, Horizon, Used, Finished
<1>7. \A i \in Active : i \in Nat /\ i < a
  BY <1>2, <1>3 DEF Slots
<1>8. a \notin Active
  BY <1>3, <1>7
<1>9. StackExact'
  <2>1. /\ DOMAIN ifree' = 1 .. b - a - 1
        /\ \A k \in 1 .. b - a - 1 : ifree'[k] = a + k
    BY <1>1, <1>3, NewSlotsFacts
  <2>2. \A j, k \in DOMAIN ifree' : j # k => ifree'[j] # ifree'[k]
    BY <1>3, <2>1
  <2>3. \A k \in DOMAIN ifree' : ifree'[k] < b /\ ifree'[k] \notin Active \cup {a}
    BY <1>3, <1>7, <2>1
  <2>4. \A i \in Nat : i < b /\ i \notin Active \cup {a} => \E k \in DOMAIN ifree' : ifree'[k] = i
    <3> SUFFICES ASSUME NEW i \in Nat, i < b, i \notin Active \cup {a}
                 PROVE  \E k \in DOMAIN ifree' : ifree'[k] = i
      OBVIOUS
    <3>1. i >= a
      BY <1>1, <1>2, <1>3, <1>6 DEF StackExact
    <3>2. i - a \in 1 .. b - a - 1
      BY <1>3, <3>1
    <3>3. ifree'[i - a] = i
      BY <1>3, <2>1, <3>2
    <3> QED
      BY <2>1, <3>2, <3>3
  <2> QED
    BY <1>6, <2>2, <2>3, <2>4 DEF StackExact
<1>10. MapExact'
  <2>1. \A h \in DOMAIN records : /\ records[h] \in Active /\ records[h] < b
                                 /\ idx[records[h]].hash = h
    BY <1>2, <1>3, <1>6, <1>7 DEF MapExact
  <2> QED
    BY <1>1, <1>4, <1>6, <1>8, <2>1 DEF MapExact
<1>11. AddExact' /\ LoopExact'
  BY <1>1, <1>4, <1>5, <1>8 DEF AddExact, LoopExact, TornPoints
<1>12. Active' \subseteq Slots'
  BY <1>3, <1>4, <1>7 DEF Slots
<1> QED
  BY <1>1, <1>2, <1>9, <1>10, <1>11, <1>12 DEF IndexInv

\* Writing the slot's flags, the end of an add keeps IndexInv.
LEMMA AddFlagsIndex == IndexInv /\ AddFlags => IndexInv'
<1> SUFFICES ASSUME IndexInv, AddFlags PROVE IndexInv'
  OBVIOUS
<1>1. /\ pc = "flags" /\ pc' = "idle"
      /\ records' = Mapped(records, cur.hash, cur.slot)
      /\ UNCHANGED <<isz, isize, ifree, li>>
  BY DEF AddFlags, ivars, loop
<1>2. TypeInv' /\ TypeInv /\ StackExact /\ MapExact /\ Active \subseteq Slots
  BY <1>1, AddFlagsType DEF IndexInv, Loaded, Serving, AddPoints
<1>3. /\ idx' \in [0 .. Records(isz) - 1 -> Slot]
      /\ cur.slot \in Slots
      /\ \A j \in 0 .. Records(isz) - 1 : idx'[j].active = idx[j].active
      /\ \A j \in 0 .. Records(isz) - 1 : idx'[j].hash = idx[j].hash
  BY <1>1, <1>2, FlagsWritten, CurrentSlot DEF AddPoints
<1>4. Active' = Active
  BY <1>2, <1>3, SameActive
<1>5. PICK s, x : s = cur.slot /\ x = cur.hash
  OBVIOUS
<1>6. s \in Active /\ idx[s].hash = x
  BY <1>1, <1>5 DEF IndexInv, AddExact, TornPoints
<1>7. /\ Pending = {s} /\ Pending' = {} /\ Used = Active /\ Used' = Active
      /\ Finished = Active \ {s} /\ Finished' = Active /\ Horizon' = Horizon /\ Slots' = Slots
      /\ Horizon = Records(isize)
  BY <1>1, <1>4, <1>5, <1>6 DEF Pending, AddPoints, Used, Finished, Horizon, Slots
<1>8. StackExact'
  BY <1>1, <1>2, <1>7 DEF StackExact
<1>9. MapExact'
  <2>1. /\ DOMAIN records' = DOMAIN records \cup {x}
        /\ \A h \in DOMAIN records' : records'[h] = IF h = x THEN s ELSE records[h]
    BY <1>1, <1>5 DEF Mapped
  <2>2. s < Horizon
    BY <1>2, <1>3, <1>5, <1>7, TypedIndex
  <2>3. \A i \in Active : idx'[i].hash = idx[i].hash
    BY <1>2, <1>3, TypedIndex
  <2> QED
    BY <1>2, <1>6, <1>7, <2>1, <2>2, <2>3 DEF MapExact
<1>10. AddExact' /\ LoopExact'
  BY <1>1 DEF AddExact, LoopExact, TornPoints
<1>11. Active' \subseteq Slots'
  BY <1>2, <1>4, <1>7
<1> QED
  BY <1>1, <1>2, <1>8, <1>9, <1>10, <1>11 DEF IndexInv

\* Store::remove keeps IndexInv.
LEMMA RemoveChunkIndex == \A h : IndexInv /\ RemoveChunk(h) => IndexInv'
<1> SUFFICES ASSUME NEW h, IndexInv, RemoveChunk(h) PROVE IndexInv'
  OBVIOUS
<1>1. /\ pc = "idle" /\ pc' = "idle" /\ h \in DOMAIN records
      /\ ifree' = Append(ifree, records[h])
      /\ records' = Unmapped(records, h)
      /\ UNCHANGED <<isz, isize, cur, li>>
  BY DEF RemoveChunk, Found, Stored, loop
<1>2. TypeInv' /\ TypeInv /\ StackExact /\ MapExact /\ Active \subseteq Slots
  BY <1>1, RemoveChunkType DEF IndexInv, Loaded, Serving
<1>3. PICK s \in Nat : s = records[h]
  BY <1>1, <1>2 DEF TypeInv, TypeOK, MemoryTypeOK
<1>4. /\ Pending = {} /\ Pending' = {} /\ Horizon' = Horizon /\ Slots' = Slots
      /\ Used = Active /\ Finished = Active /\ Used' = Active' /\ Finished' = Active'
  BY <1>1 DEF Pending, AddPoints, Used, Finished, Horizon, Slots
<1>5. s < Horizon /\ s \in Active /\ idx[s].hash = h
  BY <1>1, <1>2, <1>3, <1>4 DEF MapExact
<1>6. Active' = Active \ {s} /\ \A i \in Active' : idx'[i] = idx[i]
  <2>1. /\ idx' \in [0 .. Records(isz) - 1 -> Slot]
        /\ \A j \in 0 .. Records(isz) - 1 : j # s => idx'[j] = idx[j]
        /\ idx'[s].active = FALSE
    BY <1>2, <1>3, Deactivated
  <2>2. DOMAIN idx = 0 .. Records(isz) - 1 /\ DOMAIN idx' = 0 .. Records(isz) - 1
    BY <1>2, <2>1, TypedIndex
  <2>3. \A i \in Active' : i # s /\ i \in 0 .. Records(isz) - 1
    BY <2>1, <2>2 DEF Active
  <2>4. \A i \in Active' : idx'[i] = idx[i]
    BY <2>1, <2>3
  <2>5. Active' \subseteq Active \ {s}
    BY <2>2, <2>3, <2>4 DEF Active
  <2>6. Active \ {s} \subseteq Active'
    BY <2>1, <2>2 DEF Active
  <2> QED
    BY <2>4, <2>5, <2>6
<1>7. /\ DOMAIN ifree = 1 .. Len(ifree) /\ DOMAIN ifree' = 1 .. Len(ifree) + 1
      /\ \A k \in 1 .. Len(ifree) : ifree'[k] = ifree[k]
      /\ ifree'[Len(ifree) + 1] = s /\ Len(ifree) \in Nat
  BY <1>1, <1>2, <1>3, TypedIndex
<1>8. StackExact'
  <2>1. /\ \A j, k \in 1 .. Len(ifree) : j # k => ifree[j] # ifree[k]
        /\ \A k \in 1 .. Len(ifree) : ifree[k] < Horizon /\ ifree[k] \notin Active
        /\ \A i \in Nat : i < Horizon /\ i \notin Active => \E k \in 1 .. Len(ifree) : ifree[k] = i
    BY <1>2, <1>4, <1>7 DEF StackExact
  <2>2. \A j, k \in DOMAIN ifree' : j # k => ifree'[j] # ifree'[k]
    BY <1>5, <1>7, <2>1
  <2>3. \A k \in DOMAIN ifree' : ifree'[k] < Horizon /\ ifree'[k] \notin Active \ {s}
    BY <1>5, <1>7, <2>1
  <2>4. \A i \in Nat : i < Horizon /\ i \notin Active \ {s} => \E k \in DOMAIN ifree' : ifree'[k] = i
    <3> SUFFICES ASSUME NEW i \in Nat, i < Horizon, i \notin Active \ {s}
                 PROVE  \E k \in DOMAIN ifree' : ifree'[k] = i
      OBVIOUS
    <3>1. CASE i = s
      BY <1>7, <3>1
    <3>2. CASE i # s
      BY <1>7, <2>1, <3>2
    <3> QED
      BY <3>1, <3>2
  <2> QED
    BY <1>4, <1>6, <2>2, <2>3, <2>4 DEF StackExact
<1>9. MapExact'
  <2>1. /\ DOMAIN records' = DOMAIN records \ {h}
        /\ \A x \in DOMAIN records' : records'[x] = records[x]
    BY <1>1 DEF Unmapped, Restrict
  <2>2. \A x \in DOMAIN records : /\ records[x] < Horizon /\ records[x] \in Active
                                 /\ idx[records[x]].hash = x
    BY <1>2, <1>4 DEF MapExact
  <2>3. \A x \in DOMAIN records' : records[x] # s
    BY <1>5, <2>1, <2>2
  <2> QED
    BY <1>4, <1>6, <2>1, <2>2, <2>3 DEF MapExact
<1>10. AddExact' /\ LoopExact'
  BY <1>1 DEF AddExact, LoopExact, TornPoints
<1>11. Active' \subseteq Slots'
  BY <1>2, <1>4, <1>6
<1> QED
  BY <1>1, <1>2, <1>8, <1>9, <1>10, <1>11 DEF IndexInv

-----------------------------------------------------------------------------
(* The process stops serving: it hangs, ends or is killed. *)

\* A process that is down or stuck has nothing to keep.
LEMMA StoppedIndex ==
  ASSUME TypeInv', pc' \in {"down", "stuck"}, pc' = "down" => Fresh'
  PROVE  IndexInv'
BY DEF IndexInv, Loaded, Serving, AddPoints, AddExact, LoopExact, TornPoints

\* A step of somebody else keeps IndexInv.
LEMMA StutterIndex == IndexInv /\ UNCHANGED vars => IndexInv'
<1> SUFFICES ASSUME IndexInv, UNCHANGED vars PROVE IndexInv'
  OBVIOUS
<1>1. TypeInv'
  BY StutterType DEF IndexInv
<1>2. UNCHANGED <<idx, isize, ifree, records, cur, li, pc>>
  BY DEF vars, disk, ivars, loop
<1>3. /\ Active' = Active /\ Slots' = Slots /\ Pending' = Pending /\ Horizon' = Horizon
      /\ (Loaded' <=> Loaded) /\ (Fresh' <=> Fresh)
  BY <1>2 DEF Active, Slots, Pending, Horizon, Loaded, Serving, Fresh
<1>4. Used' = Used /\ Finished' = Finished
  BY <1>3 DEF Used, Finished
<1>5. (StackExact' <=> StackExact) /\ (MapExact' <=> MapExact)
  BY <1>2, <1>3, <1>4 DEF StackExact, MapExact
<1>6. AddExact' /\ LoopExact'
  BY <1>2, <1>3 DEF IndexInv, AddExact, LoopExact
<1> QED
  BY <1>1, <1>2, <1>3, <1>5, <1>6 DEF IndexInv

-----------------------------------------------------------------------------
(* The theorems. *)

\* The stack and the map are as exact as IndexInv says when the store has
\* never been opened.
THEOREM InitIndex == Init => IndexInv
BY InitType DEF Init, IndexInv, Fresh, Loaded, Serving, AddPoints, AddExact, LoopExact, TornPoints

\* Every step of the store keeps the index exact, a kill at any point included.
THEOREM NextIndex == IndexInv /\ [Next]_vars => IndexInv'
<1> SUFFICES ASSUME IndexInv, [Next]_vars PROVE IndexInv'
  OBVIOUS
<1>1. TypeInv'
  BY NextType DEF IndexInv
<1>2. CASE Loading
  BY <1>2, OpenIndex, LoadFreeIndex, LoadActiveIndex, MarkStepIndex, MarkDoneIndex,
     LoadDoneIndex DEF Loading
<1>3. CASE \E h \in Hashes, flags \in Flags : AddFit(h, flags) \/ AddGrow(h, flags)
  BY <1>3, AddBeginIndex
<1>4. CASE Adding
  <2>1. CreateHang => IndexInv'
    BY <1>1, StoppedIndex DEF CreateHang
  <2> QED
    BY <1>4, <2>1, CreatePopIndex, CreateGrowIndex, AddActiveIndex, AddHashIndex,
       AddOffsetIndex, AddFlagsIndex DEF Adding
<1>5. CASE Calling
  <2> SUFFICES ASSUME NEW h \in Hashes \cup {ZeroHash},
                      \/ RemoveChunk(h) \/ Leak(h) \/ GetHang(h)
                      \/ \E d \in Deltas : Adjrefs(h, d)
               PROVE  IndexInv'
    BY <1>5 DEF Calling
  <2>1. GetHang(h) => IndexInv'
    BY <1>1, StoppedIndex DEF GetHang
  <2> QED
    BY <1>1, <2>1, RemoveChunkIndex, LeakIndex, AdjrefsIndex
<1>6. CASE Close \/ CloseHang \/ Crash
  BY <1>1, <1>6, StoppedIndex DEF Close, CloseHang, Crash, Forget, Fresh
<1>7. CASE UNCHANGED vars
  BY <1>7, StutterIndex
<1> QED
  BY <1>2, <1>3, <1>4, <1>5, <1>6, <1>7 DEF Next

\* The invariant gives the two properties.
LEMMA IndexExact == IndexInv => SlotsExact /\ MapSound
<1> SUFFICES ASSUME IndexInv, Serving PROVE SlotsExact /\ MapSound
  BY DEF SlotsExact, MapSound
<1>1. TypeInv /\ StackExact /\ MapExact /\ Horizon = Records(isize)
  BY DEF IndexInv, Loaded, Serving, AddPoints, Horizon
<1>2. /\ Slots = 0 .. Records(isize) - 1 /\ Records(isize) \in Nat
      /\ \A k \in DOMAIN ifree : ifree[k] \in Nat
  BY <1>1, TypedIndex
<1>3. {ifree[k] : k \in DOMAIN ifree} = Slots \ (Active \cup Pending)
  <2>1. {ifree[k] : k \in DOMAIN ifree} \subseteq Slots \ (Active \cup Pending)
    BY <1>1, <1>2 DEF StackExact, Used
  <2>2. \A i \in Slots \ (Active \cup Pending) : \E k \in DOMAIN ifree : ifree[k] = i
    BY <1>1, <1>2 DEF StackExact, Used
  <2> QED
    BY <2>1, <2>2
<1> QED
  BY <1>1, <1>3 DEF SlotsExact, MapSound, StackExact, MapExact, Finished

\* Whatever was added, removed, reopened and killed before, the stack of free
\* slots of a serving store holds each slot no chunk has exactly once.
THEOREM SlotsAlwaysExact == Spec => []SlotsExact
BY InitIndex, NextIndex, IndexExact, PTL DEF Spec

\* Whatever was killed before, a hash the serving store knows leads to an
\* active slot that holds this hash.
THEOREM MapAlwaysSound == Spec => []MapSound
BY InitIndex, NextIndex, IndexExact, PTL DEF Spec
-----------------------------------------------------------------------------
(* What each step does to the finished slots, those of chunks.  Three of   *)
(* them do something: the end of an add, a remove and an adjrefs; and a    *)
(* kill between two writes of an add leaves a slot nobody finished.        *)

Untouched == Finished' = Finished /\ \A i \in Finished : idx'[i] = idx[i]

\* A step that leaves the file and the pending slot alone.
LEMMA SameIndex ==
  ASSUME idx' = idx, Pending' = Pending
  PROVE  Untouched
BY DEF Untouched, Finished, Active

\* A step that is not in an add, before or after, and leaves the file alone.
LEMMA SameIndexOutside ==
  ASSUME idx' = idx, pc \notin AddPoints \ {"create"}, pc' \notin AddPoints \ {"create"}
  PROVE  Untouched
<1>1. Pending = {} /\ Pending' = {}
  BY DEF Pending
<1> QED
  BY <1>1, SameIndex

\* Opening the files leaves every chunk's slot as it was.
LEMMA OpenUntouched == IndexInv /\ Open => Untouched
<1> SUFFICES ASSUME IndexInv, Open PROVE Untouched
  OBVIOUS
<1>1. Active' = Active /\ \A i \in Active : idx'[i] = idx[i]
  BY OpenActive DEF IndexInv
<1>2. Pending = {} /\ Pending' = {}
  BY DEF Open, Pending, AddPoints
<1> QED
  BY <1>1, <1>2 DEF Untouched, Finished

\* So do the steps that load the store.
LEMMA LoadingUntouched == IndexInv /\ Loading => Untouched
<1> SUFFICES ASSUME IndexInv, Loading PROVE Untouched
  OBVIOUS
<1>1. CASE LoadFree \/ LoadActive \/ MarkStep \/ MarkDone \/ LoadDone
  BY <1>1, SameIndexOutside
  DEF LoadFree, LoadActive, MarkStep, MarkDone, LoadDone, disk, AddPoints
<1> QED
  BY <1>1, OpenUntouched DEF Loading

\* The start of an add touches no slot.
LEMMA AddBeginUntouched ==
  \A h, flags : AddFit(h, flags) \/ AddGrow(h, flags) => Untouched
BY SameIndexOutside DEF AddFit, AddGrow, AddPoints

\* Nor does taking a slot from the stack: it is not a chunk's.
LEMMA CreatePopUntouched == IndexInv /\ CreatePop => Untouched
<1> SUFFICES ASSUME IndexInv, CreatePop PROVE Untouched
  OBVIOUS
<1>1. pc = "create" /\ pc' = "active" /\ idx' = idx
  BY DEF CreatePop, disk
<1>2. AddExact'
  BY CreatePopIndex DEF IndexInv
<1>3. Active' = Active /\ Pending = {} /\ Pending' = {cur'.slot} /\ cur'.slot \notin Active
  BY <1>1, <1>2 DEF Active, Pending, AddPoints, AddExact
<1> QED
  BY <1>1, <1>3 DEF Untouched, Finished

\* Nor does a growth of the index.
LEMMA CreateGrowUntouched == IndexInv /\ CreateGrow => Untouched
<1> SUFFICES ASSUME IndexInv, CreateGrow PROVE Untouched
  OBVIOUS
<1>1. pc = "create" /\ pc' = "active"
  BY DEF CreateGrow
<1>2. AddExact'
  BY CreateGrowIndex DEF IndexInv
<1>3. Active' = Active /\ \A i \in Active : idx'[i] = idx[i]
  BY <1>1, CreateGrowActive DEF IndexInv, Loaded, Serving, AddPoints
<1>4. Pending = {} /\ Pending' = {cur'.slot} /\ cur'.slot \notin Active
  BY <1>1, <1>2, <1>3 DEF Pending, AddPoints, AddExact
<1> QED
  BY <1>3, <1>4 DEF Untouched, Finished

\* A write to the slot of the add leaves every other slot as it was.
LEMMA PendingWritten ==
  ASSUME IndexInv, AddActive \/ AddHash \/ AddOffset \/ AddFlags
  PROVE  /\ Pending = {cur.slot}
         /\ Active' = Active \cup {cur.slot}
         /\ \A i \in Active \ {cur.slot} : idx'[i] = idx[i]
<1>1. TypeInv /\ pc \in AddPoints \ {"create"}
  BY DEF IndexInv, AddActive, AddHash, AddOffset, AddFlags, AddPoints
<1> DEFINE D == 0 .. Records(isz) - 1
<1>2. cur.slot \in D /\ idx \in [D -> Slot] /\ DOMAIN idx = D /\ Active \subseteq D
  BY <1>1, CurrentSlot, TypedIndex
<1>3. idx' \in [D -> Slot] /\ DOMAIN idx' = D
  <2>1. TypeInv' /\ isz' = isz
    BY <1>1, AddActiveType, AddHashType, AddOffsetType, AddFlagsType
    DEF AddActive, AddHash, AddOffset, AddFlags
  <2> QED
    BY <2>1 DEF TypeInv, TypeOK, DiskTypeOK
<1>4. \A j \in D \ {cur.slot} : idx'[j] = idx[j]
  <2>1. CASE AddActive
    BY <1>2, <2>1 DEF AddActive
  <2>2. CASE AddHash
    BY <1>2, <2>2 DEF AddHash
  <2>3. CASE AddOffset
    BY <1>2, <2>3 DEF AddOffset
  <2>4. CASE AddFlags
    BY <1>1, <2>4, FlagsWritten
  <2> QED
    BY <2>1, <2>2, <2>3, <2>4
<1>5. cur.slot \in Active'
  <2>1. CASE AddActive
    BY <2>1, ActiveWritten
  <2>2. CASE AddHash
    BY <2>2, AddHashIndex DEF IndexInv, AddExact, AddHash, TornPoints
  <2>3. CASE AddOffset
    BY <2>3, AddOffsetIndex DEF IndexInv, AddExact, AddOffset, TornPoints
  <2>4. CASE AddFlags
    <3>1. idx[cur.slot].active
      BY <2>4 DEF IndexInv, AddExact, AddFlags, TornPoints, Active
    <3>2. idx'[cur.slot].active
      BY <1>1, <2>4, <3>1, FlagsWritten
    <3> QED
      BY <1>2, <1>3, <3>2 DEF Active
  <2> QED
    BY <2>1, <2>2, <2>3, <2>4
<1>6. \A j \in D \ {cur.slot} : j \in Active' <=> j \in Active
  BY <1>2, <1>3, <1>4 DEF Active
<1>7. Active' \subseteq D
  BY <1>3 DEF Active
<1> QED
  BY <1>1, <1>2, <1>4, <1>5, <1>6, <1>7 DEF Pending

\* The writes of an add before its last touch no chunk's slot.
LEMMA WritesUntouched == IndexInv /\ (AddActive \/ AddHash \/ AddOffset) => Untouched
<1> SUFFICES ASSUME IndexInv, AddActive \/ AddHash \/ AddOffset PROVE Untouched
  OBVIOUS
<1>1. Pending' = {cur.slot}
  BY DEF AddActive, AddHash, AddOffset, Pending, AddPoints
<1> QED
  BY <1>1, PendingWritten DEF Untouched, Finished

\* The last write of an add makes its slot a chunk's.
LEMMA FinishedAdded ==
  ASSUME IndexInv, AddFlags
  PROVE  /\ cur.slot \notin Finished
         /\ Finished' = Finished \cup {cur.slot}
         /\ \A i \in Finished : idx'[i] = idx[i]
         /\ idx'[cur.slot].hash = cur.hash /\ idx'[cur.slot].length = Length[cur.hash]
         /\ idx'[cur.slot].type = cur.type /\ idx'[cur.slot].refs = cur.refs
<1>1. Pending' = {} /\ Pending = {cur.slot}
  BY PendingWritten DEF AddFlags, Pending, AddPoints
<1>2. idx[cur.slot].hash = cur.hash
  BY DEF IndexInv, AddExact, AddFlags
<1>3. TypeInv
  BY DEF IndexInv
<1> QED
  BY <1>1, <1>2, <1>3, FlagsWritten, PendingWritten DEF Finished

\* A remove takes the slot its hash leads to out of the chunks'.
LEMMA FinishedRemoved ==
  ASSUME IndexInv, NEW h, RemoveChunk(h)
  PROVE  /\ h \in DOMAIN records /\ records[h] \in Finished /\ idx[records[h]].hash = h
         /\ Finished' = Finished \ {records[h]}
         /\ \A i \in Finished' : idx'[i] = idx[i]
<1>1. TypeInv /\ h \in DOMAIN records /\ pc = "idle" /\ pc' = "idle"
  BY FoundSlot DEF IndexInv, RemoveChunk
<1>2. records[h] \in Finished /\ idx[records[h]].hash = h
  BY <1>1 DEF IndexInv, MapExact, Loaded, Serving
<1>3. Pending = {} /\ Pending' = {} /\ Finished = Active /\ Finished' = Active'
  BY <1>1 DEF Pending, AddPoints, Finished
<1>4. /\ DOMAIN idx = 0 .. Records(isz) - 1 /\ DOMAIN idx' = 0 .. Records(isz) - 1
      /\ \A j \in 0 .. Records(isz) - 1 : j # records[h] => idx'[j] = idx[j]
      /\ ~ idx'[records[h]].active
  BY <1>1, Deactivated, TypedIndex
<1>5. Active' = Active \ {records[h]}
  BY <1>4 DEF Active
<1>6. \A i \in Active' : idx'[i] = idx[i]
  BY <1>4, <1>5 DEF Active
<1> QED
  BY <1>1, <1>2, <1>3, <1>5, <1>6

\* An adjrefs changes the references of the slot its hash leads to.
LEMMA FinishedRecounted ==
  ASSUME IndexInv, NEW h, NEW d \in Deltas, Adjrefs(h, d)
  PROVE  /\ h \in DOMAIN records /\ records[h] \in Finished /\ idx[records[h]].hash = h
         /\ Finished' = Finished
         /\ \A i \in Finished :
              /\ idx'[i].active = idx[i].active /\ idx'[i].hash = idx[i].hash
              /\ idx'[i].offset = idx[i].offset /\ idx'[i].length = idx[i].length
              /\ idx'[i].type = idx[i].type
              /\ i # records[h] => idx'[i].refs = idx[i].refs
         /\ idx'[records[h]].refs = (idx[records[h]].refs + d) % REFS
<1>1. TypeInv /\ h \in DOMAIN records /\ pc = "idle" /\ pc' = "idle"
  BY FoundSlot DEF IndexInv, Adjrefs
<1>2. records[h] \in Finished /\ idx[records[h]].hash = h
  BY <1>1 DEF IndexInv, MapExact, Loaded, Serving
<1>3. Pending = {} /\ Pending' = {} /\ Finished = Active /\ Finished' = Active'
  BY <1>1 DEF Pending, AddPoints, Finished
<1>4. Active' = Active
  BY <1>1, Recounted, SameActive
<1>5. Finished \subseteq 0 .. Records(isz) - 1
  BY <1>1, <1>3, TypedIndex
<1> QED
  BY <1>1, <1>2, <1>3, <1>4, <1>5, Recounted

\* A kill touches no chunk's slot, unless it falls between two writes of an
\* add: then it leaves an active slot behind.
LEMMA CrashUntouched == IndexInv /\ Crash /\ pc \notin TornPoints => Untouched
<1> SUFFICES ASSUME IndexInv, Crash, pc \notin TornPoints PROVE Untouched
  OBVIOUS
<1>1. idx' = idx /\ pc' = "down" /\ Pending' = {} /\ Active' = Active
  BY DEF Crash, disk, Pending, AddPoints, Active
<1>2. Active \ Pending = Active
  BY DEF IndexInv, AddExact, Pending, AddPoints, TornPoints
<1> QED
  BY <1>1, <1>2 DEF Untouched, Finished

\* The other steps touch none.
LEMMA OthersUntouched ==
  \/ CreateHang \/ Close \/ CloseHang \/ UNCHANGED vars
  \/ \E h : Leak(h) \/ GetHang(h)
  => Untouched
<1> USE DEF disk, AddPoints
<1>1. CreateHang \/ Close \/ CloseHang => Untouched
  BY SameIndexOutside DEF CreateHang, Close, CloseHang
<1>2. UNCHANGED vars => Untouched
  <2>1. UNCHANGED vars => idx' = idx /\ Pending' = Pending
    BY DEF vars, Pending
  <2> QED
    BY <2>1, SameIndex
<1>3. \A h : Leak(h) \/ GetHang(h) => Untouched
  BY SameIndexOutside DEF Leak, GetHang, Found
<1> QED
  BY <1>1, <1>2, <1>3

-----------------------------------------------------------------------------
(* The counters. *)

\* Counting one element more: Counted with 1 keeps each counter the number of
\* elements of its type.
LEMMA CountOneMore ==
  ASSUME NEW F, IsFiniteSet(F), NEW s, s \notin F, NEW type,
         NEW counts \in [ChunkTypes -> Int],
         \A t \in ChunkTypes : counts[t] = Cardinality({i \in F : type[i] = t}),
         NEW d, d = 1, NEW tallied, tallied = Counted(counts, type[s], d)
  PROVE  \A t \in ChunkTypes : tallied[t] = Cardinality({i \in F \cup {s} : type[i] = t})
<1> SUFFICES ASSUME NEW t \in ChunkTypes
             PROVE  tallied[t] = Cardinality({i \in F \cup {s} : type[i] = t})
  OBVIOUS
<1>1. IsFiniteSet({i \in F : type[i] = t}) /\ counts[t] = Cardinality({i \in F : type[i] = t})
  BY FS_Subset
<1>2. CASE type[s] = t
  <2>1. {i \in F \cup {s} : type[i] = t} = {i \in F : type[i] = t} \cup {s}
    BY <1>2
  <2>2. tallied[t] = counts[t] + 1
    BY <1>2 DEF Counted
  <2> QED
    BY <1>1, <2>1, <2>2, FS_AddElement
<1>3. CASE type[s] # t
  <2>1. {i \in F \cup {s} : type[i] = t} = {i \in F : type[i] = t}
    BY <1>3
  <2>2. tallied[t] = counts[t]
    BY <1>3 DEF Counted
  <2> QED
    BY <1>1, <2>1, <2>2
<1> QED
  BY <1>2, <1>3

\* The same with -1 and one element less.
LEMMA CountOneLess ==
  ASSUME NEW F, IsFiniteSet(F), NEW s \in F, NEW type,
         NEW counts \in [ChunkTypes -> Int],
         \A t \in ChunkTypes : counts[t] = Cardinality({i \in F : type[i] = t}),
         NEW d, d = -1, NEW tallied, tallied = Counted(counts, type[s], d)
  PROVE  \A t \in ChunkTypes : tallied[t] = Cardinality({i \in F \ {s} : type[i] = t})
<1> SUFFICES ASSUME NEW t \in ChunkTypes
             PROVE  tallied[t] = Cardinality({i \in F \ {s} : type[i] = t})
  OBVIOUS
<1>1. IsFiniteSet({i \in F : type[i] = t}) /\ counts[t] = Cardinality({i \in F : type[i] = t})
      /\ Cardinality({i \in F : type[i] = t}) \in Nat
  BY FS_Subset, FS_CardinalityType
<1>2. CASE type[s] = t
  <2>1. {i \in F \ {s} : type[i] = t} = {i \in F : type[i] = t} \ {s}
    OBVIOUS
  <2>2. tallied[t] = counts[t] - 1
    BY <1>2 DEF Counted
  <2>3. s \in {i \in F : type[i] = t}
    BY <1>2
  <2> QED
    BY <1>1, <2>1, <2>2, <2>3, FS_RemoveElement
<1>3. CASE type[s] # t
  <2>1. {i \in F \ {s} : type[i] = t} = {i \in F : type[i] = t}
    BY <1>3
  <2>2. tallied[t] = counts[t]
    BY <1>3 DEF Counted
  <2> QED
    BY <1>1, <2>1, <2>2
<1> QED
  BY <1>2, <1>3

\* The slots the counters have taken in: while the store is loaded, those the
\* loop has come to.
Tallied == {i \in Finished : i < IF pc = "mark" THEN li + 1 ELSE Horizon}

CountInv ==
  /\ pc = "down" => n = Zeros
  /\ Loaded => \A t \in ChunkTypes : n[t] = Cardinality({i \in Tallied : idx[i].type = t})

\* A serving store has counted every slot of a chunk.
LEMMA AllTallied == IndexInv /\ Serving => Tallied = Finished
<1> SUFFICES ASSUME IndexInv, Serving PROVE Tallied = Finished
  OBVIOUS
<1>1. Active \subseteq Slots /\ Slots = 0 .. Records(isize) - 1 /\ Records(isize) \in Nat
  BY TypedIndex DEF IndexInv, Loaded
<1>2. pc # "mark" /\ Horizon = Records(isize)
  BY DEF Serving, Horizon, AddPoints
<1>3. \A i \in Finished : i < Records(isize)
  BY <1>1 DEF Finished
<1> QED
  BY <1>2, <1>3 DEF Tallied

\* There are finitely many of them.
LEMMA TalliedFinite == IndexInv => IsFiniteSet(Tallied) /\ Tallied \subseteq Finished
                                   /\ Finished \subseteq Nat
<1> SUFFICES ASSUME IndexInv PROVE IsFiniteSet(Tallied) /\ Tallied \subseteq Finished
                                   /\ Finished \subseteq Nat
  OBVIOUS
<1>1. Active \subseteq 0 .. Records(isz) - 1 /\ Records(isz) \in Nat
  BY TypedIndex DEF IndexInv
<1>2. IsFiniteSet(0 .. Records(isz) - 1)
  BY <1>1, FS_Interval
<1>3. Tallied \subseteq Finished /\ Finished \subseteq Active
  BY DEF Tallied, Finished
<1>4. IsFiniteSet(Tallied)
  <2>1. Tallied \in SUBSET (0 .. Records(isz) - 1)
    BY <1>1, <1>3
  <2> QED
    BY <1>2, <2>1, FS_Subset
<1>5. Finished \subseteq Nat
  BY <1>1, <1>3
<1> QED
  BY <1>3, <1>4, <1>5

\* The same of the state after a step.
LEMMA AllTalliedNext == (IndexInv /\ Serving => Tallied = Finished)'
BY AllTallied, PTL

\* And of their number.
LEMMA TalliedFiniteNext == (IndexInv => IsFiniteSet(Tallied) /\ Tallied \subseteq Finished
                                        /\ Finished \subseteq Nat)'
BY TalliedFinite, PTL

\* The types of the counted slots are what they were, and so are the counters.
LEMMA CountKept ==
  ASSUME CountInv, Loaded, pc' # "down", n' = n, Tallied' = Tallied,
         \A i \in Tallied : idx'[i].type = idx[i].type
  PROVE  CountInv'
<1>1. \A t \in ChunkTypes : {i \in Tallied' : idx'[i].type = t} = {i \in Tallied : idx[i].type = t}
  OBVIOUS
<1> QED
  BY <1>1 DEF CountInv

\* One slot is counted, or one is no more.
LEMMA CountChanged ==
  ASSUME IndexInv, CountInv, Loaded, pc' # "down", NEW s,
         \/ /\ s \notin Tallied /\ Tallied' = Tallied \cup {s}
            /\ n' = Counted(n, idx'[s].type, 1)
            /\ \A i \in Tallied : idx'[i].type = idx[i].type
         \/ /\ s \in Tallied /\ Tallied' = Tallied \ {s}
            /\ n' = Counted(n, idx[s].type, -1)
            /\ \A i \in Tallied' : idx'[i].type = idx[i].type
  PROVE  CountInv'
<1>1. IsFiniteSet(Tallied) /\ n \in [ChunkTypes -> Int]
  BY TalliedFinite DEF IndexInv, TypeInv, TypeOK, MemoryTypeOK
<1>2. \A t \in ChunkTypes : n[t] = Cardinality({i \in Tallied : idx[i].type = t})
  BY DEF CountInv
<1>3. CASE /\ s \notin Tallied /\ Tallied' = Tallied \cup {s}
           /\ n' = Counted(n, idx'[s].type, 1)
           /\ \A i \in Tallied : idx'[i].type = idx[i].type
  <2>1. PICK type : type = [i \in Tallied \cup {s} |-> idx'[i].type]
    OBVIOUS
  <2>2. \A i \in Tallied : type[i] = idx[i].type
    BY <1>3, <2>1
  <2>3. \A t \in ChunkTypes : {i \in Tallied : type[i] = t} = {i \in Tallied : idx[i].type = t}
    BY <2>2
  <2>4. PICK d : d = 1
    OBVIOUS
  <2>5. PICK tallied : tallied = Counted(n, type[s], d)
    OBVIOUS
  <2>6. \A t \in ChunkTypes : n[t] = Cardinality({i \in Tallied : type[i] = t})
    BY <1>2, <2>3
  <2>7. \A t \in ChunkTypes : tallied[t] = Cardinality({i \in Tallied \cup {s} : type[i] = t})
    BY <1>1, <1>3, <2>4, <2>5, <2>6, CountOneMore
  <2>8. n' = tallied
    BY <1>3, <2>1, <2>4, <2>5
  <2>9. \A t \in ChunkTypes :
          {i \in Tallied \cup {s} : type[i] = t} = {i \in Tallied' : idx'[i].type = t}
    BY <1>3, <2>1
  <2> QED
    BY <2>7, <2>8, <2>9 DEF CountInv
<1>4. CASE /\ s \in Tallied /\ Tallied' = Tallied \ {s}
           /\ n' = Counted(n, idx[s].type, -1)
           /\ \A i \in Tallied' : idx'[i].type = idx[i].type
  <2>1. PICK type : type = [i \in Tallied |-> idx[i].type]
    OBVIOUS
  <2>2. \A t \in ChunkTypes : {i \in Tallied : type[i] = t} = {i \in Tallied : idx[i].type = t}
    BY <2>1
  <2>3. PICK d : d = -1
    OBVIOUS
  <2>4. PICK tallied : tallied = Counted(n, type[s], d)
    OBVIOUS
  <2>5. \A t \in ChunkTypes : n[t] = Cardinality({i \in Tallied : type[i] = t})
    BY <1>2, <2>2
  <2>6. \A t \in ChunkTypes : tallied[t] = Cardinality({i \in Tallied \ {s} : type[i] = t})
    BY <1>1, <1>4, <2>3, <2>4, <2>5, CountOneLess
  <2>7. n' = tallied
    BY <1>4, <2>1, <2>3, <2>4
  <2>8. \A t \in ChunkTypes :
          {i \in Tallied \ {s} : type[i] = t} = {i \in Tallied' : idx'[i].type = t}
    BY <1>4, <2>1
  <2> QED
    BY <2>6, <2>7, <2>8 DEF CountInv
<1> QED
  BY <1>3, <1>4

\* Opening the store begins with no slot counted.
LEMMA OpenCount == IndexInv /\ CountInv /\ Open => CountInv'
<1> SUFFICES ASSUME IndexInv, CountInv, Open PROVE CountInv'
  OBVIOUS
<1>1. pc = "down" /\ pc' = "load" /\ n' = n /\ li' = 0 /\ n = Zeros
  BY DEF Open, IndexInv, Fresh, loop, CountInv
<1>2. Finished' \subseteq Nat
  BY OpenIndex, TalliedFiniteNext
<1>3. Tallied' = {}
  <2>1. \A i \in Finished' : ~ i < 0
    BY <1>2
  <2> QED
    BY <1>1, <2>1 DEF Tallied, Horizon
<1>4. \A t \in ChunkTypes : {i \in Tallied' : idx'[i].type = t} = {} /\ n'[t] = 0
  BY <1>1, <1>3 DEF Zeros
<1> QED
  BY <1>1, <1>4, FS_EmptySet DEF CountInv

\* The steps that load the store count each slot they come to once.
LEMMA LoadingCount == IndexInv /\ CountInv /\ Loading => CountInv'
<1> SUFFICES ASSUME IndexInv, CountInv, Loading PROVE CountInv'
  OBVIOUS
<1>1. li \in Nat /\ Records(isize) \in Nat /\ Finished \subseteq Nat
  BY TypedIndex, TalliedFinite DEF IndexInv
<1>2. Untouched
  BY LoadingUntouched
<1>3. CASE Open
  BY <1>3, OpenCount
<1>4. CASE LoadFree
  <2>1. pc = "load" /\ pc' = "load" /\ li' = li + 1 /\ n' = n /\ li \notin Finished
    BY <1>4 DEF LoadFree, Finished, Active
  <2>2. \A i \in Finished : i < li + 1 <=> i < li
    BY <1>1, <2>1
  <2>3. Tallied' = Tallied
    BY <1>2, <2>1, <2>2 DEF Tallied, Horizon, Untouched
  <2> QED
    BY <1>2, <2>1, <2>3, CountKept, TalliedFinite DEF Loaded, Untouched
<1>5. CASE LoadActive
  <2>1. /\ pc = "load" /\ pc' = "mark" /\ li' = li
        /\ n' = Counted(n, idx[li].type, 1) /\ idx' = idx
    BY <1>5 DEF LoadActive, disk
  <2>2. li \in Finished
    <3>1. li \in Active'
      BY <2>1, <1>5, LoadActiveIndex DEF IndexInv, LoopExact
    <3> QED
      BY <2>1, <3>1 DEF Finished, Pending, AddPoints, Active
  <2>3. \A i \in Finished : i < li + 1 <=> i < li \/ i = li
    BY <1>1
  <2>4. Tallied' = Tallied \cup {li} /\ li \notin Tallied
    <3>1. Tallied = {i \in Finished : i < li}
      BY <2>1 DEF Tallied, Horizon
    <3>2. Tallied' = {i \in Finished : i < li + 1}
      BY <1>2, <2>1 DEF Tallied, Untouched
    <3>3. li \notin Tallied
      BY <1>1, <3>1
    <3>4. Tallied' = Tallied \cup {li}
      BY <2>2, <2>3, <3>1, <3>2, Zenon
    <3> QED
      BY <3>3, <3>4
  <2> QED
    BY <2>1, <2>4, CountChanged DEF Loaded
<1>6. CASE MarkStep \/ MarkDone
  <2>1. /\ pc = "mark" /\ n' = n
        /\ (pc' = "mark" /\ li' = li) \/ (pc' = "load" /\ li' = li + 1)
    BY <1>6 DEF MarkStep, MarkDone
  <2>2. Tallied' = Tallied
    BY <1>2, <2>1 DEF Tallied, Horizon, Untouched
  <2> QED
    BY <1>2, <2>1, <2>2, CountKept, TalliedFinite DEF Loaded, Untouched
<1>7. CASE LoadDone
  <2>1. pc = "load" /\ pc' = "idle" /\ n' = n /\ isize' = isize /\ li \notin Slots
    BY <1>7 DEF LoadDone, ivars
  <2>2. li = Records(isize)
    BY <1>1, <2>1 DEF IndexInv, LoopExact, Slots
  <2>3. Tallied' = Tallied
    BY <1>2, <2>1, <2>2 DEF Tallied, Horizon, Untouched
  <2> QED
    BY <1>2, <2>1, <2>3, CountKept, TalliedFinite DEF Loaded, Untouched
<1> QED
  BY <1>3, <1>4, <1>5, <1>6, <1>7 DEF Loading

\* A step of a serving store that touches no chunk's slot and no counter.
LEMMA ServingCount ==
  ASSUME IndexInv, CountInv, IndexInv', Serving, Serving', Untouched, n' = n
  PROVE  CountInv'
<1>1. Tallied = Finished /\ Tallied' = Finished'
  BY AllTallied, AllTalliedNext
<1>2. pc' # "down"
  BY DEF Serving, AddPoints
<1> QED
  BY <1>1, <1>2, CountKept DEF Loaded, Untouched

\* Every step counts exactly.
LEMMA NextCount == IndexInv /\ CountInv /\ [Next]_vars => CountInv'
<1> SUFFICES ASSUME IndexInv, CountInv, [Next]_vars PROVE CountInv'
  OBVIOUS
<1>1. IndexInv'
  BY NextIndex
<1>2. CASE Loading
  BY <1>2, LoadingCount
<1>3. CASE \E h \in Hashes, flags \in Flags : AddFit(h, flags) \/ AddGrow(h, flags)
  BY <1>1, <1>3, AddBeginUntouched, ServingCount DEF AddFit, AddGrow, Serving, AddPoints
<1>4. CASE Adding
  <2>1. CASE CreatePop \/ CreateGrow \/ AddActive \/ AddHash \/ AddOffset
    <3>1. Untouched
      BY <2>1, CreatePopUntouched, CreateGrowUntouched, WritesUntouched
    <3>2. Serving /\ Serving' /\ n' = n
      BY <2>1 DEF CreatePop, CreateGrow, AddActive, AddHash, AddOffset, Serving, AddPoints
    <3> QED
      BY <1>1, <3>1, <3>2, ServingCount
  <2>2. CASE AddFlags
    <3>1. pc = "flags" /\ pc' = "idle" /\ n' = Counted(n, cur.type, 1)
      BY <2>2 DEF AddFlags
    <3>2. Tallied = Finished /\ Tallied' = Finished'
      BY <1>1, <3>1, AllTallied, AllTalliedNext DEF Serving, AddPoints
    <3>3. PICK s : s = cur.slot
      OBVIOUS
    <3>4. /\ s \notin Tallied /\ Tallied' = Tallied \cup {s}
          /\ \A i \in Tallied : idx'[i].type = idx[i].type
          /\ idx'[s].type = cur.type
      BY <2>2, <3>2, <3>3, FinishedAdded
    <3> QED
      BY <3>1, <3>4, CountChanged DEF Loaded, Serving, AddPoints
  <2>3. CASE CreateHang
    BY <2>3 DEF CreateHang, CountInv, Loaded, Serving, AddPoints
  <2> QED
    BY <1>4, <2>1, <2>2, <2>3 DEF Adding
<1>5. CASE Calling
  <2> SUFFICES ASSUME NEW h \in Hashes \cup {ZeroHash},
                      \/ RemoveChunk(h) \/ Leak(h) \/ GetHang(h)
                      \/ \E d \in Deltas : Adjrefs(h, d)
               PROVE  CountInv'
    BY <1>5 DEF Calling
  <2>1. CASE RemoveChunk(h)
    <3>1. pc = "idle" /\ pc' = "idle" /\ n' = Counted(n, idx[records[h]].type, -1)
      BY <2>1 DEF RemoveChunk, Found
    <3>2. Tallied = Finished /\ Tallied' = Finished'
      BY <1>1, <3>1, AllTallied, AllTalliedNext DEF Serving
    <3>3. /\ records[h] \in Tallied /\ Tallied' = Tallied \ {records[h]}
          /\ \A i \in Tallied' : idx'[i].type = idx[i].type
      BY <2>1, <3>2, FinishedRemoved
    <3> QED
      BY <3>1, <3>3, CountChanged DEF Loaded, Serving
  <2>2. CASE Leak(h)
    BY <1>1, <2>2, OthersUntouched, ServingCount DEF Leak, Found, Serving
  <2>3. CASE GetHang(h)
    BY <2>3 DEF GetHang, CountInv, Loaded, Serving, AddPoints
  <2>4. CASE \E d \in Deltas : Adjrefs(h, d)
    <3>1. PICK d \in Deltas : Adjrefs(h, d)
      BY <2>4
    <3>2. pc = "idle" /\ pc' = "idle" /\ n' = n
      BY <3>1 DEF Adjrefs, Found
    <3>3. Tallied = Finished /\ Tallied' = Finished'
      BY <1>1, <3>2, AllTallied, AllTalliedNext DEF Serving
    <3>4. Tallied' = Tallied /\ \A i \in Tallied : idx'[i].type = idx[i].type
      BY <3>1, <3>3, FinishedRecounted
    <3> QED
      BY <3>2, <3>4, CountKept DEF Loaded, Serving
  <2> QED
    BY <2>1, <2>2, <2>3, <2>4
<1>6. CASE Close \/ CloseHang \/ Crash
  BY <1>6 DEF Close, CloseHang, Crash, Forget, CountInv, Loaded, Serving, AddPoints
<1>7. CASE UNCHANGED vars
  <2>1. Untouched /\ n' = n /\ (Loaded' <=> Loaded) /\ pc' = pc
    BY <1>7, OthersUntouched DEF vars, Loaded, Serving
  <2>2. Tallied' = Tallied
    BY <1>7, <2>1 DEF Tallied, Horizon, Untouched, vars, ivars, loop
  <2>3. CASE Loaded
    <3>1. CASE pc = "down"
      BY <2>3, <3>1 DEF Loaded, Serving, AddPoints
    <3> QED
      BY <2>1, <2>2, <2>3, <3>1, CountKept, TalliedFinite DEF Untouched
  <2>4. CASE ~Loaded
    BY <2>1, <2>4 DEF CountInv
  <2> QED
    BY <2>3, <2>4
<1> QED
  BY <1>2, <1>3, <1>4, <1>5, <1>6, <1>7 DEF Next

\* Whatever was added, removed, reopened and killed before, each counter of a
\* serving store (n_data, n_meta, n_index) is the number of chunks of its type.
THEOREM CountAlwaysExact == Spec => []CountExact
<1>1. Init => CountInv
  BY DEF Init, CountInv, Loaded, Serving, AddPoints
<1>2. IndexInv /\ CountInv => CountExact
  <2> SUFFICES ASSUME IndexInv, CountInv, Serving PROVE CountExact
    BY DEF CountExact
  <2>1. Tallied = Active \ Pending
    BY AllTallied DEF Finished
  <2> QED
    BY <2>1 DEF CountInv, CountExact, Loaded
<1> QED
  BY <1>1, <1>2, InitIndex, NextIndex, NextCount, PTL DEF Spec

-----------------------------------------------------------------------------
(* A chunk's slot is its own until it is removed. *)

\* The hash being added is not one the store knows.
AddNew ==
  pc \in AddPoints =>
    cur.hash \notin DOMAIN records /\ cur.type \in Types /\ cur.refs \in GivenRefs

\* It stays so: one call runs at a time, and the map takes a hash in only as
\* its add ends.
LEMMA NextAddNew == IndexInv /\ AddNew /\ [Next]_vars => AddNew'
<1> SUFFICES ASSUME IndexInv, AddNew, [Next]_vars, pc' \in AddPoints
             PROVE  /\ cur'.hash \notin DOMAIN records'
                    /\ cur'.type \in Types /\ cur'.refs \in GivenRefs
  BY DEF AddNew
<1>1. cur \in Add
  BY DEF IndexInv, TypeInv, TypeOK, MemoryTypeOK
<1>2. CASE \E h \in Hashes, flags \in Flags : AddFit(h, flags) \/ AddGrow(h, flags)
  BY <1>2, FlagsType DEF AddFit, AddGrow, Stored
<1>3. CASE Adding
  <2>1. CASE CreatePop \/ CreateGrow
    <3>1. pc \in AddPoints /\ records' = records
      BY <2>1 DEF CreatePop, CreateGrow, AddPoints
    <3>2. cur'.hash = cur.hash /\ cur'.type = cur.type /\ cur'.refs = cur.refs
      BY <1>1, <2>1 DEF CreatePop, CreateGrow, Add
    <3> QED
      BY <3>1, <3>2 DEF AddNew
  <2>2. CASE AddActive \/ AddHash \/ AddOffset
    BY <2>2 DEF AddActive, AddHash, AddOffset, AddNew, AddPoints
  <2> QED
    BY <1>3, <2>1, <2>2 DEF Adding, CreateHang, AddFlags, AddPoints
<1>4. CASE UNCHANGED vars
  BY <1>4 DEF vars, AddNew
<1>5. CASE Loading
  BY <1>5 DEF Loading, Open, LoadFree, LoadActive, MarkStep, MarkDone, LoadDone, AddPoints
<1>6. CASE Calling
  BY <1>6 DEF Calling, RemoveChunk, Leak, GetHang, Adjrefs, Found, AddPoints
<1>7. CASE Close \/ CloseHang \/ Crash
  BY <1>7 DEF Close, CloseHang, Crash, AddPoints
<1> QED
  BY <1>2, <1>3, <1>4, <1>5, <1>6, <1>7 DEF Next

\* At first there is no add.
LEMMA InitAddNew == Init => AddNew
BY DEF Init, AddNew, AddPoints

\* The step of which SlotStable speaks.
KeepsSlots ==
  Serving => \A h \in DOMAIN records \cap DOMAIN records' :
    /\ records'[h] = records[h]
    /\ [idx'[records[h]] EXCEPT !.refs = 0] = [idx[records[h]] EXCEPT !.refs = 0]

\* Two slots that differ in their references alone.
LEMMA SameButRefs ==
  ASSUME NEW a \in Slot, NEW b \in Slot,
         a.active = b.active, a.hash = b.hash, a.offset = b.offset,
         a.length = b.length, a.type = b.type
  PROVE  [a EXCEPT !.refs = 0] = [b EXCEPT !.refs = 0]
BY DEF Slot

\* Every step is of the kind SlotStable speaks of: three steps write to slots
\* of chunks, and none of them gives a known hash another slot.
LEMMA NextKeepsSlots == IndexInv /\ AddNew /\ Next => KeepsSlots
<1> SUFFICES ASSUME IndexInv, AddNew, Next, Serving,
                    NEW h \in DOMAIN records \cap DOMAIN records'
             PROVE  /\ records'[h] = records[h]
                    /\ [idx'[records[h]] EXCEPT !.refs = 0]
                       = [idx[records[h]] EXCEPT !.refs = 0]
  BY DEF KeepsSlots
<1>1. records[h] \in Finished /\ idx[records[h]].hash = h
  BY DEF IndexInv, MapExact, Loaded
<1>2. Untouched /\ records' = records
      => /\ records'[h] = records[h]
         /\ [idx'[records[h]] EXCEPT !.refs = 0] = [idx[records[h]] EXCEPT !.refs = 0]
  BY <1>1 DEF Untouched
<1>3. CASE Loading
  BY <1>3 DEF Loading, Open, LoadFree, LoadActive, MarkStep, MarkDone, LoadDone,
              Serving, AddPoints
<1>4. CASE \E x \in Hashes, flags \in Flags : AddFit(x, flags) \/ AddGrow(x, flags)
  BY <1>2, <1>4, AddBeginUntouched DEF AddFit, AddGrow
<1>5. CASE Adding
  <2>1. CASE CreatePop \/ CreateGrow \/ CreateHang \/ AddActive \/ AddHash \/ AddOffset
    <3>1. Untouched
      BY <2>1, CreatePopUntouched, CreateGrowUntouched, WritesUntouched, OthersUntouched
    <3>2. records' = records
      BY <2>1 DEF CreatePop, CreateGrow, CreateHang, AddActive, AddHash, AddOffset
    <3> QED
      BY <1>2, <3>1, <3>2
  <2>2. CASE AddFlags
    <3>1. h # cur.hash
      BY <2>2 DEF AddNew, AddFlags, AddPoints
    <3>2. records'[h] = records[h]
      BY <2>2, <3>1 DEF AddFlags, Mapped
    <3> QED
      BY <1>1, <2>2, <3>2, FinishedAdded
  <2> QED
    BY <1>5, <2>1, <2>2 DEF Adding
<1>6. CASE Calling
  <2>1. PICK x \in Hashes \cup {ZeroHash} :
          \/ RemoveChunk(x) \/ Leak(x) \/ GetHang(x)
          \/ \E d \in Deltas : Adjrefs(x, d)
    BY <1>6 DEF Calling
  <2>2. CASE RemoveChunk(x)
    <3>1. DOMAIN records' = DOMAIN records \ {x} /\ records'[h] = records[h]
      BY <2>2 DEF RemoveChunk, Unmapped, Restrict
    <3>2. records[h] \in Finished'
      BY <1>1, <2>2, <3>1, FinishedRemoved
    <3> QED
      BY <2>2, <3>1, <3>2, FinishedRemoved
  <2>3. CASE Leak(x) \/ GetHang(x)
    BY <1>2, <2>3, OthersUntouched DEF Leak, GetHang
  <2>4. CASE \E d \in Deltas : Adjrefs(x, d)
    <3>1. PICK d \in Deltas : Adjrefs(x, d)
      BY <2>4
    <3>2. records' = records
      BY <3>1 DEF Adjrefs
    <3>3. idx[records[h]] \in Slot /\ idx'[records[h]] \in Slot
      <4>1. TypeInv /\ pc # "down"
        BY DEF IndexInv, Serving, AddPoints
      <4>2. records[h] \in 0 .. Records(isz) - 1
        BY <1>1, <4>1, TypedIndex DEF Finished
      <4> QED
        BY <3>1, <4>1, <4>2, Recounted, TypedIndex
    <3> QED
      BY <1>1, <3>1, <3>2, <3>3, FinishedRecounted, SameButRefs
  <2> QED
    BY <2>1, <2>2, <2>3, <2>4
<1>7. CASE Close \/ Crash
  BY <1>7 DEF Close, Crash, Forget
<1>8. CASE CloseHang
  BY <1>2, <1>8, OthersUntouched DEF CloseHang
<1> QED
  BY <1>3, <1>4, <1>5, <1>6, <1>7, <1>8 DEF Next

\* While a process serves the store, no call gives a chunk another slot,
\* another extent or another type, kills and torn adds of earlier processes
\* notwithstanding.
THEOREM SlotsAlwaysStable == Spec => SlotStable
<1>1. IndexInv /\ AddNew /\ [Next]_vars => [KeepsSlots]_vars
  BY NextKeepsSlots
<1> QED
  BY <1>1, InitIndex, NextIndex, InitAddNew, NextAddNew, PTL DEF Spec, SlotStable, KeepsSlots

-----------------------------------------------------------------------------
(* No slot is lost, where no add was killed between its writes.            *)

HashesKnown == \A i \in Finished : idx[i].hash \in Hashes
HashesApart == \A i, j \in Finished : idx[i].hash = idx[j].hash => i = j
AllMapped ==
  \A i \in Finished : i < Horizon => idx[i].hash \in DOMAIN records /\ records[idx[i].hash] = i

\* The chunks' hashes are hashes, no two have the same, and each leads to its
\* slot as far as the process has loaded the store.
MapComplete ==
  ~Torn => HashesKnown /\ HashesApart /\ (Loaded \/ pc = "stuck" => AllMapped)

\* A process that hangs keeps its map.
StuckExact == pc = "stuck" => Active \subseteq Slots /\ MapExact

MapInv == IndexInv /\ AddNew /\ MapComplete /\ StuckExact

\* A defect that was exercised stays exercised.
LEMMA FaultsStay == [Next]_vars => faults \subseteq faults'
<1> SUFFICES ASSUME [Next]_vars PROVE faults \subseteq faults'
  OBVIOUS
<1>1. \A h, flags : AddFit(h, flags) \/ AddGrow(h, flags) => faults \subseteq faults'
  BY DEF AddFit, AddGrow
<1>2. Loading => faults \subseteq faults'
  BY DEF Loading, Open, LoadFree, LoadActive, MarkStep, MarkDone, LoadDone
<1>3. Adding => faults \subseteq faults'
  BY DEF Adding, CreatePop, CreateGrow, CreateHang, AddActive, AddHash, AddOffset, AddFlags
<1>4. Calling => faults \subseteq faults'
  BY DEF Calling, RemoveChunk, Leak, GetHang, Adjrefs
<1>5. Close \/ CloseHang \/ Crash => faults \subseteq faults'
  BY DEF Close, CloseHang, Crash
<1> QED
  BY <1>1, <1>2, <1>3, <1>4, <1>5 DEF Next, vars

\* An index that an add has torn stays torn.
LEMMA TornStays == [Next]_vars => (Torn => Torn')
BY FaultsStay DEF Torn

\* A step that touches no chunk's slot and not the map.
LEMMA CompleteKept ==
  ASSUME MapComplete, [Next]_vars, Untouched,
         Loaded' \/ pc' = "stuck" =>
           /\ Loaded \/ pc = "stuck"
           /\ records' = records
           /\ \A i \in Finished : i < Horizon' => i < Horizon
  PROVE  MapComplete'
<1> SUFFICES ASSUME ~Torn'
             PROVE  HashesKnown' /\ HashesApart' /\ (Loaded' \/ pc' = "stuck" => AllMapped')
  BY DEF MapComplete
<1>1. HashesKnown /\ HashesApart /\ (Loaded \/ pc = "stuck" => AllMapped)
  BY TornStays DEF MapComplete
<1>2. HashesKnown' /\ HashesApart'
  BY <1>1 DEF HashesKnown, HashesApart, Untouched
<1>3. Loaded' \/ pc' = "stuck" => AllMapped'
  BY <1>1 DEF AllMapped, Untouched
<1> QED
  BY <1>2, <1>3

\* The steps that load the store.
LEMMA LoadingComplete == MapInv /\ Loading => MapComplete'
<1> SUFFICES ASSUME MapInv, Loading PROVE MapComplete'
  OBVIOUS
<1>1. IndexInv /\ MapComplete /\ [Next]_vars /\ Untouched
  BY LoadingUntouched DEF MapInv, Next
<1>2. li \in Nat /\ Records(isize) \in Nat /\ Finished \subseteq Nat
  BY <1>1, TypedIndex, TalliedFinite DEF IndexInv
<1>3. CASE Open
  <2>1. pc' = "load" /\ li' = 0
    BY <1>1, <1>3 DEF Open, IndexInv, Fresh, loop
  <2>2. \A i \in Finished : ~ i < Horizon'
    BY <1>2, <2>1 DEF Horizon
  <2>3. (HashesKnown' /\ HashesApart') \/ Torn'
    BY <1>1, TornStays DEF MapComplete, HashesKnown, HashesApart, Untouched
  <2>4. AllMapped'
    BY <1>1, <2>2 DEF AllMapped, Untouched
  <2> QED
    BY <2>3, <2>4 DEF MapComplete
<1>4. CASE LoadFree
  <2>1. /\ pc = "load" /\ pc' = "load" /\ li' = li + 1 /\ records' = records
        /\ li \notin Finished
    BY <1>4 DEF LoadFree, Finished, Active
  <2>2. \A i \in Finished : i < li + 1 => i < li
    BY <1>2, <2>1
  <2> QED
    BY <1>1, <2>1, <2>2, CompleteKept DEF Loaded, Horizon
<1>5. CASE LoadActive \/ MarkStep
  <2>1. /\ pc \in {"load", "mark"} /\ pc' = "mark" /\ li' = li /\ records' = records
    BY <1>5 DEF LoadActive, MarkStep
  <2> QED
    BY <1>1, <2>1, CompleteKept DEF Loaded, Horizon
<1>6. CASE MarkDone
  <2>1. /\ pc = "mark" /\ pc' = "load" /\ li' = li + 1
        /\ records' = Mapped(records, idx[li].hash, li)
    BY <1>6 DEF MarkDone
  <2>2. PICK x : x = idx[li].hash
    OBVIOUS
  <2>3. /\ DOMAIN records' = DOMAIN records \cup {x}
        /\ \A h \in DOMAIN records' : records'[h] = IF h = x THEN li ELSE records[h]
    BY <2>1, <2>2 DEF Mapped
  <2> SUFFICES ASSUME ~Torn' PROVE HashesKnown' /\ HashesApart' /\ AllMapped'
    BY DEF MapComplete
  <2>4. HashesKnown /\ HashesApart /\ AllMapped
    BY <1>1, <2>1, TornStays DEF MapComplete, Loaded
  <2>5. HashesKnown' /\ HashesApart'
    BY <1>1, <2>4 DEF HashesKnown, HashesApart, Untouched
  <2>6. li \in Finished
    BY <1>1, <2>1 DEF IndexInv, LoopExact, Finished, Pending, AddPoints
  <2>7. ASSUME NEW i \in Finished, i < li + 1
        PROVE  idx[i].hash \in DOMAIN records' /\ records'[idx[i].hash] = i
    <3>1. CASE i = li
      BY <2>2, <2>3, <3>1
    <3>2. CASE i # li
      <4>1. i < li
        BY <1>2, <2>7, <3>2
      <4>2. idx[i].hash \in DOMAIN records /\ records[idx[i].hash] = i
        BY <2>1, <2>4, <4>1 DEF AllMapped, Horizon
      <4>3. idx[i].hash # x
        BY <2>2, <2>4, <2>6, <3>2 DEF HashesApart
      <4> QED
        BY <2>3, <4>2, <4>3
    <3> QED
      BY <3>1, <3>2
  <2>8. AllMapped'
    BY <1>1, <2>1, <2>7 DEF AllMapped, Untouched, Horizon
  <2> QED
    BY <2>5, <2>8
<1>7. CASE LoadDone
  <2>1. /\ pc = "load" /\ pc' = "idle" /\ isize' = isize /\ li \notin Slots
        /\ records' = records
    BY <1>7 DEF LoadDone, ivars
  <2>2. li = Records(isize)
    BY <1>1, <1>2, <2>1 DEF IndexInv, LoopExact, Slots
  <2> QED
    BY <1>1, <2>1, <2>2, CompleteKept DEF Loaded, Horizon
<1> QED
  BY <1>3, <1>4, <1>5, <1>6, <1>7, Zenon DEF Loading

\* The calls of a serving store that leave the map alone.
LEMMA ServingComplete ==
  ASSUME MapInv, [Next]_vars, Untouched, Serving, records' = records, pc' \notin {"load", "mark"}
  PROVE  MapComplete'
<1>1. \A i \in Finished : i < Horizon
  <2>1. Active \subseteq Slots /\ Slots = 0 .. Records(isize) - 1 /\ Records(isize) \in Nat
    BY TypedIndex DEF MapInv, IndexInv, Loaded
  <2>2. Horizon = Records(isize)
    BY DEF Horizon, Serving, AddPoints
  <2> QED
    BY <2>1, <2>2 DEF Finished
<1> QED
  BY <1>1, CompleteKept DEF MapInv, Loaded

\* The end of an add enters a hash and a slot that were not there.
LEMMA AddFlagsComplete == MapInv /\ AddFlags => MapComplete'
<1> SUFFICES ASSUME MapInv, AddFlags, ~Torn'
             PROVE  HashesKnown' /\ HashesApart' /\ AllMapped'
  BY DEF MapComplete
<1>1. /\ IndexInv /\ Serving /\ pc = "flags" /\ cur.hash \in Hashes
      /\ cur.hash \notin DOMAIN records
  BY DEF MapInv, AddNew, AddFlags, Serving, AddPoints, IndexInv, TypeInv
<1>2. PICK s, x : s = cur.slot /\ x = cur.hash
  OBVIOUS
<1>3. HashesKnown /\ HashesApart /\ \A i \in Finished : idx[i].hash \in DOMAIN records
                                                      /\ records[idx[i].hash] = i
  <2>1. HashesKnown /\ HashesApart /\ AllMapped
    BY <1>1, TornStays DEF MapInv, MapComplete, Loaded, Next, Adding
  <2>2. \A i \in Finished : i < Horizon
    <3>1. Tallied = Finished /\ pc # "mark"
      BY <1>1, AllTallied
    <3> QED
      BY <3>1 DEF Tallied
  <2> QED
    BY <2>1, <2>2 DEF AllMapped
<1>4. /\ s \notin Finished /\ Finished' = Finished \cup {s}
      /\ \A i \in Finished : idx'[i] = idx[i]
      /\ idx'[s].hash = x
  BY <1>1, <1>2, FinishedAdded
<1>5. /\ DOMAIN records' = DOMAIN records \cup {x}
      /\ \A h \in DOMAIN records' : records'[h] = IF h = x THEN s ELSE records[h]
  BY <1>2 DEF AddFlags, Mapped
<1>6. \A i \in Finished' : idx'[i].hash = IF i = s THEN x ELSE idx[i].hash
  BY <1>4
<1>7. \A i \in Finished : idx[i].hash # x
  BY <1>1, <1>2, <1>3
<1>8. HashesKnown'
  BY <1>1, <1>2, <1>3, <1>4, <1>6 DEF HashesKnown
<1>9. HashesApart'
  BY <1>3, <1>4, <1>6, <1>7 DEF HashesApart
<1>10. AllMapped'
  BY <1>3, <1>4, <1>5, <1>6, <1>7 DEF AllMapped
<1> QED
  BY <1>8, <1>9, <1>10

\* A remove takes a hash and its slot.
LEMMA RemoveComplete == \A h : MapInv /\ RemoveChunk(h) /\ [Next]_vars => MapComplete'
<1> SUFFICES ASSUME NEW h, MapInv, RemoveChunk(h), [Next]_vars, ~Torn'
             PROVE  HashesKnown' /\ HashesApart' /\ AllMapped'
  BY DEF MapComplete
<1>1. IndexInv /\ pc = "idle" /\ pc' = "idle" /\ isize' = isize
  BY DEF MapInv, RemoveChunk, Found
<1>2. HashesKnown /\ HashesApart /\ AllMapped
  BY <1>1, TornStays DEF MapInv, MapComplete, Loaded, Serving
<1>3. /\ records[h] \in Finished /\ idx[records[h]].hash = h
      /\ Finished' = Finished \ {records[h]}
      /\ \A i \in Finished' : idx'[i] = idx[i]
  BY <1>1, FinishedRemoved
<1>4. /\ DOMAIN records' = DOMAIN records \ {h}
      /\ \A x \in DOMAIN records' : records'[x] = records[x]
  BY DEF RemoveChunk, Unmapped, Restrict
<1>5. \A i \in Finished' : idx[i].hash # h
  BY <1>2, <1>3 DEF HashesApart
<1>6. HashesKnown' /\ HashesApart'
  BY <1>2, <1>3 DEF HashesKnown, HashesApart
<1>7. Horizon' = Horizon
  BY <1>1 DEF Horizon
<1>8. AllMapped'
  BY <1>2, <1>3, <1>4, <1>5, <1>7 DEF AllMapped
<1> QED
  BY <1>6, <1>8

\* An adjrefs changes neither.
LEMMA AdjrefsComplete ==
  \A h, d : d \in Deltas /\ MapInv /\ Adjrefs(h, d) /\ [Next]_vars => MapComplete'
<1> SUFFICES ASSUME NEW h, NEW d \in Deltas, MapInv, Adjrefs(h, d), [Next]_vars, ~Torn'
             PROVE  HashesKnown' /\ HashesApart' /\ AllMapped'
  BY DEF MapComplete
<1>1. /\ IndexInv /\ pc = "idle" /\ pc' = "idle" /\ isize' = isize /\ records' = records
  BY DEF MapInv, Adjrefs, Found, ivars
<1>2. HashesKnown /\ HashesApart /\ AllMapped
  BY <1>1, TornStays DEF MapInv, MapComplete, Loaded, Serving
<1>3. Finished' = Finished /\ \A i \in Finished : idx'[i].hash = idx[i].hash
  BY <1>1, FinishedRecounted
<1>4. Horizon' = Horizon
  BY <1>1 DEF Horizon
<1> QED
  BY <1>1, <1>2, <1>3, <1>4 DEF HashesKnown, HashesApart, AllMapped

\* A kill leaves what the next start finds complete, or a torn add.
LEMMA CrashComplete == MapInv /\ Crash /\ [Next]_vars => MapComplete'
<1> SUFFICES ASSUME MapInv, Crash, [Next]_vars PROVE MapComplete'
  OBVIOUS
<1>1. pc' = "down"
  BY DEF Crash
<1>2. CASE pc \in TornPoints
  BY <1>2 DEF Crash, MapComplete, Torn
<1>3. CASE pc \notin TornPoints
  BY <1>1, <1>3, CrashUntouched, CompleteKept DEF MapInv, Loaded, Serving, AddPoints
<1> QED
  BY <1>2, <1>3

\* Every step keeps the map complete.
LEMMA NextComplete == MapInv /\ [Next]_vars => MapComplete'
<1> SUFFICES ASSUME MapInv, [Next]_vars PROVE MapComplete'
  OBVIOUS
<1>1. IndexInv /\ MapComplete
  BY DEF MapInv
<1>2. CASE Loading
  BY <1>2, LoadingComplete
<1>3. CASE \E h \in Hashes, flags \in Flags : AddFit(h, flags) \/ AddGrow(h, flags)
  BY <1>3, AddBeginUntouched, ServingComplete DEF AddFit, AddGrow, Serving
<1>4. CASE Adding
  <2>1. CASE CreatePop \/ CreateGrow \/ CreateHang \/ AddActive \/ AddHash \/ AddOffset
    <3>1. Untouched
      BY <1>1, <2>1, CreatePopUntouched, CreateGrowUntouched, WritesUntouched, OthersUntouched
    <3>2. Serving /\ records' = records /\ pc' \notin {"load", "mark"}
      BY <2>1 DEF CreatePop, CreateGrow, CreateHang, AddActive, AddHash, AddOffset,
                  Serving, AddPoints
    <3> QED
      BY <3>1, <3>2, ServingComplete
  <2> QED
    BY <1>4, <2>1, AddFlagsComplete DEF Adding
<1>5. CASE Calling
  <2> SUFFICES ASSUME NEW h \in Hashes \cup {ZeroHash},
                      \/ RemoveChunk(h) \/ Leak(h) \/ GetHang(h)
                      \/ \E d \in Deltas : Adjrefs(h, d)
               PROVE  MapComplete'
    BY <1>5 DEF Calling
  <2>1. CASE Leak(h) \/ GetHang(h)
    BY <2>1, OthersUntouched, ServingComplete DEF Leak, GetHang, Found, Serving
  <2> QED
    BY <2>1, RemoveComplete, AdjrefsComplete
<1>6. CASE Close
  BY <1>1, <1>6, OthersUntouched, CompleteKept DEF Close, Loaded, Serving, AddPoints
<1>7. CASE CloseHang
  BY <1>7, OthersUntouched, ServingComplete DEF CloseHang, Serving
<1>8. CASE Crash
  BY <1>8, CrashComplete
<1>9. CASE UNCHANGED vars
  <2>1. Untouched /\ records' = records /\ (Loaded' <=> Loaded) /\ pc' = pc /\ Horizon' = Horizon
    BY <1>9, OthersUntouched DEF vars, ivars, loop, Loaded, Serving, Horizon
  <2> QED
    BY <1>1, <2>1, CompleteKept
<1> QED
  BY <1>2, <1>3, <1>4, <1>5, <1>6, <1>7, <1>8, <1>9 DEF Next

\* A process comes to hang with its map as it was.
LEMMA NextStuck == MapInv /\ [Next]_vars => StuckExact'
<1> SUFFICES ASSUME MapInv, [Next]_vars, pc' = "stuck"
             PROVE  (Active \subseteq Slots /\ MapExact)'
  BY DEF StuckExact
<1>1. CASE CreateHang \/ CloseHang \/ \E h : GetHang(h)
  <2>1. /\ UNCHANGED <<idx, isize, records>> /\ pc \in {"create", "idle"}
        /\ Active \subseteq Slots /\ MapExact
    BY <1>1 DEF CreateHang, CloseHang, GetHang, Found, disk, ivars,
                MapInv, IndexInv, Loaded, Serving, AddPoints
  <2>2. /\ Active' = Active /\ Slots' = Slots /\ Pending = {} /\ Pending' = {}
        /\ Horizon' = Horizon
    BY <2>1 DEF Active, Slots, Pending, Horizon, AddPoints
  <2> QED
    BY <2>1, <2>2 DEF MapExact, Finished
<1>2. CASE UNCHANGED vars
  <2>1. UNCHANGED <<idx, isize, records, pc, li, cur>> /\ Active \subseteq Slots /\ MapExact
    BY <1>2 DEF vars, disk, ivars, loop, MapInv, StuckExact
  <2>2. /\ Active' = Active /\ Slots' = Slots /\ Pending' = Pending /\ Horizon' = Horizon
    BY <2>1 DEF Active, Slots, Pending, Horizon
  <2> QED
    BY <2>1, <2>2 DEF MapExact, Finished
<1>3. CASE Loading
  BY <1>3 DEF Loading, Open, LoadFree, LoadActive, MarkStep, MarkDone, LoadDone
<1>4. CASE \E h \in Hashes, flags \in Flags : AddFit(h, flags) \/ AddGrow(h, flags)
  BY <1>4 DEF AddFit, AddGrow
<1>5. CASE Adding
  BY <1>1, <1>5 DEF Adding, CreatePop, CreateGrow, AddActive, AddHash, AddOffset, AddFlags
<1>6. CASE Calling
  BY <1>1, <1>6 DEF Calling, RemoveChunk, Leak, Adjrefs, Found
<1>7. CASE Close \/ CloseHang \/ Crash
  BY <1>1, <1>7 DEF Close, Crash
<1> QED
  BY <1>2, <1>3, <1>4, <1>5, <1>6, <1>7 DEF Next

\* At first there are no slots.
LEMMA InitMap == Init => MapInv
<1> SUFFICES ASSUME Init PROVE MapInv
  OBVIOUS
<1>1. Finished = {}
  BY DEF Init, Finished, Active
<1> QED
  BY <1>1, InitIndex, InitAddNew
  DEF MapInv, MapComplete, HashesKnown, HashesApart, AllMapped, StuckExact, Init

\* Every step keeps what is known of the map.
LEMMA NextMap == MapInv /\ [Next]_vars => MapInv'
BY NextIndex, NextAddNew, NextComplete, NextStuck DEF MapInv

\* In a serving store each active slot is the one its hash leads to, unless
\* some add was killed between its writes: no slot is lost.
THEOREM NeverOrphans == Spec => []NoOrphans
<1>1. MapInv => NoOrphans
  <2> SUFFICES ASSUME MapInv, Serving, ~Torn, NEW i \in Finished
               PROVE  idx[i].hash \in DOMAIN records /\ records[idx[i].hash] = i
    BY DEF NoOrphans, Finished
  <2>1. Tallied = Finished /\ pc # "mark"
    BY AllTallied DEF MapInv, Serving, AddPoints
  <2>2. i < Horizon
    BY <2>1 DEF Tallied
  <2> QED
    BY <2>2 DEF MapInv, MapComplete, AllMapped, Loaded
<1> QED
  BY <1>1, InitMap, NextMap, PTL DEF Spec

-----------------------------------------------------------------------------
(* The store implements the durable map of Backend.                        *)

\* Where no slot is lost and no hash has two, what Backend sees of the store
\* is its chunks' slots, whether a process serves them or not.
Exact == MapInv /\ ~Torn

MapsSlots ==
  /\ DOMAIN Chunks = {idx[i].hash : i \in Finished}
  /\ \A i \in Finished : Chunks[idx[i].hash] = Meta(i)
  /\ Chunks = [h \in DOMAIN Chunks |-> Chunks[h]]

\* It sees the slot of each hash, once.
LEMMA ChunksOfSlots == Exact => MapsSlots
<1> SUFFICES ASSUME Exact PROVE MapsSlots
  OBVIOUS
<1>1. IndexInv /\ HashesApart /\ Finished \subseteq Nat
  BY TalliedFinite DEF Exact, MapInv, MapComplete
<1>2. CASE Serving \/ pc = "stuck"
  <2>1. Chunks = [h \in DOMAIN records |-> Meta(records[h])]
    BY <1>2 DEF Chunks
  <2>2. \A h \in DOMAIN records : records[h] \in Finished /\ idx[records[h]].hash = h
    BY <1>1, <1>2 DEF Exact, MapInv, IndexInv, Loaded, StuckExact, MapExact
  <2>3. \A i \in Finished : i < Horizon
    <3>1. Active \subseteq Slots
      BY <1>1, <1>2 DEF Exact, MapInv, IndexInv, Loaded, StuckExact
    <3>2. Horizon = Records(isize) /\ Slots = 0 .. Records(isize) - 1 /\ Records(isize) \in Nat
      BY <1>1, <1>2, TypedIndex DEF IndexInv, Horizon, Serving, AddPoints
    <3> QED
      BY <3>1, <3>2 DEF Finished
  <2>4. \A i \in Finished : idx[i].hash \in DOMAIN records /\ records[idx[i].hash] = i
    BY <1>2, <2>3 DEF Exact, MapInv, MapComplete, AllMapped, Loaded
  <2>5. DOMAIN records = {idx[i].hash : i \in Finished}
    BY <2>2, <2>4
  <2>6. DOMAIN Chunks = DOMAIN records /\ \A h \in DOMAIN records : Chunks[h] = Meta(records[h])
    BY <2>1
  <2>7. \A i \in Finished : Chunks[idx[i].hash] = Meta(i)
    BY <2>4, <2>6
  <2>8. Chunks = [h \in DOMAIN Chunks |-> Chunks[h]]
    BY <2>1
  <2> QED
    BY <2>5, <2>6, <2>7, <2>8 DEF MapsSlots
<1>3. CASE ~(Serving \/ pc = "stuck")
  <2>1. Chunks = [h \in {idx[i].hash : i \in Finished} |-> Meta(Winner(h))]
    BY <1>3 DEF Chunks, Durable, Finished
  <2>2. ASSUME NEW i \in Finished PROVE Winner(idx[i].hash) = i
    <3>1. {j \in Finished : idx[j].hash = idx[i].hash} = {i}
      BY <1>1 DEF HashesApart
    <3>2. Winner(idx[i].hash) = CHOOSE x \in {i} : \A y \in {i} : x >= y
      BY <3>1 DEF Winner, Durable, Finished, Max
    <3>3. i >= i
      BY <1>1
    <3> QED
      BY <3>2, <3>3
  <2>3. DOMAIN Chunks = {idx[i].hash : i \in Finished}
    BY <2>1
  <2>4. \A i \in Finished : Chunks[idx[i].hash] = Meta(i)
    BY <2>1, <2>2
  <2>5. Chunks = [h \in DOMAIN Chunks |-> Chunks[h]]
    BY <2>1
  <2> QED
    BY <2>3, <2>4, <2>5 DEF MapsSlots
<1> QED
  BY <1>2, <1>3

\* And so in the next state.
LEMMA ChunksOfSlotsNext == (Exact => MapsSlots)'
BY ChunksOfSlots, PTL

\* A step that touches no chunk's slot changes nothing Backend sees.
LEMMA ChunksKept == Exact /\ Exact' /\ Untouched => Chunks' = Chunks
<1> SUFFICES ASSUME Exact, Exact', Untouched PROVE Chunks' = Chunks
  OBVIOUS
<1>1. MapsSlots /\ MapsSlots'
  BY ChunksOfSlots, ChunksOfSlotsNext
<1>2. DOMAIN Chunks' = DOMAIN Chunks
  BY <1>1 DEF MapsSlots, Untouched
<1>3. \A i \in Finished : Chunks'[idx[i].hash] = Chunks[idx[i].hash]
  <2> SUFFICES ASSUME NEW i \in Finished PROVE Chunks'[idx[i].hash] = Chunks[idx[i].hash]
    OBVIOUS
  <2>1. i \in Finished' /\ idx'[i] = idx[i]
    BY DEF Untouched
  <2>2. Chunks'[idx'[i].hash] = [type |-> idx'[i].type, refs |-> idx'[i].refs]
    BY <1>1, <2>1 DEF MapsSlots, Meta
  <2>3. Chunks[idx[i].hash] = [type |-> idx[i].type, refs |-> idx[i].refs]
    BY <1>1 DEF MapsSlots, Meta
  <2> QED
    BY <2>1, <2>2, <2>3
<1>4. \A h \in DOMAIN Chunks : Chunks'[h] = Chunks[h]
  BY <1>1, <1>3 DEF MapsSlots
<1> QED
  BY <1>1, <1>2, <1>4 DEF MapsSlots

\* The end of an add is an add of the map.
LEMMA AddFlagsIsAdd == Exact /\ Exact' /\ AddFlags =>
  B!Add(cur.hash, [type |-> cur.type, refs |-> cur.refs])
<1> SUFFICES ASSUME Exact, Exact', AddFlags
             PROVE  B!Add(cur.hash, [type |-> cur.type, refs |-> cur.refs])
  OBVIOUS
<1>1. MapsSlots /\ MapsSlots' /\ IndexInv
  BY ChunksOfSlots, ChunksOfSlotsNext DEF Exact, MapInv
<1>2. PICK s, x, t, r : s = cur.slot /\ x = cur.hash /\ t = cur.type /\ r = cur.refs
  OBVIOUS
<1>3. /\ s \notin Finished /\ Finished' = Finished \cup {s}
      /\ \A i \in Finished : idx'[i] = idx[i]
      /\ idx'[s].hash = x /\ idx'[s].type = t /\ idx'[s].refs = r
  BY <1>1, <1>2, FinishedAdded
<1>4. x \notin DOMAIN Chunks
  <2>1. DOMAIN Chunks = DOMAIN records
    BY DEF Chunks, AddFlags, Serving, AddPoints
  <2> QED
    BY <1>2, <2>1 DEF Exact, MapInv, AddNew, AddFlags, AddPoints
<1>5. DOMAIN Chunks' = DOMAIN Chunks \cup {x}
  BY <1>1, <1>3 DEF MapsSlots
<1>6. Chunks'[x] = [type |-> t, refs |-> r]
  BY <1>1, <1>3 DEF MapsSlots, Meta
<1>7. \A h \in DOMAIN Chunks : Chunks'[h] = Chunks[h]
  <2>1. \A i \in Finished : Chunks'[idx[i].hash] = Chunks[idx[i].hash]
    <3> SUFFICES ASSUME NEW i \in Finished PROVE Chunks'[idx[i].hash] = Chunks[idx[i].hash]
      OBVIOUS
    <3>1. i \in Finished /\ i \in Finished' /\ idx'[i] = idx[i]
      BY <1>3
    <3>2. Chunks'[idx'[i].hash] = [type |-> idx'[i].type, refs |-> idx'[i].refs]
      BY <1>1, <3>1 DEF MapsSlots, Meta
    <3>3. Chunks[idx[i].hash] = [type |-> idx[i].type, refs |-> idx[i].refs]
      BY <1>1, <3>1 DEF MapsSlots, Meta
    <3> QED
      BY <3>1, <3>2, <3>3
  <2> QED
    BY <1>1, <2>1 DEF MapsSlots
<1>8. Chunks' = [h \in DOMAIN Chunks \cup {x} |->
                   IF h = x THEN [type |-> t, refs |-> r] ELSE Chunks[h]]
  BY <1>1, <1>4, <1>5, <1>6, <1>7 DEF MapsSlots
<1> QED
  BY <1>2, <1>4, <1>8 DEF B!Add

\* A remove is a remove of the map.
LEMMA RemoveIsRemove == \A h : Exact /\ Exact' /\ RemoveChunk(h) => B!Remove(h) /\ h \in Hashes
<1> SUFFICES ASSUME NEW h, Exact, Exact', RemoveChunk(h) PROVE B!Remove(h) /\ h \in Hashes
  OBVIOUS
<1>1. MapsSlots /\ MapsSlots' /\ IndexInv /\ HashesKnown /\ HashesApart
  BY ChunksOfSlots, ChunksOfSlotsNext DEF Exact, MapInv, MapComplete
<1>2. PICK s : s = records[h]
  OBVIOUS
<1>3. /\ s \in Finished /\ idx[s].hash = h /\ Finished' = Finished \ {s}
      /\ \A i \in Finished' : idx'[i] = idx[i]
  BY <1>1, <1>2, FinishedRemoved
<1>4. h \in Hashes /\ h \in DOMAIN Chunks
  BY <1>1, <1>3 DEF HashesKnown, MapsSlots
<1>5. \A i \in Finished : idx[i].hash = h <=> i = s
  BY <1>1, <1>3 DEF HashesApart
<1>6. DOMAIN Chunks' = DOMAIN Chunks \ {h}
  <2>1. DOMAIN Chunks' = {idx[i].hash : i \in Finished'}
    BY <1>1, <1>3 DEF MapsSlots
  <2> QED
    BY <1>1, <1>3, <1>5, <2>1 DEF MapsSlots
<1>7. \A x \in DOMAIN Chunks' : Chunks'[x] = Chunks[x]
  <2>1. \A i \in Finished' : Chunks'[idx[i].hash] = Chunks[idx[i].hash]
    <3> SUFFICES ASSUME NEW i \in Finished' PROVE Chunks'[idx[i].hash] = Chunks[idx[i].hash]
      OBVIOUS
    <3>1. i \in Finished /\ i \in Finished' /\ idx'[i] = idx[i]
      BY <1>3
    <3>2. Chunks'[idx'[i].hash] = [type |-> idx'[i].type, refs |-> idx'[i].refs]
      BY <1>1, <3>1 DEF MapsSlots, Meta
    <3>3. Chunks[idx[i].hash] = [type |-> idx[i].type, refs |-> idx[i].refs]
      BY <1>1, <3>1 DEF MapsSlots, Meta
    <3> QED
      BY <3>1, <3>2, <3>3
  <2>2. DOMAIN Chunks' = {idx[i].hash : i \in Finished'}
    BY <1>1, <1>3 DEF MapsSlots
  <2> QED
    BY <2>1, <2>2
<1>8. Chunks' = [x \in DOMAIN Chunks \ {h} |-> Chunks[x]]
  BY <1>1, <1>6, <1>7 DEF MapsSlots
<1> QED
  BY <1>4, <1>8 DEF B!Remove

\* An adjrefs is an adjrefs of the map.
LEMMA AdjrefsIsAdjrefs ==
  \A h, d : d \in Deltas /\ Exact /\ Exact' /\ Adjrefs(h, d) => B!Adjrefs(h, d) /\ h \in Hashes
<1> SUFFICES ASSUME NEW h, NEW d \in Deltas, Exact, Exact', Adjrefs(h, d)
             PROVE  B!Adjrefs(h, d) /\ h \in Hashes
  OBVIOUS
<1>1. MapsSlots /\ MapsSlots' /\ IndexInv /\ HashesKnown /\ HashesApart
  BY ChunksOfSlots, ChunksOfSlotsNext DEF Exact, MapInv, MapComplete
<1>2. PICK s : s = records[h]
  OBVIOUS
<1>3. /\ s \in Finished /\ idx[s].hash = h /\ Finished' = Finished
      /\ \A i \in Finished : /\ idx'[i].hash = idx[i].hash /\ idx'[i].type = idx[i].type
                             /\ i # s => idx'[i].refs = idx[i].refs
      /\ idx'[s].refs = (idx[s].refs + d) % REFS
  BY <1>1, <1>2, FinishedRecounted
<1>4. h \in Hashes /\ h \in DOMAIN Chunks /\ Chunks[h] = Meta(s)
  BY <1>1, <1>3 DEF HashesKnown, MapsSlots
<1>5. Chunks[h] = [type |-> idx[s].type, refs |-> idx[s].refs]
  BY <1>4 DEF Meta
<1>6. idx[s].refs \in Int /\ d \in Int /\ d + idx[s].refs >= 0
  <2>1. idx[s] \in Slot
    BY <1>1, <1>2, FoundSlot DEF IndexInv, Adjrefs
  <2> QED
    BY <1>2, <2>1, DeltasAssumption DEF Slot, Adjrefs
<1>7. DOMAIN Chunks' = DOMAIN Chunks
  BY <1>1, <1>3 DEF MapsSlots
<1>8. Chunks'[h] = [type |-> idx[s].type, refs |-> (idx[s].refs + d) % REFS]
  BY <1>1, <1>3 DEF MapsSlots, Meta
<1>9. \A x \in DOMAIN Chunks : x # h => Chunks'[x] = Chunks[x]
  <2>1. \A i \in Finished : idx[i].hash # h => Chunks'[idx[i].hash] = Chunks[idx[i].hash]
    <3> SUFFICES ASSUME NEW i \in Finished, idx[i].hash # h
                 PROVE  Chunks'[idx[i].hash] = Chunks[idx[i].hash]
      OBVIOUS
    <3>1. /\ i \in Finished' /\ idx'[i].hash = idx[i].hash
          /\ idx'[i].type = idx[i].type /\ idx'[i].refs = idx[i].refs
      BY <1>3
    <3>2. Chunks'[idx'[i].hash] = [type |-> idx'[i].type, refs |-> idx'[i].refs]
      BY <1>1, <3>1 DEF MapsSlots, Meta
    <3>3. Chunks[idx[i].hash] = [type |-> idx[i].type, refs |-> idx[i].refs]
      BY <1>1 DEF MapsSlots, Meta
    <3> QED
      BY <3>1, <3>2, <3>3
  <2> QED
    BY <1>1, <2>1 DEF MapsSlots
<1>10. [Chunks[h] EXCEPT !.refs = (Chunks[h].refs + d) % REFS] = Chunks'[h]
  BY <1>5, <1>8
<1>11. Chunks' = [x \in DOMAIN Chunks |->
                    IF x = h THEN [Chunks[h] EXCEPT !.refs = (Chunks[h].refs + d) % REFS]
                    ELSE Chunks[x]]
  BY <1>1, <1>7, <1>9, <1>10 DEF MapsSlots
<1>12. Chunks' = [Chunks EXCEPT ![h].refs = (@ + d) % REFS]
  BY <1>11, Zenon
<1>13. Chunks[h].refs + d >= 0
  BY <1>5, <1>6
<1> QED
  BY <1>4, <1>12, <1>13 DEF B!Adjrefs

\* At first both are empty.
LEMMA InitImplements == Init => B!Init
BY DEF Init, B!Init, Chunks, Durable, Active, Serving, AddPoints

\* Every step is a call of the map or changes nothing Backend sees.
LEMMA NextImplements == Exact /\ Exact' /\ [Next]_vars => [B!Next]_Chunks
<1> SUFFICES ASSUME Exact, Exact', [Next]_vars PROVE B!Next \/ Chunks' = Chunks
  OBVIOUS
<1>1. IndexInv
  BY DEF Exact, MapInv
<1>2. CASE Untouched
  BY <1>2, ChunksKept
<1>3. CASE AddFlags
  <2>1. cur.hash \in Hashes /\ cur.type \in Types /\ cur.refs \in GivenRefs
    BY <1>1, <1>3 DEF Exact, MapInv, AddNew, AddFlags, AddPoints, IndexInv, TypeInv
  <2>2. [type |-> cur.type, refs |-> cur.refs] \in Flags
    BY <2>1 DEF Flags
  <2> QED
    BY <1>3, <2>1, <2>2, AddFlagsIsAdd DEF B!Next
<1>4. ASSUME NEW h, RemoveChunk(h) PROVE B!Next
  BY <1>4, RemoveIsRemove DEF B!Next
<1>5. ASSUME NEW h, NEW d \in Deltas, Adjrefs(h, d) PROVE B!Next
  BY <1>5, AdjrefsIsAdjrefs DEF B!Next
<1>6. CASE Crash
  BY <1>1, <1>2, <1>6, CrashUntouched DEF Exact, Crash, Torn
<1>7. CASE Loading
  BY <1>1, <1>2, <1>7, LoadingUntouched
<1>8. CASE \E h \in Hashes, flags \in Flags : AddFit(h, flags) \/ AddGrow(h, flags)
  BY <1>2, <1>8, AddBeginUntouched
<1>9. CASE Adding
  BY <1>1, <1>2, <1>3, <1>9, CreatePopUntouched, CreateGrowUntouched, WritesUntouched,
     OthersUntouched DEF Adding
<1>10. CASE Calling
  BY <1>2, <1>4, <1>5, <1>10, OthersUntouched DEF Calling
<1> QED
  BY <1>2, <1>6, <1>7, <1>8, <1>9, <1>10, OthersUntouched DEF Next

\* Where no add is killed between its writes, the store is the durable map of
\* backend.hh: every call is a call of the map or changes nothing a caller can
\* tell, and an open, a close, a hang or a kill changes nothing at all.
THEOREM StoreImplements ==
  ASSUME CrashPoints \cap TornPoints = {}
  PROVE  Spec => Implements
<1>1. Init => Exact
  BY InitMap DEF Init, Exact, Torn
<1>2. Exact /\ [Next]_vars => Exact'
  <2> SUFFICES ASSUME ~Torn, [Next]_vars PROVE ~Torn'
    BY NextMap DEF Exact
  <2> USE DEF Torn, TornPoints
  <2>1. \A h, flags : AddFit(h, flags) \/ AddGrow(h, flags) => ~Torn'
    BY DEF AddFit, AddGrow
  <2>2. Loading => ~Torn'
    BY DEF Loading, Open, LoadFree, LoadActive, MarkStep, MarkDone, LoadDone
  <2>3. Adding => ~Torn'
    BY DEF Adding, CreatePop, CreateGrow, CreateHang, AddActive, AddHash, AddOffset, AddFlags
  <2>4. Calling => ~Torn'
    BY DEF Calling, RemoveChunk, Leak, GetHang, Adjrefs
  <2>5. Close \/ CloseHang \/ Crash => ~Torn'
    BY DEF Close, CloseHang, Crash
  <2> QED
    BY <2>1, <2>2, <2>3, <2>4, <2>5 DEF Next, vars
<1> QED
  BY <1>1, <1>2, InitImplements, NextImplements, PTL DEF Spec, Implements, B!Spec
=============================================================================
