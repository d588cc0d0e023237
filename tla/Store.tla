-------------------------------- MODULE Store --------------------------------
(***************************************************************************)
(* lib/store.cc: the chunk store, over an index file of fixed-size slots   *)
(* and a data file of extents, with the process that runs it opened,       *)
(* closed and killed.                                                      *)
(*                                                                         *)
(* One process uses the store, one call at a time (the Python binding      *)
(* keeps the interpreter lock through a native call).  A call is one       *)
(* action when it makes at most one change that a restart can see;         *)
(* Store::add makes six, and a kill may fall between any two of them.      *)
(* Written bytes survive a kill of the process in program order.           *)
(*                                                                         *)
(* Sizes and offsets are in units; HEADER, RECORD and PAGESIZE stand for   *)
(* 12, 36 and 4096 bytes.  A chunk is known by its hash, which fixes its   *)
(* length and its content: unit k of the chunk of h is <<h, k>>.           *)
(***************************************************************************)
EXTENDS DataFile, Functions

CONSTANTS
  Hashes,       \* the hashes of the chunks clients add
  Length,       \* the length of the chunk of each hash
  Types,        \* the chunk types clients give; "OTHER" is an unset one
  GivenRefs,    \* the references chunks have when they are added
  Deltas,       \* arguments of adjrefs
  HEADER,       \* sizeof(header_t)
  RECORD,       \* sizeof(record_t)
  INDEXGROWTH,  \* slots added when the index is full
  REFS,         \* 2^16: the modulus of the 16-bit references
  CrashPoints,  \* where the process may be killed
  MaxData,      \* bound: largest data file
  MaxSlots,     \* bound: most slots of the index file
  MaxUse        \* bound: most pins leaked on the index file

ChunkTypes == {"DATA", "META", "INDEX"}
AddPoints == {"create", "active", "hash", "offset", "flags"}
TornPoints == {"hash", "offset", "flags"}
Points == {"down", "load", "mark", "idle", "stuck"} \cup AddPoints

ASSUME HashAssumption == Hashes \subseteq Nat \ {0}
ASSUME LengthAssumption == Length \in [Hashes -> Nat]
ASSUME TypesAssumption == Types \subseteq ChunkTypes \cup {"OTHER"}
ASSUME DeltasAssumption == Deltas \subseteq Int
ASSUME IndexAssumption ==
  HEADER \in Nat \ {0} /\ RECORD \in Nat \ {0} /\ INDEXGROWTH \in Nat \ {0}
ASSUME RefsAssumption == REFS \in Nat \ {0, 1}
ASSUME GivenRefsAssumption == GivenRefs \subseteq 0 .. REFS - 1
ASSUME CrashAssumption == CrashPoints \subseteq Points
ASSUME BoundsAssumption == MaxData \in Nat /\ MaxSlots \in Nat /\ MaxUse \in Nat

VARIABLES
  idx,      \* index file: slot number -> record
  isz,      \* index file: its size on disk
  img,      \* data file: offset -> unit
  dsz,      \* data file: its size on disk
  pc,       \* what the process is doing
  isize,    \* IndexFile::size
  ifree,    \* IndexFile::free, a stack
  use,      \* IndexFile::use, between calls: the pins never given back
  dsize,    \* DataFile::size
  dfree,    \* DataFile::free
  records,  \* Store::records: hash -> slot number
  n,        \* Store::n_data, n_meta, n_index
  cur,      \* the add in progress
  li,       \* the slot the loading loop is at
  it,       \* mark's iterator: a position of dfree
  faults    \* ghost: the defects of the code that have been exercised

disk == <<idx, isz, img, dsz>>
ivars == <<isize, ifree, use>>
dvars == <<dsize, dfree>>
loop == <<li, it>>
vars == <<disk, pc, ivars, dvars, records, n, cur, loop, faults>>

-----------------------------------------------------------------------------
(* Data. *)

ZeroHash == 0
ZeroSlot == [active |-> FALSE, hash |-> ZeroHash, offset |-> 0,
             length |-> 0, type |-> "DATA", refs |-> 0]
Blank == <<ZeroHash, 0>>
NoAdd == [hash |-> ZeroHash, type |-> "DATA", refs |-> 0, offset |-> 0, slot |-> 0]
Zeros == [t \in ChunkTypes |-> 0]

\* Chunk::flags, of which the hash gives the length.
Flags == [type : Types, refs : GivenRefs]

\* The number of whole records in an index file of the given size.
Records(size) == IF size < HEADER THEN 0 ELSE (size - HEADER) \div RECORD
Slots == 0 .. Records(isize) - 1

\* ftruncate: the slots, or units, past the old end read as zeros.
SlottedStale(slots, size) == slots
SlottedFresh(slots, size) == [i \in 0 .. Records(size) - 1 |-> ZeroSlot]
Slotted(slots, size) ==
  [i \in 0 .. Records(size) - 1 |-> IF i \in DOMAIN slots THEN slots[i] ELSE ZeroSlot]
Truncated(units, size) ==
  [u \in 0 .. size - 1 |-> IF u \in DOMAIN units THEN units[u] ELSE Blank]

\* DataFile::save: a write past the end extends the file.
EndOfWrite(size, offset, length) ==
  IF length > 0 /\ offset + length > size THEN offset + length ELSE size
SavedAtStart(units, size, offset, h) ==
  [u \in 0 .. size - 1 |-> IF u < Length[h] THEN <<h, u>> ELSE units[u]]
Saved(units, size, offset, h) ==
  [u \in 0 .. EndOfWrite(size, offset, Length[h]) - 1 |->
     IF offset <= u /\ u < offset + Length[h] THEN <<h, u - offset>>
     ELSE IF u < size THEN units[u] ELSE Blank]

\* Store::count and Store::uncount: a type outside the three is not counted.
CountedUp(counts, t, d) ==
  IF t \in ChunkTypes THEN [counts EXCEPT ![t] = @ + 1] ELSE counts
Counted(counts, t, d) ==
  IF t \in ChunkTypes THEN [counts EXCEPT ![t] = @ + d] ELSE counts

\* Store::records, with a hash and without one.
Mapped(map, h, i) == [x \in DOMAIN map \cup {h} |-> IF x = h THEN i ELSE map[x]]
UnmappedNot(map, h) == map
Unmapped(map, h) == Restrict(map, DOMAIN map \ {h})

\* IndexFile::free: a stack, popped at the end; the slots a growth of the
\* file from recnum to max slots leaves free.
PoppedNot(stack) == stack
Popped(stack) == Front(stack)
NewSlotsAll(recnum, max) == [k \in 1 .. max - recnum |-> recnum + k - 1]
NewSlots(recnum, max) == [k \in 1 .. max - recnum - 1 |-> recnum + k]

Forget ==
  /\ isize' = 0 /\ ifree' = <<>> /\ use' = 0
  /\ dsize' = 0 /\ dfree' = <<>>
  /\ records' = <<>> /\ n' = Zeros
  /\ cur' = NoAdd /\ li' = 0 /\ it' = 1

Init ==
  /\ idx = <<>> /\ isz = 0 /\ img = <<>> /\ dsz = 0
  /\ pc = "down"
  /\ isize = 0 /\ ifree = <<>> /\ use = 0
  /\ dsize = 0 /\ dfree = <<>>
  /\ records = <<>> /\ n = Zeros
  /\ cur = NoAdd /\ li = 0 /\ it = 1
  /\ faults = {}

-----------------------------------------------------------------------------
(* Opening: the constructors of AutoFile, IndexFile, DataFile and Store.   *)
(* The two passes over the slots, one that collects the free slots and one *)
(* that loads the active ones, touch different state and are one pass here.*)

Open ==
  /\ pc = "down"
  /\ isz' = IF isz < HEADER THEN ROUNDUP(HEADER) ELSE isz
  /\ idx' = Slotted(idx, isz')
  /\ isize' = IF isz < HEADER THEN HEADER ELSE isz
  /\ dsize' = dsz
  /\ dfree' = <<FreeEntry(0, dsz)>>
  /\ pc' = "load"
  /\ UNCHANGED <<img, dsz, ifree, use, records, n, cur, loop, faults>>

LoadFree ==
  /\ pc = "load" /\ li \in Slots
  /\ ~idx[li].active
  /\ ifree' = Append(ifree, li)
  /\ li' = li + 1
  /\ UNCHANGED <<disk, pc, isize, use, dvars, records, n, cur, it, faults>>

LoadActive ==
  /\ pc = "load" /\ li \in Slots
  /\ idx[li].active
  /\ n' = Counted(n, idx[li].type, 1)
  /\ it' = 1
  /\ pc' = "mark"
  /\ UNCHANGED <<disk, ivars, dvars, records, cur, li, faults>>

MarkStep ==
  LET s == idx[li]
      end == s.offset + s.length
  IN  /\ pc = "mark" /\ it <= Len(dfree)
      /\ dfree' = MarkEntry(dfree, it, s.offset, end)
      /\ it' = MarkNext(dfree, it, s.offset, end)
      /\ UNCHANGED <<disk, pc, ivars, dsize, records, n, cur, li, faults>>

MarkDone ==
  /\ pc = "mark" /\ it > Len(dfree)
  /\ records' = Mapped(records, idx[li].hash, li)
  /\ li' = li + 1
  /\ pc' = "load"
  /\ UNCHANGED <<disk, ivars, dvars, n, cur, it, faults>>

LoadDone ==
  /\ pc = "load" /\ li \notin Slots
  /\ pc' = "idle"
  /\ UNCHANGED <<disk, ivars, dvars, records, n, cur, loop, faults>>

-----------------------------------------------------------------------------
(* Store::add. *)

StoredNever(h) == FALSE
Stored(h) == h \in DOMAIN records

\* Bound: the index has a slot for the add, or may still grow for it, or
\* the call hangs before it grows.
IndexGrown == isize + INDEXGROWTH * RECORD
CanCreate == ifree # <<>> \/ use > 0 \/ Records(ROUNDUP(IndexGrown)) <= MaxSlots

\* DataFile::find in the free list, then DataFile::save.
AddFit(h, flags) ==
  LET length == Length[h]
      i == FirstFit(dfree, length)
      offset == dfree[i].first
  IN  /\ pc = "idle" /\ ~Stored(h) /\ CanCreate
      /\ Fits(dfree, length) # {}
      /\ EndOfWrite(dsz, offset, length) <= MaxData
      /\ dfree' = Take(dfree, i, length)
      /\ img' = Saved(img, dsz, offset, h)
      /\ dsz' = EndOfWrite(dsz, offset, length)
      /\ cur' = [hash |-> h, type |-> flags.type, refs |-> flags.refs,
                 offset |-> offset, slot |-> 0]
      /\ pc' = "create"
      /\ faults' = IF length > 0 /\ dfree[i].second > length
                   THEN faults \cup {"partial"} ELSE faults
      /\ UNCHANGED <<idx, isz, ivars, dsize, records, n, loop>>

\* DataFile::find when nothing fits: AutoFile::setsize cuts or extends the
\* file to a whole page, the size kept in memory is the exact one.
AddGrow(h, flags) ==
  LET length == Length[h]
      rounded == ROUNDUP(dsize + length)
  IN  /\ pc = "idle" /\ ~Stored(h) /\ CanCreate
      /\ Fits(dfree, length) = {}
      /\ rounded <= MaxData
      /\ dsize' = dsize + length
      /\ img' = Saved(Truncated(img, rounded), rounded, dsize, h)
      /\ dsz' = rounded
      /\ cur' = [hash |-> h, type |-> flags.type, refs |-> flags.refs,
                 offset |-> dsize, slot |-> 0]
      /\ pc' = "create"
      /\ UNCHANGED <<idx, isz, ivars, dfree, records, n, loop, faults>>

\* IndexFile::create: a slot from the stack.
CreatePop ==
  /\ pc = "create" /\ ifree # <<>>
  /\ cur' = [cur EXCEPT !.slot = Last(ifree)]
  /\ ifree' = Popped(ifree)
  /\ pc' = "active"
  /\ UNCHANGED <<disk, isize, use, dvars, records, n, loop, faults>>

\* IndexFile::create: the index grows; the new slots but the first are free.
CreateGrow ==
  /\ pc = "create" /\ ifree = <<>> /\ use = 0
  /\ isize' = IndexGrown
  /\ isz' = ROUNDUP(IndexGrown)
  /\ idx' = Slotted(idx, isz')
  /\ cur' = [cur EXCEPT !.slot = Records(isize)]
  /\ ifree' = NewSlots(Records(isize), Records(isize'))
  /\ pc' = "active"
  /\ UNCHANGED <<img, dsz, use, dvars, records, n, loop, faults>>

\* IndexFile::create: AutoFile::closefds waits for pins nobody gives back.
CreateHangAlways ==
  /\ pc = "create" /\ ifree = <<>> /\ use >= 0
  /\ pc' = "stuck"
  /\ UNCHANGED <<disk, ivars, dvars, records, n, cur, loop, faults>>
CreateHang ==
  /\ pc = "create" /\ ifree = <<>> /\ use > 0
  /\ pc' = "stuck"
  /\ UNCHANGED <<disk, ivars, dvars, records, n, cur, loop, faults>>

AddActive ==
  /\ pc = "active"
  /\ idx' = [idx EXCEPT ![cur.slot].active = TRUE]
  /\ pc' = "hash"
  /\ UNCHANGED <<isz, img, dsz, ivars, dvars, records, n, cur, loop, faults>>

AddHash ==
  /\ pc = "hash"
  /\ idx' = [idx EXCEPT ![cur.slot].hash = cur.hash]
  /\ pc' = "offset"
  /\ UNCHANGED <<isz, img, dsz, ivars, dvars, records, n, cur, loop, faults>>

AddOffset ==
  /\ pc = "offset"
  /\ idx' = [idx EXCEPT ![cur.slot].offset = cur.offset]
  /\ pc' = "flags"
  /\ UNCHANGED <<isz, img, dsz, ivars, dvars, records, n, cur, loop, faults>>

\* The flags, with the references the chunk came with (one if it is new, any
\* number if it is one that get gave), and with them the call is done.
AddFlags ==
  /\ pc = "flags"
  /\ idx' = [idx EXCEPT ![cur.slot].length = Length[cur.hash],
                        ![cur.slot].type = cur.type,
                        ![cur.slot].refs = cur.refs]
  /\ n' = Counted(n, cur.type, 1)
  /\ records' = Mapped(records, cur.hash, cur.slot)
  /\ cur' = NoAdd
  /\ pc' = "idle"
  /\ UNCHANGED <<isz, img, dsz, ivars, dvars, loop, faults>>

-----------------------------------------------------------------------------
(* The other calls.  Each looks the hash up and returns when it is unknown *)
(* or, which MapSound excludes, when its slot is not active.               *)

Found(h) == pc = "idle" /\ Stored(h) /\ idx[records[h]].active

RemoveChunk(h) ==
  /\ Found(h)
  /\ LET s == idx[records[h]]
     IN  /\ idx' = [idx EXCEPT ![records[h]].active = FALSE]
         /\ ifree' = Append(ifree, records[h])
         /\ n' = Counted(n, s.type, -1)
         /\ dfree' = Release(dfree, s.offset, s.length)
         /\ records' = Unmapped(records, h)
         /\ faults' = IF Bridges(dfree, s.offset, s.length)
                      THEN faults \cup {"bridge"} ELSE faults
  /\ UNCHANGED <<isz, img, dsz, pc, isize, use, dsize, cur, loop>>

Adjrefs(h, d) ==
  /\ Found(h)
  /\ d + idx[records[h]].refs >= 0
  /\ idx' = [idx EXCEPT ![records[h]].refs = (@ + d) % REFS]
  /\ UNCHANGED <<isz, img, dsz, pc, ivars, dvars, records, n, cur, loop, faults>>

\* A refused adjrefs, and a get or head of a chunk of unknown type, return
\* without IndexFile::done.
Leaks(h) ==
  \/ idx[records[h]].type = "OTHER"
  \/ \E d \in Deltas : d + idx[records[h]].refs < 0

Leak(h) ==
  /\ Found(h) /\ Leaks(h)
  /\ use < MaxUse
  /\ use' = use + 1
  /\ UNCHANGED <<disk, pc, isize, ifree, dvars, records, n, cur, loop, faults>>

\* DataFile::load of an extent past the end of the file: read returns 0 and
\* the loop never ends.  Every other get or head changes nothing.
PastEndEarly(s) == s.length > 0 /\ s.offset + s.length >= dsz
PastEnd(s) == s.length > 0 /\ s.offset + s.length > dsz
GetHang(h) ==
  LET s == idx[records[h]]
  IN  /\ Found(h)
      /\ s.type # "OTHER"
      /\ PastEnd(s)
      /\ pc' = "stuck"
      /\ UNCHANGED <<disk, ivars, dvars, records, n, cur, loop, faults>>

-----------------------------------------------------------------------------
(* The end of the process.  The destructors wait for the pins. *)

Close ==
  /\ pc = "idle" /\ use = 0
  /\ pc' = "down"
  /\ Forget
  /\ UNCHANGED <<disk, faults>>

CloseHang ==
  /\ pc = "idle" /\ use > 0
  /\ pc' = "stuck"
  /\ UNCHANGED <<disk, ivars, dvars, records, n, cur, loop, faults>>

\* The process is killed.
Crash ==
  /\ pc \in CrashPoints \ {"down"}
  /\ pc' = "down"
  /\ faults' = faults \cup ({pc} \cap TornPoints)
  /\ Forget
  /\ UNCHANGED disk

-----------------------------------------------------------------------------
Loading == Open \/ LoadFree \/ LoadActive \/ MarkStep \/ MarkDone \/ LoadDone
Adding ==
  \/ CreatePop \/ CreateGrow \/ CreateHang
  \/ AddActive \/ AddHash \/ AddOffset \/ AddFlags
Calling ==
  \E h \in Hashes \cup {ZeroHash} :
    \/ RemoveChunk(h) \/ Leak(h) \/ GetHang(h)
    \/ \E d \in Deltas : Adjrefs(h, d)

Next ==
  \/ Loading
  \/ \E h \in Hashes, flags \in Flags : AddFit(h, flags) \/ AddGrow(h, flags)
  \/ Adding
  \/ Calling
  \/ Close \/ CloseHang \/ Crash

Spec == Init /\ [][Next]_vars

\* A call that has begun goes on: the process runs unless it is killed.
\* Clients need not call, and nobody need start the process.
Running == LoadFree \/ LoadActive \/ MarkStep \/ MarkDone \/ LoadDone \/ Adding
FairSpec == Spec /\ WF_vars(Running)
=============================================================================
