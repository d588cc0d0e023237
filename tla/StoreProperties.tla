--------------------------- MODULE StoreProperties ---------------------------
(***************************************************************************)
(* What the store should and what it does guarantee.                       *)
(*                                                                         *)
(* The free list of the data file has two defects and the add is not       *)
(* atomic under a kill; the ghost variable faults says which of them a     *)
(* behaviour has met.  A property under "no fault" delimits the damage: it *)
(* holds until the defect it names is exercised, and of nothing else.      *)
(***************************************************************************)
EXTENDS Store

Slot == [active : BOOLEAN, hash : Hashes \cup {ZeroHash}, offset : Nat,
         length : Nat, type : ChunkTypes \cup {"OTHER"}, refs : 0 .. REFS - 1]
Unit == (Hashes \cup {ZeroHash}) \X Nat
Add == [hash : Hashes \cup {ZeroHash}, type : ChunkTypes \cup {"OTHER"},
        refs : 0 .. REFS - 1, offset : Nat, slot : Nat]

DiskTypeOK ==
  /\ isz \in Nat /\ idx \in [0 .. Records(isz) - 1 -> Slot]
  /\ dsz \in Nat /\ img \in [0 .. dsz - 1 -> Unit]
MemoryTypeOK ==
  /\ isize \in Nat /\ ifree \in Seq(Nat) /\ use \in Nat
  /\ dsize \in Nat /\ dfree \in Seq(Entry)
  /\ DOMAIN records \subseteq Hashes \cup {ZeroHash}
  /\ records \in [DOMAIN records -> Nat]
  /\ n \in [ChunkTypes -> Int]
  /\ cur \in Add

\* Every variable has its type, the index file holds the slots its size
\* says, and the data file the units.
TypeOK ==
  /\ DiskTypeOK
  /\ MemoryTypeOK
  /\ pc \in Points
  /\ li \in Nat /\ it \in Nat \ {0}
  /\ faults \subseteq {"partial", "bridge"} \cup TornPoints

-----------------------------------------------------------------------------
(* The index. *)

Serving == pc \in {"idle"} \cup AddPoints
Pending == IF pc \in AddPoints \ {"create"} THEN {cur.slot} ELSE {}
Active == {i \in DOMAIN idx : idx[i].active}
Torn == faults \cap TornPoints # {}

\* The stack of free slots (IndexFile::free) holds each slot no chunk has
\* once: a slot pushed twice, or pushed while it is in use, would be given
\* to two chunks.
SlotsExact ==
  Serving =>
    /\ \A j, k \in DOMAIN ifree : j # k => ifree[j] # ifree[k]
    /\ {ifree[k] : k \in DOMAIN ifree} = Slots \ (Active \cup Pending)

\* Store::records leads from a hash to an active slot that holds that hash,
\* whatever the kills before: after a torn add too.
MapSound ==
  Serving => \A h \in DOMAIN records :
    /\ records[h] \in Active \ Pending
    /\ idx[records[h]].hash = h

\* No slot is lost: unless an add was torn, each active slot is the one its
\* hash leads to, so that a remove frees it and a restart finds the same map.
NoOrphans ==
  Serving /\ ~Torn => \A i \in Active \ Pending :
    /\ idx[i].hash \in DOMAIN records
    /\ records[idx[i].hash] = i

\* n_data, n_meta and n_index count the active slots of their type, and the
\* uint32_t never wraps below zero.
CountExact ==
  Serving => \A t \in ChunkTypes :
    n[t] = Cardinality({i \in Active \ Pending : idx[i].type = t})

\* While the process runs, the slot, the extent and the type of a chunk stay
\* what they were when it was added: no other call takes its slot over.
SlotStable ==
  [][Serving => \A h \in DOMAIN records \cap DOMAIN records' :
       /\ records'[h] = records[h]
       /\ [idx'[records[h]] EXCEPT !.refs = 0] = [idx[records[h]] EXCEPT !.refs = 0]]_vars

-----------------------------------------------------------------------------
(* The data file. *)

Extent(offset, length) == offset .. offset + length - 1
SlotExtent(i) == Extent(idx[i].offset, idx[i].length)
FreeExtent(k) == Extent(dfree[k].first, dfree[k].second)
PendingExtents == IF pc \in AddPoints
                  THEN {Extent(cur.offset, Length[cur.hash])} ELSE {}
Held == {records[h] : h \in DOMAIN records}

\* The extent of a stored chunk lies inside the data file, so that the loop
\* of DataFile::load ends, unless an add was killed between its offset and
\* its flags.
ExtentsInFile ==
  "flags" \notin faults => \A i \in Active \ Pending :
    idx[i].offset + idx[i].length <= dsz

\* No unit belongs to two chunks, or to a chunk and the free list, or twice
\* to the free list, as long as no chunk is empty, find has not split an entry,
\* release has not bridged two and no add was torn.
NoOverlap ==
  Serving /\ faults = {} =>
    /\ \A i, j \in Held : i # j => SlotExtent(i) \cap SlotExtent(j) = {}
    /\ \A i \in Held, k \in DOMAIN dfree : SlotExtent(i) \cap FreeExtent(k) = {}
    /\ \A j, k \in DOMAIN dfree : j # k => FreeExtent(j) \cap FreeExtent(k) = {}
    /\ \A x \in PendingExtents :
         /\ \A i \in Held : x \cap SlotExtent(i) = {}
         /\ \A k \in DOMAIN dfree : x \cap FreeExtent(k) = {}

\* No unit of the data file is lost: each belongs to a chunk, to the add in
\* progress or to the free list, after any sequence of adds, removes and
\* restarts, kills included, in a file whose size fits the length of an entry.
NoLoss ==
  Serving /\ faults = {} =>
    0 .. dsize - 1 = UNION ( {SlotExtent(i) : i \in Held}
                       \cup {FreeExtent(k) : k \in DOMAIN dfree}
                       \cup PendingExtents )

\* Reading a stored hash gives the chunk of that hash (Store::get), whatever
\* was added, removed and reopened before.
ContentAddressed ==
  Serving => \A h \in DOMAIN records \cap Hashes :
    LET s == idx[records[h]]
    IN  /\ s.length = Length[h]
        /\ \A k \in 0 .. s.length - 1 :
             s.offset + k \in DOMAIN img /\ img[s.offset + k] = <<h, k>>

\* It does as long as no chunk is empty and no defect has been exercised,
\* across restarts and kills outside the add.
ContentSafe == faults = {} => ContentAddressed

\* It does in spite of kills inside the add, as long as the free list was
\* right.
TornContentSafe == faults \subseteq TornPoints => ContentAddressed

-----------------------------------------------------------------------------
(* Ending. *)

\* Each iteration of mark leaves fewer entries ahead of its iterator, though it
\* may erase one and step back, or insert one: the loop ends on every list.
MarkProgress ==
  [][pc = "mark" /\ pc' = "mark" => Len(dfree') - it' < Len(dfree) - it]_vars

\* Opening the store ends: the loop of mark, which steps its iterator back
\* and inserts behind it, included.
StartupEnds == pc \in {"load", "mark"} ~> pc \notin {"load", "mark"}

\* An add ends, and unless a pin was leaked it does not end in a hang.
AddEnds == pc \in AddPoints ~> pc \in {"idle", "down"} \/ use > 0

-----------------------------------------------------------------------------
(* The store implements the durable map, where no add is killed half way.  *)

\* The slots a restart would load, and the slot it would let a hash have.
Durable == Active \ Pending
Winner(h) == Max({i \in Durable : idx[i].hash = h})
Meta(i) == [type |-> idx[i].type, refs |-> idx[i].refs]
Chunks ==
  IF Serving \/ pc = "stuck"
  THEN [h \in DOMAIN records |-> Meta(records[h])]
  ELSE [h \in {idx[i].hash : i \in Durable} |-> Meta(Winner(h))]

B == INSTANCE Backend WITH chunks <- Chunks

\* Each step of the store is a call of the durable map or changes nothing a
\* caller can tell; an open, a close and a kill change nothing.
Implements == B!Spec
=============================================================================
