------------------------------- MODULE Fetch --------------------------------
(***************************************************************************)
(* lib/store.cc: the listing calls of the store, fetchAll, fetchData,      *)
(* fetchMeta and fetchIndex, and a client that reads a listing page by     *)
(* page while chunks come and go.                                          *)
(*                                                                         *)
(* The store is its map (module Store, where MapSound says that a hash     *)
(* leads to the slot with its type): hash -> type and references.  The     *)
(* client is not in the sources; it asks for the next page from the number *)
(* of hashes it has been given on, and stops at a page with none.          *)
(* RestFromNext, RestFromLast and RestFromFirst are Rest with a mistake.   *)
(***************************************************************************)
EXTENDS Integers, Sequences, SequencesExt, FiniteSets, FiniteSetsExt, Functions

CONSTANTS
  Hashes,     \* hashes: numbers, in the order of Hashcmp
  Types,      \* the chunk types clients give
  REFS,       \* 2^16: a reference count is 16 bits wide
  GivenRefs,  \* the references of the chunks clients give
  Sizes,      \* the page sizes clients ask for
  Often       \* bound: where the client stops counting how often it saw a hash

ChunkTypes == {"DATA", "META", "INDEX"}
Kinds == Types \cup {"ALL"}
Flags == [type : Types, refs : GivenRefs]

ASSUME FetchHashes == Hashes \subseteq Nat /\ IsFiniteSet(Hashes)
ASSUME FetchTypes == Types \subseteq ChunkTypes
ASSUME FetchSizes == Sizes \subseteq Nat \ {0}
ASSUME FetchRefs == REFS \in Nat \ {0} /\ GivenRefs \subseteq 0 .. REFS - 1
ASSUME FetchBound == Often \in Nat \ {0}

VARIABLES
  records,  \* Store::records: hash -> [type, refs]
  scan,     \* the client: [phase, kind, size, start]
  seen,     \* how often the scan was given each hash
  stayed,   \* ghost: hashes stored all through the scan
  removed,  \* ghost: removals during the scan, counted as far as there are hashes
  added     \* ghost: whether a hash was added during the scan

ghosts == <<stayed, removed, added>>
fvars == <<records, scan, seen, ghosts>>

NoScan == [phase |-> "idle", kind |-> "ALL", size |-> 0, start |-> 0]

FetchInit ==
  /\ records = <<>>
  /\ scan = NoScan
  /\ seen = [h \in Hashes |-> 0]
  /\ stayed = {} /\ removed = 0 /\ added = FALSE

-----------------------------------------------------------------------------
(* The listings.  All skip the first start records of the map, whatever    *)
(* their types, and then list up to count of the wanted type.              *)

\* Hashes in the order of the map's iterator.
Before(S, h) == {g \in S : g < h}
InOrder(S) ==
  [k \in 1 .. Cardinality(S) |-> CHOOSE h \in S : Cardinality(Before(S, h)) = k - 1]

\* The records that start others come before.
RestFromNext(start) ==
  {h \in DOMAIN records : Cardinality(Before(DOMAIN records, h)) > start}
RestFromLast(start) ==
  {h \in DOMAIN records : Cardinality(Before(DOMAIN records, h)) + 1 >= start}
RestFromFirst(start) == DOMAIN records
Rest(start) ==
  {h \in DOMAIN records : Cardinality(Before(DOMAIN records, h)) >= start}

OfKind(kind, h) == kind = "ALL" \/ records[h].type = kind

UpTo(listed, count) == SubSeq(listed, 1, Min({count, Len(listed)}))

\* fetchAll counts each record, so it takes the next count of them.
FetchAll(start, count) == UpTo(InOrder(Rest(start)), count)

\* fetchData, fetchMeta and fetchIndex count the records of their type.
FetchTyped(kind, start, count) ==
  UpTo(InOrder({h \in Rest(start) : OfKind(kind, h)}), count)

Fetched(kind, start, count) ==
  IF kind = "ALL" THEN FetchAll(start, count) ELSE FetchTyped(kind, start, count)

\* countAll, and countData, countMeta, countIndex (which Store's CountExact
\* says count the records of their type).
Count(kind) == Cardinality({h \in DOMAIN records : OfKind(kind, h)})

-----------------------------------------------------------------------------
(* What add and remove do to the map and to a scan that is on.             *)

Scanning == scan.phase = "on"

AsManyAs(n) == Min({n, Cardinality(Hashes)})

StoreAdds(h, flags) ==
  /\ records' = [x \in DOMAIN records \cup {h} |-> IF x = h THEN flags ELSE records[x]]
  /\ added' = (added \/ Scanning)
  /\ UNCHANGED <<stayed, removed>>

StoreRemoves(h) ==
  /\ records' = Restrict(records, DOMAIN records \ {h})
  /\ stayed' = stayed \ {h}
  /\ removed' = IF Scanning THEN AsManyAs(removed + 1) ELSE removed
  /\ UNCHANGED added

\* The client.
Begin(kind, size) ==
  /\ scan.phase # "on"
  /\ scan' = [phase |-> "on", kind |-> kind, size |-> size, start |-> 0]
  /\ seen' = [h \in Hashes |-> 0]
  /\ stayed' = {h \in DOMAIN records : OfKind(kind, h)}
  /\ removed' = 0 /\ added' = FALSE
  /\ UNCHANGED records

Counted(page) ==
  [h \in Hashes |-> Min({Often, seen[h] + Cardinality({k \in DOMAIN page : page[k] = h})})]

\* The client is given a page, and goes on behind it.
Given(page) ==
  /\ seen' = Counted(page)
  /\ scan' = IF page = <<>> THEN [NoScan EXCEPT !.phase = "done", !.kind = scan.kind]
                            ELSE [scan EXCEPT !.start = AsManyAs(@ + Len(page))]
  /\ UNCHANGED <<records, ghosts>>

FetchPage ==
  /\ Scanning
  /\ Given(Fetched(scan.kind, scan.start, scan.size))
=============================================================================
