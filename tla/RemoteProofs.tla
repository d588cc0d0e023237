---------------------------- MODULE RemoteProofs ----------------------------
(***************************************************************************)
(* The bridge and the listings, for every number of hashes, every width of *)
(* the reference counts, all pages and every sequence of calls: what a     *)
(* client that pages through the store is given, while chunks come and go. *)
(* Its page begins at a number of hashes, and so the proof follows how     *)
(* many of the store's hashes come before each.                            *)
(***************************************************************************)
EXTENDS Remote, Lemmas

-----------------------------------------------------------------------------
(* A page of a listing.  What it lists of is what is left of the map       *)
(* without its first start records, of the wanted type, in order.          *)

Listed(kind, start) == {h \in Rest(start) : OfKind(kind, h)}

\* The page begins with the first of M and leaves none out.
IsPage(M, page) ==
  /\ page \in Seq(M) /\ Len(page) <= Cardinality(M)
  /\ Len(page) = 0 => M = {}
  /\ \A k \in 1 .. Len(page) : page[k] \in M /\ Rank(M, page[k]) = k - 1

Unseen == {h \in stayed : seen[h] = 0}

\* The hashes the scan has gone past without giving them.
Missed == {h \in Unseen : Rank(DOMAIN records, h) < scan.start}

ScanType == scan \in [phase : {"idle", "on", "done"}, kind : Kinds, size : Sizes \cup {0},
                      start : 0 .. Cardinality(Hashes)]

MissesInv ==
  /\ Scanning => scan.size \in Sizes /\ \A h \in stayed : OfKind(scan.kind, h)
  /\ Scanning => Cardinality(Missed) <= removed
  /\ scan.phase = "done" /\ via = "store" => Cardinality(Unseen) <= removed

OnceInv ==
  scan.kind = "ALL" /\ ~added =>
    /\ scan.phase \in {"on", "done"} => \A h \in Hashes : seen[h] <= 1
    /\ Scanning => \A h \in DOMAIN records : seen[h] > 0 => Rank(DOMAIN records, h) < scan.start

CountsInv ==
  Scanning /\ removed = 0 /\ ~added =>
    /\ stayed = {h \in DOMAIN records : OfKind(scan.kind, h)}
    /\ \A h \in Hashes : seen[h] > 0 => h \in stayed

-----------------------------------------------------------------------------
(* The facts about a page. *)

\* The map's order: the element of each place has as many before it.
LEMMA InOrderFacts ==
  ASSUME NEW S \in SUBSET Nat, IsFiniteSet(S)
  PROVE  /\ InOrder(S) \in Seq(S) /\ Len(InOrder(S)) = Cardinality(S)
         /\ \A k \in 1 .. Cardinality(S) :
              InOrder(S)[k] \in S /\ Rank(S, InOrder(S)[k]) = k - 1
<1>1. Cardinality(S) \in Nat
  BY FS_CardinalityType
<1>2. ASSUME NEW k \in 1 .. Cardinality(S)
      PROVE  InOrder(S)[k] \in S /\ Rank(S, InOrder(S)[k]) = k - 1
  <2>1. PICK r \in Nat : r = k - 1 /\ r < Cardinality(S)
    <3>1. k - 1 \in Nat /\ k - 1 < Cardinality(S)
      BY <1>1
    <3> QED
      BY <3>1
  <2>2. PICK h : h = InOrder(S)[k]
    OBVIOUS
  <2>3. h = CHOOSE x \in S : Cardinality({y \in S : y < x}) = r
    BY <2>1, <2>2 DEF InOrder, Before
  <2>4. h \in S /\ Rank(S, h) = r
    BY <2>1, <2>3, RankChosen
  <2> QED
    BY <2>1, <2>2, <2>4
<1>3. DOMAIN InOrder(S) = 1 .. Cardinality(S) /\ InOrder(S) = [k \in 1 .. Cardinality(S) |-> InOrder(S)[k]]
  BY DEF InOrder
<1>4. InOrder(S) \in [1 .. Cardinality(S) -> S]
  BY <1>2, <1>3
<1>5. InOrder(S) \in Seq(S)
  BY <1>1, <1>4, SeqDef
<1> QED
  BY <1>1, <1>2, <1>3, <1>5, LenProperties

LEMMA UpToPage ==
  ASSUME NEW M \in SUBSET Nat, IsFiniteSet(M), NEW count \in Nat \ {0}
  PROVE  IsPage(M, UpTo(InOrder(M), count))
<1>1. /\ InOrder(M) \in Seq(M) /\ Len(InOrder(M)) = Cardinality(M)
      /\ \A k \in 1 .. Cardinality(M) :
           InOrder(M)[k] \in M /\ Rank(M, InOrder(M)[k]) = k - 1
  BY InOrderFacts
<1>2. Cardinality(M) \in Nat
  BY FS_CardinalityType
<1>3. PICK m \in Nat : /\ m = Min({count, Len(InOrder(M))})
                       /\ m <= Cardinality(M) /\ (m = count \/ m = Cardinality(M))
  BY <1>1, <1>2, MinOfTwo
<1>4. m \in 0 .. Len(InOrder(M))
  BY <1>1, <1>3
<1>5. UpTo(InOrder(M), count) = SubSeq(InOrder(M), 1, m)
  BY <1>3 DEF UpTo
<1>6. /\ UpTo(InOrder(M), count) \in Seq(M)
      /\ Len(UpTo(InOrder(M), count)) = m
      /\ \A k \in 1 .. m : UpTo(InOrder(M), count)[k] = InOrder(M)[k]
  BY <1>1, <1>4, <1>5, PrefixFacts
<1>7. m = 0 => M = {}
  BY <1>2, <1>3, FS_EmptySet
<1>8. \A k \in 1 .. m : k \in 1 .. Cardinality(M)
  BY <1>2, <1>3
<1> QED
  BY <1>1, <1>3, <1>6, <1>7, <1>8 DEF IsPage

\* What is stored, and what is left to list of it.
LEMMA StoredFacts ==
  ASSUME TypeOK
  PROVE  /\ DOMAIN records \in SUBSET Nat /\ IsFiniteSet(DOMAIN records)
         /\ Cardinality(DOMAIN records) \in Nat /\ Cardinality(Hashes) \in Nat
         /\ Cardinality(DOMAIN records) <= Cardinality(Hashes)
BY FetchHashes, FS_Subset, FS_CardinalityType DEF TypeOK

LEMMA ListedFacts ==
  ASSUME TypeOK, NEW kind, NEW start \in Nat
  PROVE  /\ Rest(start) = Upper(DOMAIN records, start)
         /\ Listed(kind, start) \in SUBSET Rest(start)
         /\ Listed(kind, start) \in SUBSET Nat /\ IsFiniteSet(Listed(kind, start))
         /\ Listed("ALL", start) = Rest(start)
         /\ \A h \in DOMAIN records :
              Rank(DOMAIN records, h) >= start /\ OfKind(kind, h) => h \in Listed(kind, start)
<1>1. Rest(start) = Upper(DOMAIN records, start)
  BY DEF Rest, Before, Upper, Rank, Below
<1>2. Rest(start) \in SUBSET DOMAIN records
  BY <1>1 DEF Upper
<1>3. Listed(kind, start) \in SUBSET Rest(start) /\ Listed("ALL", start) = Rest(start)
  BY DEF Listed, OfKind
<1>4. Listed(kind, start) \in SUBSET DOMAIN records
  BY <1>2, <1>3
<1>5. IsFiniteSet(Listed(kind, start))
  BY <1>4, StoredFacts, FS_Subset
<1>6. ASSUME NEW h \in DOMAIN records, Rank(DOMAIN records, h) >= start, OfKind(kind, h)
      PROVE  h \in Listed(kind, start)
  BY <1>1, <1>6 DEF Listed, Upper
<1> QED
  BY <1>1, <1>3, <1>4, <1>5, <1>6, StoredFacts

\* The listings of all and of one type give such a page.
LEMMA FetchedPage ==
  ASSUME TypeOK, NEW kind \in Kinds, NEW start \in Nat, NEW count \in Nat \ {0}
  PROVE  IsPage(Listed(kind, start), Fetched(kind, start, count))
<1>1. CASE kind = "ALL"
  <2>1. Fetched(kind, start, count) = UpTo(InOrder(Listed(kind, start)), count)
    BY <1>1, ListedFacts DEF Fetched, FetchAll
  <2> QED
    BY <2>1, ListedFacts, UpToPage
<1>2. CASE kind # "ALL"
  <2>1. Fetched(kind, start, count) = UpTo(InOrder(Listed(kind, start)), count)
    BY <1>2 DEF Fetched, FetchTyped, Listed
  <2> QED
    BY <2>1, ListedFacts, UpToPage
<1> QED
  BY <1>1, <1>2

\* The scan goes on within the map, and a hash of the wanted type whose place
\* lies in what it goes over is on the page.
LEMMA PageFacts ==
  ASSUME TypeOK, NEW kind, NEW start \in Nat, NEW page, IsPage(Listed(kind, start), page),
         NEW m, m = Len(page)
  PROVE  /\ m \in Nat
         /\ m > 0 => start + m <= Cardinality(DOMAIN records)
         /\ \A h \in DOMAIN records :
              OfKind(kind, h) /\ Rank(DOMAIN records, h) >= start
                /\ Rank(DOMAIN records, h) < start + m
              => \E k \in 1 .. m : page[k] = h
         /\ m = 0 => \A h \in DOMAIN records :
                       OfKind(kind, h) => Rank(DOMAIN records, h) < start
<1> DEFINE D == DOMAIN records
           U == Upper(D, start)
           M == Listed(kind, start)
<1>1. /\ m \in Nat /\ m <= Cardinality(M) /\ (m = 0 => M = {})
      /\ \A k \in 1 .. m : page[k] \in M /\ Rank(M, page[k]) = k - 1
  BY LenProperties DEF IsPage
<1>2. D \in SUBSET Nat /\ IsFiniteSet(D) /\ Cardinality(D) \in Nat
  BY StoredFacts
<1>3. M \in SUBSET U /\ M \in SUBSET Nat /\ IsFiniteSet(M)
  BY ListedFacts
<1>4. \A h \in D : Rank(D, h) >= start /\ OfKind(kind, h) => h \in M
  BY ListedFacts
<1>5. \A h \in D : Rank(D, h) \in Nat
  BY <1>2, BelowFinite
<1>6. U \in SUBSET D /\ \A h \in U : Rank(D, h) >= start
  BY DEF Upper
<1> HIDE DEF D, U, M
<1>7. ASSUME M # {}
      PROVE  /\ start < Cardinality(D) /\ IsFiniteSet(U)
             /\ Cardinality(U) = Cardinality(D) - start
             /\ \A h \in U : Rank(U, h) = Rank(D, h) - start
  <2>1. PICK h \in M : TRUE
    BY <1>7
  <2>2. h \in D /\ Rank(D, h) >= start /\ Rank(D, h) \in Nat
    BY <1>3, <1>5, <1>6
  <2>3. Rank(D, h) < Cardinality(D)
    BY <1>2, <2>2, RankBound
  <2>4. start < Cardinality(D)
    BY <1>2, <2>2, <2>3
  <2> QED
    BY <1>2, <2>4, UpperRank DEF U
<1>8. ASSUME m > 0
      PROVE  start + m <= Cardinality(D)
  <2>1. M # {}
    BY <1>1, <1>8, FS_EmptySet
  <2>2. Cardinality(M) <= Cardinality(U) /\ Cardinality(M) \in Nat
    BY <1>3, <1>7, <2>1, FS_Subset, FS_CardinalityType
  <2> QED
    BY <1>1, <1>2, <1>7, <2>1, <2>2
<1>9. ASSUME NEW h \in D, OfKind(kind, h), Rank(D, h) >= start, Rank(D, h) < start + m
      PROVE  \E k \in 1 .. m : page[k] = h
  <2>1. h \in M
    BY <1>4, <1>9
  <2>2. Rank(M, h) \in Nat /\ Rank(M, h) <= Rank(U, h) /\ h \in U
    BY <1>3, <1>7, <2>1, RankPart
  <2>3. Rank(U, h) = Rank(D, h) - start
    BY <1>7, <2>1, <2>2
  <2>4. PICK k \in 1 .. m : k - 1 = Rank(M, h)
    <3>1. Rank(M, h) + 1 \in 1 .. m /\ (Rank(M, h) + 1) - 1 = Rank(M, h)
      BY <1>1, <1>5, <1>9, <2>2, <2>3
    <3> QED
      BY <3>1
  <2>5. page[k] \in M /\ Rank(M, page[k]) = Rank(M, h)
    BY <1>1, <2>4
  <2>6. page[k] = h
    BY <1>3, <2>1, <2>5, RankOrder
  <2> QED
    BY <2>6
<1>10. ASSUME m = 0, NEW h \in D, OfKind(kind, h)
       PROVE  Rank(D, h) < start
  BY <1>1, <1>4, <1>5, <1>10
<1> QED
  BY <1>1, <1>8, <1>9, <1>10 DEF D

-----------------------------------------------------------------------------
(* Every variable keeps its type. *)

MapType ==
  /\ DOMAIN records \subseteq Hashes
  /\ records \in [DOMAIN records -> [type : Types, refs : 0 .. REFS - 1]]
  /\ stayed \subseteq DOMAIN records /\ removed \in 0 .. Cardinality(Hashes) /\ added \in BOOLEAN

CallerType ==
  /\ DOMAIN picture \subseteq Mine /\ picture \in [DOMAIN picture -> -MaxRefs .. MaxRefs]

TypeInv ==
  /\ MapType /\ CallerType
  /\ ScanType /\ seen \in [Hashes -> Nat]
  /\ via \in {"store", "remote"} /\ alive \in BOOLEAN

LEMMA TypeInvTypeOK == TypeInv => TypeOK
<1>1. ScanType => /\ scan.phase \in {"idle", "on", "done"} /\ scan.kind \in Kinds
                  /\ scan.size \in Sizes \cup {0} /\ scan.start \in 0 .. Cardinality(Hashes)
  BY DEF ScanType
<1> QED
  BY <1>1 DEF TypeInv, MapType, CallerType, TypeOK

LEMMA InitType == Init => TypeInv
<1> SUFFICES ASSUME Init PROVE TypeInv
  OBVIOUS
<1>1. Cardinality(Hashes) \in Nat
  BY FetchHashes, FS_CardinalityType
<1>2. ScanType
  BY <1>1 DEF Init, FetchInit, NoScan, ScanType, Kinds
<1>3. MapType
  <2>1. DOMAIN records = {} /\ records = [x \in {} |-> x]
    BY DEF Init, FetchInit
  <2>2. records \in [DOMAIN records -> [type : Types, refs : 0 .. REFS - 1]]
    BY <2>1
  <2>3. stayed = {} /\ removed = 0 /\ added = FALSE
    BY DEF Init, FetchInit
  <2>4. removed \in 0 .. Cardinality(Hashes) /\ added \in BOOLEAN
    <3>1. 0 \in 0 .. Cardinality(Hashes)
      BY <1>1
    <3> QED
      BY <2>3, <3>1, Zenon
  <2>5. DOMAIN records \subseteq Hashes /\ stayed \subseteq DOMAIN records
    BY <2>1, <2>3
  <2> QED
    BY <2>2, <2>4, <2>5, Zenon DEF MapType
<1>4. CallerType
  BY DEF Init, CallerType
<1>5. seen \in [Hashes -> Nat]
  BY DEF Init, FetchInit
<1> QED
  BY <1>2, <1>3, <1>4, <1>5 DEF Init, TypeInv

\* A chunk that is given has a type and as many references as a record counts.
LEMMA FlagsType ==
  ASSUME NEW flags \in Flags
  PROVE  flags \in [type : Types, refs : 0 .. REFS - 1] /\ flags.refs \in -MaxRefs .. MaxRefs
<1>1. flags.type \in Types /\ flags.refs \in GivenRefs /\ flags = [type |-> flags.type, refs |-> flags.refs]
  BY DEF Flags
<1>2. flags.refs \in 0 .. REFS - 1 /\ flags.refs \in 0 .. MaxRefs
  BY <1>1, FetchRefs, MaxRefsAssumption
<1>3. flags.refs \in -MaxRefs .. MaxRefs
  BY <1>2, MaxRefsAssumption
<1> QED
  BY <1>1, <1>2, <1>3

LEMMA AsManyAsType ==
  ASSUME NEW k \in Nat
  PROVE  /\ Cardinality(Hashes) \in Nat
         /\ AsManyAs(k) \in 0 .. Cardinality(Hashes)
         /\ AsManyAs(k) = k \/ AsManyAs(k) = Cardinality(Hashes)
         /\ k <= Cardinality(Hashes) => AsManyAs(k) = k
<1>1. PICK c \in Nat : c = Cardinality(Hashes)
  BY FetchHashes, FS_CardinalityType
<1>2. PICK a : a = AsManyAs(k)
  OBVIOUS
<1>3. a = Min({k, c})
  BY <1>1, <1>2 DEF AsManyAs
<1>4. a \in Nat /\ a <= k /\ a <= c /\ (a = k \/ a = c)
  BY <1>3, MinOfTwo
<1>5. a \in 0 .. c /\ (k <= c => a = k)
  BY <1>4
<1> QED
  BY <1>1, <1>2, <1>4, <1>5

LEMMA AddsType ==
  ASSUME MapType, NEW h \in Hashes, NEW flags \in Flags, StoreAdds(h, flags)
  PROVE  MapType' /\ DOMAIN records' = DOMAIN records \cup {h}
         /\ \A g \in DOMAIN records \ {h} : records'[g] = records[g]
<1>1. records' = [x \in DOMAIN records \cup {h} |-> IF x = h THEN flags ELSE records[x]]
  BY DEF StoreAdds
<1>2. flags \in [type : Types, refs : 0 .. REFS - 1]
  BY FlagsType
<1>3. records' \in [DOMAIN records \cup {h} -> [type : Types, refs : 0 .. REFS - 1]]
  BY <1>1, <1>2 DEF MapType
<1>4. added' \in BOOLEAN
  BY DEF StoreAdds, Scanning, MapType
<1> QED
  BY <1>1, <1>3, <1>4 DEF StoreAdds, MapType

LEMMA RemovesType ==
  ASSUME MapType, NEW h, StoreRemoves(h)
  PROVE  MapType' /\ DOMAIN records' = DOMAIN records \ {h}
         /\ \A g \in DOMAIN records \ {h} : records'[g] = records[g]
<1>1. records' = [x \in DOMAIN records \ {h} |-> records[x]]
  BY DEF StoreRemoves, Restrict
<1>2. removed' \in 0 .. Cardinality(Hashes)
  <2>1. removed \in 0 .. Cardinality(Hashes) /\ Cardinality(Hashes) \in Nat
    BY FetchHashes, FS_CardinalityType DEF MapType
  <2>2. AsManyAs(removed + 1) \in 0 .. Cardinality(Hashes)
    BY <2>1, AsManyAsType
  <2> QED
    BY <2>1, <2>2 DEF StoreRemoves
<1>3. stayed' \subseteq DOMAIN records'
  BY <1>1 DEF StoreRemoves, MapType
<1> QED
  BY <1>1, <1>2, <1>3 DEF StoreRemoves, MapType

LEMMA UnchangedMapType ==
  ASSUME MapType, StoreUnchanged
  PROVE  MapType'
BY DEF MapType, StoreUnchanged, ghosts

\* A call about a hash of the caller, however it is reported.
LEMMA ReportedType ==
  ASSUME TypeInv, MapType', NEW how, NEW new,
         DOMAIN new \subseteq Mine, new \in [DOMAIN new -> -MaxRefs .. MaxRefs],
         Reported(how, new)
  PROVE  TypeInv'
<1>1. CallerType'
  <2>1. picture' = new \/ picture' = picture
    BY DEF Reported
  <2> QED
    BY <2>1 DEF TypeInv, CallerType
<1> QED
  BY <1>1 DEF Reported, TypeInv, ScanType

LEMMA KnowingType ==
  ASSUME CallerType, NEW h \in Mine, NEW refs \in -MaxRefs .. MaxRefs
  PROVE  /\ DOMAIN Knowing(h, refs) \subseteq Mine
         /\ Knowing(h, refs) \in [DOMAIN Knowing(h, refs) -> -MaxRefs .. MaxRefs]
BY DEF Knowing, CallerType

LEMMA RemoteAddType ==
  ASSUME TypeInv, NEW h \in Mine, NEW refs \in GivenRefs, NEW how \in Ends, RemoteAdd(h, refs, how)
  PROVE  TypeInv'
<1>1. StoreUnchanged /\ Reported(IF Passed(how) THEN "fails" ELSE how, Knowing(h, refs))
  BY DEF RemoteAdd
<1>2. refs \in -MaxRefs .. MaxRefs
  BY MaxRefsAssumption
<1>3. MapType'
  BY <1>1, UnchangedMapType DEF TypeInv
<1> QED
  BY <1>1, <1>2, <1>3, KnowingType, ReportedType DEF TypeInv

LEMMA RemoteRemoveType ==
  ASSUME TypeInv, NEW h \in Mine, NEW how \in Ends, RemoteRemove(h, how)
  PROVE  TypeInv'
<1> DEFINE new == Restrict(picture, DOMAIN picture \ {h})
<1>1. /\ StoreRemoves(h) \/ StoreUnchanged
      /\ Reported(how, new)
  BY DEF RemoteRemove
<1>2. DOMAIN new \subseteq Mine /\ new \in [DOMAIN new -> -MaxRefs .. MaxRefs]
  BY DEF TypeInv, CallerType, Restrict
<1> HIDE DEF new
<1>3. MapType'
  BY <1>1, RemovesType, UnchangedMapType DEF TypeInv
<1> QED
  BY <1>1, <1>2, <1>3, ReportedType

\* adjrefs changes the references of its chunk, within the width of the field.
LEMMA AdjustsType ==
  ASSUME MapType, NEW h, NEW d \in Deltas, Allowed(h, d),
         records' = [records EXCEPT ![h].refs = Adjusted(@, d)], UNCHANGED ghosts
  PROVE  /\ MapType' /\ DOMAIN records' = DOMAIN records
         /\ \A g \in DOMAIN records : records'[g].type = records[g].type
<1>1. h \in DOMAIN records
  BY DEF Allowed
<1>2. /\ records \in [DOMAIN records -> [type : Types, refs : 0 .. REFS - 1]]
      /\ records[h].refs \in 0 .. REFS - 1
  BY <1>1 DEF MapType
<1>3. d \in Int /\ REFS \in Nat /\ REFS > 0
  BY DeltasAssumption, FetchRefs
<1>4. PICK k \in Int : k = records[h].refs + d
  BY <1>2, <1>3
<1>5. k % REFS \in 0 .. REFS - 1
  BY <1>3
<1>6. PICK refs \in 0 .. REFS - 1 : refs = Adjusted(records[h].refs, d)
  BY <1>4, <1>5 DEF Adjusted
<1>7. records' = [records EXCEPT ![h].refs = refs]
  BY <1>6
<1>8. /\ DOMAIN records' = DOMAIN records
      /\ records' \in [DOMAIN records -> [type : Types, refs : 0 .. REFS - 1]]
      /\ \A g \in DOMAIN records : records'[g].type = records[g].type
  BY <1>1, <1>2, <1>7
<1> QED
  BY <1>8 DEF MapType, ghosts

LEMMA RemoteAdjrefsType ==
  ASSUME TypeInv, NEW h \in Mine, NEW d \in Deltas, NEW how \in Ends,
         RemoteAdjrefs(h, d, how)
  PROVE  TypeInv'
<1> DEFINE new == [x \in DOMAIN picture |-> IF x = h THEN picture[x] + d ELSE picture[x]]
<1>1. /\ h \in DOMAIN picture => picture[h] + d \in -MaxRefs .. MaxRefs
      /\ \/ Allowed(h, d) /\ records' = [records EXCEPT ![h].refs = Adjusted(@, d)]
         \/ records' = records
      /\ UNCHANGED ghosts
      /\ Reported(how, new)
  BY DEF RemoteAdjrefs
<1>2. DOMAIN new \subseteq Mine /\ new \in [DOMAIN new -> -MaxRefs .. MaxRefs]
  BY <1>1 DEF TypeInv, CallerType
<1> HIDE DEF new
<1>3. MapType'
  <2>1. CASE records' = records
    BY <1>1, <2>1 DEF TypeInv, MapType, ghosts
  <2> QED
    BY <1>1, <2>1, AdjustsType DEF TypeInv
<1> QED
  BY <1>1, <1>2, <1>3, ReportedType

LEMMA LocalAddType ==
  ASSUME TypeInv, NEW h \in Hashes, NEW flags \in Flags, LocalAdd(h, flags)
  PROVE  TypeInv'
<1>1. /\ StoreAdds(h, flags)
      /\ picture' = IF h \in Mine THEN Knowing(h, flags.refs) ELSE picture
      /\ UNCHANGED <<scan, seen, via, alive>>
  BY DEF LocalAdd
<1>2. MapType'
  BY <1>1, AddsType DEF TypeInv
<1>3. CallerType'
  <2>1. CASE h \in Mine
    <3>1. flags.refs \in -MaxRefs .. MaxRefs
      BY FlagsType
    <3>2. picture' = Knowing(h, flags.refs)
      BY <1>1, <2>1
    <3> QED
      BY <2>1, <3>1, <3>2, KnowingType DEF TypeInv, CallerType
  <2>2. CASE h \notin Mine
    BY <1>1, <2>2 DEF TypeInv, CallerType
  <2> QED
    BY <2>1, <2>2
<1> QED
  BY <1>1, <1>2, <1>3 DEF TypeInv, ScanType

LEMMA LocalRemoveType ==
  ASSUME TypeInv, NEW h \in Hashes, LocalRemove(h)
  PROVE  TypeInv'
<1>1. MapType'
  BY RemovesType DEF LocalRemove, TypeInv
<1>2. UNCHANGED <<scan, seen, picture, via, alive>>
  BY DEF LocalRemove
<1> QED
  BY <1>1, <1>2 DEF TypeInv, CallerType, ScanType

LEMMA BeginType ==
  ASSUME TypeInv, NEW kind \in Kinds, NEW size \in Sizes, NEW by \in {"store", "remote"},
         BeginScan(kind, size, by)
  PROVE  TypeInv'
<1>1. /\ scan' = [phase |-> "on", kind |-> kind, size |-> size, start |-> 0]
      /\ seen' = [h \in Hashes |-> 0]
      /\ stayed' = {h \in DOMAIN records : OfKind(kind, h)}
      /\ removed' = 0 /\ added' = FALSE /\ via' = by
      /\ UNCHANGED <<records, picture, alive>>
  BY DEF BeginScan, Begin
<1>2. 0 \in 0 .. Cardinality(Hashes)
  BY FetchHashes, FS_CardinalityType
<1>3. ScanType'
  BY <1>1, <1>2 DEF ScanType
<1>4. MapType'
  BY <1>1, <1>2 DEF TypeInv, MapType
<1>5. seen' \in [Hashes -> Nat]
  BY <1>1
<1> QED
  BY <1>1, <1>3, <1>4, <1>5 DEF TypeInv, CallerType

\* The client counts a hash that is on the page, and only such a hash.
LEMMA CountedFacts ==
  ASSUME seen \in [Hashes -> Nat], NEW page, NEW m \in Nat, DOMAIN page = 1 .. m, NEW h \in Hashes,
         NEW c, c = Counted(page)[h]
  PROVE  /\ c \in Nat
         /\ c = 0 <=> seen[h] = 0 /\ \A k \in 1 .. m : page[k] # h
         /\ (\A k \in 1 .. m : page[k] # h) => c <= seen[h]
         /\ seen[h] = 0 /\ (\A j, k \in 1 .. m : page[j] = h /\ page[k] = h => j = k) => c <= 1
<1> DEFINE K == {k \in DOMAIN page : page[k] = h}
<1>1. IsFiniteSet(K) /\ Cardinality(K) \in Nat
  <2>1. IsFiniteSet(1 .. m)
    BY FS_Interval
  <2>2. K \in SUBSET (1 .. m)
    OBVIOUS
  <2> QED
    BY <2>1, <2>2, FS_Subset, FS_CardinalityType
<1>2. Cardinality(K) = 0 <=> \A k \in 1 .. m : page[k] # h
  <2>1. Cardinality(K) = 0 <=> K = {}
    BY <1>1, FS_EmptySet
  <2>2. K = {} <=> \A k \in 1 .. m : page[k] # h
    OBVIOUS
  <2> QED
    BY <2>1, <2>2
<1>3. ASSUME \A j, k \in 1 .. m : page[j] = h /\ page[k] = h => j = k
      PROVE  Cardinality(K) <= 1
  <2>1. CASE K = {}
    <3>1. Cardinality(K) = 0
      BY <2>1, FS_EmptySet
    <3> QED
      BY <3>1
  <2>2. CASE K # {}
    <3>1. PICK k \in K : TRUE
      BY <2>2
    <3>2. K = {k}
      BY <1>3, <3>1
    <3>3. Cardinality(K) = 1
      BY <3>2, FS_Singleton
    <3> QED
      BY <3>3
  <2> QED
    BY <2>1, <2>2
<1>4. c = Min({Often, seen[h] + Cardinality(K)})
  BY DEF Counted
<1> HIDE DEF K
<1>5. PICK a \in Nat, b \in Nat : a = seen[h] /\ b = Cardinality(K)
  BY <1>1
<1>6. Often \in Nat /\ Often # 0
  BY FetchBound
<1>7. c \in Nat /\ c <= Often /\ c <= a + b /\ (c = Often \/ c = a + b)
  BY <1>4, <1>5, <1>6, MinOfTwo
<1>8. c = 0 <=> a = 0 /\ b = 0
  BY <1>6, <1>7
<1>9. b = 0 <=> \A k \in 1 .. m : page[k] # h
  BY <1>2, <1>5
<1>10. (\A j, k \in 1 .. m : page[j] = h /\ page[k] = h => j = k) => b <= 1
  BY <1>3, <1>5
<1>11. (b = 0 => c <= a) /\ (a = 0 /\ b <= 1 => c <= 1)
  BY <1>7
<1> QED
  BY <1>5, <1>7, <1>8, <1>9, <1>10, <1>11, Zenon

LEMMA GivenType ==
  ASSUME TypeInv, Scanning, NEW M, NEW page \in Seq(M), Given(page),
         Len(page) > 0 => scan.start + Len(page) <= Cardinality(Hashes)
  PROVE  /\ MapType' /\ ScanType' /\ seen' \in [Hashes -> Nat]
         /\ DOMAIN page = 1 .. Len(page) /\ Len(page) \in Nat
         /\ Len(page) = 0 => scan' = [phase |-> "done", kind |-> scan.kind, size |-> 0, start |-> 0]
         /\ Len(page) > 0 => scan' = [phase |-> "on", kind |-> scan.kind, size |-> scan.size,
                                      start |-> scan.start + Len(page)]
<1>1. /\ seen' = Counted(page)
      /\ scan' = IF page = <<>> THEN [NoScan EXCEPT !.phase = "done", !.kind = scan.kind]
                                ELSE [scan EXCEPT !.start = AsManyAs(@ + Len(page))]
      /\ UNCHANGED <<records, ghosts>>
  BY DEF Given
<1>2. DOMAIN page = 1 .. Len(page) /\ Len(page) \in Nat /\ (page = <<>> <=> Len(page) = 0)
  BY LenProperties, EmptySeq
<1>3. MapType'
  BY <1>1 DEF TypeInv, MapType, ghosts
<1>4. seen' \in [Hashes -> Nat]
  <2>1. \A h \in Hashes : Counted(page)[h] \in Nat
    BY <1>2, CountedFacts DEF TypeInv
  <2>2. Counted(page) = [h \in Hashes |-> Counted(page)[h]]
    BY DEF Counted
  <2> QED
    BY <1>1, <2>1, <2>2
<1>5. Cardinality(Hashes) \in Nat
  BY FetchHashes, FS_CardinalityType
<1>6. CASE Len(page) = 0
  <2>1. scan' = [phase |-> "done", kind |-> scan.kind, size |-> 0, start |-> 0]
    BY <1>1, <1>2, <1>6 DEF NoScan
  <2>2. ScanType'
    BY <1>5, <2>1 DEF TypeInv, ScanType
  <2> QED
    BY <1>2, <1>3, <1>4, <1>6, <2>1, <2>2
<1>7. CASE Len(page) > 0
  <2>1. scan' = [scan EXCEPT !.start = AsManyAs(@ + Len(page))]
    BY <1>1, <1>2, <1>7
  <2>2. /\ scan \in [phase : {"idle", "on", "done"}, kind : Kinds, size : Sizes \cup {0},
                     start : 0 .. Cardinality(Hashes)]
        /\ scan.phase = "on"
    BY DEF TypeInv, ScanType, Scanning
  <2>3. /\ scan.start + Len(page) \in 0 .. Cardinality(Hashes)
        /\ AsManyAs(scan.start + Len(page)) = scan.start + Len(page)
    <3>1. scan.start + Len(page) \in Nat /\ scan.start + Len(page) <= Cardinality(Hashes)
      BY <1>2, <1>5, <1>7, <2>2
    <3> QED
      BY <1>5, <3>1, AsManyAsType
  <2>4. scan' = [phase |-> "on", kind |-> scan.kind, size |-> scan.size,
                 start |-> scan.start + Len(page)]
    BY <2>1, <2>2, <2>3
  <2>5. ScanType'
    BY <2>2, <2>3, <2>4 DEF ScanType
  <2> QED
    BY <1>2, <1>3, <1>4, <1>7, <2>4, <2>5
<1> QED
  BY <1>2, <1>6, <1>7

-----------------------------------------------------------------------------
(* What each step does to a scan. *)

ScanInv == TypeInv /\ MissesInv /\ OnceInv /\ CountsInv

LEMMA MissedFacts ==
  ASSUME TypeInv
  PROVE  /\ DOMAIN records \in SUBSET Nat /\ IsFiniteSet(DOMAIN records)
         /\ stayed \in SUBSET DOMAIN records /\ Unseen \in SUBSET stayed
         /\ Missed \in SUBSET Unseen /\ IsFiniteSet(Unseen) /\ IsFiniteSet(Missed)
         /\ Cardinality(Unseen) \in Nat /\ Cardinality(Missed) \in Nat /\ removed \in Nat
         /\ \A h \in DOMAIN records : h \in Hashes /\ Rank(DOMAIN records, h) \in Nat
         /\ scan.start \in Nat
<1>1. DOMAIN records \in SUBSET Nat /\ IsFiniteSet(DOMAIN records)
  BY TypeInvTypeOK, StoredFacts
<1>2. stayed \in SUBSET DOMAIN records /\ Unseen \in SUBSET stayed /\ Missed \in SUBSET Unseen
  BY DEF TypeInv, MapType, Unseen, Missed
<1>3. IsFiniteSet(Unseen) /\ IsFiniteSet(Missed)
  BY <1>1, <1>2, FS_Subset
<1>4. removed \in Nat
  BY FetchHashes, FS_CardinalityType DEF TypeInv, MapType
<1>5. scan.start \in Nat
  BY FetchHashes, FS_CardinalityType DEF TypeInv, ScanType
<1>6. \A h \in DOMAIN records : h \in Hashes /\ Rank(DOMAIN records, h) \in Nat
  BY <1>1, BelowFinite DEF TypeInv, MapType
<1> QED
  BY <1>1, <1>2, <1>3, <1>4, <1>5, <1>6, FS_CardinalityType

\* An add puts hashes further back, so the scan has gone past no more of them.
LEMMA AddedScan ==
  ASSUME ScanInv, NEW h \in Hashes, h \notin DOMAIN records, NEW flags \in Flags,
         StoreAdds(h, flags), UNCHANGED <<scan, seen, via>>
  PROVE  MissesInv' /\ OnceInv' /\ CountsInv'
<1>1. /\ MapType' /\ DOMAIN records' = DOMAIN records \cup {h}
      /\ \A g \in DOMAIN records : records'[g] = records[g]
  BY AddsType DEF ScanInv, TypeInv
<1>2. stayed' = stayed /\ removed' = removed /\ added' = (added \/ Scanning)
  BY DEF StoreAdds
<1>3. /\ DOMAIN records \in SUBSET Nat /\ IsFiniteSet(DOMAIN records)
      /\ stayed \in SUBSET DOMAIN records /\ Unseen \in SUBSET stayed
      /\ IsFiniteSet(Missed) /\ Cardinality(Missed) \in Nat /\ removed \in Nat
      /\ \A g \in DOMAIN records : Rank(DOMAIN records, g) \in Nat
      /\ scan.start \in Nat
  BY MissedFacts DEF ScanInv
<1>4. IsFiniteSet(DOMAIN records')
  BY <1>1, <1>3, FS_AddElement
<1>5. ASSUME NEW g \in DOMAIN records
      PROVE  /\ Rank(DOMAIN records', g) \in Nat
             /\ Rank(DOMAIN records, g) <= Rank(DOMAIN records', g)
  <2>1. DOMAIN records \in SUBSET (DOMAIN records')
    BY <1>1
  <2> QED
    BY <1>4, <2>1, RankPart, BelowFinite
<1>6. Unseen' = Unseen
  BY <1>2 DEF Unseen
<1>7. Missed' \in SUBSET Missed
  <2>1. ASSUME NEW g \in Missed'
        PROVE  g \in Missed
    <3>1. g \in Unseen /\ Rank(DOMAIN records', g) < scan.start
      BY <1>6 DEF Missed
    <3>2. g \in DOMAIN records
      BY <1>3, <3>1
    <3>3. Rank(DOMAIN records, g) < scan.start
      BY <1>3, <1>5, <3>1, <3>2
    <3> QED
      BY <3>1, <3>3 DEF Missed
  <2> QED
    BY <2>1
<1>8. Cardinality(Missed') <= Cardinality(Missed) /\ Cardinality(Missed') \in Nat
  BY <1>3, <1>7, FS_Subset, FS_CardinalityType
<1>9. MissesInv'
  <2>1. Scanning => \A g \in stayed' : OfKind(scan.kind, g)'
    BY <1>1, <1>2, <1>3 DEF ScanInv, MissesInv, OfKind
  <2>2. Scanning => Cardinality(Missed') <= removed
    BY <1>3, <1>8 DEF ScanInv, MissesInv
  <2> QED
    BY <1>2, <1>6, <2>1, <2>2 DEF ScanInv, MissesInv, Scanning
<1>10. OnceInv'
  BY <1>2 DEF ScanInv, OnceInv, Scanning
<1>11. CountsInv'
  BY <1>2 DEF CountsInv, Scanning
<1> QED
  BY <1>9, <1>10, <1>11

\* A remove brings at most one hash, the next one, to where the scan has been.
LEMMA RemovedScan ==
  ASSUME ScanInv, NEW h \in Hashes, StoreRemoves(h), UNCHANGED <<scan, seen, via>>
  PROVE  MissesInv' /\ OnceInv' /\ CountsInv'
<1>1. /\ MapType' /\ DOMAIN records' = DOMAIN records \ {h}
      /\ \A g \in DOMAIN records \ {h} : records'[g] = records[g]
  BY RemovesType DEF ScanInv, TypeInv
<1>2. /\ stayed' = stayed \ {h} /\ added' = added
      /\ Scanning => removed' = AsManyAs(removed + 1)
      /\ ~ Scanning => removed' = removed
  BY DEF StoreRemoves
<1>3. /\ DOMAIN records \in SUBSET Nat /\ IsFiniteSet(DOMAIN records)
      /\ stayed \in SUBSET DOMAIN records /\ Unseen \in SUBSET stayed
      /\ IsFiniteSet(Missed) /\ Cardinality(Missed) \in Nat /\ removed \in Nat
      /\ IsFiniteSet(Unseen) /\ Cardinality(Unseen) \in Nat
      /\ \A g \in DOMAIN records : Rank(DOMAIN records, g) \in Nat
      /\ scan.start \in Nat
  BY MissedFacts DEF ScanInv
<1>4. \A g : /\ Rank(DOMAIN records', g) \in Nat /\ Rank(DOMAIN records, g) \in Nat
             /\ \/ Rank(DOMAIN records', g) = Rank(DOMAIN records, g)
                \/ Rank(DOMAIN records', g) + 1 = Rank(DOMAIN records, g)
  <2> TAKE g
  <2>1. /\ \/ Rank(DOMAIN records \ {h}, g) = Rank(DOMAIN records, g)
           \/ Rank(DOMAIN records \ {h}, g) + 1 = Rank(DOMAIN records, g)
        /\ Rank(DOMAIN records, g) \in Nat /\ Rank(DOMAIN records \ {h}, g) \in Nat
    BY <1>3, RankRemoved
  <2> QED
    BY <1>1, <2>1
<1>5. Unseen' \in SUBSET Unseen
  BY <1>2 DEF Unseen
<1>6. PICK next : \A g \in DOMAIN records : Rank(DOMAIN records, g) = scan.start => g = next
  <2>1. CASE \E x \in DOMAIN records : Rank(DOMAIN records, x) = scan.start
    <3>1. PICK x \in DOMAIN records : Rank(DOMAIN records, x) = scan.start
      BY <2>1
    <3>2. \A g \in DOMAIN records : Rank(DOMAIN records, g) = scan.start => g = x
      BY <1>3, <3>1, RankOrder
    <3> QED
      BY <3>2
  <2>2. CASE ~ \E x \in DOMAIN records : Rank(DOMAIN records, x) = scan.start
    BY <2>2
  <2> QED
    BY <2>1, <2>2
<1>7. Missed' \in SUBSET (Missed \cup {next})
  <2>1. ASSUME NEW g \in Missed', g # next
        PROVE  g \in Missed
    <3>1. g \in Unseen /\ Rank(DOMAIN records', g) < scan.start
      BY <1>5 DEF Missed
    <3>2. g \in DOMAIN records /\ Rank(DOMAIN records, g) # scan.start
      BY <1>3, <1>6, <2>1, <3>1
    <3>3. Rank(DOMAIN records, g) < scan.start
      BY <1>3, <1>4, <3>1, <3>2
    <3> QED
      BY <3>1, <3>3 DEF Missed
  <2> QED
    BY <2>1
<1>8. Cardinality(Missed') <= Cardinality(Missed) + 1 /\ Cardinality(Missed') \in Nat
  <2>1. /\ IsFiniteSet(Missed \cup {next}) /\ Cardinality(Missed \cup {next}) \in Nat
        /\ Cardinality(Missed \cup {next}) <= Cardinality(Missed) + 1
    BY <1>3, FS_AddElement
  <2>2. /\ Cardinality(Missed') <= Cardinality(Missed \cup {next})
        /\ Cardinality(Missed') \in Nat
    BY <1>7, <2>1, FS_Subset, FS_CardinalityType
  <2> QED
    BY <1>3, <2>1, <2>2
<1>9. /\ Cardinality(Missed') <= Cardinality(Hashes)
      /\ Scanning => /\ removed' \in Nat /\ removed' # 0
                     /\ removed' = removed + 1 \/ removed' = Cardinality(Hashes)
  <2>1. IsFiniteSet(Hashes) /\ Cardinality(Hashes) \in Nat /\ Cardinality(Hashes) # 0
    BY FetchHashes, FS_CardinalityType, FS_EmptySet
  <2>2. Missed' \in SUBSET Hashes
    <3>1. \A g \in Missed' : g \in Unseen
      BY <1>5 DEF Missed
    <3>2. \A g \in Unseen : g \in DOMAIN records
      BY <1>3
    <3>3. \A g \in DOMAIN records : g \in Hashes
      BY MissedFacts DEF ScanInv
    <3> QED
      BY <3>1, <3>2, <3>3
  <2>3. Cardinality(Missed') <= Cardinality(Hashes)
    BY <2>1, <2>2, FS_Subset
  <2>4. removed + 1 \in Nat /\ removed + 1 # 0
    BY <1>3
  <2>5. /\ AsManyAs(removed + 1) \in 0 .. Cardinality(Hashes)
        /\ AsManyAs(removed + 1) = removed + 1 \/ AsManyAs(removed + 1) = Cardinality(Hashes)
    BY <2>4, AsManyAsType
  <2>6. Scanning => /\ removed' \in 0 .. Cardinality(Hashes)
                    /\ removed' = removed + 1 \/ removed' = Cardinality(Hashes)
    BY <1>2, <2>5, Zenon
  <2> QED
    BY <2>1, <2>3, <2>4, <2>6
<1>10. Cardinality(Unseen') <= Cardinality(Unseen)
  BY <1>3, <1>5, FS_Subset
<1>11. MissesInv'
  <2>1. Scanning => \A g \in stayed' : OfKind(scan.kind, g)'
    BY <1>1, <1>2, <1>3 DEF ScanInv, MissesInv, OfKind
  <2>2. Scanning => Cardinality(Missed') <= removed'
    BY <1>2, <1>3, <1>8, <1>9 DEF ScanInv, MissesInv
  <2>3. scan.phase = "done" /\ via = "store" => Cardinality(Unseen') <= removed'
    <3> SUFFICES ASSUME scan.phase = "done", via = "store"
                 PROVE  Cardinality(Unseen') <= removed'
      OBVIOUS
    <3>1. removed' = removed /\ Cardinality(Unseen) <= removed
      BY <1>2 DEF ScanInv, MissesInv, Scanning
    <3>2. Cardinality(Unseen') \in Nat
      BY <1>3, <1>5, FS_Subset, FS_CardinalityType
    <3> QED
      BY <1>3, <1>10, <3>1, <3>2
  <2> QED
    BY <2>1, <2>2, <2>3 DEF ScanInv, MissesInv, Scanning
<1>12. OnceInv'
  <2> SUFFICES ASSUME scan.kind = "ALL", ~ added
               PROVE  /\ scan.phase \in {"on", "done"} => \A g \in Hashes : seen[g] <= 1
                      /\ Scanning => \A g \in DOMAIN records' :
                           seen[g] > 0 => Rank(DOMAIN records', g) < scan.start
    BY <1>2 DEF OnceInv, Scanning
  <2>1. /\ scan.phase \in {"on", "done"} => \A g \in Hashes : seen[g] <= 1
        /\ Scanning => \A g \in DOMAIN records :
             seen[g] > 0 => Rank(DOMAIN records, g) < scan.start
    BY DEF ScanInv, OnceInv
  <2>2. ASSUME Scanning, NEW g \in DOMAIN records', seen[g] > 0
        PROVE  Rank(DOMAIN records', g) < scan.start
    <3>1. Rank(DOMAIN records, g) < scan.start
      BY <1>1, <2>1, <2>2
    <3> QED
      BY <1>3, <1>4, <3>1
  <2> QED
    BY <2>1, <2>2
<1>13. CountsInv'
  <2>1. Scanning => removed' # 0
    BY <1>9
  <2> QED
    BY <2>1 DEF CountsInv, Scanning
<1> QED
  BY <1>11, <1>12, <1>13

\* A step that leaves the hashes and their types leaves the scan.
LEMMA UnchangedScan ==
  ASSUME ScanInv, DOMAIN records' = DOMAIN records,
         \A g \in DOMAIN records : records'[g].type = records[g].type,
         UNCHANGED <<scan, seen, via, ghosts>>
  PROVE  MissesInv' /\ OnceInv' /\ CountsInv'
<1>1. stayed' = stayed /\ removed' = removed /\ added' = added
  BY DEF ghosts
<1>2. \A g \in DOMAIN records : OfKind(scan.kind, g)' <=> OfKind(scan.kind, g)
  BY DEF OfKind
<1>3. stayed \in SUBSET DOMAIN records
  BY MissedFacts DEF ScanInv
<1>4. Unseen' = Unseen /\ Missed' = Missed
  BY <1>1 DEF Unseen, Missed
<1>5. MissesInv'
  BY <1>1, <1>2, <1>3, <1>4 DEF ScanInv, MissesInv, Scanning
<1>6. OnceInv'
  BY <1>1 DEF ScanInv, OnceInv, Scanning
<1>7. CountsInv'
  BY <1>1, <1>2, Zenon DEF ScanInv, CountsInv, Scanning
<1> QED
  BY <1>5, <1>6, <1>7

LEMMA BeginsScan ==
  ASSUME ScanInv, NEW kind \in Kinds, NEW size \in Sizes, Begin(kind, size)
  PROVE  MissesInv' /\ OnceInv' /\ CountsInv'
<1>1. /\ scan' = [phase |-> "on", kind |-> kind, size |-> size, start |-> 0]
      /\ seen' = [h \in Hashes |-> 0]
      /\ stayed' = {h \in DOMAIN records : OfKind(kind, h)}
      /\ removed' = 0 /\ added' = FALSE /\ records' = records
  BY DEF Begin
<1>2. /\ scan'.phase = "on" /\ scan'.kind = kind /\ scan'.size = size /\ scan'.start = 0
      /\ \A h \in Hashes : seen'[h] = 0
  BY <1>1
<1>3. \A h \in DOMAIN records : h \in Hashes /\ Rank(DOMAIN records, h) \in Nat
  BY MissedFacts DEF ScanInv
<1>4. Missed' = {}
  <2>1. ASSUME NEW h \in Missed' PROVE FALSE
    <3>1. h \in DOMAIN records /\ Rank(DOMAIN records, h) < 0
      BY <1>1, <1>2, <2>1 DEF Missed, Unseen
    <3> QED
      BY <1>3, <3>1
  <2> QED
    BY <2>1
<1>5. \A h : OfKind(kind, h)' <=> OfKind(kind, h)
  BY <1>1 DEF OfKind
<1>6. MissesInv'
  <2>1. Cardinality(Missed') = 0
    BY <1>4, FS_EmptySet
  <2>2. \A h \in stayed' : OfKind(kind, h)
    BY <1>1
  <2> QED
    BY <1>1, <1>2, <1>5, <2>1, <2>2 DEF MissesInv, Scanning
<1>7. OnceInv'
  BY <1>1, <1>2, <1>3 DEF OnceInv, Scanning
<1>8. CountsInv'
  <2>1. stayed' = {h \in DOMAIN records' : OfKind(scan.kind, h)'}
    BY <1>1, <1>2, <1>5
  <2>2. \A h \in Hashes : ~ (seen'[h] > 0)
    BY <1>2
  <2> QED
    BY <2>1, <2>2 DEF CountsInv
<1> QED
  BY <1>6, <1>7, <1>8

\* The client is given a page of the store's listing.
LEMMA PagedScan ==
  ASSUME ScanInv, Scanning, NEW page, IsPage(Listed(scan.kind, scan.start), page),
         Given(page), via' = via
  PROVE  /\ MapType' /\ ScanType' /\ seen' \in [Hashes -> Nat]
         /\ MissesInv' /\ OnceInv' /\ CountsInv'
         /\ Len(page) = 0 => Unseen \in SUBSET Missed
         /\ Len(page) > 0 => scan'.phase = "on"
<1> DEFINE D == DOMAIN records
<1>1. PICK m \in Nat : m = Len(page)
  BY LenProperties DEF IsPage
<1>2. TypeInv /\ TypeOK /\ scan.start \in Nat
  BY TypeInvTypeOK, MissedFacts DEF ScanInv
<1>3. /\ m > 0 => scan.start + m <= Cardinality(D)
      /\ \A h \in D :
           OfKind(scan.kind, h) /\ Rank(D, h) >= scan.start /\ Rank(D, h) < scan.start + m
           => \E k \in 1 .. m : page[k] = h
      /\ m = 0 => \A h \in D : OfKind(scan.kind, h) => Rank(D, h) < scan.start
  BY <1>1, <1>2, PageFacts
<1>4. /\ page \in Seq(Listed(scan.kind, scan.start))
      /\ \A k \in 1 .. m : /\ page[k] \in Listed(scan.kind, scan.start)
                           /\ Rank(Listed(scan.kind, scan.start), page[k]) = k - 1
  BY <1>1 DEF IsPage
<1>5. m > 0 => scan.start + m <= Cardinality(Hashes)
  <2>1. /\ Cardinality(D) \in Nat /\ Cardinality(Hashes) \in Nat
        /\ Cardinality(D) <= Cardinality(Hashes)
    BY <1>2, StoredFacts
  <2> QED
    BY <1>2, <1>3, <2>1
<1>6. /\ MapType' /\ ScanType' /\ seen' \in [Hashes -> Nat]
      /\ DOMAIN page = 1 .. m
      /\ m = 0 => scan' = [phase |-> "done", kind |-> scan.kind, size |-> 0, start |-> 0]
      /\ m > 0 => scan' = [phase |-> "on", kind |-> scan.kind, size |-> scan.size,
                           start |-> scan.start + m]
  BY <1>1, <1>2, <1>4, <1>5, GivenType
<1>7. /\ seen' = Counted(page) /\ records' = records
      /\ stayed' = stayed /\ removed' = removed /\ added' = added
  BY DEF Given, ghosts
<1>8. /\ D \in SUBSET Nat /\ IsFiniteSet(D)
      /\ stayed \in SUBSET D /\ Unseen \in SUBSET stayed
      /\ IsFiniteSet(Missed) /\ Cardinality(Missed) \in Nat /\ removed \in Nat
      /\ IsFiniteSet(Unseen) /\ Cardinality(Unseen) \in Nat
      /\ \A h \in D : h \in Hashes /\ Rank(D, h) \in Nat
  BY MissedFacts DEF ScanInv
<1>9. \A h \in stayed : OfKind(scan.kind, h)
  BY DEF ScanInv, MissesInv
<1>10. ASSUME NEW h \in Hashes
       PROVE  /\ seen[h] \in Nat /\ seen'[h] \in Nat
              /\ seen'[h] = 0 <=> seen[h] = 0 /\ \A k \in 1 .. m : page[k] # h
              /\ (\A k \in 1 .. m : page[k] # h) => seen'[h] <= seen[h]
              /\ seen[h] = 0 /\ (\A j, k \in 1 .. m : page[j] = h /\ page[k] = h => j = k)
                   => seen'[h] <= 1
  BY <1>2, <1>6, <1>7, <1>10, CountedFacts DEF TypeInv
<1>11. \A j, k \in 1 .. m : page[j] = page[k] => j = k
  <2> TAKE j, k \in 1 .. m
  <2> HAVE page[j] = page[k]
  <2>1. j - 1 = k - 1
    BY <1>4
  <2> QED
    BY <2>1
<1>12. \A k \in 1 .. m : page[k] \in D /\ OfKind(scan.kind, page[k]) /\ Rank(D, page[k]) >= scan.start
  BY <1>4 DEF Listed, Rest, Before, Rank, Below
<1> HIDE DEF D
<1>13. ASSUME NEW h \in Unseen'
       PROVE  h \in Unseen /\ h \in D /\ (\A k \in 1 .. m : page[k] # h)
  <2>1. h \in stayed /\ seen'[h] = 0
    BY <1>7 DEF Unseen
  <2>2. h \in D /\ h \in Hashes
    BY <1>8, <2>1
  <2>3. seen[h] = 0 /\ \A k \in 1 .. m : page[k] # h
    BY <1>10, <2>1, <2>2
  <2> QED
    BY <2>1, <2>2, <2>3 DEF Unseen
<1>14. ASSUME m = 0
       PROVE  Unseen \in SUBSET Missed
  BY <1>3, <1>8, <1>9, <1>14 DEF Missed, D
<1>15. ASSUME m > 0
       PROVE  Missed' \in SUBSET Missed
  <2>1. ASSUME NEW h \in Missed' PROVE h \in Missed
    <3>1. h \in Unseen' /\ Rank(D, h) < scan.start + m
      BY <1>6, <1>7, <1>15 DEF Missed, D
    <3>2. h \in Unseen /\ h \in D /\ (\A k \in 1 .. m : page[k] # h)
      BY <1>13, <3>1
    <3>3. OfKind(scan.kind, h) /\ Rank(D, h) \in Nat
      BY <1>8, <1>9, <3>2
    <3>4. ~ (Rank(D, h) >= scan.start)
      BY <1>3, <3>1, <3>2, <3>3
    <3>5. Rank(D, h) < scan.start
      BY <1>2, <3>3, <3>4
    <3> QED
      BY <3>2, <3>5 DEF Missed, D
  <2> QED
    BY <2>1
<1>16. Cardinality(Missed) <= removed
  BY DEF ScanInv, MissesInv
<1>17. MissesInv'
  <2>1. CASE m = 0
    <3>1. scan'.phase = "done"
      BY <1>6, <2>1
    <3>2. Unseen' \in SUBSET Missed
      BY <1>13, <1>14, <2>1
    <3>3. Cardinality(Unseen') <= Cardinality(Missed) /\ Cardinality(Unseen') \in Nat
      BY <1>8, <3>2, FS_Subset, FS_CardinalityType
    <3>4. Cardinality(Unseen') <= removed'
      BY <1>7, <1>8, <1>16, <3>3
    <3> QED
      BY <3>1, <3>4 DEF MissesInv, Scanning
  <2>2. CASE m > 0
    <3>1. scan'.phase = "on" /\ scan'.kind = scan.kind /\ scan'.size = scan.size
      BY <1>6, <2>2
    <3>2. Cardinality(Missed') <= Cardinality(Missed) /\ Cardinality(Missed') \in Nat
      BY <1>8, <1>15, <2>2, FS_Subset, FS_CardinalityType
    <3>3. Cardinality(Missed') <= removed'
      BY <1>7, <1>8, <1>16, <3>2
    <3>4. \A h \in stayed' : OfKind(scan.kind, h)'
      BY <1>7, <1>9, <3>1 DEF OfKind
    <3>5. scan'.size \in Sizes
      BY <3>1 DEF ScanInv, MissesInv
    <3> QED
      BY <3>1, <3>3, <3>4, <3>5 DEF MissesInv, Scanning
  <2> QED
    BY <2>1, <2>2
<1>18. scan'.kind = scan.kind /\ (Scanning' => m > 0)
  BY <1>6 DEF Scanning
<1>19. OnceInv'
  <2> SUFFICES ASSUME scan.kind = "ALL", ~ added
               PROVE  /\ \A h \in Hashes : seen'[h] <= 1
                      /\ m > 0 => \A h \in D : seen'[h] > 0 => Rank(D, h) < scan.start + m
    BY <1>6, <1>7, <1>18 DEF OnceInv, Scanning, D
  <2>1. /\ \A h \in Hashes : seen[h] <= 1
        /\ \A h \in D : seen[h] > 0 => Rank(D, h) < scan.start
    BY DEF ScanInv, OnceInv, Scanning, D
  <2>2. ASSUME NEW h \in Hashes PROVE seen'[h] <= 1
    <3>1. CASE \E k \in 1 .. m : page[k] = h
      <4>1. h \in D /\ Rank(D, h) >= scan.start /\ Rank(D, h) \in Nat
        BY <1>8, <1>12, <3>1
      <4>2. ~ (seen[h] > 0)
        BY <1>2, <2>1, <4>1
      <4>3. seen[h] = 0
        BY <1>10, <4>2
      <4>4. \A j, k \in 1 .. m : page[j] = h /\ page[k] = h => j = k
        BY <1>11
      <4> QED
        BY <1>10, <4>3, <4>4
    <3>2. CASE \A k \in 1 .. m : page[k] # h
      BY <1>10, <2>1, <3>2
    <3> QED
      BY <3>1, <3>2
  <2>3. ASSUME m > 0, NEW h \in D, seen'[h] > 0
        PROVE  Rank(D, h) < scan.start + m
    <3>1. h \in Hashes /\ Rank(D, h) \in Nat /\ seen[h] \in Nat /\ seen'[h] # 0
      BY <1>8, <1>10, <2>3
    <3>2. CASE seen[h] > 0
      BY <1>2, <2>1, <3>1, <3>2
    <3>3. CASE seen[h] = 0
      <4>1. PICK k \in 1 .. m : page[k] = h
        BY <1>10, <3>1, <3>3
      <4>2. OfKind(scan.kind, h) /\ Rank(Listed(scan.kind, scan.start), h) = k - 1
        BY <1>4, <1>12, <4>1
      <4>3. Rank(D, h) = scan.start + (k - 1)
        <5>1. Listed(scan.kind, scan.start) = Upper(D, scan.start)
          BY <1>2, ListedFacts DEF D
        <5>2. scan.start < Cardinality(D)
          BY <1>2, <1>3, <1>8, <2>3, FS_CardinalityType
        <5>3. \A g \in Upper(D, scan.start) :
                 Rank(Upper(D, scan.start), g) = Rank(D, g) - scan.start
          BY <1>2, <1>8, <5>2, UpperRank
        <5>4. Rank(Upper(D, scan.start), h) = Rank(D, h) - scan.start
          BY <1>4, <4>1, <5>1, <5>3
        <5>5. k - 1 = Rank(D, h) - scan.start
          BY <4>2, <5>1, <5>4
        <5> QED
          BY <1>2, <3>1, <5>5
      <4> QED
        BY <1>2, <4>3
    <3> QED
      BY <3>1, <3>2, <3>3
  <2> QED
    BY <2>2, <2>3
<1>20. CountsInv'
  <2> SUFFICES ASSUME removed = 0, ~ added
               PROVE  /\ stayed = {h \in D : OfKind(scan.kind, h)'}
                      /\ \A h \in Hashes : seen'[h] > 0 => h \in stayed
    BY <1>7, <1>18 DEF CountsInv, D
  <2>1. /\ stayed = {h \in D : OfKind(scan.kind, h)}
        /\ \A h \in Hashes : seen[h] > 0 => h \in stayed
    BY DEF ScanInv, CountsInv, D
  <2>2. \A h : OfKind(scan.kind, h)' <=> OfKind(scan.kind, h)
    BY <1>7, <1>18 DEF OfKind
  <2>3. ASSUME NEW h \in Hashes, seen'[h] > 0
        PROVE  h \in stayed
    <3>1. CASE \E k \in 1 .. m : page[k] = h
      BY <1>12, <2>1, <3>1
    <3>2. CASE \A k \in 1 .. m : page[k] # h
      <4>1. seen[h] > 0
        BY <1>10, <2>3, <3>2
      <4> QED
        BY <2>1, <4>1
    <3> QED
      BY <3>1, <3>2
  <2> QED
    BY <2>1, <2>2, <2>3
<1> QED
  BY <1>1, <1>6, <1>14, <1>17, <1>19, <1>20

\* The client is given nothing by the bridge.
LEMMA EmptyScan ==
  ASSUME ScanInv, Scanning, Given(<<>>), via = "remote", via' = via
  PROVE  /\ MapType' /\ ScanType' /\ seen' \in [Hashes -> Nat]
         /\ MissesInv' /\ OnceInv' /\ CountsInv'
<1>1. <<>> \in Seq({}) /\ Len(<<>>) = 0
  OBVIOUS
<1>2. /\ MapType' /\ ScanType' /\ seen' \in [Hashes -> Nat]
      /\ scan' = [phase |-> "done", kind |-> scan.kind, size |-> 0, start |-> 0]
  <2>1. PICK page \in Seq({}) : page = <<>> /\ Len(page) = 0
    BY <1>1
  <2>2. Given(page) /\ TypeInv /\ ~ (Len(page) > 0)
    BY <2>1 DEF ScanInv
  <2> QED
    BY <2>1, <2>2, GivenType
<1>3. /\ seen' = Counted(<<>>) /\ records' = records
      /\ stayed' = stayed /\ removed' = removed /\ added' = added
  BY DEF Given, ghosts
<1>4. ASSUME NEW h \in Hashes
      PROVE  seen[h] \in Nat /\ seen'[h] \in Nat /\ seen'[h] <= seen[h]
  <2>1. 0 \in Nat /\ DOMAIN <<>> = 1 .. 0 /\ \A k \in 1 .. 0 : <<>>[k] # h
    OBVIOUS
  <2> QED
    BY <1>3, <2>1, CountedFacts DEF ScanInv, TypeInv
<1>5. scan'.phase = "done" /\ scan'.kind = scan.kind
  BY <1>2
<1>6. MissesInv' /\ CountsInv'
  BY <1>5 DEF MissesInv, CountsInv, Scanning
<1>7. OnceInv'
  <2> SUFFICES ASSUME scan.kind = "ALL", ~ added, NEW h \in Hashes
               PROVE  seen'[h] <= 1
    BY <1>3, <1>5 DEF OnceInv, Scanning
  <2>1. seen[h] <= 1
    BY DEF ScanInv, OnceInv, Scanning
  <2> QED
    BY <1>4, <2>1
<1> QED
  BY <1>2, <1>6, <1>7

\* The step of a scan of the store.
LEMMA StorePageScan ==
  ASSUME ScanInv, StorePage
  PROVE  /\ TypeInv' /\ MissesInv' /\ OnceInv' /\ CountsInv'
         /\ scan'.phase = "done" => Unseen \in SUBSET Missed
<1> DEFINE page == Fetched(scan.kind, scan.start, scan.size)
<1>1. Scanning /\ Given(page) /\ UNCHANGED <<picture, via, alive>>
  BY DEF StorePage, FetchPage
<1>2. scan.size \in Nat \ {0} /\ scan.kind \in Kinds /\ scan.start \in Nat /\ TypeOK
  <2>1. scan.size \in Sizes
    BY <1>1 DEF ScanInv, MissesInv
  <2>2. scan.kind \in Kinds /\ TypeOK
    BY TypeInvTypeOK DEF ScanInv, TypeOK
  <2> QED
    BY <2>1, <2>2, FetchSizes, MissedFacts DEF ScanInv
<1>3. IsPage(Listed(scan.kind, scan.start), page)
  BY <1>2, FetchedPage
<1>4. Len(page) \in Nat
  BY <1>3, LenProperties DEF IsPage
<1> HIDE DEF page
<1>5. /\ MapType' /\ ScanType' /\ seen' \in [Hashes -> Nat]
      /\ MissesInv' /\ OnceInv' /\ CountsInv'
      /\ Len(page) = 0 => Unseen \in SUBSET Missed
      /\ Len(page) > 0 => scan'.phase = "on"
  BY <1>1, <1>3, PagedScan
<1>6. TypeInv'
  BY <1>1, <1>5 DEF ScanInv, TypeInv, CallerType
<1> QED
  BY <1>4, <1>5, <1>6

\* A call of the caller that was done, or was not.
LEMMA CallScan ==
  ASSUME ScanInv, NEW h \in Mine, NEW how \in Ends,
         \/ \E refs \in GivenRefs : RemoteAdd(h, refs, how)
         \/ RemoteRemove(h, how)
         \/ \E d \in Deltas : RemoteAdjrefs(h, d, how)
  PROVE  ScanInv'
<1>1. UNCHANGED <<scan, seen, via>>
  BY DEF RemoteAdd, RemoteRemove, RemoteAdjrefs, Reported
<1>2. h \in Hashes
  BY MineAssumption
<1>3. ASSUME StoreUnchanged
      PROVE  MissesInv' /\ OnceInv' /\ CountsInv'
  BY <1>1, <1>3, UnchangedScan DEF StoreUnchanged
<1>4. CASE \E refs \in GivenRefs : RemoteAdd(h, refs, how)
  <2>1. PICK refs \in GivenRefs : RemoteAdd(h, refs, how)
    BY <1>4
  <2>2. MissesInv' /\ OnceInv' /\ CountsInv'
    BY <1>3, <2>1 DEF RemoteAdd
  <2> QED
    BY <2>1, <2>2, RemoteAddType DEF ScanInv
<1>5. CASE RemoteRemove(h, how)
  <2>1. StoreRemoves(h) \/ StoreUnchanged
    BY <1>5 DEF RemoteRemove
  <2>2. MissesInv' /\ OnceInv' /\ CountsInv'
    BY <1>1, <1>2, <1>3, <2>1, RemovedScan
  <2> QED
    BY <1>5, <2>2, RemoteRemoveType DEF ScanInv
<1>6. CASE \E d \in Deltas : RemoteAdjrefs(h, d, how)
  <2>1. PICK d \in Deltas : RemoteAdjrefs(h, d, how)
    BY <1>6
  <2>2. /\ \/ Allowed(h, d) /\ records' = [records EXCEPT ![h].refs = Adjusted(@, d)]
           \/ records' = records
        /\ UNCHANGED ghosts
    BY <2>1 DEF RemoteAdjrefs
  <2>3. CASE Allowed(h, d) /\ records' = [records EXCEPT ![h].refs = Adjusted(@, d)]
    <3>1. /\ DOMAIN records' = DOMAIN records
          /\ \A g \in DOMAIN records : records'[g].type = records[g].type
      BY <2>2, <2>3, AdjustsType DEF ScanInv, TypeInv
    <3> QED
      BY <1>1, <2>1, <2>2, <3>1, UnchangedScan, RemoteAdjrefsType DEF ScanInv
  <2>4. CASE records' = records
    <3>1. StoreUnchanged
      BY <2>2, <2>4 DEF StoreUnchanged
    <3> QED
      BY <1>3, <2>1, <3>1, RemoteAdjrefsType DEF ScanInv
  <2> QED
    BY <2>2, <2>3, <2>4
<1> QED
  BY <1>4, <1>5, <1>6

LEMMA LocalScan ==
  ASSUME ScanInv, NEW h \in Hashes,
         (\E flags \in Flags : LocalAdd(h, flags)) \/ LocalRemove(h)
  PROVE  ScanInv'
<1>1. UNCHANGED <<scan, seen, via>>
  BY DEF LocalAdd, LocalRemove
<1>2. \/ h \notin DOMAIN records /\ \E flags \in Flags : StoreAdds(h, flags)
      \/ StoreRemoves(h)
  BY DEF LocalAdd, LocalRemove
<1>3. MissesInv' /\ OnceInv' /\ CountsInv'
  BY <1>1, <1>2, AddedScan, RemovedScan
<1> QED
  BY <1>3, LocalAddType, LocalRemoveType DEF ScanInv

\* The process ends, in the middle of the scan.
LEMMA ListFailsScan ==
  ASSUME ScanInv, NEW how \in Ends, ListFails(how)
  PROVE  ScanInv'
<1>1. alive' = FALSE /\ UNCHANGED <<records, scan, seen, ghosts, picture, via>>
  BY DEF ListFails, fvars
<1>2. MissesInv' /\ OnceInv' /\ CountsInv'
  BY <1>1, UnchangedScan
<1>3. TypeInv'
  BY <1>1 DEF ScanInv, TypeInv, MapType, CallerType, ScanType, ghosts
<1> QED
  BY <1>2, <1>3 DEF ScanInv

LEMMA InitScan == Init => ScanInv
<1> SUFFICES ASSUME Init PROVE ScanInv
  OBVIOUS
<1>1. scan.phase = "idle"
  BY DEF Init, FetchInit, NoScan
<1> QED
  BY <1>1, InitType DEF ScanInv, MissesInv, OnceInv, CountsInv, Scanning

\* The inductive step: every action keeps what is known of a scan.
THEOREM NextScan == ScanInv /\ [Next]_vars => ScanInv'
<1> SUFFICES ASSUME ScanInv, [Next]_vars PROVE ScanInv'
  OBVIOUS
<1>1. CASE UNCHANGED vars
  <2>1. UNCHANGED <<records, scan, seen, ghosts, picture, via, alive>>
    BY <1>1 DEF vars, fvars
  <2>2. MissesInv' /\ OnceInv' /\ CountsInv'
    BY <2>1, UnchangedScan
  <2>3. TypeInv'
    BY <2>1 DEF ScanInv, TypeInv, MapType, CallerType, ScanType, ghosts
  <2> QED
    BY <2>2, <2>3 DEF ScanInv
<1>2. CASE \E kind \in Kinds, size \in Sizes, by \in {"store", "remote"} :
             BeginScan(kind, size, by)
  <2>1. PICK kind \in Kinds, size \in Sizes, by \in {"store", "remote"} :
               BeginScan(kind, size, by)
    BY <1>2
  <2>2. MissesInv' /\ OnceInv' /\ CountsInv'
    BY <2>1, BeginsScan DEF BeginScan
  <2>3. TypeInv'
    BY <2>1, BeginType DEF ScanInv
  <2> QED
    BY <2>2, <2>3 DEF ScanInv
<1>3. CASE StorePage
  BY <1>3, StorePageScan DEF ScanInv
<1>4. CASE ListPage
  <2>1. Scanning /\ Given(<<>>) /\ via = "remote" /\ UNCHANGED <<picture, via, alive>>
    BY <1>4 DEF ListPage
  <2>2. /\ MapType' /\ ScanType' /\ seen' \in [Hashes -> Nat]
        /\ MissesInv' /\ OnceInv' /\ CountsInv'
    BY <2>1, EmptyScan
  <2> QED
    BY <2>1, <2>2 DEF ScanInv, TypeInv, CallerType
<1> QED
  BY <1>1, <1>2, <1>3, <1>4, CallScan, LocalScan, ListFailsScan DEF Next

\* Every variable keeps its type, whatever is called and however it ends.
THEOREM RemoteTypeCorrect == Spec => []TypeOK
<1>1. ScanInv => TypeOK
  BY TypeInvTypeOK DEF ScanInv
<1> QED
  BY <1>1, InitScan, NextScan, PTL DEF Spec

\* A scan of any listing, with pages of any size, misses no more of the hashes
\* that were stored all along than were removed meanwhile, however many there
\* are and whatever is added.
THEOREM NeverMissesMore == Spec => []ScanMisses
<1>1. ScanInv => ScanMisses
  BY DEF ScanInv, MissesInv, ScanMisses, Unseen
<1> QED
  BY <1>1, InitScan, NextScan, PTL DEF Spec

\* A scan of all hashes gives none twice while nothing is added.
THEOREM NeverTwice == Spec => []ScanOnce
<1>1. ScanInv => ScanOnce
  BY DEF ScanInv, OnceInv, ScanOnce
<1> QED
  BY <1>1, InitScan, NextScan, PTL DEF Spec

\* Where nothing comes or goes, a scan of a listing gives as many hashes as the
\* count call of that listing says there are.
THEOREM AlwaysCounts == Spec => ScanCounts
<1> DEFINE AtEnd == Scanning /\ scan'.phase = "done" /\ via = "store" /\ removed = 0 /\ ~added
           Good == Cardinality({h \in Hashes : seen[h] > 0}) = Count(scan.kind)
<1>1. ScanInv /\ [Next]_vars => [AtEnd => Good]_vars
  <2> SUFFICES ASSUME ScanInv, Next, AtEnd PROVE Good
    OBVIOUS
  <2>1. scan.phase = "on" /\ scan'.phase = "done"
    BY DEF Scanning
  <2>2. StorePage
    <3>1. ~ (scan' = scan)
      BY <2>1
    <3>2. ~ ListPage /\ \A how : ~ ListFails(how)
      BY <3>1 DEF ListPage, ListFails, fvars
    <3>3. \A h, how : /\ \A refs : ~ RemoteAdd(h, refs, how)
                      /\ ~ RemoteRemove(h, how)
                      /\ \A d : ~ RemoteAdjrefs(h, d, how)
      BY <3>1 DEF RemoteAdd, RemoteRemove, RemoteAdjrefs, Reported
    <3>4. \A h : (\A flags : ~ LocalAdd(h, flags)) /\ ~ LocalRemove(h)
      BY <3>1 DEF LocalAdd, LocalRemove
    <3>5. \A kind, size, by : ~ BeginScan(kind, size, by)
      BY <2>1 DEF BeginScan, Begin
    <3> QED
      BY <3>2, <3>3, <3>4, <3>5 DEF Next
  <2>3. Unseen \in SUBSET Missed
    BY <2>1, <2>2, StorePageScan
  <2>4. Missed = {}
    <3>1. Cardinality(Missed) <= 0 /\ Cardinality(Missed) \in Nat /\ IsFiniteSet(Missed)
      BY MissedFacts DEF ScanInv, MissesInv
    <3>2. Cardinality(Missed) = 0
      BY <3>1
    <3> QED
      BY <3>1, <3>2, FS_EmptySet
  <2>5. /\ stayed = {h \in DOMAIN records : OfKind(scan.kind, h)}
        /\ \A h \in Hashes : seen[h] > 0 => h \in stayed
    BY DEF ScanInv, CountsInv
  <2>6. \A h \in stayed : h \in Hashes /\ seen[h] \in Nat /\ seen[h] # 0
    <3>1. stayed \in SUBSET DOMAIN records /\ \A h \in DOMAIN records : h \in Hashes
      BY MissedFacts DEF ScanInv
    <3>2. seen \in [Hashes -> Nat]
      BY DEF ScanInv, TypeInv
    <3>3. \A h \in stayed : seen[h] # 0
      BY <2>3, <2>4 DEF Unseen
    <3> QED
      BY <3>1, <3>2, <3>3
  <2>7. {h \in Hashes : seen[h] > 0} = stayed
    BY <2>5, <2>6
  <2> QED
    BY <2>5, <2>7 DEF Count
<1>2. ScanInv /\ [Next]_vars =>
        [Scanning /\ scan'.phase = "done" /\ via = "store" /\ removed = 0 /\ ~added =>
           Cardinality({h \in Hashes : seen[h] > 0}) = Count(scan.kind)]_vars
  BY <1>1
<1> HIDE DEF AtEnd, Good
<1> QED
  BY <1>2, InitScan, NextScan, PTL DEF Spec, ScanCounts
=============================================================================
