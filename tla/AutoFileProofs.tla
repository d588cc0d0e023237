--------------------------- MODULE AutoFileProofs ---------------------------
(***************************************************************************)
(* The files under any number of threads and descriptors: what is lent is  *)
(* lent to one thread, a pinned record stays mapped, and nobody waits for  *)
(* nothing.                                                                *)
(*                                                                         *)
(* All of it rests on what a thread holds at each place in the code        *)
(* (PlacesOK) and on use being the number of those that hold something.    *)
(***************************************************************************)
EXTENDS AutoFile, FiniteSetTheorems, SequenceTheorems, WellFoundedInduction, TLAPS

\* Between get and done, and where a fault between them ended the process.
Pinning == {"pinned", "drop", "cleared", "pushed", "killed"}
Waits == {"getfd", "closefds"}
Woken == {"getfdWoken", "closefdsWoken"}

\* What a thread holds at each place.  One in setsize is the grower of the
\* data file, which has yet to be mapped again; where records are pinned the
\* file is mapped.
PlacesOK ==
  /\ \A t \in Threads :
       /\ fd[t] # 0 => pc[t] \in {"io", "hung"}
       /\ pc[t] = "io" => fd[t] # 0
       /\ pin[t] # 0 <=> pc[t] \in Pinning
       /\ pin[t] # 0 => file = "index"
       /\ pc[t] = "setsize" => t = Grower /\ file = "data" /\ maps < MaxMaps
  /\ file = "index" /\ Mutex /\ (\A t \in Threads : pc[t] # "gone") => map # 0

AutoInv ==
  /\ TypeOK
  /\ PlacesOK
  /\ UseExact
  /\ FdOwned
  /\ PinValid
  /\ NoLostWakeup

-----------------------------------------------------------------------------
(* Numbers and sequences. *)

\* A set of naturals that is not empty has a least element, which is Min.
LEMMA LeastNat ==
  ASSUME NEW S \in SUBSET Nat, S # {}
  PROVE  Min(S) \in S
<1> DEFINE R == {ss \in Nat \X Nat : ss[1] < ss[2]}
<1>1. PICK x \in S : \A y \in S : ~ (<<y, x>> \in R)
  <2>1. IsWellFoundedOn(R, Nat)
    BY NatLessThanWellFounded, Zenon DEF OpToRel
  <2> HIDE DEF R
  <2> QED
    BY <2>1, WFMin
<1>2. ASSUME NEW y \in S
      PROVE  x <= y
  <2>1. <<y, x>> \in Nat \X Nat /\ <<y, x>>[1] = y /\ <<y, x>>[2] = x
    OBVIOUS
  <2>2. y < x => <<y, x>> \in R
    BY <2>1, Zenon
  <2> QED
    BY <1>1, <2>2
<1> QED
  BY <1>2 DEF Min

\* The numbers from one on, and from zero on.
LEMMA Interval ==
  ASSUME NEW m \in Nat
  PROVE  /\ IsFiniteSet(1 .. m) /\ Cardinality(1 .. m) = m
         /\ IsFiniteSet(0 .. m - 1) /\ Cardinality(0 .. m - 1) = m
<1>1. 0 \in Int /\ 1 \in Int /\ m \in Int /\ m - 1 \in Int
  OBVIOUS
<1>2. IsFiniteSet(1 .. m) /\ Cardinality(1 .. m) = IF 1 > m THEN 0 ELSE m - 1 + 1
  BY <1>1, FS_Interval
<1>3. IsFiniteSet(0 .. m - 1)
      /\ Cardinality(0 .. m - 1) = IF 0 > m - 1 THEN 0 ELSE m - 1 - 0 + 1
  BY <1>1, FS_Interval
<1>4. (IF 1 > m THEN 0 ELSE m - 1 + 1) = m /\ (IF 0 > m - 1 THEN 0 ELSE m - 1 - 0 + 1) = m
  OBVIOUS
<1> QED
  BY <1>2, <1>3, <1>4

\* What is on a stack.
LEMMA RangeFacts ==
  ASSUME NEW S, NEW s \in Seq(S)
  PROVE  Range(s) \subseteq S
<1>1. DOMAIN s = 1 .. Len(s) /\ \A k \in 1 .. Len(s) : s[k] \in S
  BY LenProperties, ElementOfSeq
<1> QED
  BY <1>1 DEF Range

\* A stack without its last element.
LEMMA FrontFacts ==
  ASSUME NEW S, NEW s \in Seq(S), s # <<>>
  PROVE  /\ Len(s) \in Nat \ {0} /\ DOMAIN s = 1 .. Len(s)
         /\ Last(s) \in S /\ Last(s) \in Range(s)
         /\ Front(s) \in Seq(S)
         /\ Range(Front(s)) \subseteq Range(s)
         /\ \A x \in Range(s) : x \in Range(Front(s)) \/ x = Last(s)
         /\ IsInjective(s) => IsInjective(Front(s)) /\ Last(s) \notin Range(Front(s))
<1>1. Len(s) \in Nat \ {0} /\ DOMAIN s = 1 .. Len(s) /\ \A k \in 1 .. Len(s) : s[k] \in S
  BY EmptySeq, LenProperties, ElementOfSeq
<1>2. Last(s) \in S /\ Last(s) \in Range(s) /\ Last(s) = s[Len(s)]
  BY <1>1 DEF Last, Range
<1>3. /\ Front(s) \in Seq(S)
      /\ Len(Front(s)) = Len(s) - 1
      /\ \A k \in 1 .. Len(s) - 1 : Front(s)[k] = s[k]
  BY <1>1 DEF Front
<1>4. DOMAIN Front(s) = 1 .. Len(s) - 1
  BY <1>3, LenProperties
<1>5. Range(Front(s)) = {s[k] : k \in 1 .. Len(s) - 1}
  BY <1>3, <1>4 DEF Range
<1>6. \A x \in Range(s) : x \in Range(Front(s)) \/ x = Last(s)
  BY <1>1, <1>2, <1>5 DEF Range
<1>7. ASSUME IsInjective(s)
      PROVE  IsInjective(Front(s)) /\ Last(s) \notin Range(Front(s))
  BY <1>1, <1>2, <1>3, <1>4, <1>5, <1>7 DEF IsInjective
<1> QED
  BY <1>1, <1>2, <1>3, <1>5, <1>6, <1>7 DEF Range

\* A stack with one element more.
LEMMA AppendFacts ==
  ASSUME NEW S, NEW s \in Seq(S), NEW x \in S
  PROVE  /\ Append(s, x) \in Seq(S)
         /\ Range(Append(s, x)) = Range(s) \cup {x}
         /\ IsInjective(s) /\ x \notin Range(s) => IsInjective(Append(s, x))
<1>1. Len(s) \in Nat /\ DOMAIN s = 1 .. Len(s) /\ \A k \in 1 .. Len(s) : s[k] \in S
  BY LenProperties, ElementOfSeq
<1>2. /\ Append(s, x) \in Seq(S)
      /\ Len(Append(s, x)) = Len(s) + 1
      /\ \A i \in 1 .. Len(s) : Append(s, x)[i] = s[i]
      /\ Append(s, x)[Len(s) + 1] = x
  BY <1>1, AppendProperties
<1>3. DOMAIN Append(s, x) = 1 .. Len(s) + 1
  BY <1>2, LenProperties
<1>4. Range(Append(s, x)) = Range(s) \cup {x}
  BY <1>1, <1>2, <1>3 DEF Range
<1>5. ASSUME IsInjective(s), x \notin Range(s)
      PROVE  IsInjective(Append(s, x))
  BY <1>1, <1>2, <1>3, <1>5 DEF IsInjective, Range
<1> QED
  BY <1>2, <1>4, <1>5

-----------------------------------------------------------------------------
(* A step of thread t: it goes to p, and others may be woken. *)

Moved(t, p) ==
  /\ pc' \in [Threads -> Places] /\ pc'[t] = p
  /\ \A u \in Threads \ {t} : pc'[u] = pc[u] \/ (pc[u] \in Waits /\ pc'[u] \in Woken)

\* The other threads hold what they held.
OthersKeep(t) == \A u \in Threads \ {t} : fd'[u] = fd[u] /\ pin'[u] = pin[u]

LEMMA MovedBy ==
  ASSUME TypeOK, NEW t \in Threads, NEW p \in Places, pc' = [pc EXCEPT ![t] = p]
  PROVE  Moved(t, p)
BY DEF TypeOK, Moved

\* Safe::broadcast leaves nobody waiting.
LEMMA BroadcastTo ==
  ASSUME TypeOK, NEW t \in Threads, NEW p \in Places, pc' = Broadcast(t, p)
  PROVE  Moved(t, p) /\ \A u \in Threads \ {t} : pc'[u] \notin Waits
<1>1. pc \in [Threads -> Places]
  BY DEF TypeOK
<1>2. ASSUME NEW u \in Threads \ {t}
      PROVE  /\ pc'[u] \in Places /\ pc'[u] \notin Waits
             /\ pc'[u] = pc[u] \/ (pc[u] \in Waits /\ pc'[u] \in Woken)
  <2>1. CASE pc[u] = "getfd"
    BY <2>1 DEF Broadcast, Places, Waits, Woken
  <2>2. CASE pc[u] = "closefds"
    BY <2>2 DEF Broadcast, Places, Waits, Woken
  <2>3. CASE pc[u] \notin Waits
    <3>1. pc[u] \in Places /\ pc[u] # "getfd" /\ pc[u] # "closefds"
      BY <1>1, <2>3 DEF Waits
    <3>2. pc'[u] = pc[u]
      BY <3>1 DEF Broadcast
    <3> QED
      BY <2>3, <3>1, <3>2
  <2> QED
    BY <2>1, <2>2, <2>3 DEF Waits
<1>3. pc'[t] = p
  BY DEF Broadcast
<1>4. pc' = [u \in Threads |-> pc'[u]]
  BY DEF Broadcast
<1> QED
  BY <1>2, <1>3, <1>4 DEF Moved

\* A step that hangs nobody and starts from a free mutex leaves it free.
LEMMA MutexKept ==
  ASSUME NEW t \in Threads, NEW p, Moved(t, p), pc[t] \notin {"hung", "killed", "gone"}
  PROVE  /\ Mutex' => Mutex
         /\ p \notin {"hung", "killed"} /\ Mutex => Mutex'
         /\ (\A u \in Threads : pc'[u] # "gone") => \A u \in Threads : pc[u] # "gone"
BY DEF Moved, Mutex, Waits, Woken

LEMMA PlacesKept ==
  ASSUME TypeOK, PlacesOK, NEW t \in Threads, NEW p, Moved(t, p), OthersKeep(t),
         file' = file,
         maps' = maps \/ \A u \in Threads \ {t} : pc[u] # "setsize",
         fd'[t] # 0 => p \in {"io", "hung"},
         p = "io" => fd'[t] # 0,
         pin'[t] # 0 <=> p \in Pinning,
         pin'[t] # 0 => file = "index",
         p = "setsize" => t = Grower /\ file = "data" /\ maps' < MaxMaps,
         file = "index" /\ Mutex' /\ (\A u \in Threads : pc'[u] # "gone") => map' # 0
  PROVE  PlacesOK'
<1>1. ASSUME NEW u \in Threads \ {t}
      PROVE  /\ fd'[u] # 0 => pc'[u] \in {"io", "hung"}
             /\ pc'[u] = "io" => fd'[u] # 0
             /\ pin'[u] # 0 <=> pc'[u] \in Pinning
             /\ pin'[u] # 0 => file' = "index"
             /\ pc'[u] = "setsize" => u = Grower /\ file' = "data" /\ maps' < MaxMaps
  BY DEF PlacesOK, Moved, OthersKeep, Pinning, Waits, Woken
<1>2. pc'[t] = p
  BY DEF Moved
<1>3. \A u \in Threads :
        /\ fd'[u] # 0 => pc'[u] \in {"io", "hung"}
        /\ pc'[u] = "io" => fd'[u] # 0
        /\ pin'[u] # 0 <=> pc'[u] \in Pinning
        /\ pin'[u] # 0 => file' = "index"
        /\ pc'[u] = "setsize" => u = Grower /\ file' = "data" /\ maps' < MaxMaps
  BY <1>1, <1>2
<1> QED
  BY <1>3 DEF PlacesOK

\* The same step, with as many slots as there were, or more.
LEMMA TypeGrown ==
  ASSUME TypeOK, fixed' = fixed, Slots \subseteq Slots',
         Size' \in 1 .. MaxSlots, Slots' = 0 .. Size' - 1,
         active' \in [Slots' -> BOOLEAN], free' \in Seq(Slots'), raced' \subseteq Slots',
         fds' \in Seq(1 .. limit), use' \in Nat,
         maps' \in 1 .. MaxMaps, map' \in 0 .. maps',
         pc' \in [Threads -> Places], fd' \in [Threads -> 0 .. limit],
         pin' \in [Threads -> 0 .. maps'], slot' \in [Threads -> Slots]
  PROVE  TypeOK'
<1>1. file' = file /\ limit' = limit
  BY DEF fixed
<1>2. slot' \in [Threads -> Slots']
  OBVIOUS
<1> QED
  BY <1>1, <1>2 DEF TypeOK

LEMMA TypeSlots ==
  ASSUME TypeOK, fixed' = fixed,
         active' \in [Slots -> BOOLEAN], free' \in Seq(Slots), raced' \subseteq Slots,
         fds' \in Seq(1 .. limit), use' \in Nat,
         maps' \in 1 .. MaxMaps, map' \in 0 .. maps',
         pc' \in [Threads -> Places], fd' \in [Threads -> 0 .. limit],
         pin' \in [Threads -> 0 .. maps'], slot' \in [Threads -> Slots]
  PROVE  TypeOK' /\ Slots' = Slots /\ Size' = Size
<1>1. DOMAIN active' = Slots
  OBVIOUS
<1>2. Slots' = Slots /\ Size' = Size
  BY <1>1 DEF Slots, Size
<1>3. Size \in 1 .. MaxSlots /\ Slots = 0 .. Size - 1
  BY DEF TypeOK
<1> QED
  BY <1>2, <1>3, TypeGrown

LEMMA TypeKept ==
  ASSUME TypeOK, fixed' = fixed, slots' = slots,
         fds' \in Seq(1 .. limit), use' \in Nat,
         maps' \in 1 .. MaxMaps, map' \in 0 .. maps',
         pc' \in [Threads -> Places], fd' \in [Threads -> 0 .. limit],
         pin' \in [Threads -> 0 .. maps'], slot' \in [Threads -> Slots]
  PROVE  TypeOK'
<1>1. active' = active /\ free' = free /\ raced' = raced
  BY DEF slots
<1>2. active' \in [Slots -> BOOLEAN] /\ free' \in Seq(Slots) /\ raced' \subseteq Slots
  BY <1>1 DEF TypeOK
<1> QED
  BY <1>2, TypeSlots

-----------------------------------------------------------------------------
(* Those that hold something. *)

LEMMA HoldersFinite ==
  ASSUME TypeOK, UseExact
  PROVE  /\ Holders \subseteq Threads /\ IsFiniteSet(Holders)
         /\ Cardinality(Holders) \in Nat /\ use = Cardinality(Holders)
         /\ use = 0 <=> Holders = {}
<1>1. Holders \in SUBSET Threads
  BY DEF Holders
<1>2. IsFiniteSet(Holders)
  BY <1>1, ThreadsAssumption, FS_Subset
<1> QED
  BY <1>1, <1>2, FS_CardinalityType, FS_EmptySet DEF UseExact

\* Nobody takes or gives anything.
LEMMA HoldersSame ==
  ASSUME fd' = fd, pin' = pin
  PROVE  Holders' = Holders
BY DEF Holders

\* A thread that held nothing takes something.
LEMMA HoldersTake ==
  ASSUME TypeOK, UseExact, NEW t \in Threads, OthersKeep(t),
         fd[t] = 0, pin[t] = 0, fd'[t] # 0 \/ pin'[t] # 0, use' = use + 1
  PROVE  Holders' = Holders \cup {t} /\ Holders' # {} /\ UseExact' /\ use' \in Nat
<1>1. Holders' = Holders \cup {t} /\ t \notin Holders
  BY DEF Holders, OthersKeep
<1>2. Cardinality(Holders \cup {t}) = Cardinality(Holders) + 1
  BY <1>1, HoldersFinite, FS_AddElement
<1> QED
  BY <1>1, <1>2, HoldersFinite DEF UseExact

\* A thread gives back all it held.
LEMMA HoldersGive ==
  ASSUME TypeOK, UseExact, NEW t \in Threads, OthersKeep(t),
         fd[t] # 0 \/ pin[t] # 0, fd'[t] = 0, pin'[t] = 0, use' = use - 1
  PROVE  Holders' = Holders \ {t} /\ UseExact' /\ use' \in Nat
<1>1. Holders' = Holders \ {t} /\ t \in Holders
  BY DEF Holders, OthersKeep
<1>2. /\ IsFiniteSet(Holders \ {t})
      /\ Cardinality(Holders \ {t}) = Cardinality(Holders) - 1
  BY <1>1, HoldersFinite, FS_RemoveElement
<1>3. Cardinality(Holders \ {t}) \in Nat
  BY <1>2, FS_CardinalityType
<1> QED
  BY <1>1, <1>2, <1>3, HoldersFinite DEF UseExact

-----------------------------------------------------------------------------
(* Waiting. *)

LEMMA WaitersKept ==
  ASSUME NoLostWakeup, NEW t \in Threads, NEW p, Moved(t, p),
         Holders # {} => Holders' # {}, p \in Waits => Holders' # {}
  PROVE  NoLostWakeup'
BY DEF NoLostWakeup, Moved, Waits, Woken

LEMMA NobodyWaits ==
  ASSUME \A u \in Threads : pc'[u] \notin Waits
  PROVE  NoLostWakeup'
BY DEF NoLostWakeup, Waits

-----------------------------------------------------------------------------
(* getfd and relfd. *)

\* A step that leaves the mapping alone: the file stays mapped where records
\* are, and a pin of before is as good as it was.
LEMMA MapKept ==
  ASSUME PlacesOK, NEW t \in Threads, NEW p, Moved(t, p), pc[t] \notin {"hung", "killed", "gone"},
         file' = file, map' = map
  PROVE  /\ file = "index" /\ Mutex' /\ (\A u \in Threads : pc'[u] # "gone") => map' # 0
         /\ PinValid /\ pin' = pin => PinValid'
<1>1. /\ Mutex' => Mutex
      /\ (\A u \in Threads : pc'[u] # "gone") => \A u \in Threads : pc[u] # "gone"
  BY MutexKept
<1> QED
  BY <1>1 DEF PlacesOK, PinValid

\* The descriptors that are open.
LEMMA OpenFacts ==
  ASSUME TypeOK
  PROVE  /\ limit \in Nat \ {0} /\ Open \subseteq 1 .. limit /\ IsFiniteSet(Open)
         /\ Cardinality(Open) \in Nat
         /\ Cardinality(Open) < limit => (1 .. limit) \ Open # {}
<1>1. limit \in Nat \ {0}
  BY LimitsAssumption DEF TypeOK
<1>2. Open \in SUBSET (1 .. limit)
  <2>1. Range(fds) \subseteq 1 .. limit
    BY RangeFacts DEF TypeOK
  <2> QED
    BY <2>1 DEF Open, TypeOK
<1>3. IsFiniteSet(1 .. limit) /\ Cardinality(1 .. limit) = limit
  BY <1>1, Interval
<1>4. IsFiniteSet(Open) /\ Cardinality(Open) \in Nat
  BY <1>2, <1>3, FS_Subset, FS_CardinalityType
<1>5. ASSUME Cardinality(Open) < limit, (1 .. limit) \ Open = {}
      PROVE  FALSE
  <2>1. Open = 1 .. limit
    BY <1>2, <1>5
  <2> QED
    BY <1>1, <1>3, <1>5, <2>1
<1> QED
  BY <1>1, <1>2, <1>4, <1>5

\* A descriptor, new or from the list, is lent to t.
LEMMA LentInv ==
  ASSUME AutoInv, NEW t \in Threads, Getting(t), NEW d \in 1 .. limit,
         fds' \in Seq(1 .. limit), IsInjective(fds'), Range(fds') \subseteq Range(fds),
         d \notin Range(fds'), \A u \in Threads : fd[u] # d,
         fd' = [fd EXCEPT ![t] = d], use' = use + 1,
         pc' = [pc EXCEPT ![t] = "io"],
         UNCHANGED <<fixed, map, maps, slots, pinned>>
  PROVE  AutoInv'
<1> USE DEF AutoInv
<1>1. /\ Mutex /\ pc[t] \in {"idle", "getfdWoken"}
      /\ fixed' = fixed /\ file' = file /\ limit' = limit
      /\ map' = map /\ maps' = maps /\ slots' = slots /\ pin' = pin /\ slot' = slot
  BY DEF Getting, Begins, fixed, pinned
<1>2. Moved(t, "io")
  BY MovedBy DEF Places
<1>3. /\ fd[t] = 0 /\ pin[t] = 0
      /\ fd' \in [Threads -> 0 .. limit] /\ fd'[t] = d /\ d # 0
      /\ \A u \in Threads \ {t} : fd'[u] = fd[u]
      /\ OthersKeep(t)
  <2>1. fd[t] = 0 /\ pin[t] = 0
    BY <1>1 DEF PlacesOK, Pinning
  <2>2. fd \in [Threads -> 0 .. limit] /\ d \in 0 .. limit /\ d # 0
    BY OpenFacts DEF TypeOK
  <2> QED
    BY <1>1, <2>1, <2>2 DEF OthersKeep
<1>4. Holders' # {} /\ UseExact' /\ use' \in Nat
  BY <1>1, <1>3, HoldersTake
<1>5. TypeOK'
  BY <1>1, <1>2, <1>3, <1>4, TypeKept DEF TypeOK, Moved
<1>6. PlacesOK'
  BY <1>1, <1>2, <1>3, MapKept, PlacesKept DEF Pinning
<1>7. FdOwned'
  BY <1>3 DEF FdOwned
<1>8. PinValid'
  BY <1>1, <1>2, MapKept
<1>9. NoLostWakeup'
  BY <1>2, <1>4, WaitersKept
<1> QED
  BY <1>4, <1>5, <1>6, <1>7, <1>8, <1>9

LEMMA GetfdLendInv ==
  ASSUME AutoInv, NEW t \in Threads, GetfdLend(t)
  PROVE  AutoInv'
<1> DEFINE d == Last(fds)
<1>1. /\ Getting(t) /\ fds # <<>>
      /\ fd' = [fd EXCEPT ![t] = d] /\ fds' = Front(fds) /\ use' = use + 1
      /\ pc' = [pc EXCEPT ![t] = "io"]
      /\ UNCHANGED <<fixed, map, maps, slots, pinned>>
  BY DEF GetfdLend, Lent
<1>2. fds \in Seq(1 .. limit) /\ IsInjective(fds)
  BY DEF AutoInv, TypeOK, FdOwned
<1>3. /\ d \in 1 .. limit /\ d \in Range(fds)
      /\ fds' \in Seq(1 .. limit) /\ IsInjective(fds')
      /\ Range(fds') \subseteq Range(fds) /\ d \notin Range(fds')
  BY <1>1, <1>2, FrontFacts
<1>4. \A u \in Threads : fd[u] # d
  <2>1. d # 0
    BY <1>3
  <2> QED
    BY <1>3, <2>1 DEF AutoInv, FdOwned
<1> HIDE DEF d
<1> QED
  BY <1>1, <1>3, <1>4, LentInv

LEMMA GetfdOpenInv ==
  ASSUME AutoInv, NEW t \in Threads, GetfdOpen(t)
  PROVE  AutoInv'
<1> DEFINE d == Min((1 .. limit) \ Open)
<1>1. /\ Getting(t) /\ fds = <<>> /\ Cardinality(Open) < limit
      /\ fd' = [fd EXCEPT ![t] = d] /\ fds' = fds /\ use' = use + 1
      /\ pc' = [pc EXCEPT ![t] = "io"]
      /\ UNCHANGED <<fixed, map, maps, slots, pinned>>
  BY DEF GetfdOpen
<1>2. d \in (1 .. limit) \ Open
  <2>1. (1 .. limit) \ Open # {} /\ (1 .. limit) \ Open \in SUBSET Nat
    BY <1>1, OpenFacts DEF AutoInv
  <2> QED
    BY <2>1, LeastNat
<1>3. d \in 1 .. limit /\ d \notin Range(fds) /\ \A u \in Threads : fd[u] # d
  <2>1. limit \in Nat /\ d \in 1 .. limit /\ d # 0 /\ d \notin Open
    BY <1>2, OpenFacts DEF AutoInv
  <2> QED
    BY <2>1 DEF Open
<1>4. fds \in Seq(1 .. limit) /\ IsInjective(fds)
  BY DEF AutoInv, TypeOK, FdOwned
<1> HIDE DEF d
<1> QED
  BY <1>1, <1>3, <1>4, LentInv

\* A step in which nobody takes or gives anything and no file changes.
LEMMA NothingMoves ==
  ASSUME AutoInv, NEW t \in Threads, NEW p \in Places, Moved(t, p),
         pc[t] \notin Pinning \cup {"io", "hung", "killed", "gone"},
         p \notin Pinning \cup {"io", "hung", "setsize"},
         p \in Waits => Holders # {},
         Mutex, UNCHANGED <<fixed, lent, use, map, maps, slots, pinned>>
  PROVE  AutoInv'
<1> USE DEF AutoInv
<1>1. /\ fixed' = fixed /\ file' = file /\ limit' = limit /\ fds' = fds /\ fd' = fd
      /\ use' = use /\ map' = map /\ maps' = maps /\ slots' = slots
      /\ pin' = pin /\ slot' = slot /\ Holders' = Holders
  BY HoldersSame DEF fixed, lent, pinned
<1>2. /\ fd[t] = 0 /\ pin[t] = 0 /\ OthersKeep(t)
  BY <1>1 DEF PlacesOK, OthersKeep
<1>3. TypeOK'
  BY <1>1, TypeKept DEF TypeOK, Moved
<1>4. PlacesOK'
  BY <1>1, <1>2, MapKept, PlacesKept
<1>5. UseExact' /\ FdOwned'
  BY <1>1 DEF UseExact, FdOwned
<1>6. PinValid'
  BY <1>1, MapKept
<1>7. NoLostWakeup'
  BY <1>1, WaitersKept
<1> QED
  BY <1>3, <1>4, <1>5, <1>6, <1>7

LEMMA GetfdWaitInv ==
  ASSUME AutoInv, NEW t \in Threads, GetfdWait(t)
  PROVE  AutoInv'
<1>1. /\ Mutex /\ pc[t] \in {"idle", "getfdWoken"} /\ fds = <<>> /\ Cardinality(Open) >= limit
      /\ pc' = [pc EXCEPT ![t] = "getfd"]
      /\ UNCHANGED <<fixed, lent, use, map, maps, slots, pinned>>
  BY DEF GetfdWait, Getting, Begins
<1>2. Moved(t, "getfd")
  BY <1>1, MovedBy DEF AutoInv, Places
<1>3. Holders # {}
  <2>1. Open # {}
    BY <1>1, OpenFacts, FS_EmptySet DEF AutoInv
  <2>2. Range(fds) = {}
    BY <1>1 DEF Range
  <2> QED
    BY <2>1, <2>2 DEF Open, Holders
<1> QED
  BY <1>1, <1>2, <1>3, NothingMoves DEF Pinning, Places

LEMMA RelfdInv ==
  ASSUME AutoInv, NEW t \in Threads, Relfd(t)
  PROVE  AutoInv'
<1> USE DEF AutoInv
<1>1. /\ Mutex /\ pc[t] = "io" /\ use' = use - 1
      /\ fds' = Append(fds, fd[t]) /\ fd' = [fd EXCEPT ![t] = 0]
      /\ pc' = Broadcast(t, "idle")
      /\ fixed' = fixed /\ file' = file /\ limit' = limit
      /\ map' = map /\ maps' = maps /\ slots' = slots /\ pin' = pin /\ slot' = slot
  BY DEF Relfd, fixed, pinned
<1>2. Moved(t, "idle") /\ \A u \in Threads : pc'[u] \notin Waits
  BY <1>1, BroadcastTo DEF Places, Moved, Waits
<1>3. /\ fd[t] \in 1 .. limit /\ pin[t] = 0
      /\ fd' \in [Threads -> 0 .. limit] /\ fd'[t] = 0
      /\ \A u \in Threads \ {t} : fd'[u] = fd[u]
      /\ OthersKeep(t)
  <2>1. fd[t] # 0 /\ pin[t] = 0
    BY <1>1 DEF PlacesOK, Pinning
  <2>2. fd \in [Threads -> 0 .. limit] /\ limit \in Nat
    BY OpenFacts DEF TypeOK
  <2> QED
    BY <1>1, <2>1, <2>2 DEF OthersKeep
<1>4. UseExact' /\ use' \in Nat
  BY <1>1, <1>3, HoldersGive
<1>5. fd[t] \notin Range(fds) /\ IsInjective(fds)
  BY <1>3 DEF FdOwned
<1>6. /\ fds' \in Seq(1 .. limit) /\ IsInjective(fds')
      /\ Range(fds') = Range(fds) \cup {fd[t]}
  <2>1. fds \in Seq(1 .. limit)
    BY DEF TypeOK
  <2>2. /\ Append(fds, fd[t]) \in Seq(1 .. limit)
        /\ Range(Append(fds, fd[t])) = Range(fds) \cup {fd[t]}
        /\ IsInjective(fds) /\ fd[t] \notin Range(fds) => IsInjective(Append(fds, fd[t]))
    BY <1>3, <2>1, AppendFacts, Zenon
  <2> QED
    BY <1>1, <1>5, <2>2, Zenon
<1>7. TypeOK'
  BY <1>1, <1>2, <1>3, <1>4, <1>6, TypeKept DEF TypeOK, Moved
<1>8. PlacesOK'
  BY <1>1, <1>2, <1>3, MapKept, PlacesKept DEF Pinning
<1>9. FdOwned'
  BY <1>3, <1>6 DEF FdOwned
<1>10. PinValid'
  BY <1>1, <1>2, MapKept
<1>11. NoLostWakeup'
  BY <1>2, NobodyWaits
<1> QED
  BY <1>4, <1>7, <1>8, <1>9, <1>10, <1>11

-----------------------------------------------------------------------------
(* get, done and drop. *)

LEMMA PinnedInv ==
  ASSUME AutoInv, NEW t \in Threads, Mutex, Begins(t, "index"), NEW num \in Slots,
         Pins(t, num), NEW p \in {"pinned", "drop"}, pc' = [pc EXCEPT ![t] = p],
         raced' \subseteq Slots, UNCHANGED <<fixed, lent, map, maps, active, free>>
  PROVE  AutoInv'
<1> USE DEF AutoInv
<1>1. /\ pc[t] = "idle" /\ file = "index" /\ \A u \in Threads : pc[u] # "gone"
      /\ fixed' = fixed /\ file' = file /\ limit' = limit /\ fds' = fds /\ fd' = fd
      /\ map' = map /\ maps' = maps /\ active' = active /\ free' = free
      /\ use' = use + 1 /\ pin' = [pin EXCEPT ![t] = map] /\ slot' = [slot EXCEPT ![t] = num]
  BY DEF Begins, Closing, Pins, fixed, lent
<1>2. Moved(t, p)
  BY MovedBy DEF Places
<1>3. map # 0 /\ fd[t] = 0 /\ pin[t] = 0
  BY <1>1 DEF PlacesOK, Pinning
<1>4. /\ pin \in [Threads -> 0 .. maps] /\ map \in 0 .. maps /\ maps \in Nat
      /\ slot \in [Threads -> Slots]
  BY DEF TypeOK
<1>5. /\ pin' \in [Threads -> 0 .. maps] /\ slot' \in [Threads -> Slots]
      /\ pin'[t] = map /\ \A u \in Threads \ {t} : pin'[u] = pin[u]
      /\ OthersKeep(t)
  BY <1>1, <1>4 DEF OthersKeep
<1>6. Holders' # {} /\ UseExact' /\ use' \in Nat
  BY <1>1, <1>3, <1>5, HoldersTake
<1>7. TypeOK'
  BY <1>1, <1>2, <1>5, <1>6, TypeSlots DEF TypeOK, Moved
<1>8. PlacesOK'
  BY <1>1, <1>2, <1>3, <1>5, PlacesKept DEF Pinning
<1>9. FdOwned'
  BY <1>1 DEF FdOwned
<1>10. PinValid'
  BY <1>1, <1>5 DEF PinValid
<1>11. NoLostWakeup'
  BY <1>2, <1>6, WaitersKept
<1> QED
  BY <1>6, <1>7, <1>8, <1>9, <1>10, <1>11

LEMMA GetInv ==
  ASSUME AutoInv, NEW t \in Threads, NEW num \in Slots, Get(t, num)
  PROVE  AutoInv'
<1>1. /\ Mutex /\ Begins(t, "index") /\ Pins(t, num)
      /\ pc' = [pc EXCEPT ![t] = "pinned"]
      /\ UNCHANGED <<fixed, lent, map, maps, active, free>> /\ raced' = raced
  BY DEF Get, slots
<1>2. raced' \subseteq Slots
  BY <1>1 DEF AutoInv, TypeOK
<1> QED
  BY <1>1, <1>2, PinnedInv

LEMMA DropInv ==
  ASSUME AutoInv, NEW t \in Threads, NEW num \in Slots, Drop(t, num)
  PROVE  AutoInv'
<1>1. /\ Mutex /\ Begins(t, "index") /\ Pins(t, num)
      /\ pc' = [pc EXCEPT ![t] = "drop"]
      /\ UNCHANGED <<fixed, lent, map, maps, active, free>>
      /\ raced' = IF Dropping(num) # {} THEN raced \cup {num} ELSE raced
  BY DEF Drop
<1>2. raced' \subseteq Slots
  BY <1>1 DEF AutoInv, TypeOK
<1> QED
  BY <1>1, <1>2, PinnedInv

LEMMA DoneInv ==
  ASSUME AutoInv, NEW t \in Threads, Done(t)
  PROVE  AutoInv'
<1> USE DEF AutoInv
<1>1. /\ Mutex /\ pc[t] \in {"pinned", "pushed"} /\ use' = use - 1
      /\ pin' = [pin EXCEPT ![t] = 0] /\ slot' = [slot EXCEPT ![t] = 0]
      /\ pc' = Broadcast(t, "idle")
      /\ fixed' = fixed /\ file' = file /\ limit' = limit /\ fds' = fds /\ fd' = fd
      /\ map' = map /\ maps' = maps /\ slots' = slots
  BY DEF Done, Unpins, fixed, lent
<1>2. Moved(t, "idle") /\ \A u \in Threads : pc'[u] \notin Waits
  BY <1>1, BroadcastTo DEF Places, Moved, Waits
<1>3. pin[t] # 0 /\ fd[t] = 0
  BY <1>1 DEF PlacesOK, Pinning
<1>4. /\ pin \in [Threads -> 0 .. maps] /\ maps \in Nat
      /\ slot \in [Threads -> Slots] /\ 0 \in Slots
  BY DEF TypeOK
<1>5. /\ pin' \in [Threads -> 0 .. maps] /\ slot' \in [Threads -> Slots]
      /\ pin'[t] = 0 /\ \A u \in Threads \ {t} : pin'[u] = pin[u]
      /\ OthersKeep(t)
  BY <1>1, <1>4 DEF OthersKeep
<1>6. UseExact' /\ use' \in Nat
  BY <1>1, <1>3, <1>5, HoldersGive
<1>7. TypeOK'
  BY <1>1, <1>2, <1>5, <1>6, TypeKept DEF TypeOK, Moved
<1>8. PlacesOK'
  BY <1>1, <1>2, <1>3, <1>5, MapKept, PlacesKept DEF Pinning
<1>9. FdOwned'
  BY <1>1 DEF FdOwned
<1>10. PinValid'
  BY <1>1, <1>5 DEF PinValid
<1>11. NoLostWakeup'
  BY <1>2, NobodyWaits
<1> QED
  BY <1>6, <1>7, <1>8, <1>9, <1>10, <1>11

\* The two steps of drop between get and done, the first without the mutex.
LEMMA PinStays ==
  ASSUME AutoInv, TypeOK', NEW t \in Threads, pc[t] \in Pinning \ {"killed"}, NEW p \in Pinning,
         pc' = [pc EXCEPT ![t] = p],
         UNCHANGED <<fixed, lent, use, map, maps, pinned>>
  PROVE  AutoInv'
<1> USE DEF AutoInv
<1>1. /\ file' = file /\ limit' = limit /\ fds' = fds /\ fd' = fd /\ use' = use
      /\ map' = map /\ maps' = maps /\ pin' = pin /\ Holders' = Holders
      /\ pc[t] \notin {"hung", "killed", "gone"} /\ p \notin {"io", "hung", "setsize"} /\ p \notin Waits
  BY HoldersSame DEF fixed, lent, pinned, Pinning, Waits
<1>2. Moved(t, p)
  BY MovedBy DEF Places, Pinning
<1>3. fd[t] = 0 /\ pin[t] # 0 /\ file = "index" /\ OthersKeep(t)
  BY <1>1 DEF PlacesOK, Pinning, OthersKeep
<1>4. PlacesOK'
  BY <1>1, <1>2, <1>3, MapKept, PlacesKept
<1>5. UseExact' /\ FdOwned'
  BY <1>1 DEF UseExact, FdOwned
<1>6. PinValid'
  BY <1>1, <1>2, MapKept
<1>7. NoLostWakeup'
  BY <1>1, <1>2, WaitersKept
<1> QED
  BY <1>4, <1>5, <1>6, <1>7

LEMMA DropClearInv ==
  ASSUME AutoInv, NEW t \in Threads, DropClear(t)
  PROVE  AutoInv' /\ Slots' = Slots
<1>1. /\ pc[t] = "drop" /\ pc' = [pc EXCEPT ![t] = "cleared"]
      /\ active' = [active EXCEPT ![slot[t]] = FALSE]
      /\ UNCHANGED <<fixed, lent, use, map, maps, free, raced, pinned>>
  BY DEF DropClear
<1>2. /\ fixed' = fixed /\ fds' = fds /\ fd' = fd /\ use' = use /\ map' = map
      /\ maps' = maps /\ free' = free /\ raced' = raced /\ pin' = pin /\ slot' = slot
  BY <1>1 DEF lent, pinned
<1>3. Moved(t, "cleared")
  BY <1>1, MovedBy DEF AutoInv, Places
<1>4. active' \in [Slots -> BOOLEAN]
  BY <1>1 DEF AutoInv, TypeOK
<1>5. TypeOK' /\ Slots' = Slots
  BY <1>2, <1>3, <1>4, TypeSlots DEF AutoInv, TypeOK, Moved
<1> QED
  BY <1>1, <1>5, PinStays DEF Pinning

\* The process ends at a record whose mapping is gone; what its threads hold
\* stays as it is.
LEMMA FaultInv ==
  ASSUME AutoInv, NEW t \in Threads, Fault(t)
  PROVE  AutoInv'
<1>1. /\ pc[t] \in {"pinned", "drop"} /\ pc' = [pc EXCEPT ![t] = "killed"]
      /\ UNCHANGED <<fixed, lent, use, map, maps, slots, pinned>>
  BY DEF Fault
<1>2. Moved(t, "killed")
  BY <1>1, MovedBy DEF AutoInv, Places
<1>3. /\ fixed' = fixed /\ slots' = slots /\ fds' = fds /\ fd' = fd /\ use' = use
      /\ map' = map /\ maps' = maps /\ pin' = pin /\ slot' = slot
  BY <1>1 DEF lent, pinned
<1>4. TypeOK'
  BY <1>2, <1>3, TypeKept DEF AutoInv, TypeOK, Moved
<1> QED
  BY <1>1, <1>4, PinStays DEF Pinning

LEMMA DropPushInv ==
  ASSUME AutoInv, NEW t \in Threads, DropPush(t)
  PROVE  AutoInv' /\ Slots' = Slots
<1>1. /\ pc[t] = "cleared" /\ pc' = [pc EXCEPT ![t] = "pushed"]
      /\ free' = Append(free, slot[t])
      /\ UNCHANGED <<fixed, lent, use, map, maps, active, raced, pinned>>
  BY DEF DropPush
<1>2. /\ fixed' = fixed /\ fds' = fds /\ fd' = fd /\ use' = use /\ map' = map
      /\ maps' = maps /\ active' = active /\ raced' = raced /\ pin' = pin /\ slot' = slot
  BY <1>1 DEF lent, pinned
<1>3. Moved(t, "pushed")
  BY <1>1, MovedBy DEF AutoInv, Places
<1>4. free' \in Seq(Slots)
  <2>1. free \in Seq(Slots) /\ slot[t] \in Slots
    BY DEF AutoInv, TypeOK
  <2>2. Append(free, slot[t]) \in Seq(Slots)
    BY <2>1, AppendFacts, Zenon
  <2> QED
    BY <1>1, <2>2
<1>5. TypeOK' /\ Slots' = Slots
  BY <1>2, <1>3, <1>4, TypeSlots DEF AutoInv, TypeOK, Moved
<1> QED
  BY <1>1, <1>5, PinStays DEF Pinning

-----------------------------------------------------------------------------
(* Growth. *)

\* Where use is 0 nobody holds anything.
LEMMA NobodyHolds ==
  ASSUME AutoInv, use = 0
  PROVE  Holders = {} /\ \A u \in Threads : fd[u] = 0 /\ pin[u] = 0
BY HoldersFinite DEF AutoInv, Holders

\* A growth that is done; the slots are typed by its callers.
LEMMA GrownInv ==
  ASSUME AutoInv, NEW t \in Threads, Mutex, pc[t] \in {"idle", "setsize"}, maps < MaxMaps,
         \A u \in Threads \ {t} : pc[u] # "setsize",
         SetsizeDone(t), UNCHANGED <<fixed, pinned>>,
         Slots \subseteq Slots', Size' \in 1 .. MaxSlots, Slots' = 0 .. Size' - 1,
         active' \in [Slots' -> BOOLEAN], free' \in Seq(Slots'), raced' \subseteq Slots'
  PROVE  AutoInv'
<1> USE DEF AutoInv
<1>1. /\ use = 0 /\ limit >= 2 /\ fds' = <<2, 1>> /\ map' = maps + 1 /\ maps' = maps + 1
      /\ pc' = Broadcast(t, "idle") /\ use' = use /\ fd' = fd
      /\ fixed' = fixed /\ file' = file /\ limit' = limit /\ pin' = pin /\ slot' = slot
      /\ Holders' = Holders
  BY HoldersSame DEF SetsizeDone, fixed, pinned
<1>2. Moved(t, "idle") /\ \A u \in Threads : pc'[u] \notin Waits
  BY <1>1, BroadcastTo DEF Places, Moved, Waits
<1>3. /\ \A u \in Threads : fd[u] = 0 /\ pin[u] = 0
      /\ OthersKeep(t)
  BY <1>1, NobodyHolds DEF OthersKeep
<1>4. /\ limit \in Nat /\ maps \in 1 .. MaxMaps /\ MaxMaps \in Nat
      /\ pin \in [Threads -> 0 .. maps] /\ slot \in [Threads -> Slots]
      /\ fd \in [Threads -> 0 .. limit] /\ use \in Nat
  BY OpenFacts, FileBounds DEF TypeOK
<1>5. /\ fds' \in Seq(1 .. limit) /\ IsInjective(fds')
      /\ maps' \in 1 .. MaxMaps /\ map' \in 0 .. maps' /\ map' # 0
      /\ pin' \in [Threads -> 0 .. maps']
  <2>1. fds' \in Seq(1 .. limit) /\ IsInjective(fds')
    BY <1>1, <1>4 DEF IsInjective
  <2>2. maps' \in 1 .. MaxMaps /\ map' \in 0 .. maps' /\ map' # 0
    BY <1>1, <1>4
  <2>3. pin' \in [Threads -> 0 .. maps']
    BY <1>1, <1>4
  <2> QED
    BY <2>1, <2>2, <2>3
<1>6. TypeOK'
  BY <1>1, <1>2, <1>4, <1>5, TypeGrown DEF Moved
<1>7. PlacesOK'
  BY <1>1, <1>2, <1>3, <1>5, PlacesKept DEF Pinning
<1>8. UseExact'
  BY <1>1 DEF UseExact
<1>9. FdOwned'
  BY <1>1, <1>3, <1>5 DEF FdOwned
<1>10. PinValid'
  BY <1>1, <1>3 DEF PinValid
<1>11. NoLostWakeup'
  BY <1>2, NobodyWaits
<1> QED
  BY <1>6, <1>7, <1>8, <1>9, <1>10, <1>11

\* A growth that hangs.
LEMMA HangInv ==
  ASSUME AutoInv, NEW t \in Threads, Mutex, pc[t] \in {"idle", "setsize"},
         SetsizeHang(t), UNCHANGED <<fixed, slots, pinned>>
  PROVE  AutoInv'
<1> USE DEF AutoInv
<1>1. /\ use > 0 \/ limit < 2
      /\ map' = 0 /\ maps' = maps /\ pc' = [pc EXCEPT ![t] = "hung"]
      /\ fixed' = fixed /\ file' = file /\ limit' = limit /\ slots' = slots
      /\ pin' = pin /\ slot' = slot
  BY DEF SetsizeHang, fixed, pinned
<1>2. Moved(t, "hung") /\ ~ Mutex'
  <2>1. Moved(t, "hung")
    BY <1>1, MovedBy DEF Places
  <2> QED
    BY <2>1 DEF Moved, Mutex
<1>3. fd[t] = 0 /\ pin[t] = 0
  BY DEF PlacesOK, Pinning
<1>4. /\ limit \in Nat \ {0} /\ maps \in 1 .. MaxMaps /\ use \in Nat
      /\ fd \in [Threads -> 0 .. limit]
  BY OpenFacts DEF TypeOK
<1>5. /\ fds' \in Seq(1 .. limit) /\ fd' \in [Threads -> 0 .. limit] /\ use' \in Nat
      /\ OthersKeep(t) /\ UseExact' /\ FdOwned' /\ Holders' # {}
      /\ limit < 2 \/ Holders' \ {t} # {}
  <2>1. CASE use = 0
    <3>1. fds' = <<>> /\ fd' = [fd EXCEPT ![t] = 1] /\ use' = 1 /\ limit < 2
      BY <1>1, <1>4, <2>1 DEF SetsizeHang
    <3>2. fd' \in [Threads -> 0 .. limit] /\ fd'[t] = 1 /\ OthersKeep(t)
      BY <1>1, <1>4, <3>1 DEF OthersKeep
    <3>3. Holders' # {} /\ UseExact'
      BY <1>3, <2>1, <3>1, <3>2, HoldersTake
    <3>4. FdOwned'
      <4>1. \A u \in Threads \ {t} : fd'[u] = 0
        BY <2>1, <3>2, NobodyHolds DEF OthersKeep
      <4>2. Range(fds') = {} /\ IsInjective(fds')
        BY <3>1 DEF Range, IsInjective
      <4> QED
        BY <3>2, <4>1, <4>2 DEF FdOwned
    <3> QED
      BY <3>1, <3>2, <3>3, <3>4
  <2>2. CASE use # 0
    <3>1. fds' = fds /\ fd' = fd /\ use' = use /\ Holders' = Holders
      BY <1>1, <2>2, HoldersSame DEF SetsizeHang
    <3>2. Holders # {} /\ t \notin Holders
      BY <1>3, <2>2, HoldersFinite DEF Holders
    <3> QED
      BY <1>1, <3>1, <3>2 DEF TypeOK, OthersKeep, UseExact, FdOwned
  <2> QED
    BY <2>1, <2>2
<1>6. TypeOK'
  <2>1. maps' \in 1 .. MaxMaps /\ map' \in 0 .. maps'
    BY <1>1, <1>4, FileBounds
  <2>2. pin' \in [Threads -> 0 .. maps'] /\ slot' \in [Threads -> Slots]
    BY <1>1 DEF TypeOK
  <2> QED
    BY <1>1, <1>2, <1>5, <2>1, <2>2, TypeKept DEF Moved
<1>7. PlacesOK'
  BY <1>1, <1>2, <1>3, <1>5, PlacesKept DEF Pinning
<1>8. PinValid'
  BY <1>2 DEF PinValid
<1>9. NoLostWakeup'
  BY <1>2, <1>5, WaitersKept
<1> QED
  BY <1>5, <1>6, <1>7, <1>8, <1>9

LEMMA SetsizeUnmapInv ==
  ASSUME AutoInv, NEW t \in Threads, SetsizeUnmap(t)
  PROVE  AutoInv'
<1> USE DEF AutoInv
<1>1. /\ t = Grower /\ pc[t] = "idle" /\ file = "data" /\ maps < MaxMaps
      /\ map' = 0 /\ pc' = [pc EXCEPT ![t] = "setsize"]
      /\ fixed' = fixed /\ file' = file /\ limit' = limit /\ fds' = fds /\ fd' = fd
      /\ use' = use /\ maps' = maps /\ slots' = slots /\ pin' = pin /\ slot' = slot
      /\ Holders' = Holders
  BY HoldersSame DEF SetsizeUnmap, Begins, fixed, lent, pinned
<1>2. Moved(t, "setsize")
  BY <1>1, MovedBy DEF Places
<1>3. fd[t] = 0 /\ pin[t] = 0 /\ OthersKeep(t) /\ \A u \in Threads : pin[u] = 0
  BY <1>1 DEF PlacesOK, Pinning, OthersKeep
<1>4. TypeOK'
  <2>1. maps \in 1 .. MaxMaps /\ map' \in 0 .. maps
    BY <1>1, FileBounds DEF TypeOK
  <2> QED
    BY <1>1, <1>2, <2>1, TypeKept DEF TypeOK, Moved
<1>5. PlacesOK'
  <2>1. file # "index"
    BY <1>1
  <2> QED
    BY <1>1, <1>2, <1>3, <2>1, PlacesKept DEF Pinning
<1>6. UseExact' /\ FdOwned'
  BY <1>1 DEF UseExact, FdOwned
<1>7. PinValid'
  BY <1>1, <1>3 DEF PinValid
<1>8. NoLostWakeup'
  BY <1>1, <1>2, WaitersKept DEF Waits
<1> QED
  BY <1>4, <1>5, <1>6, <1>7, <1>8

LEMMA SetsizeInv ==
  ASSUME AutoInv, NEW t \in Threads, Setsize(t)
  PROVE  AutoInv'
<1>1. /\ Mutex /\ pc[t] = "setsize" /\ UNCHANGED <<fixed, slots, pinned>>
      /\ SetsizeDone(t) \/ SetsizeHang(t)
  BY DEF Setsize
<1>2. CASE SetsizeHang(t)
  BY <1>1, <1>2, HangInv
<1>3. CASE SetsizeDone(t)
  <2>1. maps < MaxMaps /\ \A u \in Threads \ {t} : pc[u] # "setsize"
    BY <1>1 DEF AutoInv, PlacesOK
  <2>2. active' = active /\ free' = free /\ raced' = raced /\ Slots' = Slots /\ Size' = Size
    BY <1>1 DEF slots, Slots, Size
  <2>3. /\ Slots \subseteq Slots' /\ Size' \in 1 .. MaxSlots /\ Slots' = 0 .. Size' - 1
        /\ active' \in [Slots' -> BOOLEAN] /\ free' \in Seq(Slots') /\ raced' \subseteq Slots'
    BY <2>2 DEF AutoInv, TypeOK
  <2> QED
    BY <1>1, <1>3, <2>1, <2>3, GrownInv
<1> QED
  BY <1>1, <1>2, <1>3

-----------------------------------------------------------------------------
(* create. *)

LEMMA CreatePopInv ==
  ASSUME AutoInv, NEW t \in Threads, CreatePop(t)
  PROVE  AutoInv' /\ Slots' = Slots
<1> USE DEF AutoInv
<1>1. /\ Mutex /\ pc[t] = "idle" /\ free # <<>>
      /\ active' = [active EXCEPT ![Last(free)] = TRUE] /\ free' = Front(free)
      /\ pc' = Broadcast(t, "idle")
      /\ fixed' = fixed /\ file' = file /\ limit' = limit /\ fds' = fds /\ fd' = fd
      /\ use' = use /\ map' = map /\ maps' = maps /\ raced' = raced
      /\ pin' = pin /\ slot' = slot /\ Holders' = Holders
  BY HoldersSame DEF CreatePop, Begins, fixed, lent, pinned
<1>2. Moved(t, "idle") /\ \A u \in Threads : pc'[u] \notin Waits
  BY <1>1, BroadcastTo DEF Places, Moved, Waits
<1>3. fd[t] = 0 /\ pin[t] = 0 /\ OthersKeep(t)
  BY <1>1 DEF PlacesOK, Pinning, OthersKeep
<1>4. active' \in [Slots -> BOOLEAN] /\ free' \in Seq(Slots)
  <2>1. free \in Seq(Slots) /\ active \in [Slots -> BOOLEAN]
    BY DEF TypeOK
  <2>2. Front(free) \in Seq(Slots)
    BY <1>1, <2>1, FrontFacts
  <2> QED
    BY <1>1, <2>1, <2>2
<1>5. TypeOK' /\ Slots' = Slots
  BY <1>1, <1>2, <1>4, TypeSlots DEF TypeOK, Moved
<1>6. PlacesOK'
  BY <1>1, <1>2, <1>3, MapKept, PlacesKept DEF Pinning
<1>7. UseExact' /\ FdOwned'
  BY <1>1 DEF UseExact, FdOwned
<1>8. PinValid'
  BY <1>1, <1>2, MapKept
<1>9. NoLostWakeup'
  BY <1>2, NobodyWaits
<1> QED
  BY <1>5, <1>6, <1>7, <1>8, <1>9

\* The slots after a growth of the index.
LEMMA GrownSlots ==
  ASSUME TypeOK, NEW t \in Threads, CreateGrow(t)
  PROVE  /\ Size \in Nat \ {0} /\ Size' = Size + INDEXGROWTH
         /\ Slots = 0 .. Size - 1 /\ Slots' = 0 .. Size' - 1
         /\ Slots \subseteq Slots' /\ Size' \in 1 .. MaxSlots
         /\ active' \in [Slots' -> BOOLEAN]
         /\ \A i \in Slots : active'[i] = active[i]
         /\ \A i \in Slots' \ Slots : active'[i] = (i = Size)
         /\ free' \in Seq(Slots') /\ IsInjective(free')
         /\ Range(free') = (Slots' \ Slots) \ {Size}
<1>0. PICK n : n = Size + INDEXGROWTH
  OBVIOUS
<1>1. /\ n <= MaxSlots
      /\ active' = [i \in 0 .. n - 1 |-> IF i \in Slots THEN active[i] ELSE i = Size]
      /\ free' = NewSlots
  <2>1. /\ Size + INDEXGROWTH <= MaxSlots
        /\ active' = [i \in 0 .. Size + INDEXGROWTH - 1 |->
                        IF i \in Slots THEN active[i] ELSE i = Size]
        /\ free' = NewSlots
    BY DEF CreateGrow, CreateFull
  <2>2. 0 .. Size + INDEXGROWTH - 1 = 0 .. n - 1
    <3>1. Size \in Nat /\ INDEXGROWTH \in Nat
      BY GrowthAssumption DEF TypeOK
    <3> QED
      BY <1>0, <3>1
  <2> QED
    BY <1>0, <2>1, <2>2, Zenon
<1>2. /\ Size \in Nat \ {0} /\ Size \in 1 .. MaxSlots /\ Slots = 0 .. Size - 1
      /\ INDEXGROWTH \in Nat \ {0} /\ MaxSlots \in Nat
      /\ active \in [Slots -> BOOLEAN]
  BY GrowthAssumption, FileBounds DEF TypeOK
<1>3. n \in Nat /\ n \in 1 .. MaxSlots /\ Slots \subseteq 0 .. n - 1
  BY <1>0, <1>1, <1>2
<1>4. Slots' = 0 .. n - 1 /\ Size' = n /\ Slots' = 0 .. Size' - 1
  <2>1. DOMAIN active' = 0 .. n - 1
    BY <1>1, Zenon
  <2>2. Slots' = 0 .. n - 1
    BY <2>1 DEF Slots
  <2>3. Cardinality(0 .. n - 1) = n
    BY <1>3, Interval
  <2>4. Size' = n
    BY <2>2, <2>3 DEF Size
  <2> QED
    BY <2>2, <2>4
<1>5. /\ active' \in [0 .. n - 1 -> BOOLEAN]
      /\ \A i \in Slots : active'[i] = active[i]
      /\ \A i \in (0 .. n - 1) \ Slots : active'[i] = (i = Size)
  <2>1. \A i \in 0 .. n - 1 : (IF i \in Slots THEN active[i] ELSE i = Size) \in BOOLEAN
    BY <1>2, Zenon
  <2>2. active' \in [0 .. n - 1 -> BOOLEAN]
    BY <1>1, <2>1, Zenon
  <2>3. \A i \in 0 .. n - 1 : active'[i] = IF i \in Slots THEN active[i] ELSE i = Size
    BY <1>1, Zenon
  <2> QED
    BY <1>3, <2>2, <2>3, Zenon
<1>6. /\ free' \in Seq(0 .. n - 1) /\ IsInjective(free')
      /\ Range(free') = ((0 .. n - 1) \ Slots) \ {Size}
  <2>1. free' = [k \in 1 .. INDEXGROWTH - 1 |-> Size + k]
    BY <1>1 DEF NewSlots
  <2>2. INDEXGROWTH - 1 \in Nat /\ \A k \in 1 .. INDEXGROWTH - 1 : Size + k \in 0 .. n - 1
    BY <1>0, <1>2
  <2>3. free' \in Seq(0 .. n - 1)
    <3>1. PICK m \in Nat : m = INDEXGROWTH - 1
      BY <2>2
    <3>2. free' = [k \in 1 .. m |-> Size + k] /\ \A k \in 1 .. m : Size + k \in 0 .. n - 1
      BY <2>1, <2>2, <3>1
    <3>3. free' \in [1 .. m -> 0 .. n - 1]
      BY <3>2
    <3> QED
      BY <3>1, <3>3, SeqDef
  <2>4. DOMAIN free' = 1 .. INDEXGROWTH - 1 /\ \A k \in 1 .. INDEXGROWTH - 1 : free'[k] = Size + k
    BY <2>1
  <2>5. IsInjective(free')
    BY <1>2, <2>4 DEF IsInjective
  <2>6. Range(free') = {Size + k : k \in 1 .. INDEXGROWTH - 1}
    BY <2>4 DEF Range
  <2>7. {Size + k : k \in 1 .. INDEXGROWTH - 1} = ((0 .. n - 1) \ Slots) \ {Size}
    <3>1. ASSUME NEW x \in ((0 .. n - 1) \ Slots) \ {Size}
          PROVE  x \in {Size + k : k \in 1 .. INDEXGROWTH - 1}
      <4>1. x - Size \in 1 .. INDEXGROWTH - 1 /\ x = Size + (x - Size)
        BY <1>0, <1>2
      <4> QED
        BY <4>1
    <3>2. ASSUME NEW k \in 1 .. INDEXGROWTH - 1
          PROVE  Size + k \in ((0 .. n - 1) \ Slots) \ {Size}
      BY <1>0, <1>2
    <3> QED
      BY <3>1, <3>2
  <2> QED
    BY <2>3, <2>5, <2>6, <2>7
<1> QED
  BY <1>0, <1>2, <1>3, <1>4, <1>5, <1>6

LEMMA CreateGrowInv ==
  ASSUME AutoInv, NEW t \in Threads, CreateGrow(t)
  PROVE  AutoInv'
<1>1. /\ Mutex /\ pc[t] = "idle" /\ file = "index" /\ maps < MaxMaps
      /\ SetsizeDone(t) /\ UNCHANGED <<fixed, pinned>> /\ raced' = raced
  BY DEF CreateGrow, CreateFull, Begins
<1>2. \A u \in Threads \ {t} : pc[u] # "setsize"
  BY <1>1 DEF AutoInv, PlacesOK
<1>3. /\ Slots \subseteq Slots' /\ Size' \in 1 .. MaxSlots /\ Slots' = 0 .. Size' - 1
      /\ active' \in [Slots' -> BOOLEAN] /\ free' \in Seq(Slots')
  BY GrownSlots DEF AutoInv
<1>4. raced' \subseteq Slots'
  BY <1>1, <1>3 DEF AutoInv, TypeOK
<1> QED
  BY <1>1, <1>2, <1>3, <1>4, GrownInv

LEMMA CreateHangInv ==
  ASSUME AutoInv, NEW t \in Threads, CreateHang(t)
  PROVE  AutoInv'
BY HangInv DEF CreateHang, CreateFull, Begins

-----------------------------------------------------------------------------
(* The destructor, and wakeups without a signal. *)

LEMMA CloseWaitInv ==
  ASSUME AutoInv, NEW t \in Threads, CloseWait(t)
  PROVE  AutoInv'
<1>1. /\ Mutex /\ pc[t] \in {"idle", "closefdsWoken"} /\ use > 0
      /\ pc' = [pc EXCEPT ![t] = "closefds"]
      /\ UNCHANGED <<fixed, lent, use, map, maps, slots, pinned>>
  BY DEF CloseWait, CloseBegin
<1>2. Moved(t, "closefds")
  BY <1>1, MovedBy DEF AutoInv, Places
<1>3. Holders # {}
  BY <1>1, HoldersFinite DEF AutoInv
<1> QED
  BY <1>1, <1>2, <1>3, NothingMoves DEF Pinning, Places

LEMMA CloseDoneInv ==
  ASSUME AutoInv, NEW t \in Threads, CloseDone(t)
  PROVE  AutoInv'
<1> USE DEF AutoInv
<1>1. /\ Mutex /\ pc[t] \in {"idle", "closefdsWoken"} /\ use = 0
      /\ fds' = <<>> /\ map' = 0 /\ pc' = [pc EXCEPT ![t] = "gone"]
      /\ fixed' = fixed /\ file' = file /\ limit' = limit /\ fd' = fd /\ use' = use
      /\ maps' = maps /\ slots' = slots /\ pin' = pin /\ slot' = slot
      /\ Holders' = Holders
  BY HoldersSame DEF CloseDone, CloseBegin, fixed, pinned
<1>2. Moved(t, "gone") /\ \E u \in Threads : pc'[u] = "gone"
  BY <1>1, MovedBy DEF Places, Moved
<1>3. OthersKeep(t) /\ \A u \in Threads : fd[u] = 0 /\ pin[u] = 0
  BY <1>1, NobodyHolds DEF OthersKeep
<1>4. TypeOK'
  <2>1. maps \in 1 .. MaxMaps /\ map' \in 0 .. maps /\ fds' \in Seq(1 .. limit)
    BY <1>1, FileBounds DEF TypeOK
  <2> QED
    BY <1>1, <1>2, <2>1, TypeKept DEF TypeOK, Moved
<1>5. PlacesOK'
  BY <1>1, <1>2, <1>3, PlacesKept DEF Pinning
<1>6. UseExact'
  BY <1>1 DEF UseExact
<1>7. FdOwned'
  BY <1>1, <1>3 DEF FdOwned, IsInjective
<1>8. PinValid'
  BY <1>1, <1>3 DEF PinValid
<1>9. NoLostWakeup'
  BY <1>1, <1>2, WaitersKept DEF Waits
<1> QED
  BY <1>4, <1>5, <1>6, <1>7, <1>8, <1>9

LEMMA SpuriousInv ==
  ASSUME AutoInv, NEW t \in Threads, Spurious(t)
  PROVE  AutoInv'
<1>1. /\ Mutex /\ pc[t] \in {"getfd", "closefds"}
      /\ UNCHANGED <<fixed, lent, use, map, maps, slots, pinned>>
      /\ pc' = [pc EXCEPT ![t] = IF @ = "getfd" THEN "getfdWoken" ELSE "closefdsWoken"]
  BY DEF Spurious
<1> DEFINE p == IF pc[t] = "getfd" THEN "getfdWoken" ELSE "closefdsWoken"
<1>2. pc' = [pc EXCEPT ![t] = p] /\ p \in Woken /\ p \in Places
  BY <1>1 DEF Woken, Places
<1> HIDE DEF p
<1>3. Moved(t, p)
  BY <1>2, MovedBy DEF AutoInv
<1> QED
  BY <1>1, <1>2, <1>3, NothingMoves DEF Pinning, Woken, Waits

-----------------------------------------------------------------------------
(* The invariant of every step. *)

LEMMA InitAuto == Init => AutoInv
<1> SUFFICES ASSUME Init PROVE AutoInv
  OBVIOUS
<1>1. /\ file \in {"index", "data"} /\ limit \in Limits /\ limit \in Nat \ {0}
      /\ fds = <<1>> /\ use = 0 /\ map = 1 /\ maps = 1
      /\ active \in [{0} -> BOOLEAN] /\ free = IF active[0] THEN <<>> ELSE <<0>>
      /\ pc = [t \in Threads |-> "idle"] /\ fd = [t \in Threads |-> 0]
      /\ pin = [t \in Threads |-> 0] /\ slot = [t \in Threads |-> 0] /\ raced = {}
  BY LimitsAssumption DEF Init
<1>2. Slots = {0} /\ Size = 1
  BY <1>1, FS_Singleton DEF Slots, Size
<1>3. Holders = {}
  BY <1>1 DEF Holders
<1>4. TypeOK
  <2>1. Slots = 0 .. Size - 1 /\ Size \in 1 .. MaxSlots
    BY <1>2, FileBounds
  <2>2. fds \in Seq(1 .. limit) /\ maps \in 1 .. MaxMaps /\ map \in 0 .. maps /\ use \in Nat
    BY <1>1, FileBounds
  <2>3. active \in [Slots -> BOOLEAN] /\ raced \subseteq Slots
    BY <1>1, <1>2
  <2>4. free \in Seq(Slots)
    <3>1. CASE active[0]
      BY <1>1, <3>1
    <3>2. CASE ~ active[0]
      BY <1>1, <1>2, <3>2
    <3> QED
      BY <3>1, <3>2
  <2>5. /\ pc \in [Threads -> Places] /\ fd \in [Threads -> 0 .. limit]
        /\ pin \in [Threads -> 0 .. maps] /\ slot \in [Threads -> Slots]
    BY <1>1, <1>2 DEF Places
  <2> QED
    BY <1>1, <2>1, <2>2, <2>3, <2>4, <2>5 DEF TypeOK
<1>5. PlacesOK
  BY <1>1 DEF PlacesOK, Pinning
<1>6. UseExact
  BY <1>1, <1>3, FS_EmptySet DEF UseExact
<1>7. FdOwned
  BY <1>1 DEF FdOwned, IsInjective
<1>8. PinValid /\ NoLostWakeup
  BY <1>1 DEF PinValid, NoLostWakeup
<1> QED
  BY <1>4, <1>5, <1>6, <1>7, <1>8 DEF AutoInv

\* Every step of every thread keeps AutoInv.
THEOREM NextAuto == AutoInv /\ [Next]_vars => AutoInv'
<1> SUFFICES ASSUME AutoInv, [Next]_vars PROVE AutoInv'
  OBVIOUS
<1>1. CASE UNCHANGED vars
  <2>1. /\ file' = file /\ limit' = limit /\ fds' = fds /\ fd' = fd /\ use' = use
        /\ map' = map /\ maps' = maps /\ active' = active /\ free' = free
        /\ raced' = raced /\ pc' = pc /\ pin' = pin /\ slot' = slot
    BY <1>1 DEF vars, fixed, lent, slots, pinned
  <2>2. Slots' = Slots /\ Size' = Size /\ Holders' = Holders /\ (Mutex' <=> Mutex)
    BY <2>1 DEF Slots, Size, Holders, Mutex
  <2> QED
    BY <2>1, <2>2 DEF AutoInv, TypeOK, PlacesOK, UseExact, FdOwned, PinValid,
                      NoLostWakeup
<1>2. CASE Next
  <2>1. PICK t \in Threads : Begin(t) \/ Continues(t) \/ Spurious(t) \/ Fault(t)
    BY <1>2 DEF Next
  <2>2. CASE Begin(t)
    BY <2>2, GetfdLendInv, GetfdOpenInv, GetfdWaitInv, GetInv, DropInv, SetsizeUnmapInv,
       CreatePopInv, CreateGrowInv, CreateHangInv, CloseWaitInv, CloseDoneInv DEF Begin
  <2>3. CASE Continues(t)
    BY <2>3, GetfdLendInv, GetfdOpenInv, GetfdWaitInv, RelfdInv, DoneInv, DropClearInv,
       DropPushInv, FaultInv, SetsizeInv, CloseWaitInv, CloseDoneInv DEF Continues
  <2>4. CASE Spurious(t) \/ Fault(t)
    BY <2>4, SpuriousInv, FaultInv
  <2> QED
    BY <2>1, <2>2, <2>3, <2>4
<1> QED
  BY <1>1, <1>2

\* AutoInv holds of every reachable state.
LEMMA AlwaysAuto == Spec => []AutoInv
BY InitAuto, NextAuto, PTL DEF Spec

-----------------------------------------------------------------------------
(* The slots of the index: where a slot is, while drops are on their way.  *)

Dropped == {"drop", "cleared"}

\* The slots of two drops on their way differ; one that is still active is
\* active, one that is not is not on the stack yet.
SlotSafe ==
  /\ IsInjective(free)
  /\ \A i \in Slots :
       active[i] <=> i \notin Range(free) /\ \A t \in Threads : ~(pc[t] = "cleared" /\ slot[t] = i)
  /\ \A t \in Threads : pc[t] = "drop" => active[slot[t]]
  /\ \A t \in Threads : pc[t] = "cleared" => slot[t] \notin Range(free)
  /\ \A t, u \in Threads :
       t # u /\ pc[t] \in Dropped /\ pc[u] \in Dropped => slot[t] # slot[u]

SlotInv == raced = {} => SlotSafe

\* The threads with a drop on its way are those of before, and t if p is a
\* part of one.
LEMMA OtherDrops ==
  ASSUME NEW t \in Threads, NEW p, Moved(t, p),
         \A u \in Threads \ {t} : slot'[u] = slot[u]
  PROVE  /\ pc'[t] = p
         /\ \A u \in Threads \ {t} :
              /\ slot'[u] = slot[u]
              /\ pc'[u] = "drop" <=> pc[u] = "drop"
              /\ pc'[u] = "cleared" <=> pc[u] = "cleared"
              /\ pc'[u] \in Dropped <=> pc[u] \in Dropped
BY DEF Moved, Dropped, Waits, Woken

\* A step that is no part of a drop and leaves the slots alone.
LEMMA SlotsUntouched ==
  ASSUME SlotInv, NEW t \in Threads, NEW p, Moved(t, p), slots' = slots,
         pc[t] \notin Dropped, p \notin Dropped,
         \A u \in Threads \ {t} : slot'[u] = slot[u]
  PROVE  SlotInv'
<1>1. active' = active /\ free' = free /\ raced' = raced /\ Slots' = Slots
  BY DEF slots, Slots
<1>2. \A u \in Threads : pc'[u] \in Dropped => u # t /\ pc'[u] = pc[u] /\ slot'[u] = slot[u]
  BY OtherDrops DEF Dropped
<1>3. \A u \in Threads : pc[u] \in Dropped => u # t /\ pc'[u] = pc[u] /\ slot'[u] = slot[u]
  BY OtherDrops DEF Dropped
<1>4. ASSUME SlotSafe
      PROVE  SlotSafe'
  <2>1. \A i : (\E u \in Threads : pc'[u] = "cleared" /\ slot'[u] = i)
               <=> (\E u \in Threads : pc[u] = "cleared" /\ slot[u] = i)
    BY <1>2, <1>3 DEF Dropped
  <2>2. \A i \in Slots' :
          active'[i] <=> /\ i \notin Range(free')
                         /\ \A u \in Threads : ~(pc'[u] = "cleared" /\ slot'[u] = i)
    BY <1>1, <1>4, <2>1 DEF SlotSafe
  <2>3. \A u \in Threads : pc'[u] = "drop" => active'[slot'[u]]
    BY <1>1, <1>2, <1>4 DEF SlotSafe, Dropped
  <2>4. \A u \in Threads : pc'[u] = "cleared" => slot'[u] \notin Range(free')
    BY <1>1, <1>2, <1>4 DEF SlotSafe, Dropped
  <2>5. \A u, v \in Threads :
          u # v /\ pc'[u] \in Dropped /\ pc'[v] \in Dropped => slot'[u] # slot'[v]
    BY <1>2, <1>4 DEF SlotSafe
  <2> QED
    BY <1>1, <1>4, <2>2, <2>3, <2>4, <2>5 DEF SlotSafe
<1> QED
  BY <1>1, <1>4 DEF SlotInv

\* A drop begins: of an active slot, which no other drop has.
LEMMA DropSlots ==
  ASSUME AutoInv, SlotInv, NEW t \in Threads, NEW num \in Slots, Drop(t, num)
  PROVE  SlotInv'
<1>1. /\ pc[t] = "idle" /\ active[num] /\ raced = {}
      /\ active' = active /\ free' = free /\ Slots' = Slots
      /\ raced' = IF Dropping(num) # {} THEN raced \cup {num} ELSE raced
      /\ slot' = [slot EXCEPT ![t] = num] /\ pc' = [pc EXCEPT ![t] = "drop"]
  BY DEF Drop, Begins, Pins, Slots
<1>2. Moved(t, "drop") /\ slot'[t] = num /\ \A u \in Threads \ {t} : slot'[u] = slot[u]
  BY <1>1, MovedBy DEF AutoInv, TypeOK, Places
<1>3. /\ pc'[t] = "drop"
      /\ \A u \in Threads \ {t} :
           /\ slot'[u] = slot[u]
           /\ pc'[u] = "drop" <=> pc[u] = "drop"
           /\ pc'[u] = "cleared" <=> pc[u] = "cleared"
           /\ pc'[u] \in Dropped <=> pc[u] \in Dropped
  BY <1>2, OtherDrops
<1>4. SlotSafe
  BY <1>1 DEF SlotInv
<1>5. ASSUME raced' = {}
      PROVE  \A u \in Threads : pc[u] \in Dropped => slot[u] # num
  <2>1. Dropping(num) = {}
    BY <1>1, <1>5
  <2>2. \A u \in Threads : pc[u] = "drop" => slot[u] # num
    BY <2>1 DEF Dropping
  <2>3. \A u \in Threads : pc[u] = "cleared" => slot[u] # num
    BY <1>1, <1>4 DEF SlotSafe
  <2> QED
    BY <2>2, <2>3 DEF Dropped
<1>6. ASSUME raced' = {}
      PROVE  SlotSafe'
  <2>1. \A i : (\E u \in Threads : pc'[u] = "cleared" /\ slot'[u] = i)
               <=> (\E u \in Threads : pc[u] = "cleared" /\ slot[u] = i)
    BY <1>1, <1>3
  <2>2. \A i \in Slots' :
          active'[i] <=> /\ i \notin Range(free')
                         /\ \A u \in Threads : ~(pc'[u] = "cleared" /\ slot'[u] = i)
    BY <1>1, <1>4, <2>1 DEF SlotSafe
  <2>3. \A u \in Threads : pc'[u] = "drop" => active'[slot'[u]]
    BY <1>1, <1>2, <1>3, <1>4 DEF SlotSafe
  <2>4. \A u \in Threads : pc'[u] = "cleared" => slot'[u] \notin Range(free')
    BY <1>1, <1>3, <1>4 DEF SlotSafe
  <2>5. \A u, v \in Threads :
          u # v /\ pc'[u] \in Dropped /\ pc'[v] \in Dropped => slot'[u] # slot'[v]
    BY <1>2, <1>3, <1>4, <1>5, <1>6 DEF SlotSafe
  <2> QED
    BY <1>1, <1>4, <2>2, <2>3, <2>4, <2>5 DEF SlotSafe
<1> QED
  BY <1>6 DEF SlotInv

\* The slot of a drop is not active any more, and not on the stack yet.
LEMMA DropClearSlots ==
  ASSUME AutoInv, SlotInv, NEW t \in Threads, DropClear(t)
  PROVE  SlotInv'
<1>1. /\ pc[t] = "drop" /\ pc' = [pc EXCEPT ![t] = "cleared"]
      /\ active' = [active EXCEPT ![slot[t]] = FALSE]
      /\ free' = free /\ raced' = raced /\ slot' = slot
  BY DEF DropClear, pinned
<1>2. Moved(t, "cleared") /\ slot[t] \in Slots /\ active \in [Slots -> BOOLEAN]
      /\ Slots' = Slots
  BY <1>1, MovedBy, DropClearInv DEF AutoInv, TypeOK, Places
<1>3. /\ pc'[t] = "cleared"
      /\ \A u \in Threads \ {t} :
           /\ slot'[u] = slot[u]
           /\ pc'[u] = "drop" <=> pc[u] = "drop"
           /\ pc'[u] = "cleared" <=> pc[u] = "cleared"
           /\ pc'[u] \in Dropped <=> pc[u] \in Dropped
  BY <1>1, <1>2, OtherDrops
<1>4. \A i \in Slots : active'[i] = IF i = slot[t] THEN FALSE ELSE active[i]
  BY <1>1, <1>2
<1>5. ASSUME SlotSafe
      PROVE  SlotSafe'
  <2>1. active[slot[t]] /\ slot[t] \notin Range(free)
    BY <1>1, <1>2, <1>5 DEF SlotSafe
  <2>2. \A i \in Slots' :
          active'[i] <=> /\ i \notin Range(free')
                         /\ \A u \in Threads : ~(pc'[u] = "cleared" /\ slot'[u] = i)
    <3>1. ASSUME NEW i \in Slots, i # slot[t]
          PROVE  (\E u \in Threads : pc'[u] = "cleared" /\ slot'[u] = i)
                 <=> (\E u \in Threads : pc[u] = "cleared" /\ slot[u] = i)
      BY <1>1, <1>3, <3>1
    <3>2. ASSUME NEW i \in Slots, i # slot[t]
          PROVE  active'[i] <=> /\ i \notin Range(free')
                                /\ \A u \in Threads : ~(pc'[u] = "cleared" /\ slot'[u] = i)
      BY <1>1, <1>4, <1>5, <3>1, <3>2 DEF SlotSafe
    <3>3. ~active'[slot[t]] /\ pc'[t] = "cleared" /\ slot'[t] = slot[t]
      BY <1>1, <1>2, <1>3, <1>4
    <3> QED
      BY <1>2, <3>2, <3>3
  <2>3. \A u \in Threads : pc'[u] = "drop" => active'[slot'[u]]
    <3>1. ASSUME NEW u \in Threads, pc'[u] = "drop"
          PROVE  active'[slot'[u]]
      <4>1. u # t /\ pc[u] = "drop" /\ slot'[u] = slot[u]
        BY <1>3, <3>1
      <4>2. active[slot[u]] /\ slot[u] # slot[t] /\ slot[u] \in Slots
        BY <1>1, <1>5, <4>1 DEF SlotSafe, Dropped, AutoInv, TypeOK
      <4> QED
        BY <1>4, <4>1, <4>2
    <3> QED
      BY <3>1
  <2>4. \A u \in Threads : pc'[u] = "cleared" => slot'[u] \notin Range(free')
    BY <1>1, <1>3, <1>5, <2>1 DEF SlotSafe
  <2>5. \A u, v \in Threads :
          u # v /\ pc'[u] \in Dropped /\ pc'[v] \in Dropped => slot'[u] # slot'[v]
    <3>1. \A u \in Threads : slot'[u] = slot[u] /\ (pc'[u] \in Dropped <=> pc[u] \in Dropped)
      BY <1>1, <1>3 DEF Dropped
    <3> QED
      BY <1>5, <3>1 DEF SlotSafe
  <2> QED
    BY <1>1, <1>5, <2>2, <2>3, <2>4, <2>5 DEF SlotSafe
<1> QED
  BY <1>1, <1>5 DEF SlotInv

\* The slot of a drop goes onto the stack, once.
LEMMA DropPushSlots ==
  ASSUME AutoInv, SlotInv, NEW t \in Threads, DropPush(t)
  PROVE  SlotInv'
<1>1. /\ pc[t] = "cleared" /\ pc' = [pc EXCEPT ![t] = "pushed"]
      /\ free' = Append(free, slot[t])
      /\ active' = active /\ raced' = raced /\ slot' = slot
  BY DEF DropPush, pinned
<1>2. Moved(t, "pushed") /\ slot[t] \in Slots /\ free \in Seq(Slots) /\ Slots' = Slots
  BY <1>1, MovedBy, DropPushInv DEF AutoInv, TypeOK, Places
<1>3. /\ pc'[t] = "pushed"
      /\ \A u \in Threads \ {t} :
           /\ slot'[u] = slot[u]
           /\ pc'[u] = "drop" <=> pc[u] = "drop"
           /\ pc'[u] = "cleared" <=> pc[u] = "cleared"
           /\ pc'[u] \in Dropped <=> pc[u] \in Dropped
  BY <1>1, <1>2, OtherDrops
<1>4. /\ Range(free') = Range(free) \cup {slot[t]}
      /\ IsInjective(free) /\ slot[t] \notin Range(free) => IsInjective(free')
  <2>1. /\ Range(Append(free, slot[t])) = Range(free) \cup {slot[t]}
        /\ IsInjective(free) /\ slot[t] \notin Range(free) => IsInjective(Append(free, slot[t]))
    <3>1. PICK x : x = slot[t]
      OBVIOUS
    <3>2. free \in Seq(Slots) /\ x \in Slots
      BY <1>2, <3>1
    <3>3. /\ Range(Append(free, x)) = Range(free) \cup {x}
          /\ IsInjective(free) /\ x \notin Range(free) => IsInjective(Append(free, x))
      BY <3>2, AppendFacts, ZenonT(30)
    <3> QED
      BY <3>1, <3>3
  <2> QED
    BY <1>1, <2>1
<1>5. ASSUME SlotSafe
      PROVE  SlotSafe'
  <2>1. IsInjective(free')
    BY <1>1, <1>4, <1>5 DEF SlotSafe
  <2>2. \A u \in Threads : u # t /\ pc[u] \in Dropped => slot[u] # slot[t]
    BY <1>1, <1>5 DEF SlotSafe, Dropped
  <2>3. \A i \in Slots' :
          active'[i] <=> /\ i \notin Range(free')
                         /\ \A u \in Threads : ~(pc'[u] = "cleared" /\ slot'[u] = i)
    <3>1. ASSUME NEW i \in Slots, i # slot[t]
          PROVE  active'[i] <=> /\ i \notin Range(free')
                                /\ \A u \in Threads : ~(pc'[u] = "cleared" /\ slot'[u] = i)
      <4>1. (\E u \in Threads : pc'[u] = "cleared" /\ slot'[u] = i)
            <=> (\E u \in Threads : pc[u] = "cleared" /\ slot[u] = i)
        BY <1>1, <1>3, <3>1
      <4> QED
        BY <1>1, <1>4, <1>5, <3>1, <4>1 DEF SlotSafe
    <3>2. ~active'[slot[t]] /\ slot[t] \in Range(free')
      BY <1>1, <1>2, <1>4, <1>5 DEF SlotSafe
    <3> QED
      BY <1>2, <3>1, <3>2
  <2>4. \A u \in Threads : pc'[u] = "drop" => active'[slot'[u]]
    BY <1>1, <1>3, <1>5 DEF SlotSafe
  <2>5. \A u \in Threads : pc'[u] = "cleared" => slot'[u] \notin Range(free')
    BY <1>1, <1>3, <1>4, <1>5, <2>2 DEF SlotSafe, Dropped
  <2>6. \A u, v \in Threads :
          u # v /\ pc'[u] \in Dropped /\ pc'[v] \in Dropped => slot'[u] # slot'[v]
    BY <1>1, <1>3, <1>5 DEF SlotSafe, Dropped
  <2> QED
    BY <2>1, <2>3, <2>4, <2>5, <2>6 DEF SlotSafe
<1> QED
  BY <1>1, <1>5 DEF SlotInv

\* The last slot of the stack becomes active.
LEMMA CreatePopSlots ==
  ASSUME AutoInv, SlotInv, NEW t \in Threads, CreatePop(t)
  PROVE  SlotInv'
<1>1. /\ pc[t] = "idle" /\ free # <<>>
      /\ active' = [active EXCEPT ![Last(free)] = TRUE] /\ free' = Front(free)
      /\ pc' = Broadcast(t, "idle") /\ raced' = raced /\ slot' = slot
  BY DEF CreatePop, Begins, pinned
<1>2. /\ Moved(t, "idle") /\ free \in Seq(Slots) /\ active \in [Slots -> BOOLEAN]
      /\ Slots' = Slots /\ slot \in [Threads -> Slots]
  BY <1>1, BroadcastTo, CreatePopInv DEF AutoInv, TypeOK, Places
<1>3. \A u \in Threads :
        /\ slot'[u] = slot[u]
        /\ pc'[u] = "drop" <=> pc[u] = "drop"
        /\ pc'[u] = "cleared" <=> pc[u] = "cleared"
        /\ pc'[u] \in Dropped <=> pc[u] \in Dropped
  BY <1>1, <1>2, OtherDrops DEF Dropped
<1>4. PICK l : l = Last(free)
  OBVIOUS
<1>5. /\ l \in Slots /\ l \in Range(free) /\ Range(free') \subseteq Range(free)
      /\ \A x \in Range(free) : x \in Range(free') \/ x = l
      /\ IsInjective(free) => IsInjective(free') /\ l \notin Range(free')
  <2>1. /\ Last(free) \in Slots /\ Last(free) \in Range(free)
        /\ Range(Front(free)) \subseteq Range(free)
        /\ \A x \in Range(free) : x \in Range(Front(free)) \/ x = Last(free)
        /\ IsInjective(free) =>
             IsInjective(Front(free)) /\ Last(free) \notin Range(Front(free))
    BY <1>1, <1>2, FrontFacts, Zenon
  <2> QED
    BY <1>1, <1>4, <2>1
<1>6. \A i \in Slots : active'[i] = IF i = l THEN TRUE ELSE active[i]
  BY <1>1, <1>2, <1>4
<1>7. ASSUME SlotSafe
      PROVE  SlotSafe'
  <2>1. /\ IsInjective(free') /\ l \notin Range(free')
        /\ \A u \in Threads : ~(pc[u] = "cleared" /\ slot[u] = l)
    BY <1>5, <1>7 DEF SlotSafe
  <2>2. ASSUME NEW i \in Slots
        PROVE  active'[i] <=> /\ i \notin Range(free')
                              /\ \A u \in Threads : ~(pc'[u] = "cleared" /\ slot'[u] = i)
    <3>1. CASE i = l
      BY <1>3, <1>6, <2>1, <3>1
    <3>2. CASE i # l
      <4>1. i \in Range(free') <=> i \in Range(free)
        BY <1>5, <3>2
      <4>2. active'[i] = active[i]
        BY <1>6, <3>2
      <4>3. (\E u \in Threads : pc'[u] = "cleared" /\ slot'[u] = i)
            <=> (\E u \in Threads : pc[u] = "cleared" /\ slot[u] = i)
        BY <1>3
      <4>4. active[i] <=> /\ i \notin Range(free)
                          /\ \A u \in Threads : ~(pc[u] = "cleared" /\ slot[u] = i)
        BY <1>7 DEF SlotSafe
      <4> QED
        BY <4>1, <4>2, <4>3, <4>4
    <3> QED
      BY <3>1, <3>2
  <2>3. \A u \in Threads : pc'[u] = "drop" => active'[slot'[u]]
    BY <1>2, <1>3, <1>6, <1>7 DEF SlotSafe
  <2>4. \A u \in Threads : pc'[u] = "cleared" => slot'[u] \notin Range(free')
    BY <1>3, <1>5, <1>7 DEF SlotSafe
  <2>5. \A u, v \in Threads :
          u # v /\ pc'[u] \in Dropped /\ pc'[v] \in Dropped => slot'[u] # slot'[v]
    BY <1>3, <1>7 DEF SlotSafe
  <2> QED
    BY <1>2, <2>1, <2>2, <2>3, <2>4, <2>5 DEF SlotSafe
<1> QED
  BY <1>1, <1>7 DEF SlotInv

\* The index grows, with no drop on its way: the first new slot is active,
\* the others are on the stack, which was empty.
LEMMA CreateGrowSlots ==
  ASSUME AutoInv, SlotInv, NEW t \in Threads, CreateGrow(t)
  PROVE  SlotInv'
<1>1. /\ pc[t] = "idle" /\ free = <<>> /\ use = 0 /\ pc' = Broadcast(t, "idle")
      /\ raced' = raced /\ slot' = slot
  BY DEF CreateGrow, CreateFull, Begins, SetsizeDone, pinned
<1>2. Moved(t, "idle")
  BY <1>1, BroadcastTo DEF AutoInv, Places
<1>3. \A u \in Threads : pc[u] \notin Dropped
  BY <1>1, NobodyHolds DEF AutoInv, PlacesOK, Pinning, Dropped
<1>4. \A u \in Threads : pc'[u] \notin Dropped
  BY <1>1, <1>2, <1>3, OtherDrops DEF Dropped
<1>5. /\ Size \notin Slots /\ Slots \subseteq Slots'
      /\ \A i \in Slots : active'[i] = active[i]
      /\ \A i \in Slots' \ Slots : active'[i] = (i = Size)
      /\ IsInjective(free') /\ Range(free') = (Slots' \ Slots) \ {Size}
  BY GrownSlots DEF AutoInv
<1>6. Range(free) = {}
  BY <1>1 DEF Range
<1>7. ASSUME SlotSafe
      PROVE  SlotSafe'
  <2>1. \A i \in Slots : active[i]
    BY <1>3, <1>6, <1>7 DEF SlotSafe, Dropped
  <2>2. \A i \in Slots' : active'[i] <=> i \notin Range(free')
    BY <1>5, <2>1
  <2> QED
    BY <1>4, <1>5, <2>2 DEF SlotSafe, Dropped
<1> QED
  BY <1>1, <1>7 DEF SlotInv

\* What each thread does in a call that is no drop and no create.
LEMMA OtherSlots ==
  ASSUME AutoInv, SlotInv, NEW t \in Threads,
         \/ GetfdLend(t) \/ GetfdOpen(t) \/ GetfdWait(t) \/ Relfd(t)
         \/ (\E num \in Slots : Get(t, num)) \/ Done(t)
         \/ SetsizeUnmap(t) \/ Setsize(t) \/ CreateHang(t)
         \/ CloseWait(t) \/ CloseDone(t) \/ Spurious(t)
  PROVE  SlotInv'
<1>1. CASE \/ GetfdLend(t) \/ GetfdOpen(t) \/ GetfdWait(t) \/ SetsizeUnmap(t)
           \/ CreateHang(t) \/ CloseWait(t) \/ CloseDone(t) \/ Spurious(t)
  <2>1. /\ pc[t] \notin Dropped /\ slots' = slots /\ slot' = slot
        /\ \E p \in Places \ Dropped : pc' = [pc EXCEPT ![t] = p]
    <3>1. CASE \/ GetfdLend(t) \/ GetfdOpen(t) \/ GetfdWait(t)
      BY <3>1 DEF GetfdLend, GetfdOpen, GetfdWait, Getting, Begins, pinned, Places, Dropped
    <3>2. CASE SetsizeUnmap(t)
      BY <3>2 DEF SetsizeUnmap, Begins, pinned, Places, Dropped
    <3>3. CASE CreateHang(t)
      BY <3>3 DEF CreateHang, CreateFull, SetsizeHang, Begins, pinned, Places, Dropped
    <3>4. CASE CloseWait(t) \/ CloseDone(t)
      BY <3>4 DEF CloseWait, CloseDone, CloseBegin, pinned, Places, Dropped
    <3>5. CASE Spurious(t)
      <4>1. /\ pc[t] \in {"getfd", "closefds"} /\ slots' = slots /\ slot' = slot
            /\ pc' = [pc EXCEPT ![t] = IF @ = "getfd" THEN "getfdWoken" ELSE "closefdsWoken"]
        BY <3>5 DEF Spurious, pinned
      <4>2. pc' = [pc EXCEPT ![t] = IF pc[t] = "getfd" THEN "getfdWoken" ELSE "closefdsWoken"]
        BY <4>1
      <4>3. (IF pc[t] = "getfd" THEN "getfdWoken" ELSE "closefdsWoken") \in Places \ Dropped
        BY DEF Places, Dropped
      <4> QED
        BY <4>1, <4>2, <4>3 DEF Dropped
    <3> QED
      BY <1>1, <3>1, <3>2, <3>3, <3>4, <3>5
  <2>2. PICK p \in Places \ Dropped : pc' = [pc EXCEPT ![t] = p]
    BY <2>1
  <2>3. Moved(t, p)
    BY <2>2, MovedBy DEF AutoInv
  <2> QED
    BY <2>1, <2>2, <2>3, SlotsUntouched
<1>2. CASE Relfd(t)
  <2>1. pc[t] = "io" /\ slots' = slots /\ slot' = slot /\ pc' = Broadcast(t, "idle")
    BY <1>2 DEF Relfd, pinned
  <2>2. Moved(t, "idle")
    BY <2>1, BroadcastTo DEF AutoInv, Places
  <2> QED
    BY <2>1, <2>2, SlotsUntouched DEF Dropped
<1>3. CASE \E num \in Slots : Get(t, num)
  <2>1. PICK num \in Slots : Get(t, num)
    BY <1>3
  <2>2. /\ pc[t] = "idle" /\ slots' = slots /\ slot' = [slot EXCEPT ![t] = num]
        /\ pc' = [pc EXCEPT ![t] = "pinned"]
    BY <2>1 DEF Get, Begins, Pins
  <2>3. Moved(t, "pinned") /\ \A u \in Threads \ {t} : slot'[u] = slot[u]
    BY <2>2, MovedBy DEF AutoInv, TypeOK, Places
  <2> QED
    BY <2>2, <2>3, SlotsUntouched DEF Dropped
<1>4. CASE Done(t)
  <2>1. /\ pc[t] \in {"pinned", "pushed"} /\ slots' = slots
        /\ slot' = [slot EXCEPT ![t] = 0] /\ pc' = Broadcast(t, "idle")
    BY <1>4 DEF Done, Unpins
  <2>2. Moved(t, "idle") /\ \A u \in Threads \ {t} : slot'[u] = slot[u]
    BY <2>1, BroadcastTo DEF AutoInv, TypeOK, Places
  <2> QED
    BY <2>1, <2>2, SlotsUntouched DEF Dropped
<1>5. CASE Setsize(t)
  <2>1. /\ pc[t] = "setsize" /\ slots' = slots /\ slot' = slot
        /\ pc' = Broadcast(t, "idle") \/ pc' = [pc EXCEPT ![t] = "hung"]
    BY <1>5 DEF Setsize, SetsizeDone, SetsizeHang, pinned
  <2>2. \E p \in {"idle", "hung"} : Moved(t, p)
    BY <2>1, BroadcastTo, MovedBy DEF AutoInv, Places
  <2> QED
    BY <2>1, <2>2, SlotsUntouched DEF Dropped
<1> QED
  BY <1>1, <1>2, <1>3, <1>4, <1>5

\* A fault ends the process before a drop has cleared its slot.
LEMMA FaultSlots ==
  ASSUME AutoInv, SlotInv, NEW t \in Threads, Fault(t)
  PROVE  SlotInv'
<1>1. /\ pc[t] \in {"pinned", "drop"} /\ pc' = [pc EXCEPT ![t] = "killed"]
      /\ active' = active /\ free' = free /\ raced' = raced /\ slot' = slot
      /\ Slots' = Slots
  BY DEF Fault, slots, pinned, Slots
<1>2. \A u \in Threads :
        /\ pc'[u] = "cleared" <=> pc[u] = "cleared"
        /\ pc'[u] = "drop" => pc[u] = "drop"
        /\ pc'[u] \in Dropped => pc[u] \in Dropped
  BY <1>1 DEF AutoInv, TypeOK, Dropped
<1>3. SlotSafe => SlotSafe'
  BY <1>1, <1>2 DEF SlotSafe
<1> QED
  BY <1>1, <1>3 DEF SlotInv

\* At first each slot is active or on the stack.
LEMMA InitSlots == Init => SlotInv
<1> SUFFICES ASSUME Init PROVE SlotSafe
  BY DEF SlotInv
<1>1. /\ active \in [{0} -> BOOLEAN] /\ free = (IF active[0] THEN <<>> ELSE <<0>>)
      /\ pc = [t \in Threads |-> "idle"]
  BY DEF Init
<1>2. Slots = {0} /\ \A t \in Threads : pc[t] \notin Dropped
  BY <1>1 DEF Slots, Dropped
<1>3. IsInjective(free) /\ Range(free) = (IF active[0] THEN {} ELSE {0})
  <2>1. CASE active[0]
    BY <1>1, <2>1 DEF IsInjective, Range
  <2>2. CASE ~ active[0]
    BY <1>1, <2>2 DEF IsInjective, Range
  <2> QED
    BY <2>1, <2>2
<1> QED
  BY <1>1, <1>2, <1>3 DEF SlotSafe, Dropped

\* Every step of every thread keeps SlotInv.
LEMMA NextSlots == AutoInv /\ SlotInv /\ [Next]_vars => SlotInv'
<1> SUFFICES ASSUME AutoInv, SlotInv, [Next]_vars PROVE SlotInv'
  OBVIOUS
<1>1. CASE UNCHANGED vars
  <2>1. active' = active /\ free' = free /\ raced' = raced /\ pc' = pc /\ slot' = slot
    BY <1>1 DEF vars, slots, pinned
  <2> QED
    BY <2>1 DEF SlotInv, SlotSafe, Slots
<1>2. CASE Next
  <2>1. PICK t \in Threads : Begin(t) \/ Continues(t) \/ Spurious(t) \/ Fault(t)
    BY <1>2 DEF Next
  <2>2. CASE Begin(t)
    BY <2>2, OtherSlots, DropSlots, CreatePopSlots, CreateGrowSlots DEF Begin
  <2>3. CASE Continues(t)
    BY <2>3, OtherSlots, DropClearSlots, DropPushSlots, FaultSlots DEF Continues
  <2>4. CASE Spurious(t) \/ Fault(t)
    BY <2>4, OtherSlots, FaultSlots
  <2> QED
    BY <2>1, <2>2, <2>3, <2>4
<1> QED
  BY <1>1, <1>2

-----------------------------------------------------------------------------
(* The properties. *)

\* Every variable of AutoFile, IndexFile and DataFile keeps its type.
THEOREM AlwaysTyped == Spec => []TypeOK
BY AlwaysAuto, PTL DEF AutoInv

\* However many threads take and give back descriptors and pins in whatever
\* order, AutoFile::use is the number of those that hold one: closefds waits
\* for exactly them.
THEOREM AlwaysUseExact == Spec => []UseExact
BY AlwaysAuto, PTL DEF AutoInv

\* getfd never lends a descriptor to two threads, and never one that is in
\* the list.
THEOREM AlwaysFdOwned == Spec => []FdOwned
BY AlwaysAuto, PTL DEF AutoInv

\* While the mutex can be had, a record of IndexFile::get that done was not
\* called for points into the mapping of the file: setsize and the destructor
\* take it away only once use is 0.
THEOREM AlwaysPinValid == Spec => []PinValid
BY AlwaysAuto, PTL DEF AutoInv

\* Who waits in getfd or in the destructor is waiting for a thread that holds
\* something, and that wakes it when it gives it back.
THEOREM AlwaysNoLostWakeup == Spec => []NoLostWakeup
BY AlwaysAuto, PTL DEF AutoInv

\* As long as no two threads drop one slot at once, each slot of the index is
\* active, or free once, or between the two steps of one drop.
THEOREM AlwaysSlotsOnce == Spec => []SlotsOnce
<1>1. Spec => []SlotInv
  BY AlwaysAuto, InitSlots, NextSlots, PTL DEF Spec
<1>2. SlotInv => SlotsOnce
  BY DEF SlotInv, SlotSafe, SlotsOnce
<1> QED
  BY <1>1, <1>2, PTL
=============================================================================
