------------------------------ MODULE AutoFile ------------------------------
(***************************************************************************)
(* lib/store.cc: the classes AutoFile, IndexFile and DataFile as monitors  *)
(* that several threads use: descriptors lent and given back, records      *)
(* pinned and given back, slots created and dropped, the file grown and    *)
(* closed.  The behaviours of the two kinds of file are in one module: the *)
(* index file has pins and slots, the data file descriptors that load and  *)
(* save use.                                                               *)
(*                                                                         *)
(* The mutex of Safe is recursive.  It is held from acquire to release, so *)
(* a stretch between those is one action, and one that starts outside it   *)
(* (the munmap of DataFile::find, the store to active of IndexFile::drop)  *)
(* is an action of its own.  pthread_cond_wait gives up ONE level of the   *)
(* mutex: a wait inside a nested acquire keeps it, and a thread in such a  *)
(* wait is "hung".                                                         *)
(* An operator that only a comment's word sets apart from the one after it *)
(* (LentKept and Lent) is that operator with a mistake.                    *)
(***************************************************************************)
EXTENDS Integers, Sequences, SequencesExt, FiniteSets, FiniteSetsExt

CONSTANTS
  Threads,   \* threads that use the file
  Grower,    \* the thread that grows the data file: DataFile::find has no lock
  Limits,    \* how many descriptors of the file the system may allow
  INDEXGROWTH,  \* slots added when the index is full
  MaxSlots,  \* bound: most slots of the index file
  MaxMaps    \* bound: most times the file is mapped

ASSUME ThreadsAssumption == Grower \in Threads /\ IsFiniteSet(Threads)
ASSUME LimitsAssumption == Limits \subseteq Nat \ {0}
ASSUME GrowthAssumption == INDEXGROWTH \in Nat \ {0}
ASSUME FileBounds == MaxSlots \in Nat \ {0} /\ MaxMaps \in Nat \ {0}

VARIABLES
  file,    \* which of the two files it is
  limit,   \* how many descriptors of it may be open
  fds,     \* AutoFile::fds, a stack
  use,     \* AutoFile::use
  map,     \* AutoFile::map: the number of the mapping, 0 for NULL
  maps,    \* how many mappings there have been
  active,  \* the active flag of each slot
  free,    \* IndexFile::free, a stack
  pc,      \* where each thread is
  fd,      \* the descriptor a thread was lent, or 0
  pin,     \* the mapping a thread's record pointer points into, or 0
  slot,    \* the slot a thread has pinned
  raced    \* ghost: slots that two threads were dropping at once

lent == <<fds, fd>>
pinned == <<pin, slot>>
slots == <<active, free, raced>>
fixed == <<file, limit>>
vars == <<fixed, lent, use, map, maps, slots, pc, pinned>>

\* In no call; between getfd and relfd; waiting in getfd, and woken; between
\* get and done; in drop: after the get, after the store, after the push; in
\* setsize after the munmap; in the destructor, waiting, and woken; waiting
\* with the mutex held; after the destructor; where SIGSEGV ended the process.
Places == {"idle", "io", "getfd", "getfdWoken", "pinned", "drop", "cleared", "pushed",
           "setsize", "closefds", "closefdsWoken", "hung", "gone", "killed"}

Holders == {t \in Threads : fd[t] # 0 \/ pin[t] # 0}
Dropping(num) == {t \in Threads : pc[t] = "drop" /\ slot[t] = num}
Slots == DOMAIN active
Size == Cardinality(Slots)
Open == Range(fds) \cup ({fd[t] : t \in Threads} \ {0})

\* The mutex can be had: no thread waits with it held, and the process runs.
Mutex == \A t \in Threads : pc[t] \notin {"hung", "killed"}
Closing == \E t \in Threads : pc[t] \in {"closefds", "closefdsWoken", "gone"}

\* A thread begins a call: the file is not being destroyed.
Begins(t, kind) == pc[t] = "idle" /\ file = kind /\ ~Closing

\* Safe::broadcast, with thread t gone on to p.
BroadcastNone(t, p) == [pc EXCEPT ![t] = p]
Broadcast(t, p) ==
  [u \in Threads |-> CASE u = t -> p
                       [] u # t /\ pc[u] = "getfd" -> "getfdWoken"
                       [] u # t /\ pc[u] = "closefds" -> "closefdsWoken"
                       [] OTHER -> pc[u]]

\* The constructor has run: one descriptor was opened, lent twice and is in
\* the list; the file is mapped; the slots that are not active are free.
Init ==
  /\ file \in {"index", "data"} /\ limit \in Limits
  /\ fds = <<1>> /\ use = 0
  /\ map = 1 /\ maps = 1
  /\ active \in [{0} -> BOOLEAN]
  /\ free = IF active[0] THEN <<>> ELSE <<0>>
  /\ pc = [t \in Threads |-> "idle"]
  /\ fd = [t \in Threads |-> 0]
  /\ pin = [t \in Threads |-> 0]
  /\ slot = [t \in Threads |-> 0]
  /\ raced = {}

-----------------------------------------------------------------------------
(* AutoFile::getfd and relfd, around the reads and writes of               *)
(* DataFile::load and save.                                                *)

\* The loop of getfd, from its beginning or from the wait on.
Getting(t) == Mutex /\ (Begins(t, "data") \/ pc[t] = "getfdWoken")

\* The list after its last descriptor is lent.
LentKept == fds
Lent == Front(fds)

GetfdLend(t) ==
  /\ Getting(t) /\ fds # <<>>
  /\ fd' = [fd EXCEPT ![t] = Last(fds)]
  /\ fds' = Lent
  /\ use' = use + 1
  /\ pc' = [pc EXCEPT ![t] = "io"]
  /\ UNCHANGED <<fixed, map, maps, slots, pinned>>

\* open gives the lowest number that is not open.
GetfdOpenUnchecked(t) ==
  /\ Getting(t) /\ fds = <<>>
  /\ fd' = [fd EXCEPT ![t] = IF Cardinality(Open) < limit THEN Min((1 .. limit) \ Open) ELSE -1]
  /\ use' = use + 1
  /\ pc' = [pc EXCEPT ![t] = "io"]
  /\ UNCHANGED <<fixed, fds, map, maps, slots, pinned>>
GetfdOpen(t) ==
  /\ Getting(t) /\ fds = <<>> /\ Cardinality(Open) < limit
  /\ fd' = [fd EXCEPT ![t] = Min((1 .. limit) \ Open)]
  /\ use' = use + 1
  /\ pc' = [pc EXCEPT ![t] = "io"]
  /\ UNCHANGED <<fixed, fds, map, maps, slots, pinned>>

\* open fails.
GetfdWait(t) ==
  /\ Getting(t) /\ fds = <<>> /\ Cardinality(Open) >= limit
  /\ pc' = [pc EXCEPT ![t] = "getfd"]
  /\ UNCHANGED <<fixed, lent, use, map, maps, slots, pinned>>

Relfd(t) ==
  /\ Mutex /\ pc[t] = "io"
  /\ use' = use - 1
  /\ fds' = Append(fds, fd[t])
  /\ fd' = [fd EXCEPT ![t] = 0]
  /\ pc' = Broadcast(t, "idle")
  /\ UNCHANGED <<fixed, map, maps, slots, pinned>>

-----------------------------------------------------------------------------
(* IndexFile::get and done.  The record is read and written between them,  *)
(* without the mutex.                                                      *)

Pins(t, num) ==
  /\ use' = use + 1
  /\ pin' = [pin EXCEPT ![t] = map]
  /\ slot' = [slot EXCEPT ![t] = num]

UnpinsNot(t) ==
  /\ use' = use
  /\ pin' = [pin EXCEPT ![t] = 0]
  /\ slot' = [slot EXCEPT ![t] = 0]
Unpins(t) ==
  /\ use' = use - 1
  /\ pin' = [pin EXCEPT ![t] = 0]
  /\ slot' = [slot EXCEPT ![t] = 0]

\* get(num, true), and get(num, false) of an active slot; of another one
\* get(num, false) is NULL and changes nothing.
Get(t, num) ==
  /\ Mutex /\ Begins(t, "index")
  /\ Pins(t, num)
  /\ pc' = [pc EXCEPT ![t] = "pinned"]
  /\ UNCHANGED <<fixed, lent, map, maps, slots>>

Done(t) ==
  /\ Mutex /\ pc[t] \in {"pinned", "pushed"}
  /\ Unpins(t)
  /\ pc' = Broadcast(t, "idle")
  /\ UNCHANGED <<fixed, lent, map, maps, slots>>

-----------------------------------------------------------------------------
(* IndexFile::drop: the record is looked at, cleared and pushed in three   *)
(* steps.                                                                  *)

\* (Bound: one race.)
Drop(t, num) ==
  /\ Mutex /\ Begins(t, "index") /\ active[num]
  /\ raced = {}
  /\ Pins(t, num)
  /\ raced' = IF Dropping(num) # {} THEN raced \cup {num} ELSE raced
  /\ pc' = [pc EXCEPT ![t] = "drop"]
  /\ UNCHANGED <<fixed, lent, map, maps, active, free>>

DropClear(t) ==
  /\ pc[t] = "drop" /\ pin[t] = map
  /\ active' = [active EXCEPT ![slot[t]] = FALSE]
  /\ pc' = [pc EXCEPT ![t] = "cleared"]
  /\ UNCHANGED <<fixed, lent, use, map, maps, free, raced, pinned>>

DropPush(t) ==
  /\ Mutex /\ pc[t] = "cleared"
  /\ free' = Append(free, slot[t])
  /\ pc' = [pc EXCEPT ![t] = "pushed"]
  /\ UNCHANGED <<fixed, lent, use, map, maps, active, raced, pinned>>

\* The record is read or written, here and by those who call get, through a
\* pointer into a mapping that is gone: SIGSEGV ends the process, and every
\* thread stops where it is.
Fault(t) ==
  /\ pc[t] \in {"pinned", "drop"} /\ pin[t] # map
  /\ \A u \in Threads : pc[u] # "killed"
  /\ pc' = [pc EXCEPT ![t] = "killed"]
  /\ UNCHANGED <<fixed, lent, use, map, maps, slots, pinned>>

-----------------------------------------------------------------------------
(* AutoFile::setsize, from DataFile::find with the mutex free, and from    *)
(* IndexFile::create with the mutex held.  It takes the map away, waits in *)
(* closefds for the pins and the descriptors, and needs two descriptors:   *)
(* its own and that of remap.                                              *)

\* closefds closes all; setsize and remap open one each; they are given back
\* in the other order.
SetsizeDoneAnyway(t) ==
  /\ limit >= 2
  /\ fds' = <<2, 1>>
  /\ map' = maps + 1 /\ maps' = maps + 1
  /\ pc' = Broadcast(t, "idle")
  /\ UNCHANGED <<use, fd>>
SetsizeDone(t) ==
  /\ use = 0 /\ limit >= 2
  /\ fds' = <<2, 1>>
  /\ map' = maps + 1 /\ maps' = maps + 1
  /\ pc' = Broadcast(t, "idle")
  /\ UNCHANGED <<use, fd>>

\* closefds waits, or remap's getfd does, for the descriptor of setsize.
SetsizeHang(t) ==
  /\ use > 0 \/ limit < 2
  /\ map' = 0
  /\ fds' = IF use = 0 THEN <<>> ELSE fds
  /\ fd' = IF use = 0 THEN [fd EXCEPT ![t] = 1] ELSE fd
  /\ use' = IF use = 0 THEN 1 ELSE use
  /\ pc' = [pc EXCEPT ![t] = "hung"]
  /\ UNCHANGED maps

SetsizeUnmap(t) ==
  /\ t = Grower /\ Begins(t, "data") /\ maps < MaxMaps
  /\ map' = 0
  /\ pc' = [pc EXCEPT ![t] = "setsize"]
  /\ UNCHANGED <<fixed, lent, use, maps, slots, pinned>>

Setsize(t) ==
  /\ Mutex /\ pc[t] = "setsize"
  /\ SetsizeDone(t) \/ SetsizeHang(t)
  /\ UNCHANGED <<fixed, slots, pinned>>

\* IndexFile::create: a free slot, or the first of the new ones.
CreateFull(t) ==
  /\ Mutex /\ Begins(t, "index") /\ free = <<>>
  /\ Size + INDEXGROWTH <= MaxSlots /\ maps < MaxMaps

\* The new slots that create leaves free.
NewSlots == [k \in 1 .. INDEXGROWTH - 1 |-> Size + k]

CreatePop(t) ==
  /\ Mutex /\ Begins(t, "index") /\ free # <<>>
  /\ active' = [active EXCEPT ![Last(free)] = TRUE]
  /\ free' = Front(free)
  /\ pc' = Broadcast(t, "idle")
  /\ UNCHANGED <<fixed, lent, use, map, maps, raced, pinned>>

CreateGrowShort(t) ==
  /\ CreateFull(t)
  /\ SetsizeDone(t)
  /\ active' = [i \in 0 .. Size + INDEXGROWTH - 1 |-> i \in Slots /\ active[i]]
  /\ free' = NewSlots
  /\ UNCHANGED <<fixed, raced, pinned>>
CreateGrow(t) ==
  /\ CreateFull(t)
  /\ SetsizeDone(t)
  /\ active' = [i \in 0 .. Size + INDEXGROWTH - 1 |-> IF i \in Slots THEN active[i] ELSE i = Size]
  /\ free' = NewSlots
  /\ UNCHANGED <<fixed, raced, pinned>>

CreateHang(t) ==
  /\ CreateFull(t)
  /\ SetsizeHang(t)
  /\ UNCHANGED <<fixed, slots, pinned>>

-----------------------------------------------------------------------------
(* AutoFile::~AutoFile: the mutex is held once, so closefds waits without  *)
(* it.  No thread is in a call, but records may still be pinned.           *)

CloseBegin(t) == pc[t] = "idle" /\ \A u \in Threads : pc[u] \in {"idle", "pinned"}

CloseWait(t) ==
  /\ Mutex /\ (CloseBegin(t) \/ pc[t] = "closefdsWoken")
  /\ use > 0
  /\ pc' = [pc EXCEPT ![t] = "closefds"]
  /\ UNCHANGED <<fixed, lent, use, map, maps, slots, pinned>>

CloseDone(t) ==
  /\ Mutex /\ (CloseBegin(t) \/ pc[t] = "closefdsWoken")
  /\ use = 0
  /\ fds' = <<>> /\ map' = 0
  /\ pc' = [pc EXCEPT ![t] = "gone"]
  /\ UNCHANGED <<fixed, fd, use, maps, slots, pinned>>

\* pthread_cond_wait may return without a signal.
Spurious(t) ==
  /\ Mutex /\ pc[t] \in {"getfd", "closefds"}
  /\ pc' = [pc EXCEPT ![t] = IF @ = "getfd" THEN "getfdWoken" ELSE "closefdsWoken"]
  /\ UNCHANGED <<fixed, lent, use, map, maps, slots, pinned>>

-----------------------------------------------------------------------------
\* What a thread does next in the call it is in.
Continues(t) ==
  /\ pc[t] # "idle"
  /\ \/ GetfdLend(t) \/ GetfdOpen(t) \/ GetfdWait(t) \/ Relfd(t)
     \/ Done(t) \/ DropClear(t) \/ DropPush(t)
     \/ pc[t] = "drop" /\ Fault(t)
     \/ Setsize(t) \/ CloseWait(t) \/ CloseDone(t)

Begin(t) ==
  /\ pc[t] = "idle"
  /\ \/ GetfdLend(t) \/ GetfdOpen(t) \/ GetfdWait(t)
     \/ \E num \in Slots : Get(t, num) \/ Drop(t, num)
     \/ SetsizeUnmap(t) \/ CreatePop(t) \/ CreateGrow(t) \/ CreateHang(t)
     \/ CloseWait(t) \/ CloseDone(t)

Next == \E t \in Threads : Begin(t) \/ Continues(t) \/ Spurious(t) \/ Fault(t)

Spec == Init /\ [][Next]_vars

\* Every thread gets to run, and gets the mutex when it stays free.  Nobody
\* need begin a call.
FairSpec == Spec /\ \A t \in Threads : WF_vars(Continues(t))

-----------------------------------------------------------------------------
\* Every variable has its type.
TypeOK ==
  /\ file \in {"index", "data"} /\ limit \in Limits
  /\ fds \in Seq(1 .. limit) /\ use \in Nat
  /\ maps \in 1 .. MaxMaps /\ map \in 0 .. maps
  /\ Size \in 1 .. MaxSlots /\ Slots = 0 .. Size - 1
  /\ active \in [Slots -> BOOLEAN] /\ free \in Seq(Slots) /\ raced \subseteq Slots
  /\ pc \in [Threads -> Places] /\ fd \in [Threads -> 0 .. limit]
  /\ pin \in [Threads -> 0 .. maps] /\ slot \in [Threads -> Slots]

\* The count use, raised by getfd and get and lowered by relfd and done in
\* any order, is the number of threads that hold a descriptor or a pin.
UseExact == use = Cardinality(Holders)

\* A descriptor is in the list or lent to one thread, never both and never to
\* two: two threads never move each other's file position.
FdOwned ==
  /\ IsInjective(fds)
  /\ \A t \in Threads : fd[t] # 0 => fd[t] \notin Range(fds)
  /\ \A t, u \in Threads : fd[t] # 0 /\ fd[t] = fd[u] => t = u

\* A record pointer from get points into the mapping of the file until done,
\* though the record is used without the mutex; only a growth that hangs
\* leaves one that points nowhere.
PinValid == Mutex => \A t \in Threads : pin[t] # 0 => pin[t] = map

\* However creates and drops interleave, a slot is active, or on the stack
\* once, or between the two steps of one drop; two drops of one slot at once
\* are the only way out of this.
SlotsOnce ==
  raced = {} =>
    /\ IsInjective(free)
    /\ \A i \in Slots :
         active[i] <=> i \notin Range(free) /\ \A t \in Threads : ~(pc[t] = "cleared" /\ slot[t] = i)

\* Whoever waits in getfd or in the destructor waits for something: a thread
\* that holds a descriptor or a pin, and whose relfd or done will broadcast.
NoLostWakeup ==
  \A t \in Threads : pc[t] \in {"getfd", "closefds"} => Holders # {}

\* Each call but getfd ends, the destructor's wait too, unless a growth hangs.
CallsEnd ==
  \A t \in Threads :
    pc[t] \notin {"idle", "gone", "getfd", "getfdWoken"} ~> pc[t] \in {"idle", "gone"} \/ ~Mutex

\* Each wait in getfd is woken, unless a growth hangs; that the thread then
\* gets the descriptor is not promised, another may be faster.
WaitsEnd == \A t \in Threads : pc[t] = "getfd" ~> pc[t] # "getfd" \/ ~Mutex
=============================================================================
