# Smache in TLA+

Smache is a small content-addressable store: a C++ library that keeps chunks of
data under their hashes in two files, a layer that is to spread chunks over many
stores, and a Python front end. This directory holds TLA+ models of it, what TLC
checks about them and what TLAPS proves.

## The system

| Component | State | Operations | Used by |
|---|---|---|---|
| `AutoFile` (`lib/store.cc` 23-114) | open descriptors, pins (`use`), size, mapping | `setsize`, `getfd`/`relfd`, `closefds` | base of the next two |
| `IndexFile` (124-226) | slots of 36 bytes in a mapped file, the stack of free slots | constructor, `get`/`done` (pin, unpin), `create`, `drop` | `Store` |
| `DataFile` (247-361) | bytes in a file, the list of free extents | `mark`, `find`, `release`, `load`, `save` | `Store` |
| `Store` (375-646) | map from hash to slot, three counters | constructor, `add`, `get`, `head`, `remove`, `adjrefs`, `fetch*`, `count*` | Python `Store` |
| `Backend` (`backend.hh` 16-32) | none: the interface of `Store` and `Remote` | as `Store` | `BackendPool` |
| `BackendPool` (`backend.hh` 35-81) | a sorted map from bucket to backend: a ring | `add`, `remove`, `closest` | `Smache` |
| `Safe`, `Thread` (`locks.hh`, `thread.hh`) | recursive mutex, condition, count of waiters; a thread id | `acquire`, `release`, `wait`, `signal`, `broadcast`; `start`, `stop` | `AutoFile`, `WorkPool`, `Worker` |
| `WorkPool`, `Worker` (`worker.cc`) | queued tasks, threads, `available` | `submit`, `next`, `run`, destructor | `Smache` |
| chunkers (`cas.cc` 21-85) | none | `next`, `inputsize` | `Smache` |
| chunks and hashes (`chunk.cc`, `chunk.hh`) | a hash, flags and data | conversions, MD5 | all |
| `Smache` (`smache.cc`) | the pool, the ring, a chunker | stubs | Python |
| bridge (`swig.hh`, `remote.py`) | a Python object | each `Backend` call, passed on | `BackendPool` |
| bucket lists (`buckets.py`) | one list per class, and a file of lines | `resize`, `add`, `remove`, `load`, `save` | Python stores |
| server, cluster, configuration, logging | little or none | mostly stubs | command line |

`Store::add` looks the hash up, asks `DataFile::find` for an extent (which may
grow the data file), writes the chunk there, asks `IndexFile::create` for a slot
(which may grow the index, once nobody holds a pin on it), and then sets the
slot's hash, offset and flags through the shared mapping. The constructor of
`Store` does the reverse: it reads every active slot and rebuilds the free
slots, the free extents, the map and the counters.

What is hard in it:

* the free list, edited in place by three routines, whose mistakes show only
  after some sequence of adds and removes, as one chunk's bytes in another's;
* an add that reaches the disk in six steps, with a kill between any two, and a
  restart that believes what it finds;
* sizes on disk that are rounded to pages while sizes in memory are not, so that
  a restart sees a larger file than the process before it;
* pins that some early returns never give back, and waits for them;
* a recursive mutex, of which a wait gives up one level only; a mapping that is
  taken away before the mutex is had; a drop in three steps, two of them outside
  it;
* listings whose pages begin at a number of records while records come and go;
* a bridge on which a refusal, an exception and a lost answer look alike;
* the pool's counter of idle threads, which is old between a wakeup and the
  moment the thread has the mutex.

What makes each part correct:

| Component | Properties |
|---|---|
| index | a free slot is handed out once and never while in use; a hash leads to its own slot; no slot is lost |
| data file | no byte has two owners or none; a chunk reads back as itself |
| store | is a durable map: each call, restart and kill changes what `Backend` says and nothing else; the counters are exact; opening and adding end |
| files under threads | no descriptor is lent twice; a pinned record stays mapped; a slot is free once or in use; whoever waits is woken; calls end |
| listings | a client that pages through sees what is there, once, and comes to an end |
| pool | no task is lost, taken twice or overtaken; no wakeup is lost |
| ring | `closest` goes round the ring from a key; a bucket that comes or goes moves one place of a list |
| chunkers | the hash is that of the window; consecutive chunks cover the input and keep their bounds |
| bucket lists | survive a restart |
| bridge | what a caller is told is what the store did |

`PROJECT.json` lists every component with its status and every hazard at its
line.

## Modules

| Module | What it is |
|---|---|
| `DataFile` | the free list as a sequence, and what `find`, `release` and one iteration of `mark` do to it |
| `Store` | the two files, the process that has them open, every call that changes something, opening, closing and kills |
| `Backend` | the abstract durable map of `backend.hh` |
| `StoreProperties` | what the store guarantees, and the refinement mapping to `Backend` |
| `MCStore` | small instances of `Store` |
| `AutoFile` | the two files as monitors that several threads use |
| `Fetch` | the listings and counts, and a client that pages through the store |
| `Remote`, `MCRemote` | the bridge between a native caller and a store behind a Python object, and its instances |
| `Ring` | the ring of backends |
| `Chunker`, `MCChunker` | the two chunkers and a reader of a stream, and an instance |
| `WorkPool` | the pool, its threads and the monitor |
| `Lemmas` | facts about numbers, sequences, finite sets and ranks that the proofs share |
| `StoreProofs`, `ExtentProofs` | proofs about the store: the free list, the types, the slots, the map, the counters and the refinement; on it, the units of the data file |
| `AutoFileProofs`, `RemoteProofs`, `RingProofs`, `ChunkerProofs`, `WorkPoolProofs` | proofs about the module of the name |

Names are the source's where they can be. `DataFile` and `Store` stand for one
component: `Store` EXTENDS `DataFile`, `StoreProperties` EXTENDS `Store` and has
an INSTANCE of `Backend`. `AutoFile` looks at the two files from their threads:
it has what `Store` has in one step (a call) in the steps between which another
thread may run, and none of the contents. `Remote` EXTENDS `Fetch`: a native
caller and the store's own clients share one store. `Ring`, `Chunker` and
`WorkPool` stand alone: nothing in `src/` connects them yet.

### Store: state and actions

`idx`/`isz` and `img`/`dsz` are the two files, contents and size on disk; they
survive a close and a kill. The rest is the process: `isize`, `ifree`, `use` are
`IndexFile`'s `size`, `free` and `use`; `dsize`, `dfree` are `DataFile`'s `size`
and `free`; `records` and `n` are `Store`'s map and counters; `cur` is the add
in progress, `li` and `it` the loop of the constructor and the iterator of
`mark`. `pc` says where the process is.

| Action | Code |
|---|---|
| `Open` | the constructors of `AutoFile`, `IndexFile` (a new file gets its header), `DataFile` |
| `LoadFree`, `LoadActive`, `MarkStep`, `MarkDone`, `LoadDone` | the loops of the constructors of `IndexFile` and `Store`, and of `mark` in it |
| `AddFit`, `AddGrow` | `add` up to `save`, with an extent from the list, or past the end; the chunk has a type and a number of references |
| `CreatePop`, `CreateGrow`, `CreateHang` | `IndexFile::create`: from the stack, by growing, or waiting for a pin for ever |
| `AddActive`, `AddHash`, `AddOffset`, `AddFlags` | the writes to the slot, one at a time |
| `RemoveChunk`, `Adjrefs` | `remove`, `adjrefs` |
| `Leak` | the early returns of `get`, `head` and `adjrefs` that skip `done` |
| `GetHang` | `get` of an extent past the end of the file: `read` returns 0 for ever |
| `Close`, `CloseHang` | the destructors; they too wait for pins |
| `Crash` | the process is killed |

A call is one action when a restart can see at most one of its changes. One
process makes one call at a time: the Python binding holds the interpreter lock
through a native call. `remove` clears one byte on disk and is one action; its
other effects are in memory and gone after a kill. Written bytes survive a kill
in program order, which the kernel's page cache provides for a mapping and for
`write` when the process, not the machine, dies. Each of the four writes to a
slot is taken as a whole: the 16 bytes of a hash are not torn further.

Bytes are units: the header, a slot and a page of 12, 36 and 4096 bytes are
`HEADER`, `RECORD`, `PAGESIZE`, and small in the instances; what matters is that
a page is larger than a slot or not, divides evenly or not. A chunk's content is
the pair of its hash and the position in it, so that "reads back as itself" is a
statement about every unit.

`faults` is a ghost: it collects the defects a behaviour has exercised
(`partial`: `find` split an entry; `bridge`: `release` joined two; the three
points of a torn add). A property with `faults = {}` in it says what holds until
then, and so what each defect damages and what it leaves alone.

### AutoFile: state and actions

`fds`, `use`, `map`, `active` and `free` are the members of the C++ classes; the
mapping is a number, so that an old one can be told from a new one. `pc`, `fd`,
`pin` and `slot` say where each thread is and what it holds. `file` says which
of the two files it is: only the index has pins and slots, only the data file's
descriptors are lent outside the mutex.

| Action | Code |
|---|---|
| `GetfdLend`, `GetfdOpen`, `GetfdWait` | `getfd`, from its beginning and from the wait on: a descriptor of the list, a new one, none to be had |
| `Relfd` | `relfd`, with its broadcast |
| `Get`, `Done` | `get` and `done`: pin and unpin |
| `Drop`, `DropClear`, `DropPush` (then `Done`) | `drop`: the look at the slot, the store to `active` and the push, the store outside the mutex |
| `Fault` | a record is read or written through a pointer into a mapping that is gone: the process ends |
| `CreatePop`, `CreateGrow`, `CreateHang` | `create`, with `setsize` in it, which is done or hangs |
| `SetsizeUnmap`, `Setsize` | `setsize` called by `DataFile::find`: the `munmap` before the mutex, and the rest, which is done or hangs |
| `CloseWait`, `CloseDone` | the destructor: closefds with the mutex held once |
| `Spurious` | a wait that returns without a signal |

The mutex is held from `acquire` to `release`, so what lies between is one
action. It is recursive, and `pthread_cond_wait` gives up one level: the wait of
`closefds` inside `setsize` keeps the mutex, and so does that of the second
`getfd`. A thread there is `hung`, and `Mutex` is false from then on. A growth
that hangs has unmapped the file first, so a thread that still has a pin may run
into `Fault` (`killed`).

`raced` is a ghost: slots two threads were dropping at once, which leaves the
slot on the stack twice. `SlotsOnce` says what holds until then.

### Fetch and Remote: state and actions

`records` is the store's map, hash to type and references; the slots and the
data file are `Store`'s. `scan` is a client that asks for page after page,
beginning each at the number of hashes it was given so far. It is external, as
is the Python object of `Remote`, whose calls end in one of five ways: it
answers, refuses, raises an exception before or after the store has done the
call, or gives something that is no bool. `picture` is what the native caller
makes of what it is told. `Remote::add` wraps its chunk as a `Hash`, so an
object that passes it on to a store gets an exception: no add reaches the store,
and chunks of the native caller are added for it by a local client.

| Action | Code |
|---|---|
| `BeginScan`, `StorePage` | `fetchAll`, `fetchData`, `fetchMeta`, `fetchIndex`, page by page |
| `ListPage`, `ListFails` | `Remote::list`: an empty list, or NULL, through which the typemap reads |
| `RemoteAdd`, `RemoteRemove`, `RemoteAdjrefs` | `Remote`'s calls: `eval`, the object, the store, and what the caller is told |
| `LocalAdd`, `LocalRemove` | the store's other clients |

### Ring and Chunker

`Ring` has the map `buckets` and the calls that change it; `closest` is an
operator: the iterator after each step of its loop. `Chunker` has a reader that
calls `next` on what is left of a stream, or on at most `inputsize` bytes of it;
`RabinByte` is an iteration of the loop of `RabinChunker::next`, `RabinEnd` the
loop's end without a cut point, `RabinZero` the division by a block size of 0.
Bytes are signed, as `char` is, and the remainder is C's, which rounds towards
zero.

### WorkPool: state and actions

The mutex is held from `acquire` to `release` and given up only in `wait`, so
the stretches between are the actions: `Submit` (with the start of a thread),
`NextTake`/`NextWait` (`next` from its beginning), `WokenTake`/`WokenWait` (from
the wait on), `Executed`. A thread is in `next`, `waiting`, `woken` (signalled,
the mutex not yet regained) or `execute`. `Spurious` is a return of
`pthread_cond_wait` without a signal. `Destroy` is the destructor: if there is a
thread it sends it SIGKILL, which ends the process; either way the pool is gone.
`available` begins with any value of `Garbage`: the constructor does not set it,
and a pool on the heap has what the memory held.

Operators with a word too many (`TakeNothing` before `Take`, `MinusNot` before
`Minus`) are the operator after them with a plausible mistake. No specification
uses them: `PROJECT.json` pairs each with a property that has to fail with it.

## What TLC checks

| Run | Instance | Distinct states | Shows |
|---|---|---|---|
| `StoreClean` | chunks of 1 and 2 units, added with no or one reference, 3 slots, growth by 1, `adjrefs` by -1 and +1 with a count modulo 2, kills except inside the writes to the slot | 3,723,389 | `Implements`: the store is the map of `Backend`, across restarts; `NoOrphans`: no slot is lost |
| `StoreFree` | chunks of 1, 2 and 3 units, 8 units, 4 slots, the same kills; behaviours end at the first fault | 285,939 | `NoOverlap`, `NoLoss`: the data file is partitioned; `ContentSafe`: a chunk reads back as itself |
| `StoreTorn` | chunks of 1 and 2 units, of a counted type or of none, 2 slots, growth by 1, pages of 3 units, kills at every point | 4,275,946 | `TypeOK`, `SlotsExact`, `MapSound`, `CountExact`, `SlotStable` in spite of everything; `ExtentsInFile`: what a torn add can do |
| `StoreLive` | chunks of 1 and 2 units of no type, 4 units in pages of 2, a pin, kills, the one before the flags among them, fair | 935,848 | `MarkProgress`: each iteration of `mark` leaves less ahead; `StartupEnds`, `AddEnds` |
| `StoreReuse` | no kill | - | violates `ContentAddressed` (below) |
| `StoreTornAdd` | kills inside the writes | - | violates `TornContentSafe` (below) |
| `AutoFile` | 3 threads, 1 to 3 descriptors, growth by 2 to 3 slots, fair | 146,630 | `TypeOK`, `UseExact`, `FdOwned`, `PinValid`, `SlotsOnce`, `NoLostWakeup`: nobody is given what another holds; `CallsEnd`, `WaitsEnd`: what ends, and what is woken |
| `Remote` | 3 hashes, one of them the native caller's, two types, counts modulo 2, pages of 1 and 2, fair | 264,856 | `TypeOK`, with the width of a count; `ScanMisses`, `ScanOnce`, `ScanCounts`, `ScanEnds`: what paging promises |
| `RemoteRefused` | an object that answers | - | violates `ResultGrabbed` (below) |
| `Ring` | 6 places, 2 backends, lists of up to 7 | 729 | `ClosestExact`, `OneChanges` |
| `Chunker` | streams of up to 9 bytes out of -1, 0, 2; a window of 3 bytes; base 3 modulo 7; chunks from 3 to 6 | 38,853 | `TypeOK`, `WindowHash`, `ChunkBounds`, `StreamEnds` |
| `WorkPool` | 5 tasks, counters modulo 7, `Garbage` 0, 1, 6, fair | 4,388 | `TypeOK`, `InOrder`, `NoLostWakeup`, `CountedOrDead`, `AllStarted` |

The bounds. Two chunks of different lengths are enough to free an extent of one
size and ask for the other, to leave and to close a gap, and to have a slot
change hands; `StoreFree` has three, so that a hole can lie between two chunks
and be neighboured on either side. `MaxSlots` lets the index grow at least once
within a process, in `StoreTorn` too while a chunk is stored, and be reopened
larger than it was; `MaxData` lets the data file grow past a page. The two types
of `StoreTorn` are one that is counted and one that is not, and a slot that was
never written is of a third (`DATA` is 0), so that torn slots move a counter
that no chunk moves. In `StoreLive` `mark` works on lists of up to three
entries and reaches each of its cases: the erase of the head and the erase
behind it with the step back, the two cuts, and the insert, into a list of
several entries too. `MaxUse = 1`: a second leaked pin changes nothing a first
has not (the guards ask whether `use` is 0). `REFS` is as small as lets the
count wrap. `U32` of the store is above every size, so that the 32-bit length of
a free entry never wraps: a data file of 4 GiB is out of scope. `AutoFile` has
three threads: one that grows the file, one that holds something and one that
waits. Between one and three descriptors each of "too few to grow", "just
enough" and "one for each thread" occurs; one growth (`MaxMaps` 2) is enough for
an old pin to outlive its mapping if it could. One race of two drops is let
happen. `Remote` has a chunk on either side of the caller's, so that a page can
be shifted by what comes and goes before and behind it. Chunks come and go
during a scan without a limit: the ghost `removed` and the client's `start`
count no further than there are hashes, beyond which neither means more, and a
hash is counted up to twice (`Often`).
Every ring of up to six places is reached, and lists go once round the largest
and beyond. `Chunker`'s streams hold a chunk cut by the hash, one cut at
`BLOCK_MAX` and one that ends with its buffer, in any order of two; block sizes
lie at 0, at 1, between the bounds and above them. The `CONSTRAINT` of
`StoreFree` cuts where `faults` is no longer empty, which its three properties
presuppose.

Fairness. `FairSpec` of the store is weak fairness of `Running`: what the
process does by itself once a call or the opening has begun. It runs unless it
is killed. Clients need not call and nobody need start the process. `FairSpec`
of the pool is weak fairness of each thread: it is scheduled, it gets the mutex,
and a task ends. Nobody need submit. That of `AutoFile` is weak fairness of each
thread in a call (`Continues`): it runs, and it gets a mutex that stays free.
Nobody need begin a call, and a thread that has pinned a record does its work
and calls `done`. A thread woken in `getfd` may find that another has taken the
descriptor, again and again; so `WaitsEnd` promises that it is woken and not
that it gets one. `Remote` assumes that a client that has begun a scan asks for
the next page, `Chunker` that the reader reads on. Weak fairness is enough:
between two actions the mutex is free, so a thread that is not waiting can
always take its step.

Deadlock is checked in the store's runs: a state in which nothing can happen
would be found, a hang is the state `stuck`, where only a kill is possible (the
runs where nothing may be killed leak no pins). The other runs but `Ring` switch
it off: an idle or destroyed pool, a file that is closed or on which a growth
hangs, a caller whose process has ended, and a reader at the end of its stream
stop.

## Findings

* `DataFile::find` (`store.cc` 291-292) returns the first units of a free entry
  and shortens the entry at its end, so it keeps the units it has handed out.
  The next add that fits gets them again. `StoreReuse`: add, remove, add a
  shorter chunk, add another: the first reads back as the second.
* `Store::add` marks the slot active before it writes its hash, offset and
  flags, and the constructor trusts active slots (`store.cc` 385-389).
  `StoreTornAdd`: after a kill between two of the writes and a restart a hash
  leads to units that are not its chunk's.
* `Remote::add`, `remove` and `adjrefs` ask of the object's answer whether it is
  a bool (`swig.hh` 85, 100, 115), which False is too. `RemoteRefused`: a call
  the object refuses, and the caller is told it was done.

Met on the way and part of the models, without a run of their own:

* Store. `release` keeps both entries when it joins two (320-321, the fault
  `bridge`); `get`, `head` and `adjrefs` leave a pin behind on an early return
  (448, 481, 544), so that the index never grows again and the destructor never
  ends (`AddEnds`); `available` is never initialised (`CountedOrDead`).
* Files under threads. `setsize` unmaps before it waits for the pins (51-54).
  For the data file that is harmless, because nothing of it is reached through
  its map; in the index it takes pinned records away, and the growth then hangs
  (`PinValid` speaks of the states before) while the thread that has the pin
  reads or writes through it and ends the process (`Fault`). Its wait in
  `closefds` keeps the mutex when it comes from `create`, or from `setsize`
  itself, so that nobody can give back what it waits for: a growth while another
  thread holds a pin or a descriptor hangs for ever, and so does one where the
  system allows a single descriptor (`SetsizeHang`). Two drops of one slot both
  find it active and push it twice (212-218; `raced`).
* Listings. A typed listing skips `start` records of any type and then lists its
  own (572): a client that goes on from the number it was given is shown some
  hashes more than once (`ScanOnce` is about listings of all; that none is
  missed is `ScanMisses`).
* Ring. `closest` steps before it looks (`backend.hh` 63), so the bucket a key
  falls to comes last or not at all, and a list longer than the ring repeats it.
  An empty ring gives NULL.
* Bridge. `Remote::add` hands the object its chunk as a `Hash` (`swig.hh` 77),
  which a store refuses, so no add ever gets through. `Remote::list` answers
  every call with an empty list (`swig.hh` 132), and an exception with NULL,
  through which the typemap of `swig.i` reads: the process ends.
* Chunkers. Without a cut point `RabinChunker::next` gives a chunk one byte
  longer than its buffer, and at `BLOCK_MAX` one a byte longer than that
  (`ChunkBounds`). The second assignment in `inputsize` undoes the first. Bytes
  that have left the window may still decide whether the rolling hash is that of
  the window or `PRIME_MOD` less (`WindowHash`), and with it whether there is a
  cut point. A block size of 0 ends the process or gives empty chunks for ever
  (`StreamEnds`).

## What is proved

For every value of the constants, from the assumptions on them that the modules
name:

| Theorem | Statement | Argument |
|---|---|---|
| `TypeCorrect` (`StoreProofs`) | `Spec => []TypeOK` | `TypeInv` adds what makes it inductive: `isz` rounded up holds at least the slots `isize` says; every slot number held in memory is one of the file; an active slot's fields are in range |
| `SlotsAlwaysExact`, `MapAlwaysSound` (`StoreProofs`) | `[]SlotsExact`, `[]MapSound` | `IndexInv`, over `TypeInv` |
| `NeverOrphans`, `SlotsAlwaysStable` (`StoreProofs`) | `[]NoOrphans`, `SlotStable` | `MapInv`, over `IndexInv` |
| `CountAlwaysExact` (`StoreProofs`) | `[]CountExact` | `CountInv`, over `IndexInv` |
| `StoreImplements` (`StoreProofs`) | no kill inside the writes to a slot: `Spec => Implements` | `Exact`, over `MapInv` |
| `ExtentsAlwaysInFile` (`ExtentProofs`) | `[]ExtentsInFile` | `FileInv`, over `TypeInv` |
| `MarkAlwaysProgresses` (`ExtentProofs`) | `MarkProgress` | each case of `mark` alone (`FewerAhead`), over `TypeInv` |
| `ExtentsNeverOverlap` (`ExtentProofs`) | no empty chunk: `[]NoOverlap` | `SpaceInv`, over `MapInv` and `FileInv` |
| `ExtentsNeverLost` (`ExtentProofs`) | no empty chunk, files below 2^32: `[]NoLoss` | `CoverInv`, over `SpaceInv` |
| `ContentAlwaysSafe` (`ExtentProofs`) | no empty chunk: `[]ContentSafe` | `ContentInv`, over `SpaceInv` |
| `NoWakeupLost`, `AlwaysCounted` (`WorkPoolProofs`) | `[]NoLostWakeup`, `[]CountedOrDead` | `PoolInv`: the counters are the number of threads in or just out of wait, and a thread that was woken or started is there for a queued task |
| `AlwaysInOrder` (`WorkPoolProofs`) | `[]InOrder` | what was taken followed by what is queued is an invariant sequence |
| `AlwaysTyped` (`WorkPoolProofs`) | `[]TypeOK` | a part of `PoolInv` |
| `AlwaysTyped`, `AlwaysUseExact`, `AlwaysFdOwned`, `AlwaysPinValid`, `AlwaysNoLostWakeup` (`AutoFileProofs`) | the invariants of `AutoFile` but `SlotsOnce` | `AutoInv`, which is all five and `PlacesOK` |
| `AlwaysSlotsOnce` (`AutoFileProofs`) | `[]SlotsOnce` | `SlotInv`, over `AutoInv` |
| `RemoteTypeCorrect`, `NeverMissesMore`, `NeverTwice`, `AlwaysCounts` (`RemoteProofs`) | `[]TypeOK`, `[]ScanMisses`, `[]ScanOnce`, `ScanCounts` | `ScanInv`: where the scan is among the hashes the store has |
| `AlwaysClosestExact`, `AlwaysOneChanges` (`RingProofs`) | `[]ClosestExact`, `OneChanges` | the order of a bucket from a key; the buckets are hashes (`RingInv`) |
| `AlwaysChunkBounds` (`ChunkerProofs`) | `[]ChunkBounds` | `ChunkInv`: in the loop at most `BLOCK_MAX` bytes have been seen; the hash plays no part |
| `ChunkerTypeCorrect`, `AlwaysWindowHash` (`ChunkerProofs`) | `[]TypeOK`, `[]WindowHash` | `HashInv`: the hash is the window's polynomial but for a multiple of the modulus |

The slots. `SlotsExact` is not inductive: it speaks of a serving process, and
what it says there is established slot by slot while the process loads.
`IndexInv` says so for each stage: while loading, the stack holds exactly the
inactive slots below `li` and the map leads to active ones below it; while
adding, the slot that was taken is neither on the stack nor active until it is
marked; and after a kill nothing is said of memory, because the next start
rebuilds it from `active` alone. That last point is why these theorems hold with
torn adds: `active` is a single write, and it is the only thing the free slots
depend on. `MapSound` follows for the same reason: the map is filled from the
slots' own hashes, and a slot's hash changes only while its number is pending.
`CountInv` is of the same kind: the counters are those of the active slots below
the one being loaded, and a type is counted from the slot it is read from.

`MapInv` needs more: that no two active slots have the same hash, which only an
add can break, and an add looks its hash up first; so it has to know that the
map has every active slot's hash, the hash of the add in progress excepted. A
torn add breaks that (its slot may have any hash), and it is said of the
behaviours without one.

The refinement. A step of the store maps to a call of `Backend` or to a stutter:
add at its last write, remove and adjrefs at their one step, and the rest to
nothing. For open, close and kill that is the statement that the map a process
has is the map its slots would give a new one (`Exact`); so it needs `MapInv`
for behaviours without a torn add. The hypothesis is
`CrashPoints \cap TornPoints = {}`: with kills between the writes
a restart may find a slot whose hash, offset or flags are not yet the chunk's
(`StoreTornAdd`).

The data file. `FileInv` follows the two sizes of the file: the one in memory is
exact, the one on disk is rounded up to pages, and every slot's extent ends
below the smaller one, slots no chunk has any more included, because an add
makes its slot active before it writes the new offset. Between the offset and
the flags the slot's extent is made of the new offset and an old length, which
is what a kill there leaves and `"flags" \in faults` records.

`SpaceInv` has the order of the free list, which nothing but `release` looks at
and which all three routines keep; that extents of chunks lie apart; that the
list has none of the units of chunks; and, while the process loads, how far it
is: units of the slots below `li` are off the list, and units of slot `li` are
off the entries before `it`. `mark` has a flaw the proof has to get round:
after erasing the first entry it steps over the one behind it. That one has no
units of the chunk only because the entries of a list that is being cut down lie
apart with a chunk between any two of them, so that a chunk that covers the
first entry ends before the next. `LoadCovers` says so: each unit that the list
does not have is one of a chunk already marked. An empty chunk breaks this, since
it cuts an entry in two with no unit between (and so there is a behaviour, of
some 45 steps, in which a later chunk's units stay on the list); hence
`NoEmptyChunk`, which the instances of the runs have and `Store::add` does not
enforce. `CoverInv` adds the converse, that every unit has an owner. A data file
that has grown past 2^32 units is put in the list with its size modulo that, and
what is beyond is lost; hence `MaxData < U32`. `ContentInv` says that each
extent, the add's included, holds its chunk's units, which a write disturbs only
where extents meet.

None of `AutoFile`'s invariants stands alone. That a wait in `getfd` is a wait
for somebody needs `use` to be exact, which needs each step to know what its
thread holds: `PlacesOK` says so for each place of the code. That a pin is valid
after a growth needs `use = 0` to mean that there is none. `SlotInv` adds to
`SlotsOnce` the drops that are on their way: one before its store has an active
slot, one after it a slot that is not on the stack yet, and no two have the
same. A growth of the index needs `use = 0`, so there is no drop on its way when
it adds slots.

The scans. A page begins at a number of hashes, so what matters of a hash is how
many of the store's come before it: its rank (`Lemmas`). `ScanInv` says of a
running scan that those of its hashes that it has not been given and that lie
before its `start` (`Missed`) are no more than were removed. A remove takes one
from the rank of all that lie behind, so of the hashes at or behind `start` it
brings at most one before it, the one whose rank was `start`; an add moves
hashes the other way. A page gives what lies from `start` on, and the last page
leaves none there. For `ScanOnce` it is the converse: while nothing is added, no
hash that was given lies at or behind `start`. `ScanCounts` needs that while
nothing comes or goes the hashes watched are those of the store. All of them
need `TypeInv`, which says of `scan` and `seen` what fields they have.

The ring. A bucket's order from a key is the number of buckets nearer to it,
going round. `lower_bound` finds order 0; a step of the iterator raises the order
by one, or takes it from the last back to 0, where "past the end" and "past the
key" are two different places and each case is one of the four in which they can
lie (`StepNext`). So after `j` steps the order is `j` modulo the size of the
ring (`SweepOrder`), and since no two buckets have one order that says which
bucket it is. A bucket that comes raises by one the order of those behind it, so
only the one that was last in the list can leave it (`OneLess`); for one that
goes either it was in the list, and leaves, or it was the nearest, and the next
one takes its place outside the list (`OneGone`).

The rolling hash. C's remainder has the sign of the dividend, so equality modulo
`PRIME_MOD` is not an equality of remainders but of classes (`Congruent`).
`Polynomial` and `Power` are recursive functions; that there are functions with
those equations is proved from `RecursionExists`, and what they compute by an
induction over the window (`SumsWithoutFirst`: the window without its first byte
is the window less that byte times the power). That the hash is a residue or
`PRIME_MOD` less follows because it lies within `PRIME_MOD` of zero.

Only model-checked: the liveness properties (`StartupEnds`, `AddEnds`,
`CallsEnd`, `WaitsEnd`, `ScanEnds`, `StreamEnds`, `AllStarted`): fairness and
ENABLED are out of the prover's reach. Every other property of a passing run is
a theorem, some of them under the hypothesis the table names.

## Not modelled

Failing system calls but a failing `open` (the code checks no other), the
machine losing power with pages unwritten, tearing inside a hash, logging and
dumps, the text forms of hashes and their cache, MD5, the compiled-out code of
`cas.cc` and `chunk.cc`, the stubs of `smache.cc`, the server's dispatch to
stubs, configuration and the command line.

Threads inside `Store`: it has no lock, and its calls come through a binding
that holds the interpreter's; `Store` therefore makes one call at a time.
`AutoFile` models the two classes that do have a lock.

`Remote`'s `get`, `head` and `count` pass one result on and change nothing.

Bucket lists: adding and removing a bucket and shrinking by `resize` work, and
`BucketFile` then rewrites its file; growing by `resize`, `grow` and `Buckets()`
on an empty list raise, because `buckets.py` does not import `Hash`, and
`shrink` calls `os.max`, which there is not. `BucketFile.load` opens its file
with `w+`, which empties it, so nothing of a list lives through a start, and the
list belongs to the class, so all objects of a process share one. Nothing in
`src/` reads more of it than its length. There is no behaviour over a restart to
check a model of it against.

## Plan

What is left is to weaken hypotheses: `NoEmptyChunk` in the theorems about the
data file, where an empty chunk is harmless as long as no mark steps over an
entry it cuts, and `faults`, where a defect damages one extent and the theorems
say nothing of the others from then on. The stretches of `Store`'s calls that
`AutoFile` has in steps could be shown to implement the calls of `Store`.
