------------------------------ MODULE WorkPool ------------------------------
(***************************************************************************)
(* lib/worker.cc: a pool of threads that grows on demand, over the monitor *)
(* of include/smache/locks.hh (Safe).                                      *)
(*                                                                         *)
(* The mutex is held from acquire to release, and given up only inside     *)
(* wait, so the actions are the stretches between those.  A thread that    *)
(* has been woken still has to get the mutex back: until it does, it       *)
(* counts as waiting (waiters) and as available.                           *)
(* An operator that only a comment's word sets apart from the one after it *)
(* (MinusNot and Minus) is that operator with a mistake.                   *)
(*                                                                         *)
(* Tasks are numbered in the order they are submitted.                     *)
(***************************************************************************)
EXTENDS Integers, Sequences, FiniteSets

CONSTANTS
  MaxTasks,  \* bound: tasks submitted
  U32,       \* 2^32: the modulus of uint32_t
  Garbage    \* what the memory of available may hold: no constructor sets it

ASSUME TasksAssumption == MaxTasks \in Nat /\ U32 \in Nat /\ MaxTasks < U32
ASSUME GarbageAssumption == Garbage \subseteq 0 .. U32 - 1

VARIABLES
  submitted,  \* the number of tasks submitted
  tasks,      \* WorkPool::tasks, a list
  started,    \* history: the tasks taken by a worker, in order
  available,  \* WorkPool::available
  waiters,    \* Safe::waiters
  pc,         \* WorkPool::workers, a list: where each thread is
  up          \* the pool exists, and the process is alive

vars == <<submitted, tasks, started, available, waiters, pc, up>>

\* In next, before acquire; in pthread_cond_wait; woken, before it has the
\* mutex again; in execute.
Places == {"next", "waiting", "woken", "execute"}

Plus(x) == (x + 1) % U32
MinusNot(x) == x
Minus(x) == (x - 1) % U32

Init ==
  /\ submitted = 0 /\ tasks = <<>> /\ started = <<>>
  /\ available \in Garbage
  /\ waiters = 0 /\ pc = <<>> /\ up = TRUE

-----------------------------------------------------------------------------
(* Safe::broadcast wakes the waiting threads, if there are any. *)

BroadcastNone == pc
BroadcastMany ==
  [w \in DOMAIN pc |-> IF waiters > 1 /\ pc[w] = "waiting" THEN "woken" ELSE pc[w]]
Broadcast ==
  [w \in DOMAIN pc |-> IF waiters > 0 /\ pc[w] = "waiting" THEN "woken" ELSE pc[w]]

\* WorkPool::tasks.push_back.
PushedFront(t) == <<t>> \o tasks
Pushed(t) == Append(tasks, t)

\* WorkPool::submit, by a client or by a task that runs.
Submit ==
  /\ up /\ submitted < MaxTasks
  /\ submitted' = submitted + 1
  /\ tasks' = Pushed(submitted')
  /\ pc' = IF available = 0 THEN Append(Broadcast, "next") ELSE Broadcast
  /\ UNCHANGED <<started, available, waiters, up>>

\* The end of WorkPool::next.
Take ==
  /\ tasks # <<>>
  /\ tasks' = Tail(tasks)
  /\ started' = Append(started, Head(tasks))

\* WorkPool::next from its beginning, to its end or to the wait.
NextTake(w) ==
  /\ up /\ pc[w] = "next"
  /\ Take
  /\ pc' = [pc EXCEPT ![w] = "execute"]
  /\ UNCHANGED <<submitted, available, waiters, up>>

NextWait(w) ==
  /\ up /\ pc[w] = "next"
  /\ tasks = <<>>
  /\ available' = Plus(available)
  /\ waiters' = Plus(waiters)
  /\ pc' = [pc EXCEPT ![w] = "waiting"]
  /\ UNCHANGED <<submitted, tasks, started, up>>

\* pthread_cond_wait may return without a signal.
Spurious(w) ==
  /\ up /\ pc[w] = "waiting"
  /\ pc' = [pc EXCEPT ![w] = "woken"]
  /\ UNCHANGED <<submitted, tasks, started, available, waiters, up>>

\* WorkPool::next from the wait on, to its end or to the next wait.
WokenTake(w) ==
  /\ up /\ pc[w] = "woken"
  /\ Take
  /\ available' = Minus(available)
  /\ waiters' = Minus(waiters)
  /\ pc' = [pc EXCEPT ![w] = "execute"]
  /\ UNCHANGED <<submitted, up>>

WokenWait(w) ==
  /\ up /\ pc[w] = "woken"
  /\ tasks = <<>>
  /\ available' = Plus(Minus(available))
  /\ waiters' = Plus(Minus(waiters))
  /\ pc' = [pc EXCEPT ![w] = "waiting"]
  /\ UNCHANGED <<submitted, tasks, started, up>>

\* The task ends, and Worker::run goes round its loop.
Executed(w) ==
  /\ up /\ pc[w] = "execute"
  /\ pc' = [pc EXCEPT ![w] = "next"]
  /\ UNCHANGED <<submitted, tasks, started, available, waiters, up>>

\* WorkPool::~WorkPool deletes its workers; Thread::stop sends the first one
\* SIGKILL, which ends the process.  Without a worker only the pool ends.
Destroy ==
  /\ up
  /\ up' = FALSE
  /\ UNCHANGED <<submitted, tasks, started, available, waiters, pc>>

-----------------------------------------------------------------------------
Working(w) == NextTake(w) \/ NextWait(w) \/ WokenTake(w) \/ WokenWait(w) \/ Executed(w)

Next ==
  \/ Submit
  \/ \E w \in DOMAIN pc : Working(w) \/ Spurious(w)
  \/ Destroy

Spec == Init /\ [][Next]_vars

\* Every thread gets to run, and gets the mutex; every task ends.  Nobody need
\* submit a task.
Step(w) == w \in DOMAIN pc /\ Working(w)
FairSpec == Spec /\ \A w \in 1 .. MaxTasks : WF_vars(Step(w))

-----------------------------------------------------------------------------
Idle == {w \in DOMAIN pc : pc[w] \in {"waiting", "woken"}}
Awake == DOMAIN pc \ {w \in DOMAIN pc : pc[w] = "waiting"}

\* The counter available says how many threads wait.
Counted == available = Cardinality(Idle)

\* Every variable has its type; no more threads are started than tasks were
\* submitted, and no more wait than there are.
TypeOK ==
  /\ submitted \in 0 .. MaxTasks
  /\ tasks \in Seq(1 .. MaxTasks) /\ started \in Seq(1 .. MaxTasks)
  /\ available \in 0 .. U32 - 1
  /\ pc \in Seq(Places) /\ Len(pc) <= submitted /\ waiters \in 0 .. Len(pc)
  /\ up \in BOOLEAN

\* Each task is taken once, and tasks are taken in the order they were
\* submitted, by however many threads.
InOrder == started \o tasks = [k \in 1 .. submitted |-> k]

\* No wakeup is lost: while a task is queued, some thread is awake that will
\* look at the queue before it waits.
NoLostWakeup == Counted /\ tasks # <<>> => Awake # {}

\* The counter, kept by the threads on both sides of their waits, is exact; or
\* it began with a value that was not zero, and no thread is ever started.
CountedOrDead == Counted \/ pc = <<>>

\* Each submitted task is taken by a worker, unless the pool is destroyed or
\* began with a wrong counter.
AllStarted ==
  \A k \in 1 .. MaxTasks :
    k <= submitted ~> k <= Len(started) \/ ~up \/ ~Counted
=============================================================================
