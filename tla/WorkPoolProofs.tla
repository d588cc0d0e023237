--------------------------- MODULE WorkPoolProofs ---------------------------
(***************************************************************************)
(* The worker pool for any number of tasks and threads: no wakeup is lost, *)
(* and the counter that decides whether a thread is started is exact or    *)
(* the pool never starts one.                                              *)
(*                                                                         *)
(* Both rest on counting the threads between the two sides of a wait.      *)
(***************************************************************************)
EXTENDS WorkPool, FiniteSetTheorems, SequenceTheorems, TLAPS

PoolInv ==
  /\ TypeOK
  /\ waiters = Cardinality(Idle)
  /\ CountedOrDead
  /\ NoLostWakeup

-----------------------------------------------------------------------------
\* The numbers from one on.
LEMMA Interval ==
  ASSUME NEW m \in Nat
  PROVE  IsFiniteSet(1 .. m) /\ Cardinality(1 .. m) = m
<1>1. 1 \in Int /\ m \in Int
  OBVIOUS
<1>2. IsFiniteSet(1 .. m) /\ Cardinality(1 .. m) = IF 1 > m THEN 0 ELSE m - 1 + 1
  BY <1>1, FS_Interval
<1>3. (IF 1 > m THEN 0 ELSE m - 1 + 1) = m
  OBVIOUS
<1> QED
  BY <1>2, <1>3

\* The threads inside a wait can be counted, and are no more than there are.
LEMMA IdleFinite ==
  ASSUME TypeOK
  PROVE  /\ DOMAIN pc = 1 .. Len(pc) /\ Len(pc) \in Nat /\ Len(pc) < U32
         /\ IsFiniteSet(Idle) /\ Cardinality(Idle) \in Nat /\ Cardinality(Idle) <= Len(pc)
<1>1. DOMAIN pc = 1 .. Len(pc) /\ Len(pc) \in Nat /\ Len(pc) < U32
  BY TasksAssumption DEF TypeOK
<1>2. IsFiniteSet(1 .. Len(pc)) /\ Cardinality(1 .. Len(pc)) = Len(pc)
  <2>1. Len(pc) \in Nat
    BY <1>1
  <2> QED
    BY <2>1, Interval
<1>3. Idle \in SUBSET (1 .. Len(pc))
  BY <1>1 DEF Idle
<1>4. IsFiniteSet(Idle) /\ Cardinality(Idle) <= Len(pc)
  BY <1>2, <1>3, FS_Subset
<1> QED
  BY <1>1, <1>4, FS_CardinalityType

\* One thread moves.
LEMMA Moved ==
  ASSUME TypeOK, NEW w \in DOMAIN pc, NEW place \in Places,
         pc' = [pc EXCEPT ![w] = place]
  PROVE  /\ pc' \in Seq(Places) /\ Len(pc') = Len(pc) /\ DOMAIN pc' = DOMAIN pc
         /\ pc'[w] = place /\ \A v \in DOMAIN pc \ {w} : pc'[v] = pc[v]
         /\ place \in {"waiting", "woken"} => Idle' = Idle \cup {w}
         /\ place \notin {"waiting", "woken"} => Idle' = Idle \ {w}
<1>1. pc \in Seq(Places) /\ DOMAIN pc = 1 .. Len(pc)
  BY DEF TypeOK
<1>2. pc' \in Seq(Places) /\ Len(pc') = Len(pc) /\ DOMAIN pc' = DOMAIN pc
  BY <1>1
<1>3. pc'[w] = place /\ \A v \in DOMAIN pc \ {w} : pc'[v] = pc[v]
  BY <1>1
<1> QED
  BY <1>2, <1>3 DEF Idle

\* Adding and subtracting one within 32 bits.
LEMMA Counting ==
  ASSUME NEW x \in 0 .. U32 - 1
  PROVE  /\ Plus(x) \in 0 .. U32 - 1 /\ Minus(x) \in 0 .. U32 - 1
         /\ x < U32 - 1 => Plus(x) = x + 1
         /\ x > 0 => Minus(x) = x - 1
         /\ Plus(Minus(x)) = x
<1>1. U32 \in Nat \ {0}
  BY TasksAssumption
<1>2. x < U32 - 1 => Plus(x) = x + 1
  BY <1>1 DEF Plus
<1>3. x = U32 - 1 => Plus(x) = 0
  BY <1>1 DEF Plus
<1>4. x > 0 => Minus(x) = x - 1
  BY <1>1 DEF Minus
<1>5. x = 0 => Minus(x) = U32 - 1
  BY <1>1 DEF Minus
<1>6. x > 0 => Plus(x - 1) = x
  BY <1>1 DEF Plus
<1>7. Plus(U32 - 1) = 0
  BY <1>1 DEF Plus
<1> QED
  BY <1>1, <1>2, <1>3, <1>4, <1>5, <1>6, <1>7

-----------------------------------------------------------------------------
(* The actions. *)

\* Taking the head of the queue leaves a queue.
LEMMA TakeType ==
  ASSUME TypeOK, Take
  PROVE  tasks' \in Seq(1 .. MaxTasks) /\ started' \in Seq(1 .. MaxTasks)
<1>1. /\ tasks \in Seq(1 .. MaxTasks) /\ started \in Seq(1 .. MaxTasks)
      /\ tasks # <<>> /\ tasks' = Tail(tasks) /\ started' = Append(started, Head(tasks))
  BY DEF TypeOK, Take
<1>2. Head(tasks) \in 1 .. MaxTasks /\ Tail(tasks) \in Seq(1 .. MaxTasks)
  BY <1>1, HeadTailProperties
<1>3. Append(started, Head(tasks)) \in Seq(1 .. MaxTasks)
  BY <1>1, <1>2
<1> QED
  BY <1>1, <1>2, <1>3

\* WorkPool::submit keeps PoolInv.
LEMMA SubmitInv == PoolInv /\ Submit => PoolInv'
<1> SUFFICES ASSUME PoolInv, Submit PROVE PoolInv'
  OBVIOUS
<1>1. /\ submitted < MaxTasks /\ submitted' = submitted + 1 /\ tasks' = Append(tasks, submitted')
      /\ pc' = IF available = 0 THEN Append(Broadcast, "next") ELSE Broadcast
      /\ UNCHANGED <<started, available, waiters, up>>
  BY DEF Submit, Pushed
<1>2. TypeOK /\ waiters = Cardinality(Idle) /\ CountedOrDead
  BY DEF PoolInv
<1>3. DOMAIN pc = 1 .. Len(pc) /\ Len(pc) \in Nat /\ Len(pc) < U32
      /\ IsFiniteSet(Idle) /\ Cardinality(Idle) \in Nat /\ Cardinality(Idle) <= Len(pc)
  BY <1>2, IdleFinite
<1>4. submitted \in Nat /\ submitted' \in 1 .. MaxTasks /\ MaxTasks \in Nat
  BY <1>1, <1>2, TasksAssumption DEF TypeOK
<1>5. PICK woken : woken = Broadcast
  OBVIOUS
<1>6. /\ woken \in Seq(Places) /\ Len(woken) = Len(pc) /\ DOMAIN woken = DOMAIN pc
      /\ \A w \in DOMAIN pc : woken[w] = IF waiters > 0 /\ pc[w] = "waiting" THEN "woken" ELSE pc[w]
  <2>1. PICK m \in Nat : m = Len(pc)
    BY <1>3
  <2>2. /\ DOMAIN woken = 1 .. m
        /\ \A w \in 1 .. m : woken[w] = IF waiters > 0 /\ pc[w] = "waiting" THEN "woken" ELSE pc[w]
        /\ woken = [w \in 1 .. m |-> woken[w]]
    BY <1>3, <1>5, <2>1 DEF Broadcast
  <2>3. \A w \in 1 .. m : woken[w] \in Places
    BY <1>2, <1>3, <2>1, <2>2 DEF TypeOK, Places
  <2>4. woken \in [1 .. m -> Places]
    BY <2>2, <2>3
  <2>5. woken \in Seq(Places)
    BY <2>4
  <2>6. Len(woken) = m
    BY <2>2, <2>5
  <2> QED
    BY <1>3, <2>1, <2>2, <2>5, <2>6
<1>7. /\ pc' \in Seq(Places) /\ Len(pc) <= Len(pc') /\ Len(pc') <= Len(pc) + 1
      /\ \A w \in DOMAIN pc : w \in DOMAIN pc' /\ pc'[w] = woken[w]
      /\ \A w \in DOMAIN pc' \ DOMAIN pc : pc'[w] = "next"
      /\ available = 0 => Len(pc) + 1 \in DOMAIN pc' /\ pc'[Len(pc) + 1] = "next"
      /\ available # 0 => pc' = woken
  <2>1. CASE available = 0
    <3>1. "next" \in Places
      BY DEF Places
    <3>2. pc' = Append(woken, "next")
      BY <1>1, <1>5, <2>1
    <3> QED
      BY <1>3, <1>6, <2>1, <3>1, <3>2
  <2>2. CASE available # 0
    BY <1>1, <1>3, <1>5, <1>6, <2>2
  <2> QED
    BY <2>1, <2>2
<1>8. Idle' = Idle
  BY <1>6, <1>7 DEF Idle
<1>9. TypeOK'
  <2>1. tasks' \in Seq(1 .. MaxTasks)
    BY <1>1, <1>2, <1>4 DEF TypeOK
  <2>2. Len(pc') <= submitted' /\ waiters' \in 0 .. Len(pc') /\ submitted' \in 0 .. MaxTasks
    BY <1>1, <1>2, <1>3, <1>4, <1>7 DEF TypeOK
  <2> QED
    BY <1>1, <1>2, <1>7, <2>1, <2>2 DEF TypeOK
<1>10. CountedOrDead'
  <2>1. CASE Counted
    BY <1>1, <1>8, <2>1 DEF CountedOrDead, Counted
  <2>2. CASE ~Counted
    <3>1. pc = <<>> /\ Cardinality(Idle) = 0
      <4>1. pc = <<>>
        BY <1>2, <2>2 DEF CountedOrDead
      <4>2. Idle = {}
        BY <4>1 DEF Idle
      <4> QED
        BY <4>1, <4>2, FS_EmptySet
    <3>2. available # 0
      BY <2>2, <3>1 DEF Counted
    <3>3. pc' = <<>>
      BY <1>6, <1>7, <3>1, <3>2
    <3> QED
      BY <3>3 DEF CountedOrDead
  <2> QED
    BY <2>1, <2>2
<1>11. NoLostWakeup'
  <2> SUFFICES ASSUME Counted' PROVE Awake' # {}
    BY DEF NoLostWakeup
  <2>1. available = Cardinality(Idle)
    BY <1>1, <1>8 DEF Counted
  <2>2. CASE available = 0
    BY <1>7, <2>2 DEF Awake
  <2>3. CASE available # 0
    <3>1. Idle # {} /\ waiters > 0
      BY <1>2, <1>3, <2>1, <2>3, FS_EmptySet
    <3>2. PICK w \in DOMAIN pc : pc[w] \in {"waiting", "woken"}
      BY <3>1 DEF Idle
    <3>3. w \in DOMAIN pc' /\ pc'[w] = "woken"
      BY <1>6, <1>7, <3>1, <3>2
    <3> QED
      BY <3>3 DEF Awake
  <2> QED
    BY <2>2, <2>3
<1>12. waiters' = Cardinality(Idle')
  BY <1>1, <1>2, <1>8
<1> QED
  BY <1>9, <1>10, <1>11, <1>12 DEF PoolInv

\* A thread that finds a task at once (WorkPool::next) keeps PoolInv.
LEMMA NextTakeInv == \A w \in DOMAIN pc : PoolInv /\ NextTake(w) => PoolInv'
<1> SUFFICES ASSUME NEW w \in DOMAIN pc, PoolInv, NextTake(w) PROVE PoolInv'
  OBVIOUS
<1>1. /\ pc[w] = "next" /\ Take /\ pc' = [pc EXCEPT ![w] = "execute"]
      /\ UNCHANGED <<submitted, available, waiters, up>>
  BY DEF NextTake
<1>2. TypeOK /\ waiters = Cardinality(Idle) /\ CountedOrDead
  BY DEF PoolInv
<1>3. PICK place \in Places : place = "execute"
  BY DEF Places
<1>4. /\ pc' \in Seq(Places) /\ Len(pc') = Len(pc) /\ DOMAIN pc' = DOMAIN pc
      /\ pc'[w] = "execute" /\ Idle' = Idle \ {w}
  BY <1>1, <1>2, <1>3, Moved
<1>5. Idle' = Idle
  BY <1>1, <1>4 DEF Idle
<1>6. TypeOK'
  BY <1>1, <1>2, <1>4, TakeType DEF TypeOK
<1>7. Counted
  <2>1. pc # <<>>
    OBVIOUS
  <2> QED
    BY <1>2, <2>1 DEF CountedOrDead
<1>8. CountedOrDead' /\ waiters' = Cardinality(Idle')
  BY <1>1, <1>2, <1>5, <1>7 DEF CountedOrDead, Counted
<1>9. NoLostWakeup'
  BY <1>4 DEF NoLostWakeup, Awake
<1> QED
  BY <1>6, <1>8, <1>9 DEF PoolInv

\* A thread that finds none and waits (WorkPool::next) keeps PoolInv.
LEMMA NextWaitInv == \A w \in DOMAIN pc : PoolInv /\ NextWait(w) => PoolInv'
<1> SUFFICES ASSUME NEW w \in DOMAIN pc, PoolInv, NextWait(w) PROVE PoolInv'
  OBVIOUS
<1>1. /\ pc[w] = "next" /\ tasks = <<>> /\ pc' = [pc EXCEPT ![w] = "waiting"]
      /\ available' = Plus(available) /\ waiters' = Plus(waiters)
      /\ UNCHANGED <<submitted, tasks, started, up>>
  BY DEF NextWait
<1>2. TypeOK /\ waiters = Cardinality(Idle) /\ CountedOrDead
  BY DEF PoolInv
<1>3. PICK place \in Places : place = "waiting"
  BY DEF Places
<1>4. /\ pc' \in Seq(Places) /\ Len(pc') = Len(pc) /\ DOMAIN pc' = DOMAIN pc
      /\ Idle' = Idle \cup {w}
  BY <1>1, <1>2, <1>3, Moved
<1>5. /\ Len(pc) \in Nat /\ Len(pc) < U32 /\ U32 \in Nat
      /\ IsFiniteSet(Idle) /\ Cardinality(Idle) \in Nat
  BY <1>2, IdleFinite, TasksAssumption
<1>6. w \notin Idle
  BY <1>1 DEF Idle
<1>7. Cardinality(Idle') = Cardinality(Idle) + 1
  BY <1>4, <1>5, <1>6, FS_AddElement
<1>8. Cardinality(Idle') <= Len(pc)
  <2>1. 1 .. Len(pc) = DOMAIN pc
    BY <1>2 DEF TypeOK
  <2>2. Idle \cup {w} \subseteq DOMAIN pc
    BY DEF Idle
  <2>3. Len(pc) \in Nat
    BY <1>5
  <2>4. IsFiniteSet(1 .. Len(pc)) /\ Cardinality(1 .. Len(pc)) = Len(pc)
    BY <2>3, Interval
  <2>5. Idle \cup {w} \in SUBSET (1 .. Len(pc))
    BY <2>1, <2>2
  <2>6. Cardinality(Idle \cup {w}) <= Cardinality(1 .. Len(pc))
    BY <2>4, <2>5, FS_Subset
  <2> QED
    BY <1>4, <2>4, <2>6
<1>9. Counted
  <2>1. pc # <<>>
    OBVIOUS
  <2> QED
    BY <1>2, <2>1 DEF CountedOrDead
<1>10. available' = Cardinality(Idle') /\ waiters' = Cardinality(Idle')
  <2>1. PICK x \in Nat : x = Cardinality(Idle)
    BY <1>5
  <2>2. x \in 0 .. U32 - 1 /\ x < U32 - 1
    BY <1>5, <1>7, <1>8, <2>1
  <2>3. Plus(x) = x + 1
    BY <2>2, Counting
  <2> QED
    BY <1>1, <1>2, <1>7, <1>9, <2>1, <2>3 DEF Counted
<1>11. TypeOK'
  BY <1>1, <1>2, <1>4, <1>5, <1>7, <1>8, <1>10 DEF TypeOK
<1> QED
  BY <1>1, <1>10, <1>11 DEF PoolInv, CountedOrDead, Counted, NoLostWakeup

\* A wakeup without a signal keeps PoolInv.
LEMMA SpuriousInv == \A w \in DOMAIN pc : PoolInv /\ Spurious(w) => PoolInv'
<1> SUFFICES ASSUME NEW w \in DOMAIN pc, PoolInv, Spurious(w) PROVE PoolInv'
  OBVIOUS
<1>1. /\ pc[w] = "waiting" /\ pc' = [pc EXCEPT ![w] = "woken"]
      /\ UNCHANGED <<submitted, tasks, started, available, waiters, up>>
  BY DEF Spurious
<1>2. TypeOK /\ waiters = Cardinality(Idle) /\ CountedOrDead
  BY DEF PoolInv
<1>3. PICK place \in Places : place = "woken"
  BY DEF Places
<1>4. /\ pc' \in Seq(Places) /\ Len(pc') = Len(pc) /\ DOMAIN pc' = DOMAIN pc
      /\ pc'[w] = "woken" /\ Idle' = Idle \cup {w}
  BY <1>1, <1>2, <1>3, Moved
<1>5. Idle' = Idle
  BY <1>1, <1>4 DEF Idle
<1>6. TypeOK'
  BY <1>1, <1>2, <1>4 DEF TypeOK
<1>7. Counted
  <2>1. pc # <<>>
    OBVIOUS
  <2> QED
    BY <1>2, <2>1 DEF CountedOrDead
<1>8. CountedOrDead' /\ waiters' = Cardinality(Idle')
  BY <1>1, <1>2, <1>5, <1>7 DEF CountedOrDead, Counted
<1>9. NoLostWakeup'
  BY <1>4 DEF NoLostWakeup, Awake
<1> QED
  BY <1>6, <1>8, <1>9 DEF PoolInv

\* A woken thread that finds a task keeps PoolInv.
LEMMA WokenTakeInv == \A w \in DOMAIN pc : PoolInv /\ WokenTake(w) => PoolInv'
<1> SUFFICES ASSUME NEW w \in DOMAIN pc, PoolInv, WokenTake(w) PROVE PoolInv'
  OBVIOUS
<1>1. /\ pc[w] = "woken" /\ Take /\ pc' = [pc EXCEPT ![w] = "execute"]
      /\ available' = Minus(available) /\ waiters' = Minus(waiters)
      /\ UNCHANGED <<submitted, up>>
  BY DEF WokenTake
<1>2. TypeOK /\ waiters = Cardinality(Idle) /\ CountedOrDead
  BY DEF PoolInv
<1>3. PICK place \in Places : place = "execute"
  BY DEF Places
<1>4. /\ pc' \in Seq(Places) /\ Len(pc') = Len(pc) /\ DOMAIN pc' = DOMAIN pc
      /\ pc'[w] = "execute" /\ Idle' = Idle \ {w}
  BY <1>1, <1>2, <1>3, Moved
<1>5. /\ Len(pc) \in Nat /\ Len(pc) < U32 /\ U32 \in Nat
      /\ IsFiniteSet(Idle) /\ Cardinality(Idle) \in Nat /\ Cardinality(Idle) <= Len(pc)
  BY <1>2, IdleFinite, TasksAssumption
<1>6. w \in Idle
  BY <1>1 DEF Idle
<1>7. Cardinality(Idle') = Cardinality(Idle) - 1 /\ Cardinality(Idle) > 0
  <2>1. Cardinality(Idle') = Cardinality(Idle) - 1
    BY <1>4, <1>5, <1>6, FS_RemoveElement
  <2>2. Cardinality(Idle) # 0
    BY <1>5, <1>6, FS_EmptySet
  <2> QED
    BY <1>5, <2>1, <2>2
<1>8. Counted
  <2>1. pc # <<>>
    OBVIOUS
  <2> QED
    BY <1>2, <2>1 DEF CountedOrDead
<1>9. available' = Cardinality(Idle') /\ waiters' = Cardinality(Idle')
  <2>1. Minus(Cardinality(Idle)) = Cardinality(Idle) - 1
    BY <1>5, <1>7, Counting
  <2> QED
    BY <1>1, <1>2, <1>7, <1>8, <2>1 DEF Counted
<1>10. TypeOK'
  BY <1>1, <1>2, <1>4, <1>5, <1>7, <1>9, TakeType DEF TypeOK
<1>11. NoLostWakeup'
  BY <1>4 DEF NoLostWakeup, Awake
<1> QED
  BY <1>9, <1>10, <1>11 DEF PoolInv, CountedOrDead, Counted

\* A woken thread that finds none keeps PoolInv.
LEMMA WokenWaitInv == \A w \in DOMAIN pc : PoolInv /\ WokenWait(w) => PoolInv'
<1> SUFFICES ASSUME NEW w \in DOMAIN pc, PoolInv, WokenWait(w) PROVE PoolInv'
  OBVIOUS
<1>1. /\ pc[w] = "woken" /\ tasks = <<>> /\ pc' = [pc EXCEPT ![w] = "waiting"]
      /\ available' = Plus(Minus(available)) /\ waiters' = Plus(Minus(waiters))
      /\ UNCHANGED <<submitted, tasks, started, up>>
  BY DEF WokenWait
<1>2. TypeOK /\ waiters = Cardinality(Idle) /\ CountedOrDead
  BY DEF PoolInv
<1>3. PICK place \in Places : place = "waiting"
  BY DEF Places
<1>4. /\ pc' \in Seq(Places) /\ Len(pc') = Len(pc) /\ DOMAIN pc' = DOMAIN pc
      /\ Idle' = Idle \cup {w}
  BY <1>1, <1>2, <1>3, Moved
<1>5. Idle' = Idle
  BY <1>1, <1>4 DEF Idle
<1>6. available' = available /\ waiters' = waiters
  <2>1. available \in 0 .. U32 - 1 /\ waiters \in 0 .. U32 - 1
    <3>1. Len(pc) \in Nat /\ Len(pc) < U32 /\ U32 \in Nat
      BY <1>2, IdleFinite, TasksAssumption
    <3> QED
      BY <1>2, <3>1 DEF TypeOK
  <2> QED
    BY <1>1, <2>1, Counting
<1>7. TypeOK'
  BY <1>1, <1>2, <1>4, <1>6 DEF TypeOK
<1>8. Counted
  <2>1. pc # <<>>
    OBVIOUS
  <2> QED
    BY <1>2, <2>1 DEF CountedOrDead
<1> QED
  BY <1>1, <1>2, <1>5, <1>6, <1>7, <1>8 DEF PoolInv, CountedOrDead, Counted, NoLostWakeup

\* The end of a task (Worker::run) keeps PoolInv.
LEMMA ExecutedInv == \A w \in DOMAIN pc : PoolInv /\ Executed(w) => PoolInv'
<1> SUFFICES ASSUME NEW w \in DOMAIN pc, PoolInv, Executed(w) PROVE PoolInv'
  OBVIOUS
<1>1. /\ pc[w] = "execute" /\ pc' = [pc EXCEPT ![w] = "next"]
      /\ UNCHANGED <<submitted, tasks, started, available, waiters, up>>
  BY DEF Executed
<1>2. TypeOK /\ waiters = Cardinality(Idle) /\ CountedOrDead
  BY DEF PoolInv
<1>3. PICK place \in Places : place = "next"
  BY DEF Places
<1>4. /\ pc' \in Seq(Places) /\ Len(pc') = Len(pc) /\ DOMAIN pc' = DOMAIN pc
      /\ pc'[w] = "next" /\ Idle' = Idle \ {w}
  BY <1>1, <1>2, <1>3, Moved
<1>5. Idle' = Idle
  BY <1>1, <1>4 DEF Idle
<1>6. TypeOK'
  BY <1>1, <1>2, <1>4 DEF TypeOK
<1>7. Counted
  <2>1. pc # <<>>
    OBVIOUS
  <2> QED
    BY <1>2, <2>1 DEF CountedOrDead
<1>8. NoLostWakeup'
  BY <1>4 DEF NoLostWakeup, Awake
<1> QED
  BY <1>1, <1>2, <1>5, <1>6, <1>7, <1>8 DEF PoolInv, CountedOrDead, Counted

\* The end of the pool, and a step of somebody else, keep the invariant.
LEMMA UnmovedInv ==
  ASSUME PoolInv, UNCHANGED <<submitted, tasks, started, available, waiters, pc>>, up' \in BOOLEAN
  PROVE  PoolInv'
<1>1. Idle' = Idle /\ Awake' = Awake
  BY DEF Idle, Awake
<1>2. TypeOK'
  BY DEF PoolInv, TypeOK
<1> QED
  BY <1>1, <1>2 DEF PoolInv, CountedOrDead, Counted, NoLostWakeup

-----------------------------------------------------------------------------
(* The theorems. *)

\* The invariant holds of a new pool.
THEOREM InitPool == Init => PoolInv
<1> SUFFICES ASSUME Init PROVE PoolInv
  OBVIOUS
<1>1. Idle = {} /\ Cardinality({}) = 0
  BY FS_EmptySet DEF Init, Idle
<1>2. TypeOK
  <2>1. tasks \in Seq(1 .. MaxTasks) /\ started \in Seq(1 .. MaxTasks) /\ pc \in Seq(Places)
    BY DEF Init
  <2> QED
    BY <2>1, TasksAssumption, GarbageAssumption DEF Init, TypeOK
<1> QED
  BY <1>1, <1>2 DEF Init, PoolInv, CountedOrDead, NoLostWakeup

\* Every step of a client, of a thread or of the destructor keeps the
\* counters exact and wakes somebody for each queued task.
THEOREM NextPool == PoolInv /\ [Next]_vars => PoolInv'
<1> SUFFICES ASSUME PoolInv, [Next]_vars PROVE PoolInv'
  OBVIOUS
<1>1. CASE Submit
  BY <1>1, SubmitInv
<1>2. CASE \E w \in DOMAIN pc : Working(w) \/ Spurious(w)
  BY <1>2, NextTakeInv, NextWaitInv, WokenTakeInv, WokenWaitInv, ExecutedInv, SpuriousInv DEF Working
<1>3. CASE Destroy
  BY <1>3, UnmovedInv DEF Destroy
<1>4. CASE UNCHANGED vars
  <2>1. up' \in BOOLEAN
    BY <1>4 DEF vars, PoolInv, TypeOK
  <2> QED
    BY <1>4, <2>1, UnmovedInv DEF vars
<1> QED
  BY <1>1, <1>2, <1>3, <1>4 DEF Next

\* No wakeup of the pool is ever lost, for any number of tasks and threads.
THEOREM NoWakeupLost == Spec => []NoLostWakeup
<1>1. PoolInv => NoLostWakeup
  BY DEF PoolInv
<1> QED
  BY <1>1, InitPool, NextPool, PTL DEF Spec

\* submit, next and run keep the type of the queue, the counters and the
\* threads: never are more threads started than tasks were submitted.
THEOREM AlwaysTyped == Spec => []TypeOK
<1>1. PoolInv => TypeOK
  BY DEF PoolInv
<1> QED
  BY <1>1, InitPool, NextPool, PTL DEF Spec

\* The counter of available threads is always exact, or the pool never starts
\* a thread.
THEOREM AlwaysCounted == Spec => []CountedOrDead
<1>1. PoolInv => CountedOrDead
  BY DEF PoolInv
<1> QED
  BY <1>1, InitPool, NextPool, PTL DEF Spec

-----------------------------------------------------------------------------
(* The order of the tasks. *)

\* A task that moves from the head of one list to the end of the other leaves
\* the two of them, joined, as they were.
LEMMA HeadMoved ==
  ASSUME NEW S, NEW s \in Seq(S), NEW t \in Seq(S), t # <<>>
  PROVE  Append(s, Head(t)) \o Tail(t) = s \o t
<1>1. /\ Head(t) \in S /\ Head(t) = t[1] /\ Tail(t) \in Seq(S) /\ Len(t) \in Nat \ {0}
      /\ Len(Tail(t)) = Len(t) - 1 /\ \A i \in 1 .. Len(t) - 1 : Tail(t)[i] = t[i + 1]
  BY HeadTailProperties, EmptySeq
<1>2. PICK a \in Seq(S), b \in Seq(S) : a = Append(s, Head(t)) /\ b = Tail(t)
  BY <1>1, AppendProperties
<1>3. /\ Len(s) \in Nat /\ Len(a) = Len(s) + 1
      /\ \A i \in 1 .. Len(s) + 1 : a[i] = IF i = Len(s) + 1 THEN t[1] ELSE s[i]
  BY <1>1, <1>2
<1>4. /\ a \o b \in Seq(S) /\ Len(a \o b) = Len(a) + Len(b)
      /\ \A i \in 1 .. Len(a) + Len(b) : (a \o b)[i] = IF i <= Len(a) THEN a[i] ELSE b[i - Len(a)]
  BY ConcatProperties
<1>5. /\ s \o t \in Seq(S) /\ Len(s \o t) = Len(s) + Len(t)
      /\ \A i \in 1 .. Len(s) + Len(t) : (s \o t)[i] = IF i <= Len(s) THEN s[i] ELSE t[i - Len(s)]
  BY ConcatProperties
<1>6. Len(a \o b) = Len(s \o t)
  BY <1>1, <1>2, <1>3, <1>4, <1>5
<1>7. ASSUME NEW i \in 1 .. Len(s) + Len(t) PROVE (a \o b)[i] = (s \o t)[i]
  <2>1. CASE i <= Len(s)
    BY <1>1, <1>2, <1>3, <1>4, <1>5, <2>1
  <2>2. CASE i = Len(s) + 1
    BY <1>1, <1>2, <1>3, <1>4, <1>5, <2>2
  <2>3. CASE i > Len(s) + 1
    <3>1. i - Len(a) \in 1 .. Len(t) - 1 /\ i - Len(a) + 1 = i - Len(s)
      BY <1>1, <1>3, <2>3
    <3>2. b[i - Len(a)] = t[i - Len(s)]
      BY <1>1, <1>2, <3>1
    <3> QED
      BY <1>1, <1>2, <1>3, <1>4, <1>5, <2>3, <3>2
  <2>4. i <= Len(s) \/ i = Len(s) + 1 \/ i > Len(s) + 1
    <3>1. i \in Int /\ Len(s) \in Int
      BY <1>1, <1>3
    <3> QED
      BY <3>1
  <2> QED
    BY <2>1, <2>2, <2>3, <2>4, Zenon
<1>8. a \o b = s \o t
  BY <1>4, <1>5, <1>6, <1>7, SeqEqual
<1> QED
  BY <1>2, <1>8

\* Taking the head of the queue moves it from the queue's front to the end of
\* what was taken.
LEMMA TakeInOrder == TypeOK /\ InOrder /\ Take /\ submitted' = submitted => InOrder'
<1> SUFFICES ASSUME TypeOK, InOrder, Take, submitted' = submitted PROVE InOrder'
  OBVIOUS
<1>1. started' \o tasks' = started \o tasks
  BY HeadMoved DEF TypeOK, Take
<1> QED
  BY <1>1 DEF InOrder

\* A new task goes to the end of the queue.
LEMMA SubmitInOrder == TypeOK /\ InOrder /\ Submit => InOrder'
<1> SUFFICES ASSUME TypeOK, InOrder, Submit PROVE InOrder'
  OBVIOUS
<1>1. /\ submitted' = submitted + 1 /\ started' = started /\ tasks' = Append(tasks, submitted + 1)
      /\ submitted < MaxTasks
  BY DEF Submit, Pushed
<1>2. /\ submitted \in Nat /\ started \in Seq(Nat) /\ tasks \in Seq(Nat)
  <2>1. 1 .. MaxTasks \subseteq Nat
    OBVIOUS
  <2>2. started \in Seq(Nat) /\ tasks \in Seq(Nat)
    BY <2>1, SeqMonotonic DEF TypeOK
  <2> QED
    BY <2>2 DEF TypeOK
<1>3. PICK x \in Nat : x = submitted + 1
  BY <1>2
<1>4. tasks' = tasks \o <<x>> /\ <<x>> \in Seq(Nat)
  BY <1>1, <1>2, <1>3, AppendIsConcat
<1>5. started' \o tasks' = (started \o tasks) \o <<x>>
  BY <1>1, <1>2, <1>4, ConcatAssociative
<1>6. PICK s \in Seq(Nat) : s = started \o tasks /\ s = [k \in 1 .. submitted |-> k]
  BY <1>2, ConcatProperties DEF InOrder
<1>7. Len(s) = submitted
  BY <1>2, <1>6
<1>8. s \o <<x>> = [k \in 1 .. x |-> k]
  BY <1>2, <1>3, <1>6, <1>7
<1> QED
  BY <1>1, <1>3, <1>5, <1>6, <1>8 DEF InOrder

\* Tasks are taken once each and in the order they were submitted, by any
\* number of threads.
THEOREM AlwaysInOrder == Spec => []InOrder
<1>1. Init => InOrder
  BY DEF Init, InOrder
<1>2. PoolInv /\ InOrder /\ [Next]_vars => InOrder'
  <2> SUFFICES ASSUME TypeOK, InOrder, [Next]_vars PROVE InOrder'
    BY DEF PoolInv
  <2>1. CASE Submit
    BY <2>1, SubmitInOrder
  <2>2. CASE \E w \in DOMAIN pc : NextTake(w) \/ WokenTake(w)
    BY <2>2, TakeInOrder DEF NextTake, WokenTake
  <2>3. CASE UNCHANGED <<submitted, tasks, started>>
    BY <2>3 DEF InOrder
  <2> QED
    BY <2>1, <2>2, <2>3 DEF Next, Working, NextWait, WokenWait, Executed, Spurious, Destroy, vars
<1> QED
  BY <1>1, <1>2, InitPool, NextPool, PTL DEF Spec
=============================================================================
