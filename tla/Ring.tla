-------------------------------- MODULE Ring --------------------------------
(***************************************************************************)
(* include/smache/backend.hh, class BackendPool: buckets, each the hash of *)
(* a place on a ring, and the backend that has it.  Hashes are compared    *)
(* byte by byte, as unsigned numbers: here they are numbers.               *)
(* An operator that only a comment's word sets apart from the one after it *)
(* (SweepFirst and Sweep) is that operator with a mistake.                 *)
(***************************************************************************)
EXTENDS Integers, Sequences, SequencesExt, FiniteSets, FiniteSetsExt, Functions

CONSTANTS
  Places,    \* the number of hashes: they are 0 .. Places - 1
  Backends,  \* the backends
  MaxTaken   \* bound: the largest n of closest

ASSUME PlacesAssumption == Places \in Nat \ {0}
ASSUME TakenAssumption == MaxTaken \in Nat

VARIABLE buckets  \* BackendPool::buckets: hash -> backend, a sorted map

Hashes == 0 .. Places - 1
NULL == <<"NULL">>
Buckets == DOMAIN buckets

Init == buckets = <<>>

\* BackendPool::add: a bucket that is there is given to the new backend.
AddBucket(bucket, backend) ==
  buckets' = [b \in Buckets \cup {bucket} |-> IF b = bucket THEN backend ELSE buckets[b]]

\* BackendPool::remove.
ErasedFrom(bucket) == Restrict(buckets, {b \in Buckets : b < bucket})
Erased(bucket) == Restrict(buckets, Buckets \ {bucket})
RemoveBucket(bucket) == bucket \in Buckets /\ buckets' = Erased(bucket)

-----------------------------------------------------------------------------
(* BackendPool::closest: an iterator, that starts at lower_bound, steps    *)
(* round the ring, and is read after each step.                            *)

UpperBound(key) ==
  LET after == {b \in Buckets : b > key} IN IF after = {} THEN Min(Buckets) ELSE Min(after)
LowerBound(key) ==
  LET from == {b \in Buckets : b >= key} IN IF from = {} THEN Min(Buckets) ELSE Min(from)

\* The iterator after one step, past the end at the beginning again.
Stepped ==
  [b \in Buckets |->
     LET after == {c \in Buckets : c > b} IN IF after = {} THEN Min(Buckets) ELSE Min(after)]

\* The iterator after each of the first n steps, and before the first.
SweepFirst(key, n) ==
  LET at[j \in 0 .. n] == IF j = 0 THEN LowerBound(key) ELSE Stepped[at[j - 1]]
  IN  [j \in 1 .. n |-> at[j - 1]]
Sweep(key, n) ==
  LET at[j \in 0 .. n] == IF j = 0 THEN LowerBound(key) ELSE Stepped[at[j - 1]]
  IN  [j \in 1 .. n |-> at[j]]

Closest(key, n) ==
  IF Buckets = {} THEN NULL
  ELSE [j \in 1 .. n |-> buckets[Sweep(key, n)[j]]]

-----------------------------------------------------------------------------
Next ==
  \E bucket \in Hashes :
    \/ \E backend \in Backends : AddBucket(bucket, backend)
    \/ RemoveBucket(bucket)

Spec == Init /\ [][Next]_buckets

-----------------------------------------------------------------------------
\* The way round the ring from a key to a bucket; the bucket that k others
\* come before.
Clockwise(key, b) == (b - key) % Places
Nearest(key, k) ==
  CHOOSE b \in Buckets :
    Cardinality({c \in Buckets : Clockwise(key, c) < Clockwise(key, b)}) = k

\* closest gives the backends of the buckets in the order in which one meets
\* them going round the ring from the key, save that the first one met comes
\* last: it is there only when n is the size of the ring, and with more than
\* that the list goes round again.
ClosestExact ==
  \A key \in Hashes, n \in 0 .. MaxTaken :
    LET m == Cardinality(Buckets)
    IN  Closest(key, n) =
          IF m = 0 THEN NULL
          ELSE [j \in 1 .. n |-> buckets[Nearest(key, j % m)]]

\* A bucket that comes or goes takes over or gives up a place in the list of
\* any key, and no other bucket of the list changes: of n buckets, all but one
\* stay.
OneChanges ==
  [][\A key \in Hashes, n \in 0 .. MaxTaken :
       n <= Cardinality(Buckets) /\ n <= Cardinality(Buckets') =>
         Cardinality(Range(Sweep(key, n)) \ Range(Sweep(key, n)')) <= 1]_buckets
=============================================================================
