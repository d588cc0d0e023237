------------------------------- MODULE Remote -------------------------------
(***************************************************************************)
(* python/swig.hh, class Remote: a backend whose calls are passed to a     *)
(* Python object, between a native caller and the store the object speaks  *)
(* for (module Fetch, with its local clients and its scans).               *)
(*                                                                         *)
(* The object is not in the sources, which have stubs; it passes a call on *)
(* to a store, or refuses it, or raises an exception before or after the   *)
(* store has done it.  The native caller keeps, for each hash of its own,  *)
(* the references it has been told there are.                              *)
(* AdjustedWide is Adjusted with a mistake.                                *)
(***************************************************************************)
EXTENDS Fetch

CONSTANTS
  Mine,     \* the hashes of the native caller; the others are local clients'
  Ends,     \* how a call of the object may end
  Deltas,   \* arguments of adjrefs
  MaxRefs   \* bound: references of a chunk in the caller's picture

ASSUME MineAssumption == Mine \subseteq Hashes
ASSUME EndsAssumption == Ends \subseteq {"answers", "refuses", "fails", "lost", "other"}
ASSUME DeltasAssumption == Deltas \subseteq Int
ASSUME MaxRefsAssumption == MaxRefs \in Nat /\ GivenRefs \subseteq 0 .. MaxRefs

VARIABLES
  picture,     \* the caller: hash -> references, of what it was told
  via,         \* whether the scan asks the store or the Remote
  alive        \* the process of the caller

vars == <<fvars, picture, via, alive>>

Init ==
  /\ FetchInit
  /\ picture = <<>>
  /\ via = "store" /\ alive = TRUE

-----------------------------------------------------------------------------
(* Remote::eval and what the calls make of its result.                     *)

\* The object has the store do the call.
Passed(how) == how \in {"answers", "lost", "other"}

\* eval gives a result, and does not give NULL for an exception or for a
\* method that is missing.
Evaluated(how) == how \in {"answers", "refuses", "other"}

\* add, remove and adjrefs: PyBool_Check asks for the type of the result.
Told(how) == Evaluated(how) /\ how \in {"answers", "refuses"}

\* The call is over.
Reported(how, new) ==
  /\ picture' = IF Told(how) THEN new ELSE picture
  /\ UNCHANGED <<scan, seen, via, alive>>

StoreUnchanged == UNCHANGED <<records, ghosts>>

Knowing(h, refs) == [x \in DOMAIN picture \cup {h} |-> IF x = h THEN refs ELSE picture[x]]

\* add hands the object its chunk as a Hash: where the object passes it on to a
\* store, the wrapper of Store::add refuses the argument with an exception.
RemoteAdd(h, refs, how) ==
  /\ alive
  /\ StoreUnchanged
  /\ Reported(IF Passed(how) THEN "fails" ELSE how, Knowing(h, refs))

RemoteRemove(h, how) ==
  /\ alive
  /\ IF Passed(how) /\ h \in DOMAIN records THEN StoreRemoves(h) ELSE StoreUnchanged
  /\ Reported(how, Restrict(picture, DOMAIN picture \ {h}))

\* What Store::adjrefs does not refuse.
Allowed(h, d) == h \in DOMAIN records /\ records[h].refs + d >= 0

\* The field of the record, 16 bits wide.
AdjustedWide(refs, d) == refs + d
Adjusted(refs, d) == (refs + d) % REFS

RemoteAdjrefs(h, d, how) ==
  /\ alive
  /\ h \in DOMAIN picture => picture[h] + d \in -MaxRefs .. MaxRefs
  /\ records' = IF Passed(how) /\ Allowed(h, d)
                  THEN [records EXCEPT ![h].refs = Adjusted(@, d)] ELSE records
  /\ UNCHANGED ghosts
  /\ Reported(how, [x \in DOMAIN picture |-> IF x = h THEN picture[x] + d ELSE picture[x]])

\* Remote::list gives an empty list for any result.
ListPage ==
  /\ alive /\ Scanning /\ via = "remote"
  /\ Given(<<>>)
  /\ UNCHANGED <<picture, via, alive>>

\* Remote::list gives NULL for an exception, and the typemap of swig.i reads
\* through it: the process ends, in the middle of the scan.
ListFails(how) ==
  /\ alive /\ Scanning /\ via = "remote"
  /\ ~Evaluated(how)
  /\ alive' = FALSE
  /\ UNCHANGED <<fvars, picture, via>>

-----------------------------------------------------------------------------
(* The store's own clients, which need not be watched once the caller ends. *)
(* They add the caller's chunks too, which it cannot, and tell it.          *)

LocalAdd(h, flags) ==
  /\ alive /\ h \notin DOMAIN records
  /\ StoreAdds(h, flags)
  /\ picture' = IF h \in Mine THEN Knowing(h, flags.refs) ELSE picture
  /\ UNCHANGED <<scan, seen, via, alive>>

LocalRemove(h) ==
  /\ alive /\ h \in DOMAIN records
  /\ StoreRemoves(h)
  /\ UNCHANGED <<scan, seen, picture, via, alive>>

BeginScan(kind, size, by) ==
  /\ alive
  /\ Begin(kind, size)
  /\ via' = by
  /\ UNCHANGED <<picture, alive>>

StorePage ==
  /\ alive /\ via = "store"
  /\ FetchPage
  /\ UNCHANGED <<picture, via, alive>>

-----------------------------------------------------------------------------
Next ==
  \/ \E h \in Mine, how \in Ends :
       \/ \E refs \in GivenRefs : RemoteAdd(h, refs, how)
       \/ RemoteRemove(h, how)
       \/ \E d \in Deltas : RemoteAdjrefs(h, d, how)
  \/ \E h \in Hashes, flags \in Flags : LocalAdd(h, flags)
  \/ \E h \in Hashes \ Mine : LocalRemove(h)
  \/ \E kind \in Kinds, size \in Sizes, by \in {"store", "remote"} : BeginScan(kind, size, by)
  \/ StorePage \/ ListPage \/ \E how \in Ends : ListFails(how)

Spec == Init /\ [][Next]_vars

\* A scan that has begun goes on to its next page.  Nobody need begin one,
\* and nobody need add or remove.
Pages == StorePage \/ ListPage
FairSpec == Spec /\ WF_vars(Pages)

-----------------------------------------------------------------------------
\* Every variable has its type.
TypeOK ==
  /\ DOMAIN records \subseteq Hashes
  /\ records \in [DOMAIN records -> [type : Types, refs : 0 .. REFS - 1]]
  /\ scan.phase \in {"idle", "on", "done"} /\ scan.kind \in Kinds
  /\ scan.size \in Sizes \cup {0} /\ scan.start \in 0 .. Cardinality(Hashes)
  /\ seen \in [Hashes -> Nat]
  /\ stayed \subseteq DOMAIN records
  /\ removed \in 0 .. Cardinality(Hashes) /\ added \in BOOLEAN
  /\ DOMAIN picture \subseteq Mine /\ picture \in [DOMAIN picture -> -MaxRefs .. MaxRefs]
  /\ via \in {"store", "remote"} /\ alive \in BOOLEAN

\* The caller's picture of a chunk: it is stored, with so many references.
Right(h) ==
  /\ h \in DOMAIN picture <=> h \in DOMAIN records
  /\ h \in DOMAIN picture => picture[h] = records[h].refs

\* Where the object answers every call with whether it was done, and no count
\* runs over, what the caller was told of its chunks is what the store has: the
\* result of the call is what it is told.
ResultGrabbed == \A h \in Mine : Right(h)

\* A scan of the store, of all hashes or of a type, misses no more of the
\* hashes that were there all along than were removed meanwhile; adds make it
\* miss none.
ScanMisses ==
  scan.phase = "done" /\ via = "store" =>
    Cardinality({h \in stayed : seen[h] = 0}) <= removed

\* A scan of all hashes gives none twice unless one was added meanwhile.
ScanOnce ==
  scan.phase = "done" /\ scan.kind = "ALL" /\ ~added => \A h \in Hashes : seen[h] <= 1

\* When a scan of the store ends in which nothing came or went, it has given as
\* many different hashes as the count call of its kind says there are.
ScanCounts ==
  [][Scanning /\ scan'.phase = "done" /\ via = "store" /\ removed = 0 /\ ~added =>
       Cardinality({h \in Hashes : seen[h] > 0}) = Count(scan.kind)]_vars

\* A scan of the store comes to its last page, however often hashes come and go
\* between its calls: each page begins further on in a map that never holds
\* more than all the hashes there are.
ScanEnds == Scanning /\ via = "store" ~> ~Scanning
=============================================================================
