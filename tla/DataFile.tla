------------------------------ MODULE DataFile ------------------------------
(***************************************************************************)
(* The free list of a data file: lib/store.cc, class DataFile.             *)
(*                                                                         *)
(* The list is a sequence of entries [first, second], in the list's order: *)
(* second units are free from offset first on.  find, mark and release     *)
(* edit one or two entries in place, as the code does; the order of the    *)
(* list and duplicated entries matter to first fit, so it is not a set.    *)
(*                                                                         *)
(* An operator that only a comment's word sets apart from the one defined  *)
(* after it (TakeNothing and Take) is that operator with a mistake: a run  *)
(* has to notice the difference.                                           *)
(* Offsets are 64 bits wide and never wrap here; second is a uint32_t.     *)
(***************************************************************************)
EXTENDS Integers, Sequences, SequencesExt, FiniteSetsExt

CONSTANTS
  PAGESIZE,   \* files are grown to a multiple of this
  U32         \* 2^32: the modulus of the uint32_t second of an entry

ASSUME PageAssumption == PAGESIZE \in Nat \ {0}
ASSUME U32Assumption == U32 \in Nat \ {0}

Entry == [first : Nat, second : Nat]
FreeEntry(first, second) == [first |-> first, second |-> second % U32]

\* One past the last unit of an entry.
End(e) == e.first + e.second

\* What ftruncate makes of a requested size.
ROUNDDOWN(x) == PAGESIZE * (x \div PAGESIZE)
ROUNDUP(x) == PAGESIZE * ((x + (PAGESIZE - 1)) \div PAGESIZE)

-----------------------------------------------------------------------------
(* find: first fit.  The entry keeps its first and loses length units at   *)
(* its END, though the units handed out are those at its beginning.        *)

Fits(free, length) == {i \in DOMAIN free : free[i].second >= length}
FirstFit(free, length) == Min(Fits(free, length))

TakeNothing(free, i, length) == free
Take(free, i, length) ==
  IF free[i].second = length
  THEN RemoveAt(free, i)
  ELSE [free EXCEPT ![i] = FreeEntry(free[i].first, free[i].second - length)]

-----------------------------------------------------------------------------
(* release: walk to the first entry that ends at the extent or starts past *)
(* it.  An entry that ends at the extent grows; if the next entry now      *)
(* touches it, that one is widened too and BOTH stay in the list.          *)

StopsAt(e, offset) == End(e) = offset \/ e.first > offset
ReleasePoint(free, offset) ==
  LET stops == {i \in DOMAIN free : StopsAt(free[i], offset)}
  IN  IF stops = {} THEN Len(free) + 1 ELSE Min(stops)

GrownAt(free, i, length) == FreeEntry(free[i].first, free[i].second + length)

Bridges(free, offset, length) ==
  LET i == ReleasePoint(free, offset)
  IN  /\ length > 0
      /\ i < Len(free)
      /\ End(free[i]) = offset
      /\ free[i + 1].first = End(GrownAt(free, i, length))

ReleaseNothing(free, offset, length) == free
Release(free, offset, length) ==
  LET i == ReleasePoint(free, offset)
      grown == GrownAt(free, i, length)
  IN  CASE length = 0 -> free
        [] length > 0 /\ Bridges(free, offset, length) ->
             [free EXCEPT ![i] = grown,
                          ![i + 1] = FreeEntry(grown.first,
                                               free[i + 1].second + grown.second)]
        [] length > 0 /\ ~Bridges(free, offset, length)
             /\ i <= Len(free) /\ End(free[i]) = offset ->
             [free EXCEPT ![i] = grown]
        [] length > 0 /\ i <= Len(free) /\ End(free[i]) # offset
             /\ free[i].first = offset + length ->
             [free EXCEPT ![i] = FreeEntry(offset, free[i].second + length)]
        [] OTHER -> InsertAt(free, i, FreeEntry(offset, length))

-----------------------------------------------------------------------------
(* mark: one iteration of the loop, at iterator position it, that takes    *)
(* the extent [offset, offset+length) out of the list.                     *)

Covered(e, offset, end) == offset <= e.first /\ End(e) <= end
HeadCut(e, offset, end) == ~Covered(e, offset, end) /\ offset <= e.first /\ e.first < end
TailCut(e, offset, end) == e.first < offset /\ offset < End(e) /\ End(e) <= end
Inside(e, offset, end)  == e.first < offset /\ end < End(e)

ErasedNot(free, it) == free
Erased(free, it) == RemoveAt(free, it)

MarkEntry(free, it, offset, end) ==
  LET e == free[it]
  IN  CASE Covered(e, offset, end) -> Erased(free, it)
        [] HeadCut(e, offset, end) -> [free EXCEPT ![it] = FreeEntry(end, End(e) - end)]
        [] TailCut(e, offset, end) -> [free EXCEPT ![it] = FreeEntry(e.first, offset - e.first)]
        [] Inside(e, offset, end)  ->
             InsertAt([free EXCEPT ![it] = FreeEntry(end, End(e) - end)], it,
                      FreeEntry(e.first, offset - e.first))
        [] OTHER -> free

\* The iterator after the iteration.  After an erase the code steps back
\* unless the erased entry was the head, and the loop then steps forward:
\* past the new head when the head was erased.  After an insert before the
\* iterator the entry it stands on has moved one place on.
MarkNextInserted(free, it, offset, end) ==
  IF Covered(free[it], offset, end) /\ it > 1 THEN it ELSE it + 1
MarkNext(free, it, offset, end) ==
  LET e == free[it]
  IN  CASE Covered(e, offset, end) -> IF it = 1 THEN 2 ELSE it
        [] Inside(e, offset, end)  -> it + 2
        [] OTHER -> it + 1
=============================================================================
