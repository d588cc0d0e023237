------------------------------- MODULE Backend -------------------------------
(***************************************************************************)
(* What include/smache/backend.hh promises its callers: a durable map from *)
(* hashes to chunks.  A chunk is added once, until it is removed; only its *)
(* reference count changes in between, within sixteen bits; and no other   *)
(* step, a restart included, adds, changes or loses one.                   *)
(***************************************************************************)
EXTENDS Integers

CONSTANTS
  Hashes,  \* hashes of chunks
  Flags,   \* types and references of the chunks that are added
  Deltas,  \* arguments of adjrefs
  REFS     \* modulus of the reference count

VARIABLE chunks  \* hash -> [type, refs]

Init == chunks = <<>>

Add(h, flags) ==
  /\ h \notin DOMAIN chunks
  /\ chunks' = [x \in DOMAIN chunks \cup {h} |-> IF x = h THEN flags ELSE chunks[x]]

Remove(h) ==
  /\ h \in DOMAIN chunks
  /\ chunks' = [x \in DOMAIN chunks \ {h} |-> chunks[x]]

Adjrefs(h, d) ==
  /\ h \in DOMAIN chunks
  /\ chunks[h].refs + d >= 0
  /\ chunks' = [chunks EXCEPT ![h].refs = (@ + d) % REFS]

Next ==
  \E h \in Hashes :
    \/ \E flags \in Flags : Add(h, flags)
    \/ Remove(h)
    \/ \E d \in Deltas : Adjrefs(h, d)

Spec == Init /\ [][Next]_chunks
=============================================================================
