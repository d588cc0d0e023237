------------------------------- MODULE MCStore -------------------------------
(* Small instances of the store.  Hash h names a chunk of h units. *)
EXTENDS StoreProperties

LengthIsHash == [h \in Hashes |-> h]

\* One more reference, or one less: a chunk that has none refuses a decrement.
UpDown == {-1, 1}

\* More than a new chunk has.
Refused == {-2}

\* Bound: do not look past the first defect.
FaultFree == faults = {}

=============================================================================
