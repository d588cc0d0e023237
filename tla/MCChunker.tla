----------------------------- MODULE MCChunker ------------------------------
(* Small instances of Chunker. *)
EXTENDS Chunker

\* Bytes below and above zero.
Signed == {-1, 0, 2}
=============================================================================
