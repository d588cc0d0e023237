------------------------------ MODULE MCRemote ------------------------------
(* Small instances of Remote. *)
EXTENDS Remote

\* One reference less, one more.
UpDown == {-1, 1}
=============================================================================
