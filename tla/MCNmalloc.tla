----------------------------- MODULE MCNmalloc -------------------------------
(* Small instances of Nmalloc for TLC. *)
EXTENDS Nmalloc
=============================================================================
