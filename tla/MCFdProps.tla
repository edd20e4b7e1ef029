------------------------------ MODULE MCFdProps ------------------------------
(* Small instances of FdProps for TLC. *)
EXTENDS FdProps
=============================================================================
