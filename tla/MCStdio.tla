------------------------------ MODULE MCStdio --------------------------------
(* Small instances of Stdio for TLC. *)
EXTENDS Stdio
=============================================================================
