------------------------------ MODULE MCDlopen -------------------------------
(* Small instances of Dlopen for TLC. *)
EXTENDS Dlopen
=============================================================================
