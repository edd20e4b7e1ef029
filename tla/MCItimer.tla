------------------------------ MODULE MCItimer -------------------------------
(* Small instances of Itimer for TLC. *)
EXTENDS Itimer
=============================================================================
