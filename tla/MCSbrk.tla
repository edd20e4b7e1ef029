------------------------------- MODULE MCSbrk --------------------------------
(* Small instances of Sbrk for TLC. *)
EXTENDS Sbrk
=============================================================================
