------------------------------ MODULE MCHwInt --------------------------------
(* Small instances of HwInt for TLC. *)
EXTENDS HwInt
=============================================================================
