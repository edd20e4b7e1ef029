------------------------------ MODULE MCExceptn ------------------------------
(* Instances of Exceptn for TLC. *)
EXTENDS Exceptn
=============================================================================
