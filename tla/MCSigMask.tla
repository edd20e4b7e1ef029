------------------------------ MODULE MCSigMask ------------------------------
(* Instances of SigMask for TLC. *)
EXTENDS SigMask
=============================================================================
