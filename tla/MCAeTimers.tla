----------------------------- MODULE MCAeTimers -----------------------------
(* Instances of AeTimers for TLC. *)
EXTENDS AeTimers
=============================================================================
