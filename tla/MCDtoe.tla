------------------------------- MODULE MCDtoe -------------------------------
(* Instances of Dtoe for TLC. *)
EXTENDS Dtoe
=============================================================================
