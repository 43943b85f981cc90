---------------------------- MODULE MCKraioWrite6 ----------------------------
(* Instances of KraioWrite6 for TLC. *)
EXTENDS KraioWrite6
=============================================================================
