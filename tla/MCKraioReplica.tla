--------------------------- MODULE MCKraioReplica ---------------------------
(* Instances of KraioReplica for TLC. *)
EXTENDS KraioReplica
=============================================================================
