---------------------------- MODULE MCKraioWrite ----------------------------
(* Instances of KraioWrite for TLC. *)
EXTENDS KraioWrite

MCBufCaps == {1, 2}
=============================================================================
