--------------------------- MODULE MCKbaioClient ---------------------------
(* Instances of KbaioClient for TLC. *)
EXTENDS KbaioClient
=============================================================================
