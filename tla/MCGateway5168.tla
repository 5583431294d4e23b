--------------------------- MODULE MCGateway5168 ---------------------------
(* Instances of Gateway5168 for TLC. *)
EXTENDS Gateway5168, TLC
=============================================================================
