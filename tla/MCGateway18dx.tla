--------------------------- MODULE MCGateway18dx ---------------------------
(* Instances of Gateway18dx for TLC. *)
EXTENDS Gateway18dx, TLC
=============================================================================
