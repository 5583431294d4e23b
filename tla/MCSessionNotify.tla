-------------------------- MODULE MCSessionNotify --------------------------
(* The arrival of two or three files at one session. *)
EXTENDS SessionConsumer
=============================================================================
