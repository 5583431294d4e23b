---------------------------- MODULE MCShmQueue ----------------------------
(* Instances of ShmQueue for TLC. *)
EXTENDS ShmQueue, TLC

(* The first process makes two requests, the second one. *)
MCRequests == <<2, 1>>
=============================================================================
