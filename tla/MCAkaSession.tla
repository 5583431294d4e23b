--------------------------- MODULE MCAkaSession ---------------------------
(* Instances of AkaSession for TLC. *)
EXTENDS AkaSession, TLC

(* The php function; a BBS; a packet out of place; a wrong password. *)
MCScripts == {<<"PWD", "SM">>, <<"PWD", "CDR", "SM", "OTHER", "SM">>, <<"OTHER">>}
=============================================================================
