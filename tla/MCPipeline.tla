----------------------------- MODULE MCPipeline -----------------------------
(* Instances of Pipeline for TLC: the way down has one consumer, outbox/18dx;*)
(* the way up has a BBS's inbox and inbox/default, and getDest answers the  *)
(* latter whenever its query fails.                                        *)
EXTENDS PipelineInv, TLC

CONSTANTS m1, m2, n1, n2, p18dx, bbs, default

MCDistinct == (m1 :> n1) @@ (m2 :> n2)
MCSameName == (m1 :> n1) @@ (m2 :> n1)

MCDown == [n \in Names |-> {p18dx}]
MCUp == [n \in Names |-> {bbs, default}]
=============================================================================
