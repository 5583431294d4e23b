-------------------------- MODULE MessageTransfer --------------------------
(***************************************************************************)
(* What the spool promises to those who write to it, with no directories,  *)
(* daemons or signals: a message that was put is in its custody until the  *)
(* peer has it, the peer has refused it and it is kept for the operator,   *)
(* or the file system would not keep it.  The peer may be given a message  *)
(* more than once; it is given nothing that was not put.                   *)
(***************************************************************************)
CONSTANT Messages

VARIABLES
  custody,     \* messages the spool answers for
  delivered,   \* messages the peer has been given
  rejected,    \* messages kept as refused
  abandoned    \* messages the file system has not let it keep

vars == <<custody, delivered, rejected, abandoned>>

Init ==
  /\ custody = {}
  /\ delivered = {}
  /\ rejected = {}
  /\ abandoned = {}

Put(m) ==
  /\ m \notin custody \cup delivered \cup rejected
  /\ custody' = custody \cup {m}
  /\ UNCHANGED <<delivered, rejected, abandoned>>

Hand(m) ==
  /\ m \in custody
  /\ delivered' = delivered \cup {m}
  /\ UNCHANGED <<custody, rejected, abandoned>>

Reject(m) ==
  /\ m \in custody
  /\ rejected' = rejected \cup {m}
  /\ UNCHANGED <<custody, delivered, abandoned>>

(* A link of m fails: perhaps before the call that writes m has returned.  *)
Abandon(m) ==
  /\ abandoned' = abandoned \cup {m}
  /\ UNCHANGED <<custody, delivered, rejected>>

Discharge(m) ==
  /\ m \in custody
  /\ m \in delivered \cup rejected \cup abandoned
  /\ custody' = custody \ {m}
  /\ UNCHANGED <<delivered, rejected, abandoned>>

Next == \E m \in Messages : Put(m) \/ Hand(m) \/ Reject(m) \/ Abandon(m) \/ Discharge(m)

Spec == Init /\ [][Next]_vars
=============================================================================
