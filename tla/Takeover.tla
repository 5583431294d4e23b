------------------------------ MODULE Takeover ------------------------------
(***************************************************************************)
(* doStartChild of CSMSBBSChildProtocol: a BBS that logs in again takes    *)
(* over from the session it has.  A login runs in a process of its own;    *)
(* the processes of one BBS share a file with the pid of the last session, *)
(* and use it under flock.                                                 *)
(*                                                                         *)
(* The file is written over, not truncated, so a pid is modelled as what   *)
(* is in the file: its digits.  A pid that is free may be given to a       *)
(* process that has nothing to do with this BBS ("other").  kill() and the *)
(* death of its target are one step; a process that dies unlocks the file. *)
(***************************************************************************)
EXTENDS Naturals, Sequences, FiniteSets

CONSTANTS
  Pids,      \* the pids of the machine, as sequences of digits
  None,      \* nobody has the lock
  MaxFaults  \* bound: calls of open, flock, read and write that fail

ASSUME TakeoverAssumption ==
  /\ Pids \subseteq Seq(0..9) \ {<<>>}
  /\ None \notin Pids
  /\ MaxFaults \in Nat

VARIABLES
  at,       \* where the process of each pid is
  pidfile,  \* SMSETCDIR childName ".pid"
  lock,     \* who has locked it
  readBuf,  \* what the process that has locked it has read
  faults,   \* calls that have failed
  shorter   \* history: processes whose pid was shorter than what the file held

vars == <<at, pidfile, lock, readBuf, faults, shorter>>

Critical == {"locked", "read", "killed", "wrote"}
Places == {"free", "login", "session", "other"} \cup Critical

(* The file after write() of new over old. *)
Overwrite(new, old) ==
  [i \in 1..(IF Len(new) > Len(old) THEN Len(new) ELSE Len(old)) |->
     IF i <= Len(new) THEN new[i] ELSE old[i]]

Init ==
  /\ at = [p \in Pids |-> "free"]
  /\ pidfile = <<>>
  /\ lock = None
  /\ readBuf = <<>>
  /\ faults = 0
  /\ shorter = {}

Move(p, from, to) ==
  /\ at[p] = from
  /\ at' = [at EXCEPT ![p] = to]

-----------------------------------------------------------------------------

(* Run accepts a connection and forks; loginUser says yes.                 *)
Login(p) ==
  /\ Move(p, "free", "login")
  /\ shorter' = shorter \ {p}
  /\ UNCHANGED <<pidfile, lock, readBuf, faults>>

(* open and flock(LOCK_EX) *)
Lock(p) ==
  /\ lock = None
  /\ Move(p, "login", "locked")
  /\ lock' = p
  /\ UNCHANGED <<pidfile, readBuf, faults, shorter>>

(* open or flock fails: the session goes on all the same.                  *)
LockFails(p) ==
  /\ faults < MaxFaults
  /\ faults' = faults + 1
  /\ Move(p, "login", "session")
  /\ UNCHANGED <<pidfile, lock, readBuf, shorter>>

Read(p) ==
  /\ Move(p, "locked", "read")
  /\ readBuf' = pidfile
  /\ UNCHANGED <<pidfile, lock, faults, shorter>>

ReadFails(p) ==
  /\ faults < MaxFaults
  /\ faults' = faults + 1
  /\ Move(p, "locked", "session")
  /\ lock' = None
  /\ UNCHANGED <<pidfile, readBuf, shorter>>

(* Mutant: the process whose pid was read is left alone. *)
KillNobody(p) ==
  /\ Move(p, "read", "killed")
  /\ UNCHANGED <<pidfile, lock, readBuf, faults, shorter>>

(* kill(atoi(readBuf), SIGKILL), if anything was read.  The pid may have   *)
(* been given to another process since, even to p itself.                  *)
Kill(p) ==
  /\ at[p] = "read"
  /\ at' = [q \in Pids |-> IF q = readBuf THEN "free" ELSE IF q = p THEN "killed" ELSE at[q]]
  /\ lock' = IF readBuf = p THEN None ELSE lock
  /\ UNCHANGED <<pidfile, readBuf, faults, shorter>>

(* lseek and write *)
Write(p) ==
  /\ Move(p, "killed", "wrote")
  /\ pidfile' = Overwrite(p, pidfile)
  /\ shorter' = IF Len(p) < Len(pidfile) THEN shorter \cup {p} ELSE shorter
  /\ UNCHANGED <<lock, readBuf, faults>>

(* write fails, or writes less than it was given: nobody looks.            *)
WriteFails(p) ==
  /\ faults < MaxFaults
  /\ faults' = faults + 1
  /\ Move(p, "killed", "wrote")
  /\ \E n \in 0..(Len(p) - 1) : pidfile' = Overwrite(SubSeq(p, 1, n), pidfile)
  /\ UNCHANGED <<lock, readBuf, shorter>>

(* Mutant: LOCK_UN and close are forgotten. *)
UnlockForgotten(p) ==
  /\ Move(p, "wrote", "session")
  /\ UNCHANGED <<pidfile, lock, readBuf, faults, shorter>>

(* flock(LOCK_UN) and close; OnAccept tells the BBS that it has logged in. *)
Unlock(p) ==
  /\ Move(p, "wrote", "session")
  /\ lock' = None
  /\ UNCHANGED <<pidfile, readBuf, faults, shorter>>

(* LOGOUT, or an error on the socket. *)
Logout(p) ==
  Move(p, "session", "free") /\ UNCHANGED <<pidfile, lock, readBuf, faults, shorter>>

OtherStarts(p) ==
  Move(p, "free", "other") /\ UNCHANGED <<pidfile, lock, readBuf, faults, shorter>>
OtherEnds(p) ==
  Move(p, "other", "free") /\ UNCHANGED <<pidfile, lock, readBuf, faults, shorter>>

(* doStartChild, once it has started, goes on by itself.                   *)
Proceed(p) == Read(p) \/ Kill(p) \/ Write(p) \/ Unlock(p)
Fail(p) == LockFails(p) \/ ReadFails(p) \/ WriteFails(p)
Come(p) == Login(p) \/ OtherStarts(p)
Go(p) == Logout(p) \/ OtherEnds(p)

Next == \E p \in Pids : Lock(p) \/ Proceed(p) \/ Fail(p) \/ Come(p) \/ Go(p)

Spec == Init /\ [][Next]_vars

(* The processes are scheduled, and a process that waits for the lock gets *)
(* it if it is released again and again.                                   *)
Fairness == \A p \in Pids : WF_vars(Proceed(p)) /\ SF_vars(Lock(p))
FairSpec == Spec /\ Fairness

-----------------------------------------------------------------------------
(* Properties. *)

TypeOK ==
  /\ at \in [Pids -> Places]
  /\ pidfile \in Seq(0..9)
  /\ lock \in Pids \cup {None}
  /\ readBuf \in Seq(0..9)
  /\ faults \in 0..MaxFaults
  /\ shorter \subseteq Pids

Sessions == {p \in Pids : at[p] = "session"}

(* What the comment of smsdaemon.h promises of a connection that passes    *)
(* the check: it is the only session of its BBS, for two would both read   *)
(* its inbox.  Refuted for pids of unlike length even if nothing fails.    *)
AtMostOneSession ==
  faults = 0 => \A p, q \in Sessions : p = q

(* A session beyond the first is one whose pid was written over a longer   *)
(* one, so that the file does not name it; or open, flock, read or write   *)
(* has failed, and each failure lets one session more live.                *)
SurplusNeedsCause == Cardinality(Sessions \ shorter) <= 1 + faults

(* A login is never left waiting for the file.                             *)
LoginCompletes == \A p \in Pids : at[p] = "login" ~> at[p] # "login"

(* A login kills a process of this BBS and nothing else.                   *)
OnlySessionsAreKilled ==
  [][\A p, q \in Pids : at[p] = "read" /\ at'[p] # "read" /\ at[q] = "other" => at'[q] = "other"]_vars

(* Sessions the next login does not find although their pid fitted: the    *)
(* file does not name them, or is about to name another.                   *)
Missed ==
  {p \in Pids \ shorter :
     \/ at[p] \in {"session", "wrote"} /\ pidfile # p
     \/ at[p] = "session" /\ \E q \in Pids : at[q] \in {"killed", "wrote"}}

(* Why a login finds the session: whoever has written the file owns the    *)
(* lock or is the session, between read and kill nobody writes it, and     *)
(* what is missed was missed by a failure.                                 *)
TakeoverInvariant ==
  /\ TypeOK
  /\ \A p \in Pids : at[p] \in Critical <=> lock = p
  /\ \A p \in Pids : at[p] = "read" => readBuf = pidfile
  /\ \A p \in shorter : at[p] \notin {"login", "locked", "read", "killed"}

MissedIsBounded == IsFiniteSet(Missed) /\ Cardinality(Missed) <= faults
=============================================================================
