---------------------------- MODULE AkaSession -----------------------------
(***************************************************************************)
(* The daemon of the old protocol, sms_c_aka: the parent accepts, kills    *)
(* the child it has forked last, and forks the next; a child checks the    *)
(* password, serves its client and exits.  Clients are BBS servers or the  *)
(* php function sendsms, which writes a password and one message and       *)
(* closes without reading.                                                 *)
(*                                                                         *)
(* The parent's SIGCHLD is not queued, and its handler calls wait once.    *)
(* SIGPIPE does nothing, and what write returns is not looked at.          *)
(***************************************************************************)
EXTENDS Naturals, Sequences

CONSTANTS
  NConns,      \* bound: connections, numbered in the order of accept
  Scripts,     \* what a client writes: sequences of packets
  Inbox,       \* the messages that wait for the BBS in inbox/c_aka
  MaxFailures, \* bound: calls of writeSMStoStorage that fail
  MaxRestarts  \* bound: ends of the parent

Packets == {"PWD", "SM", "CDR", "OTHER"}

ASSUME AkaAssumption ==
  /\ NConns \in Nat /\ MaxFailures \in Nat /\ MaxRestarts \in Nat
  /\ Scripts \subseteq Seq(Packets)

VARIABLES
  parent,    \* where Run is: "accept", "fork", or "down"
  last,      \* connections that were accepted
  m_pid,     \* the child of this connection, 0 for none
  at,        \* where the child of a connection is
  script,    \* what its client has written
  pos,       \* packets of it that were read
  peer,      \* its client: "open", "closed" or "broken"
  term,      \* the children SIGTERM was sent to
  own,       \* the children of this parent, others are those of init
  sigchld,   \* the signal is pending at the parent
  waiting,   \* its handler is in wait
  verified,  \* history: connections that had the right password
  cut,       \* history: connections of which a packet came in parts
  stored,    \* history: messages that were stored, <<connection, packet>>
  lost,      \* history: messages writeSMStoStorage failed for
  answered,  \* history: messages the client was told MSG_OK for
  taken,     \* history: <<message of Inbox, connection it was written to>>
  failures, restarts

daemon == <<parent, last, m_pid>>
client == <<script, peer>>
children == <<own, sigchld, waiting>>
messages == <<stored, lost, answered, failures>>
vars == <<daemon, at, pos, client, term, children, verified, cut, messages, taken, restarts>>

Conns == 1..NConns
Serving == {"scan", "read", "store", "smr", "sms"}
Living == {"pwd"} \cup Serving
Zombies == {c \in own : at[c] = "zombie"}

Init ==
  /\ parent = "accept" /\ last = 0 /\ m_pid = 0
  /\ at = [c \in Conns |-> "none"]
  /\ script = [c \in Conns |-> <<>>]
  /\ pos = [c \in Conns |-> 0]
  /\ peer = [c \in Conns |-> "open"]
  /\ term = {} /\ own = {} /\ sigchld = FALSE /\ waiting = FALSE
  /\ verified = {} /\ cut = {}
  /\ stored = {} /\ lost = {} /\ answered = {} /\ failures = 0
  /\ taken = {} /\ restarts = 0

Goto(c, label) == at' = [at EXCEPT ![c] = label]

-----------------------------------------------------------------------------
(* The parent. *)

(* Mutant: the child before is left alone. *)
AcceptKillNobody ==
  /\ parent = "accept" /\ ~waiting
  /\ last < NConns
  /\ last' = last + 1
  /\ \E s \in Scripts : script' = [script EXCEPT ![last + 1] = s]
  /\ parent' = "fork"
  /\ UNCHANGED <<m_pid, at, pos, peer, term, children, verified, cut, messages, taken, restarts>>

(* A client connects: SIGTERM for the child before.  kill of a child that  *)
(* was reaped fails, or hits a stranger that has its pid.                  *)
Accept ==
  /\ parent = "accept" /\ ~waiting
  /\ last < NConns
  /\ last' = last + 1
  /\ \E s \in Scripts : script' = [script EXCEPT ![last + 1] = s]
  /\ term' = term \cup ({m_pid} \ {0})
  /\ parent' = "fork"
  /\ UNCHANGED <<m_pid, at, pos, peer, children, verified, cut, messages, taken, restarts>>

Fork ==
  /\ parent = "fork" /\ ~waiting
  /\ Goto(last, "pwd")
  /\ own' = own \cup {last}
  /\ m_pid' = last
  /\ parent' = "accept"
  /\ UNCHANGED <<last, pos, client, term, sigchld, waiting, verified, cut, messages, taken, restarts>>

(* fork fails, or something kills the parent: init takes over its children.*)
ParentEnds ==
  /\ parent # "down"
  /\ restarts < MaxRestarts
  /\ restarts' = restarts + 1
  /\ parent' = "down"
  /\ own' = {} /\ sigchld' = FALSE /\ waiting' = FALSE
  /\ UNCHANGED <<last, m_pid, at, pos, client, term, verified, cut, messages, taken>>

ParentStarts ==
  /\ parent = "down"
  /\ parent' = "accept"
  /\ m_pid' = 0
  /\ UNCHANGED <<last, at, pos, client, term, children, verified, cut, messages, taken, restarts>>

(* SIGCHLD is delivered. *)
OnSignalChild ==
  /\ sigchld /\ ~waiting
  /\ sigchld' = FALSE
  /\ waiting' = TRUE
  /\ UNCHANGED <<daemon, at, pos, client, term, own, verified, cut, messages, taken, restarts>>

(* Mutant: wait is called until there is nothing left to wait for. *)
WaitForAll(c) ==
  /\ waiting
  /\ c \in Zombies
  /\ own' = own \ {c}
  /\ waiting' = (own' # {})
  /\ UNCHANGED <<daemon, at, pos, client, term, sigchld, verified, cut, messages, taken, restarts>>

(* wait takes one zombie.  If there is none it blocks: no step.            *)
Wait(c) ==
  /\ waiting
  /\ c \in Zombies
  /\ own' = own \ {c}
  /\ waiting' = FALSE
  /\ UNCHANGED <<daemon, at, pos, client, term, sigchld, verified, cut, messages, taken, restarts>>

-----------------------------------------------------------------------------
(* The client. *)

(* It closes, or it is gone in a way that makes every read fail.           *)
Hangup(c) ==
  /\ at[c] \in Living
  /\ peer[c] = "open"
  /\ \E how \in {"closed", "broken"} : peer' = [peer EXCEPT ![c] = how]
  /\ UNCHANGED <<daemon, at, pos, script, term, children, verified, cut, messages, taken, restarts>>

-----------------------------------------------------------------------------
(* A child.  A read that fails is repeated for ever: errno=EINTR.          *)

Exits(c) ==
  /\ Goto(c, "zombie")
  /\ sigchld' = (sigchld \/ c \in own)
  /\ UNCHANGED <<daemon, client, term, own, waiting, messages, taken, restarts>>

Terminate(c) ==
  /\ at[c] \in Living
  /\ c \in term
  /\ Exits(c)
  /\ UNCHANGED <<pos, verified, cut>>

Reads(c, label) ==
  /\ at[c] = label
  /\ pos[c] < Len(script[c])
  /\ pos' = [pos EXCEPT ![c] = @ + 1]

Packet(c) == script[c][pos[c] + 1]

(* The packet has not all come when it is read. *)
ReadPart(c) ==
  /\ at[c] \in {"pwd", "read"}
  /\ pos[c] < Len(script[c])
  /\ cut' = cut \cup {c}
  /\ Exits(c)
  /\ UNCHANGED <<pos, verified>>

(* Mutant: no data is taken for an error, too. *)
ReadEndRedo(c) ==
  /\ at[c] \in {"pwd", "read"}
  /\ pos[c] = Len(script[c])
  /\ peer[c] = "closed"
  /\ c \in term
  /\ Exits(c)
  /\ UNCHANGED <<pos, verified, cut>>

ReadEnd(c) ==
  /\ at[c] \in {"pwd", "read"}
  /\ pos[c] = Len(script[c])
  /\ peer[c] = "closed"
  /\ Exits(c)
  /\ UNCHANGED <<pos, verified, cut>>

WrongPassword(c) ==
  /\ Reads(c, "pwd")
  /\ Packet(c) # "PWD"
  /\ Exits(c)
  /\ UNCHANGED <<verified, cut>>

(* Mutant: the storage is opened before the password is looked at. *)
PasswordLate(c) ==
  /\ Reads(c, "pwd")
  /\ verified' = IF Packet(c) = "PWD" THEN verified \cup {c} ELSE verified
  /\ Goto(c, "scan")
  /\ UNCHANGED <<daemon, client, term, children, cut, messages, taken, restarts>>

Password(c) ==
  /\ Reads(c, "pwd")
  /\ Packet(c) = "PWD"
  /\ verified' = verified \cup {c}
  /\ Goto(c, "scan")
  /\ UNCHANGED <<daemon, client, term, children, cut, messages, taken, restarts>>

(* init, and OnNotify *)
StartUp(c) ==
  /\ at[c] = "scan"
  /\ Goto(c, "read")
  /\ UNCHANGED <<daemon, pos, client, term, children, verified, cut, messages, taken, restarts>>

(* Send, called by main's OnNotify or the handler's: the message is        *)
(* written, whether or not the client is there, and is removed.            *)
Send(c, d) ==
  /\ at[c] \in Serving
  /\ \A k \in Conns : <<d, k>> \notin taken
  /\ taken' = taken \cup {<<d, c>>}
  /\ UNCHANGED <<daemon, at, pos, client, term, children, verified, cut, messages, restarts>>

ReadMessage(c) ==
  /\ Reads(c, "read")
  /\ Packet(c) = "SM"
  /\ Goto(c, "store")
  /\ UNCHANGED <<daemon, client, term, children, verified, cut, messages, taken, restarts>>

(* Mutant: a CDR is taken for a packet of another type. *)
ReadReplyEnds(c) ==
  /\ Reads(c, "read")
  /\ Packet(c) = "CDR"
  /\ Exits(c)
  /\ UNCHANGED <<verified, cut>>

ReadReply(c) ==
  /\ Reads(c, "read")
  /\ Packet(c) = "CDR"
  /\ UNCHANGED <<daemon, at, client, term, children, verified, cut, messages, taken, restarts>>

(* Any other packet is answered with MSGERR_MSGTYPE and ends the session.  *)
ReadOther(c) ==
  /\ Reads(c, "read")
  /\ Packet(c) \notin {"SM", "CDR"}
  /\ Exits(c)
  /\ UNCHANGED <<verified, cut>>

Message(c) == <<c, pos[c]>>

(* doMessage: writeSMStoStorage, whose result is not looked at, ...        *)
Store(c) ==
  /\ at[c] = "store"
  /\ stored' = stored \cup {Message(c)}
  /\ Goto(c, "smr")
  /\ UNCHANGED <<daemon, pos, client, term, children, verified, cut, lost, answered, failures, taken, restarts>>

StoreFails(c) ==
  /\ at[c] = "store"
  /\ failures < MaxFailures
  /\ failures' = failures + 1
  /\ lost' = lost \cup {Message(c)}
  /\ Goto(c, "smr")
  /\ UNCHANGED <<daemon, pos, client, term, children, verified, cut, stored, answered, taken, restarts>>

(* ... and the answers: MSGTYPE_SMR, and MSGTYPE_SMS. *)
AnswerSMR(c) ==
  /\ at[c] = "smr"
  /\ Goto(c, "sms")
  /\ UNCHANGED <<daemon, pos, client, term, children, verified, cut, messages, taken, restarts>>

AnswerSMS(c) ==
  /\ at[c] = "sms"
  /\ answered' = answered \cup {Message(c)}
  /\ Goto(c, "read")
  /\ UNCHANGED <<daemon, pos, client, term, children, verified, cut, stored, lost, failures, taken, restarts>>

Login(c) == WrongPassword(c) \/ Password(c) \/ StartUp(c)
Read(c) == ReadMessage(c) \/ ReadReply(c) \/ ReadOther(c) \/ ReadPart(c) \/ ReadEnd(c)
DoMessage(c) == Store(c) \/ StoreFails(c) \/ AnswerSMR(c) \/ AnswerSMS(c)
Child(c) == Login(c) \/ Read(c) \/ DoMessage(c)

Next ==
  \/ Accept \/ Fork \/ ParentEnds \/ ParentStarts
  \/ OnSignalChild
  \/ \E c \in Conns :
       \/ Wait(c) \/ Hangup(c) \/ Terminate(c) \/ Child(c)
       \/ \E d \in Inbox : Send(c, d)

Spec == Init /\ [][Next]_vars

(* A child that can run does, and gets its SIGTERM. *)
Fairness == \A c \in Conns : WF_vars(Child(c)) /\ WF_vars(Terminate(c))
FairSpec == Spec /\ Fairness

-----------------------------------------------------------------------------
(* Properties. *)

TypeOK ==
  /\ parent \in {"accept", "fork", "down"}
  /\ last \in 0..NConns /\ m_pid \in 0..last
  /\ at \in [Conns -> Living \cup {"none", "zombie"}]
  /\ script \in [Conns -> Seq(Packets)]
  /\ pos \in [Conns -> Nat]
  /\ peer \in [Conns -> {"open", "closed", "broken"}]
  /\ term \subseteq Conns /\ own \subseteq Conns
  /\ sigchld \in BOOLEAN /\ waiting \in BOOLEAN
  /\ verified \subseteq Conns /\ cut \subseteq Conns
  /\ stored \subseteq Conns \X Nat /\ lost \subseteq Conns \X Nat
  /\ answered \subseteq stored \cup lost
  /\ taken \subseteq Inbox \X Conns
  /\ failures \in Nat /\ restarts \in Nat

(* The handler of SIGCHLD calls wait only when there is a zombie, however  *)
(* the ends of the children, the signals and the handler interleave: it    *)
(* never stops the parent until some living child ends.                    *)
WaitNeverBlocks == waiting => Zombies # {}

(* Of the sessions that are not told to end there is one, and one more for *)
(* each end of the parent, which forgets m_pid.                            *)
SurplusNeedsRestart ==
  \A c, d \in Conns :
    at[c] \in Living /\ at[d] \in Living /\ c \notin term /\ d \notin term /\ c # d => restarts > 0

(* A message of a client with the right password that a session has left   *)
(* behind when it ended was cut, followed a packet that is no message, or  *)
(* belonged to a session that was told to end for a later connection.      *)
LossNeedsCause ==
  \A c \in Conns : \A i \in 1..Len(script[c]) :
    /\ at[c] = "zombie"
    /\ c \in verified
    /\ script[c][i] = "SM"
    /\ <<c, i>> \notin stored \cup lost
    => \/ c \in term \/ c \in cut
       \/ \E j \in 2..(i - 1) : script[c][j] \notin {"SM", "CDR"}

(* What waits for the BBS is given to a client that has the password.      *)
OnlyVerifiedReceive == \A t \in taken : t[2] \in verified

(* A session whose client has closed, or that SIGTERM was sent to, ends.   *)
(* (One whose reads fail does not by itself: they are repeated.)           *)
SessionsEnd ==
  \A c \in Conns : (at[c] \in Living /\ (peer[c] = "closed" \/ c \in term)) ~> at[c] = "zombie"

(* Two zombies for a signal that comes while the handler waits. *)
ZombiesForSignals ==
  /\ sigchld \/ waiting => Zombies # {}
  /\ sigchld /\ waiting => \E c, d \in Zombies : c # d

(* A session has begun with the right password, ... *)
Begun(c) ==
  /\ pos[c] <= Len(script[c])
  /\ at[c] \in {"none", "pwd"} => pos[c] = 0 /\ c \notin verified
  /\ at[c] \in Serving => c \in verified
  /\ c \in verified => pos[c] >= 1 /\ script[c][1] = "PWD"

(* ... has dealt with the messages it has read, ... *)
Progress(c) ==
  /\ at[c] \in Serving \cup {"zombie"} /\ c \in verified /\ c \notin term \cup cut =>
       \A i \in 2..(IF at[c] = "store" THEN pos[c] - 1 ELSE pos[c]) :
         script[c][i] = "SM" => <<c, i>> \in stored \cup lost
  /\ at[c] \in {"smr", "sms"} => Message(c) \in stored \cup lost

(* ... and, unless it was told to, ends after the last packet or after one *)
(* that is no message.                                                     *)
Ended(c) ==
  at[c] = "zombie" /\ c \in verified /\ c \notin term \cup cut =>
    pos[c] = Len(script[c]) \/ (pos[c] >= 2 /\ script[c][pos[c]] \notin {"SM", "CDR"})

(* The children: those of the parent, and those it knows of. *)
Family(c) ==
  /\ at[c] \in Living => c \in own \/ restarts > 0
  /\ c > last \/ (c = last /\ parent = "fork") => at[c] = "none"
  /\ at[c] \in Living /\ c \notin term => c = m_pid \/ restarts > 0

ChildrenInvariant ==
  /\ TypeOK
  /\ ZombiesForSignals
  /\ \A c \in Conns : Family(c) /\ Begun(c) /\ Ended(c)
  /\ parent = "fork" => m_pid \in term \cup {0} /\ last > 0
  /\ parent = "down" => restarts > 0
  /\ OnlyVerifiedReceive

AkaInvariant == ChildrenInvariant /\ \A c \in Conns : Progress(c)

(* smsdaemon.h:17: a child is killed if a connection that has passed the   *)
(* verification follows.                                                   *)
OnlyVerifiedTakesOver == \A c \in term : \E d \in verified : d > c

(* childprotocol.h:67: the second answer is the one after the message was  *)
(* sent successfully.                                                      *)
AnsweredIsStored == answered \subseteq stored
=============================================================================
