---------------------------- MODULE Gateway5168 ----------------------------
(***************************************************************************)
(* The daemon of the provider 5168: it logs in with the provider's library *)
(* (apiLogin, apiRecv, apiSend, apiActive, apiStop), passes on what lies   *)
(* in its incoming directory, and receives.  main runs Run; the handler of *)
(* SIGUSR1 runs OnNotify wherever main is, also in the middle of the       *)
(* OnNotify main calls after a login, with which it shares the directory   *)
(* stream and the list of the sent files (SessionNotify has the details).  *)
(*                                                                         *)
(* Seconds pass at any place: only the ages of the two time stamps count.  *)
(* WAITTIME is taken as milliseconds by apiRecv and as seconds by Run.     *)
(***************************************************************************)
EXTENDS Naturals

CONSTANTS
  Messages,   \* the messages that are to be sent
  Deliveries, \* the messages the provider has for us
  None,       \* no directory stream
  WAITTIME,   \* in seconds, as Run takes it
  MaxLosses,  \* bound: connections that are lost
  MaxDeaths   \* bound: ends of the daemon

ASSUME GatewayAssumption ==
  /\ None \notin Messages
  /\ WAITTIME \in Nat
  /\ MaxLosses \in Nat /\ MaxDeaths \in Nat

VARIABLES
  at,        \* where main and the handler are
  connected, \* m_connected
  link,      \* the connection the library has: "none", "up" or "lost"
  recovers,  \* apiRecv may succeed again after it has reported a failure
  failed,    \* apiRecv has reported a failure since the login
  rcvAge,    \* now - m_lastrcvtime
  sendAge,   \* now - m_lastsendtime
  new,       \* messages that are still to arrive
  queue,     \* m_IncomingDirectory
  dir,       \* what readdir(m_pDIR) has still to return, or NULL
  list,      \* m_readedFileList
  sigusr1,   \* the signal is pending
  tried,     \* history: messages apiSend was called for since the login
  stored,    \* deliveries that were written to the storage
  losses, deaths

session == <<connected, link, failed, recovers>>
ages == <<rcvAge, sendAge>>
storage == <<dir, list>>
bounds == <<losses, deaths>>
vars == <<at, session, ages, new, queue, storage, sigusr1, tried, stored, bounds>>

NULL == {None}
Contexts == {"main", "handler"}
MaxAge == 3 * WAITTIME + 1   \* older makes no difference

Init ==
  /\ at = [c \in Contexts |-> IF c = "main" THEN "login" ELSE "idle"]
  /\ connected = FALSE /\ link = "none" /\ failed = FALSE
  /\ recovers \in BOOLEAN
  /\ rcvAge = 0 /\ sendAge = 0
  /\ new = Messages /\ queue = {}
  /\ dir = NULL /\ list = {}
  /\ sigusr1 = FALSE
  /\ tried = {} /\ stored = {}
  /\ losses = 0 /\ deaths = 0

(* c is at label and runs: main only while no handler does. *)
Runs(c, label) ==
  /\ at[c] = label
  /\ c = "main" => at["handler"] = "idle"

Goto(c, label) == at' = [at EXCEPT ![c] = label]

-----------------------------------------------------------------------------
(* The surroundings. *)

Older(age) == IF age < MaxAge THEN age + 1 ELSE age

Tick ==
  /\ at["main"] \in {"recv", "pass"}
  /\ rcvAge' = Older(rcvAge)
  /\ sendAge' = Older(sendAge)
  /\ ages' # ages
  /\ UNCHANGED <<at, session, new, queue, storage, sigusr1, tried, stored, bounds>>

(* The relay links m: dnotify raises SIGUSR1, and a readdir that is under  *)
(* way may or may not come across m.                                       *)
Arrive(m) ==
  /\ m \in new
  /\ new' = new \ {m}
  /\ queue' = queue \cup {m}
  /\ sigusr1' = TRUE
  /\ dir' \in IF dir = NULL THEN {NULL} ELSE {dir, dir \cup {m}}
  /\ UNCHANGED <<at, session, ages, list, tried, stored, bounds>>

Lose ==
  /\ losses < MaxLosses
  /\ losses' = losses + 1
  /\ link = "up"
  /\ link' = "lost"
  /\ UNCHANGED <<at, connected, failed, recovers, ages, new, queue, storage, sigusr1, tried, stored, deaths>>

Restart ==
  /\ at' = [c \in Contexts |-> IF c = "main" THEN "login" ELSE "idle"]
  /\ connected' = FALSE /\ link' = "none" /\ failed' = FALSE
  /\ dir' = NULL /\ list' = {}
  /\ sigusr1' = FALSE
  /\ UNCHANGED <<recovers, ages, new, queue, tried, stored, losses>>

(* The daemon ends anywhere, and is started again. *)
Die ==
  /\ deaths < MaxDeaths
  /\ deaths' = deaths + 1
  /\ Restart

(* The handler has closed the directory main reads: readdir(NULL). *)
Crash ==
  /\ Runs("main", "scan")
  /\ dir = NULL
  /\ UNCHANGED deaths
  /\ Restart

-----------------------------------------------------------------------------
(* Run *)

ApiLogin ==
  /\ Runs("main", "login")
  /\ link' = "up"
  /\ Goto("main", "answer")
  /\ UNCHANGED <<connected, failed, recovers, ages, new, queue, storage, sigusr1, tried, stored, bounds>>

(* apiLogin fails, or no answer comes, or one that is not 0: apiStop, and  *)
(* sleep.                                                                  *)
LoginFailed ==
  /\ Runs("main", "answer")
  /\ link' = "none"
  /\ Goto("main", "login")
  /\ UNCHANGED <<connected, failed, recovers, ages, new, queue, storage, sigusr1, tried, stored, bounds>>

Login ==
  /\ Runs("main", "answer")
  /\ link = "up"
  /\ connected' = TRUE
  /\ failed' = FALSE
  /\ tried' = {}
  /\ Goto("main", "notify")
  /\ UNCHANGED <<link, recovers, ages, new, queue, storage, sigusr1, stored, bounds>>

(* Mutant: OnNotify is not called, as in sms18dxprotocol.h. *)
StartUpUnnoticed ==
  /\ Runs("main", "notify")
  /\ rcvAge' = 0 /\ sendAge' = 0
  /\ Goto("main", "recv")
  /\ UNCHANGED <<session, new, queue, storage, sigusr1, tried, stored, bounds>>

(* The time stamps are set; OnNotify opens the directory. *)
StartUp ==
  /\ Runs("main", "notify")
  /\ rcvAge' = 0 /\ sendAge' = 0
  /\ dir' = queue
  /\ Goto("main", "scan")
  /\ UNCHANGED <<session, new, queue, list, sigusr1, tried, stored, bounds>>

(* apiRecv returns 0: process writes a delivery to the storage (or fails   *)
(* to), and does nothing with an answer to apiSend or apiActive but log it.*)
Receive ==
  /\ Runs("main", "recv")
  /\ link = "up"
  /\ failed => recovers
  /\ rcvAge' = 0
  /\ stored' \in {stored} \cup {stored \cup {d} : d \in Deliveries}
  /\ UNCHANGED <<at, session, sendAge, new, queue, storage, sigusr1, tried, bounds>>

(* apiRecv returns 1 or 4. *)
ReceiveFailed ==
  /\ Runs("main", "recv")
  /\ connected' = FALSE
  /\ failed' = TRUE
  /\ Goto("main", "pass")
  /\ UNCHANGED <<link, recovers, ages, new, queue, storage, sigusr1, tried, stored, bounds>>

(* It returns 2 or 3, the timeout among them. *)
ReceiveTimeout ==
  /\ Runs("main", "recv")
  /\ Goto("main", "pass")
  /\ UNCHANGED <<session, ages, new, queue, storage, sigusr1, tried, stored, bounds>>

(* The rest of a pass: apiActive after a silence of ours, which may fail,  *)
(* and the end of the loop after a silence of the provider's.              *)
KeepAliveFailed ==
  /\ Runs("main", "pass")
  /\ sendAge > WAITTIME
  /\ connected' = FALSE
  /\ Goto("main", "stop")
  /\ UNCHANGED <<link, failed, recovers, ages, new, queue, storage, sigusr1, tried, stored, bounds>>

GoOn ==
  /\ Runs("main", "pass")
  /\ rcvAge <= 3 * WAITTIME
  /\ sendAge' = 0
  /\ Goto("main", "recv")
  /\ UNCHANGED <<session, rcvAge, new, queue, storage, sigusr1, tried, stored, bounds>>

(* Mutant: the silence is measured from the time stamp that is renewed.    *)
NoReplyBySendTime ==
  /\ Runs("main", "pass")
  /\ rcvAge > 3 * WAITTIME
  /\ sendAge' = 0
  /\ Goto("main", "recv")
  /\ UNCHANGED <<session, rcvAge, new, queue, storage, sigusr1, tried, stored, bounds>>

(* Mutant: the loop is left with m_connected = 1. *)
NoReplyConnected ==
  /\ Runs("main", "pass")
  /\ rcvAge > 3 * WAITTIME
  /\ sendAge' = 0
  /\ Goto("main", "stop")
  /\ UNCHANGED <<session, rcvAge, new, queue, storage, sigusr1, tried, stored, bounds>>

NoReply ==
  /\ Runs("main", "pass")
  /\ rcvAge > 3 * WAITTIME
  /\ sendAge' = 0
  /\ connected' = FALSE
  /\ Goto("main", "stop")
  /\ UNCHANGED <<link, failed, recovers, rcvAge, new, queue, storage, sigusr1, tried, stored, bounds>>

Stop ==
  /\ Runs("main", "stop")
  /\ link' = "none"
  /\ Goto("main", "again")
  /\ UNCHANGED <<connected, failed, recovers, ages, new, queue, storage, sigusr1, tried, stored, bounds>>

Again ==
  /\ Runs("main", "again")
  /\ connected' = FALSE
  /\ Goto("main", "login")
  /\ UNCHANGED <<link, failed, recovers, ages, new, queue, storage, sigusr1, tried, stored, bounds>>

-----------------------------------------------------------------------------
(* OnNotify, in the context c. *)

(* The signal is delivered: it is not blocked unless its handler runs. *)
Notify ==
  /\ sigusr1
  /\ at["handler"] = "idle"
  /\ sigusr1' = FALSE
  /\ dir' = queue
  /\ Goto("handler", "scan")
  /\ UNCHANGED <<session, ages, new, queue, list, tried, stored, bounds>>

Read(c, m) ==
  /\ Runs(c, "scan")
  /\ dir # NULL
  /\ m \in dir
  /\ dir' = dir \ {m}

(* Send returns FAILED at once, ... *)
SendOffline(c, m) ==
  /\ Read(c, m)
  /\ ~connected
  /\ UNCHANGED <<at, session, ages, new, queue, list, sigusr1, tried, stored, bounds>>

(* ... or because apiSend fails, ... *)
SendFailed(c, m) ==
  /\ Read(c, m)
  /\ connected
  /\ tried' = tried \cup {m}
  /\ UNCHANGED <<at, session, ages, new, queue, list, sigusr1, stored, bounds>>

(* ... or the message is logged, Send returns SUCCESS and the file is      *)
(* recorded.                                                               *)
SendSuccess(c, m) ==
  /\ Read(c, m)
  /\ connected
  /\ m \in queue
  /\ tried' = tried \cup {m}
  /\ list' = list \cup {m}
  /\ UNCHANGED <<at, session, ages, new, queue, sigusr1, stored, bounds>>

(* clearStorage: the sent files leave the directory. *)
Clear(c) ==
  /\ Runs(c, "scan")
  /\ dir = {}
  /\ queue' = queue \ list
  /\ list' = {}
  /\ dir' = NULL
  /\ Goto(c, IF c = "main" THEN "recv" ELSE "idle")
  /\ UNCHANGED <<session, ages, new, sigusr1, tried, stored, bounds>>

Scan(c) ==
  \/ \E m \in Messages : SendOffline(c, m) \/ SendFailed(c, m) \/ SendSuccess(c, m)
  \/ Clear(c)

Loop ==
  \/ Receive \/ ReceiveFailed \/ ReceiveTimeout
  \/ KeepAliveFailed \/ GoOn \/ NoReply \/ Stop \/ Again

Run == ApiLogin \/ LoginFailed \/ Login \/ StartUp \/ Loop \/ Crash

Next ==
  \/ Tick \/ Lose \/ Die \/ \E m \in Messages : Arrive(m)
  \/ Notify \/ Run \/ \E c \in Contexts : Scan(c)

Spec == Init /\ [][Next]_vars

(* The daemon runs, time passes, its signals reach it, and the provider    *)
(* lets it log in if it tries again and again.                             *)
Fairness ==
  /\ WF_vars(Tick) /\ WF_vars(Notify) /\ WF_vars(Run) /\ SF_vars(Login)
  /\ \A c \in Contexts : WF_vars(Scan(c))

FairSpec == Spec /\ Fairness

-----------------------------------------------------------------------------
(* Properties. *)

TypeOK ==
  /\ at \in [Contexts -> {"login", "answer", "notify", "scan", "recv", "pass", "stop", "again", "idle"}]
  /\ connected \in BOOLEAN /\ failed \in BOOLEAN /\ recovers \in BOOLEAN /\ sigusr1 \in BOOLEAN
  /\ link \in {"none", "up", "lost"}
  /\ rcvAge \in 0..MaxAge /\ sendAge \in 0..MaxAge
  /\ new \subseteq Messages /\ queue \subseteq Messages
  /\ dir = NULL \/ dir \subseteq Messages
  /\ list \subseteq Messages
  /\ tried \subseteq Messages
  /\ stored \subseteq Deliveries
  /\ losses \in 0..MaxLosses /\ deaths \in 0..MaxDeaths

(* apiSend is called between an answered login and apiStop only, wherever  *)
(* the handler interrupts Run.                                             *)
SendsLoggedInOnly ==
  connected => at["main"] \in {"notify", "scan", "recv", "pass"} /\ link # "none"

(* What came before the login, and was refused because m_connected was 0,  *)
(* is not left behind: once main receives, and no signal is pending, every *)
(* waiting message has been passed to apiSend since the login.             *)
NothingStranded ==
  connected /\ at["main"] \in {"recv", "pass"} /\ at["handler"] = "idle" /\ ~sigusr1
    => queue \subseteq tried

(* Why: whoever scans has the rest before it. *)
ScanCovers ==
  connected /\ ~sigusr1 =>
    \/ at["main"] = "notify"
    \/ dir = NULL /\ at["main"] = "scan" /\ at["handler"] = "idle"
    \/ queue \subseteq tried \cup (dir \ NULL)

GatewayInvariant ==
  /\ TypeOK
  /\ at["main"] # "idle" /\ at["handler"] \in {"idle", "scan"}
  /\ at["handler"] = "scan" => dir # NULL
  /\ at["main"] # "scan" /\ at["handler"] = "idle" => dir = NULL
  /\ SendsLoggedInOnly
  /\ ScanCovers

(* A message that waits while the daemon is offline is passed to apiSend   *)
(* after a login, which the silence brings about in the end, if apiRecv    *)
(* does not succeed after it has failed: then the daemon, which has left   *)
(* the switch and not the loop, would receive and send nothing.            *)
OfflineIsRetried ==
  ~recovers => \A m \in Messages : (m \in queue /\ ~connected) ~> (m \in tried \/ m \notin queue)

(* The same without the condition. *)
WaitingIsTried ==
  \A m \in Messages : (m \in queue /\ ~connected) ~> (m \in tried \/ m \notin queue)
=============================================================================
