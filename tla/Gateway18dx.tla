---------------------------- MODULE Gateway18dx ----------------------------
(***************************************************************************)
(* The daemon of the provider 18dx.  The handler of SIGUSR1 runs OnNotify, *)
(* whose Send keeps a connection m_tcp open from one message to the next,  *)
(* writes a request and reads the answer, which takes six seconds at most. *)
(* Answers carry no number of their own: all requests have the same serial.*)
(* Run forks a child for each connection of the provider's, which stores   *)
(* one delivery; it does not call OnNotify.                                *)
(*                                                                         *)
(* A connection that is closed or lost may have requests on the way which  *)
(* the provider comes across later.                                        *)
(***************************************************************************)
EXTENDS Naturals, Sequences

CONSTANTS
  Messages,    \* the messages that are to be sent
  Deliveries,  \* the messages the provider has for us
  None,        \* no message
  MaxTries,    \* bound: messages that are read from the directory
  MaxFaults    \* bound: lost connections, timeouts and ends of the daemon

ASSUME GatewayAssumption ==
  None \notin Messages /\ MaxTries \in Nat /\ MaxFaults \in Nat

VARIABLES
  at,        \* where the handler is, "idle" if it does not run
  msg,       \* the message Send has
  m_tcp,     \* "closed", "open", or "lost" if the provider's end is gone
  reqs,      \* requests on the way to the provider in m_tcp
  acks,      \* answers on the way back, <<message, result>>
  orphans,   \* requests of closed connections
  new,       \* messages that are still to arrive
  queue,     \* m_IncomingDirectory
  dir,       \* what readdir has still to return
  list,      \* m_readedFileList
  errors,    \* the error directory
  sigusr1,   \* the signal is pending
  accepted,  \* history: how often the provider has accepted a message
  refused,   \* history: messages it has refused
  unsure,    \* history: messages that were written, and no result recorded
  short,     \* history: the answer to a message came in part
  child,     \* the child for a delivery: "none", "head", "body", "store", "done"
  cut,       \* history: deliveries that came in part
  stored,    \* deliveries that were written to the storage
  tries, faults

connection == <<m_tcp, reqs, acks, orphans>>
storage == <<new, queue, dir, list, errors, sigusr1>>
provider == <<accepted, refused>>
history == <<unsure, short>>
receive == <<child, cut, stored>>
bounds == <<tries, faults>>
vars == <<at, msg, connection, storage, provider, history, receive, bounds>>

Results == {"success", "invalid", "busy"}

Init ==
  /\ at = "idle" /\ msg = None
  /\ m_tcp = "closed" /\ reqs = <<>> /\ acks = <<>> /\ orphans = {}
  /\ new = Messages /\ queue = {} /\ dir = {} /\ list = {} /\ errors = {}
  /\ sigusr1 = FALSE
  /\ accepted = [m \in Messages |-> 0] /\ refused = {}
  /\ unsure = {} /\ short = {}
  /\ child = [d \in Deliveries |-> "none"] /\ cut = {} /\ stored = {}
  /\ tries = 0 /\ faults = 0

Fault == faults < MaxFaults /\ faults' = faults + 1

-----------------------------------------------------------------------------
(* OnNotify; the relay links m and dnotify raises SIGUSR1.                 *)

Arrive(m) ==
  /\ m \in new
  /\ new' = new \ {m}
  /\ queue' = queue \cup {m}
  /\ sigusr1' = TRUE
  /\ UNCHANGED <<at, msg, connection, dir, list, errors, provider, history, receive, bounds>>

Notify ==
  /\ sigusr1
  /\ at = "idle"
  /\ sigusr1' = FALSE
  /\ dir' = queue
  /\ at' = "scan"
  /\ UNCHANGED <<msg, connection, new, queue, list, errors, provider, history, receive, bounds>>

Read(m) ==
  /\ at = "scan"
  /\ m \in dir
  /\ tries < MaxTries
  /\ tries' = tries + 1
  /\ dir' = dir \ {m}
  /\ msg' = m
  /\ at' = "connect"
  /\ UNCHANGED <<connection, new, queue, list, errors, sigusr1, provider, history, receive, faults>>

(* Mutant: the files stay. *)
ClearKept ==
  /\ at = "scan"
  /\ dir = {}
  /\ list' = {}
  /\ at' = "idle"
  /\ UNCHANGED <<msg, connection, new, queue, dir, errors, sigusr1, provider, history, receive, bounds>>

Clear ==
  /\ at = "scan"
  /\ dir = {}
  /\ queue' = queue \ list
  /\ list' = {}
  /\ at' = "idle"
  /\ UNCHANGED <<msg, connection, new, dir, errors, sigusr1, provider, history, receive, bounds>>

(* Send returns: recordSended, backupError, or nothing.                    *)
Return(result) ==
  /\ at' = "scan"
  /\ msg' = None
  /\ list' = IF result = "SUCCESS" THEN list \cup {msg} ELSE list
  /\ errors' = IF result = "ERROR" THEN errors \cup {msg} ELSE errors
  /\ queue' = IF result = "ERROR" THEN queue \ {msg} ELSE queue
  /\ UNCHANGED <<new, dir, sigusr1>>

-----------------------------------------------------------------------------
(* Send *)

(* The stream is taken as it is if it is open, lost or not.                *)
Connect ==
  /\ at = "connect"
  /\ m_tcp' = IF m_tcp = "closed" THEN "open" ELSE m_tcp
  /\ at' = "write"
  /\ UNCHANGED <<msg, reqs, acks, orphans, storage, provider, history, receive, bounds>>

ConnectFails ==
  /\ at = "connect"
  /\ m_tcp = "closed"
  /\ Return("FAILED")
  /\ UNCHANGED <<connection, provider, history, receive, bounds>>

Write ==
  /\ at = "write"
  /\ m_tcp = "open"
  /\ reqs' = Append(reqs, msg)
  /\ at' = "read"
  /\ UNCHANGED <<msg, m_tcp, acks, orphans, storage, provider, history, receive, bounds>>

(* The first write to a lost connection may seem to succeed.               *)
WriteLost ==
  /\ at = "write"
  /\ m_tcp = "lost"
  /\ at' = "read"
  /\ UNCHANGED <<msg, connection, storage, provider, history, receive, bounds>>

Close ==
  /\ m_tcp' = "closed"
  /\ orphans' = orphans \cup {reqs[i] : i \in DOMAIN reqs}
  /\ reqs' = <<>> /\ acks' = <<>>

WriteFails ==
  /\ at = "write"
  /\ m_tcp = "lost"
  /\ Close
  /\ Return("FAILED")
  /\ UNCHANGED <<provider, history, receive, bounds>>

(* Mutant: the connection is kept. *)
ReadTimeoutKept ==
  /\ at = "read"
  /\ m_tcp = "open"
  /\ Fault
  /\ unsure' = unsure \cup {msg}
  /\ Return("FAILED")
  /\ UNCHANGED <<connection, provider, short, receive, tries>>

(* Six seconds; an answer may come in the last.                            *)
ReadTimeout ==
  /\ at = "read"
  /\ m_tcp = "open"
  /\ Fault
  /\ Close
  /\ unsure' = unsure \cup {msg}
  /\ Return("FAILED")
  /\ UNCHANGED <<provider, short, receive, tries>>

(* The connection ends: before the answer, ... *)
ReadFails ==
  /\ at = "read"
  /\ m_tcp = "lost"
  /\ acks = <<>>
  /\ Close
  /\ unsure' = unsure \cup {msg}
  /\ Return("FAILED")
  /\ UNCHANGED <<provider, short, receive, bounds>>

(* Mutant: every answer but success is an error. *)
MeaningInvalid(result) == IF result = "success" THEN "SUCCESS" ELSE "ERROR"

(* What Send returns for dwResult. *)
Meaning(result) ==
  CASE result = "success" -> "SUCCESS" [] result = "invalid" -> "ERROR" [] OTHER -> "FAILED"

(* ... or within it: what has come is more than 0, and dwResult is what    *)
(* was in buf.  (The part of an answer is no answer to the next.)          *)
ReadPart(result) ==
  /\ at = "read"
  /\ m_tcp = "lost"
  /\ acks # <<>>
  /\ short' = short \cup {msg}
  /\ acks' = <<>>
  /\ Return(Meaning(result))
  /\ UNCHANGED <<m_tcp, reqs, orphans, provider, unsure, receive, bounds>>

ReadAnswer ==
  /\ at = "read"
  /\ acks # <<>>
  /\ acks' = Tail(acks)
  /\ Return(Meaning(Head(acks)[2]))
  /\ UNCHANGED <<m_tcp, reqs, orphans, provider, history, receive, bounds>>

Send ==
  \/ Connect \/ ConnectFails \/ Write \/ WriteLost \/ WriteFails
  \/ ReadTimeout \/ ReadFails \/ ReadAnswer
  \/ \E result \in Results : ReadPart(result)

-----------------------------------------------------------------------------
(* The provider. *)

Decide(m, result) ==
  /\ accepted' = [accepted EXCEPT ![m] = IF result = "success" THEN @ + 1 ELSE @]
  /\ refused' = IF result = "invalid" THEN refused \cup {m} ELSE refused

Answer(result) ==
  /\ reqs # <<>>
  /\ Decide(Head(reqs), result)
  /\ reqs' = Tail(reqs)
  /\ acks' = IF m_tcp = "open" THEN Append(acks, <<Head(reqs), result>>) ELSE acks
  /\ UNCHANGED <<at, msg, m_tcp, orphans, storage, history, receive, bounds>>

AnswerNobody(m, result) ==
  /\ m \in orphans
  /\ Decide(m, result)
  /\ orphans' = orphans \ {m}
  /\ UNCHANGED <<at, msg, m_tcp, reqs, acks, storage, history, receive, bounds>>

Lose ==
  /\ m_tcp = "open"
  /\ Fault
  /\ m_tcp' = "lost"
  /\ UNCHANGED <<at, msg, reqs, acks, orphans, storage, provider, history, receive, tries>>

-----------------------------------------------------------------------------
(* Run *)

(* The daemon ends anywhere and is started again. *)
Die ==
  /\ Fault
  /\ at' = "idle" /\ msg' = None
  /\ Close
  /\ dir' = {} /\ list' = {} /\ sigusr1' = FALSE
  /\ unsure' = unsure \cup list \cup (IF at = "read" THEN {msg} ELSE {})
  /\ UNCHANGED <<new, queue, errors, provider, short, receive, tries>>

(* A child for a connection of the provider's: OnAccept. *)
Child(d, from, to) == child[d] = from /\ child' = [child EXCEPT ![d] = to]

Accept(d) ==
  /\ Child(d, "none", "head")
  /\ UNCHANGED <<at, msg, connection, storage, provider, history, cut, stored, bounds>>

ReadHead(d) ==
  /\ Child(d, "head", "body")
  /\ UNCHANGED <<at, msg, connection, storage, provider, history, cut, stored, bounds>>

ReadBody(d) ==
  /\ Child(d, "body", "store")
  /\ UNCHANGED <<at, msg, connection, storage, provider, history, cut, stored, bounds>>

ReadLess(d) ==
  /\ \E from \in {"head", "body"} : Child(d, from, "done")
  /\ cut' = cut \cup {d}
  /\ UNCHANGED <<at, msg, connection, storage, provider, history, stored, bounds>>

(* writeSMStoStorage may refuse; nobody is told. *)
Store(d) ==
  /\ Child(d, "store", "done")
  /\ stored' \in {stored, stored \cup {d}}
  /\ UNCHANGED <<at, msg, connection, storage, provider, history, cut, bounds>>

OnAccept(d) == ReadHead(d) \/ ReadBody(d) \/ ReadLess(d) \/ Store(d)

Next ==
  \/ Notify \/ Clear \/ Send \/ Lose \/ Die
  \/ \E m \in Messages : Arrive(m) \/ Read(m)
  \/ \E result \in Results : Answer(result) \/ \E m \in Messages : AnswerNobody(m, result)
  \/ \E d \in Deliveries : Accept(d) \/ OnAccept(d)

Spec == Init /\ [][Next]_vars

-----------------------------------------------------------------------------
(* Properties. *)

TypeOK ==
  /\ at \in {"idle", "scan", "connect", "write", "read"} /\ msg \in Messages \cup {None}
  /\ m_tcp \in {"closed", "open", "lost"}
  /\ reqs \in Seq(Messages) /\ acks \in Seq(Messages \X Results)
  /\ orphans \subseteq Messages
  /\ new \subseteq Messages /\ queue \subseteq Messages /\ dir \subseteq Messages
  /\ list \subseteq Messages /\ errors \subseteq Messages /\ sigusr1 \in BOOLEAN
  /\ accepted \in [Messages -> Nat] /\ refused \subseteq Messages
  /\ unsure \subseteq Messages /\ short \subseteq Messages
  /\ child \in [Deliveries -> {"none", "head", "body", "store", "done"}]
  /\ cut \subseteq Deliveries /\ stored \subseteq Deliveries
  /\ tries \in 0..MaxTries /\ faults \in 0..MaxFaults

(* There is at most one request without its answer, and it is that of the  *)
(* message Send has: however late answers come, none is taken for the      *)
(* answer to the next message.                                             *)
OneQuestion ==
  /\ reqs # <<>> => at = "read" /\ reqs = <<msg>> /\ acks = <<>>
  /\ acks # <<>> => at = "read" /\ \E result \in Results : acks = << <<msg, result>> >>

(* What is removed as sent was accepted by the provider, and what is moved *)
(* to error was refused, unless an answer came in part.                    *)
ResultsAreTrue == (\A m \in list \ short : accepted[m] > 0) /\ errors \ short \subseteq refused

(* The provider accepts a message twice only if Send had to give up on it  *)
(* after it was written, or took a part of an answer for the answer, or    *)
(* the daemon ended before the file was removed.                           *)
TwiceNeedsFault == \A m \in Messages : accepted[m] > 1 => m \in unsure \cup short

(* A scan is at one message of the directory, and has others before it.    *)
ScanOfDirectory ==
  /\ list \subseteq queue /\ queue \cap new = {}
  /\ at = "idle" => list = {}
  /\ at # "idle" => dir \subseteq queue \ list
  /\ at \in {"connect", "write", "read"} => msg \in queue \ (list \cup dir)

(* An answer on its way back says what the provider has decided.           *)
AnswerIsTrue ==
  acks # <<>> =>
    CASE acks[1][2] = "success" -> accepted[msg] > 0
      [] acks[1][2] = "invalid" -> msg \in refused
      [] OTHER -> TRUE

(* What is in the directory and was accepted: its scan is not over yet.    *)
AcceptedIsListed ==
  /\ orphans \subseteq unsure
  /\ \A m \in Messages \ (unsure \cup short) : accepted[m] > 0 =>
       \/ m \in list \/ m \notin queue \cup new
       \/ at = "read" /\ m = msg /\ reqs = <<>> /\ acks \in {<<>>, << <<m, "success">> >>}

DxInvariant == TypeOK /\ OneQuestion /\ ScanOfDirectory /\ AnswerIsTrue /\ AcceptedIsListed
=============================================================================
