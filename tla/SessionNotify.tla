--------------------------- MODULE SessionNotify ---------------------------
(***************************************************************************)
(* OnNotify called twice at once.  A BBS session, an aka session and the   *)
(* 5168 daemon call init, which starts the watch, and then OnNotify from   *)
(* main, with SIGUSR1 not blocked: a file that arrives meanwhile runs      *)
(* OnNotify again, as the handler of the signal, in the middle of main's.  *)
(* Both use the one CSMSDiskStorage; only buf, pDirInfo, the paths and the *)
(* iterator of clearStorage are local.  main stands still until the        *)
(* handler has returned.                                                   *)
(*                                                                         *)
(* The files of one incoming directory are whole and have names of their   *)
(* own (the module Pipeline is about how they get there).  What the two    *)
(* calls do to the heap (m_pDataBuf is deleted in both) is left out.       *)
(***************************************************************************)
EXTENDS Naturals

CONSTANTS
  Files,          \* the files that arrive in m_IncomingDirectory
  None,           \* no file
  MaxRestarts     \* bound: sessions that end

ASSUME NotifyAssumption ==
  /\ None \notin Files
  /\ MaxRestarts \in Nat

VARIABLES
  new,       \* the files that are still to arrive
  queue,     \* m_IncomingDirectory
  backup,    \* m_IncomingBackupDirectory
  error,     \* m_errorDirectory
  unkept,    \* history: files that could not be linked to backup or error
  at,        \* where each context is
  name,      \* pDirInfo->d_name, or the path that is being moved
  buf,       \* the buffer that is passed to Send
  rest,      \* the names from the iterator of clearStorage on
  dir,       \* what readdir(m_pDIR) has still to return, or NULL
  curr,      \* m_currFilename
  data,      \* m_pDataBuf
  list,      \* m_readedFileList
  sigusr1,   \* the signals that are pending
  accepted,  \* history: files Send has returned SUCCESS for
  twice,     \* history: files it has returned it for more than once
  refused,   \* history: files it has returned ERROR for
  tried,     \* history: files it was called for
  startup,   \* main calls OnNotify after init (18dx does not)
  restarts   \* sessions that have ended

files == <<new, queue, backup, error, unkept>>
locals == <<name, buf, rest>>
storage == <<dir, curr, data, list>>
history == <<accepted, twice, refused, tried>>
vars == <<files, at, locals, storage, sigusr1, history, startup, restarts>>

NULL == {None}
Contexts == {"main", "handler"}
Labels == {"open", "scan", "got", "copy", "send", "sent", "refused", "moved", "clear", "kept"}
Scanning == {"scan", "got", "copy", "send", "sent", "refused", "moved"}

NotRunning == [c \in Contexts |-> IF c = "main" THEN "down" ELSE "idle"]

Init ==
  /\ new = Files
  /\ queue = {} /\ backup = {} /\ error = {} /\ unkept = {}
  /\ at = NotRunning
  /\ name = [c \in Contexts |-> None]
  /\ buf = [c \in Contexts |-> None]
  /\ rest = [c \in Contexts |-> {}]
  /\ dir = NULL /\ curr = None /\ data = None /\ list = {}
  /\ sigusr1 = {}
  /\ accepted = {} /\ twice = {} /\ refused = {} /\ tried = {}
  /\ startup \in BOOLEAN
  /\ restarts = 0

(* c is at label and runs: main only while no handler does. *)
Runs(c, label) ==
  /\ at[c] = label
  /\ c = "main" => at["handler"] = "idle"

Goto(c, label) == at' = [at EXCEPT ![c] = label]
Alive == at["main"] \notin {"down", "crashed"}

-----------------------------------------------------------------------------
(* The relay links f: dnotify raises SIGUSR1, and a readdir that is at it  *)
(* may or may not come across f.                                           *)
Arrive(f) ==
  /\ f \in new
  /\ new' = new \ {f}
  /\ queue' = queue \cup {f}
  /\ sigusr1' = IF Alive THEN {"SIGUSR1"} ELSE {}
  /\ dir' \in IF dir = NULL THEN {NULL} ELSE {dir, dir \cup {f}}
  /\ UNCHANGED <<backup, error, unkept, at, locals, curr, data, list, history, startup, restarts>>

(* A session starts: init, and the call of OnNotify. *)
Start ==
  /\ at["main"] = "down"
  /\ Goto("main", IF startup THEN "open" ELSE "loop")
  /\ UNCHANGED <<files, locals, storage, sigusr1, history, startup, restarts>>

(* The signal is delivered: it is not blocked unless its handler runs.     *)
Notify ==
  /\ Alive
  /\ at["handler"] = "idle"
  /\ sigusr1 = {"SIGUSR1"}
  /\ sigusr1' = {}
  /\ Goto("handler", "open")
  /\ UNCHANGED <<files, locals, storage, history, startup, restarts>>

(* The session ends wherever it is. *)
Die ==
  /\ restarts < MaxRestarts
  /\ restarts' = restarts + 1
  /\ at["main"] # "down"
  /\ at' = NotRunning
  /\ name' = [c \in Contexts |-> None]
  /\ buf' = [c \in Contexts |-> None]
  /\ rest' = [c \in Contexts |-> {}]
  /\ dir' = NULL /\ curr' = None /\ data' = None /\ list' = {}
  /\ sigusr1' = {}
  /\ UNCHANGED <<files, history, startup>>

-----------------------------------------------------------------------------
(* OnNotify, in the context c. *)

(* getFirstSMSFromStorage *)
OpenDir(c) ==
  /\ Runs(c, "open")
  /\ dir' = queue
  /\ Goto(c, "scan")
  /\ UNCHANGED <<files, locals, curr, data, list, sigusr1, history, startup, restarts>>

(* getNextSMSFromStorage: a name that stat does not find is passed over.   *)
ReadDir(c, f) ==
  /\ Runs(c, "scan")
  /\ dir # NULL
  /\ f \in dir
  /\ dir' = dir \ {f}
  /\ IF f \in queue
     THEN /\ Goto(c, "got")
          /\ name' = [name EXCEPT ![c] = f]
          /\ curr' = f
     ELSE UNCHANGED <<at, name, curr>>
  /\ UNCHANGED <<files, buf, rest, data, list, sigusr1, history, startup, restarts>>

EndOfDirectory(c) ==
  /\ Runs(c, "scan")
  /\ dir = {}
  /\ Goto(c, "clear")
  /\ rest' = [rest EXCEPT ![c] = list]
  /\ UNCHANGED <<files, name, buf, storage, sigusr1, history, startup, restarts>>

(* The file is read; if it has gone, ifs.open throws, and OnNotify goes on *)
(* with clearStorage.                                                      *)
ReadFile(c) ==
  /\ Runs(c, "got")
  /\ IF name[c] \in queue
     THEN /\ data' = name[c]
          /\ Goto(c, "copy")
          /\ UNCHANGED rest
     ELSE /\ Goto(c, "clear")
          /\ rest' = [rest EXCEPT ![c] = list]
          /\ UNCHANGED data
  /\ UNCHANGED <<files, name, buf, dir, curr, list, sigusr1, history, startup, restarts>>

(* Mutant: the buffer keeps the message before. *)
CopyNothing(c) ==
  /\ Runs(c, "copy")
  /\ Goto(c, "send")
  /\ UNCHANGED <<files, locals, storage, sigusr1, history, startup, restarts>>

(* readGettedSMS *)
Copy(c) ==
  /\ Runs(c, "copy")
  /\ buf' = [buf EXCEPT ![c] = data]
  /\ Goto(c, "send")
  /\ UNCHANGED <<files, name, rest, storage, sigusr1, history, startup, restarts>>

(* Send, which returns SUCCESS, ... *)
SendSuccess(c) ==
  /\ Runs(c, "send")
  /\ accepted' = accepted \cup {buf[c]}
  /\ twice' = twice \cup ({buf[c]} \cap accepted)
  /\ tried' = tried \cup {buf[c]}
  /\ Goto(c, "sent")
  /\ UNCHANGED <<files, locals, storage, sigusr1, refused, startup, restarts>>

(* Mutant: FAILED is taken for SUCCESS. *)
SendFailedRecorded(c) ==
  /\ Runs(c, "send")
  /\ tried' = tried \cup {buf[c]}
  /\ Goto(c, "sent")
  /\ UNCHANGED <<files, locals, storage, sigusr1, accepted, twice, refused, startup, restarts>>

(* Mutant: FAILED is taken for ERROR. *)
SendFailedRefused(c) ==
  /\ Runs(c, "send")
  /\ tried' = tried \cup {buf[c]}
  /\ Goto(c, "refused")
  /\ UNCHANGED <<files, locals, storage, sigusr1, accepted, twice, refused, startup, restarts>>

(* ... FAILED, ... *)
SendFailed(c) ==
  /\ Runs(c, "send")
  /\ tried' = tried \cup {buf[c]}
  /\ Goto(c, "scan")
  /\ UNCHANGED <<files, locals, storage, sigusr1, accepted, twice, refused, startup, restarts>>

(* ... or ERROR. *)
SendError(c) ==
  /\ Runs(c, "send")
  /\ refused' = refused \cup {buf[c]}
  /\ tried' = tried \cup {buf[c]}
  /\ Goto(c, "refused")
  /\ UNCHANGED <<files, locals, storage, sigusr1, accepted, twice, startup, restarts>>

(* Mutant: nothing is recorded. *)
RecordNothing(c) ==
  /\ Runs(c, "sent")
  /\ Goto(c, "scan")
  /\ UNCHANGED <<files, locals, storage, sigusr1, history, startup, restarts>>

(* recordSended *)
Record(c) ==
  /\ Runs(c, "sent")
  /\ list' = list \cup {curr}
  /\ Goto(c, "scan")
  /\ UNCHANGED <<files, locals, dir, curr, data, sigusr1, history, startup, restarts>>

(* backupError: link ... *)
ErrorLink(c) ==
  /\ Runs(c, "refused")
  /\ name' = [name EXCEPT ![c] = curr]
  /\ error' = error \cup ({curr} \cap queue)
  /\ Goto(c, "moved")
  /\ UNCHANGED <<new, queue, backup, unkept, buf, rest, storage, sigusr1, history, startup, restarts>>

(* which fails, as nothing in the repository makes m_errorDirectory, ...   *)
ErrorLinkFails(c) ==
  /\ Runs(c, "refused")
  /\ curr \in queue
  /\ name' = [name EXCEPT ![c] = curr]
  /\ unkept' = unkept \cup {curr}
  /\ Goto(c, "moved")
  /\ UNCHANGED <<new, queue, backup, error, buf, rest, storage, sigusr1, history, startup,
                 restarts>>

(* ... and unlink, whatever link answered. *)
ErrorUnlink(c) ==
  /\ Runs(c, "moved")
  /\ queue' = queue \ {name[c]}
  /\ Goto(c, "scan")
  /\ UNCHANGED <<new, backup, error, unkept, locals, storage, sigusr1, history, startup, restarts>>

(* Mutant: the file is unlinked without a copy in the backup. *)
ClearLinkSkipped(c, f) ==
  /\ Runs(c, "clear")
  /\ f \in rest[c]
  /\ name' = [name EXCEPT ![c] = f]
  /\ Goto(c, "kept")
  /\ UNCHANGED <<files, buf, rest, storage, sigusr1, history, startup, restarts>>

(* clearStorage, for each name of the list: link ... *)
ClearLink(c, f) ==
  /\ Runs(c, "clear")
  /\ f \in rest[c]
  /\ name' = [name EXCEPT ![c] = f]
  /\ backup' = backup \cup ({f} \cap queue)
  /\ Goto(c, "kept")
  /\ UNCHANGED <<new, queue, error, unkept, buf, rest, storage, sigusr1, history, startup, restarts>>

(* which fails, as there is no room or no directory, ... *)
ClearLinkFails(c, f) ==
  /\ Runs(c, "clear")
  /\ f \in rest[c] \cap queue
  /\ name' = [name EXCEPT ![c] = f]
  /\ unkept' = unkept \cup {f}
  /\ Goto(c, "kept")
  /\ UNCHANGED <<new, queue, backup, error, buf, rest, storage, sigusr1, history, startup,
                 restarts>>

(* ... and unlink, whatever link answered. *)
ClearUnlink(c) ==
  /\ Runs(c, "kept")
  /\ queue' = queue \ {name[c]}
  /\ rest' = [rest EXCEPT ![c] = @ \ {name[c]}]
  /\ Goto(c, "clear")
  /\ UNCHANGED <<new, backup, error, unkept, name, buf, storage, sigusr1, history, startup, restarts>>

Closed ==
  /\ dir' = NULL
  /\ list' = {}
  /\ UNCHANGED <<files, locals, curr, data, sigusr1, history, startup, restarts>>

(* Mutant: the handler forgets the signal that came while it ran. *)
ReturnDeaf ==
  /\ Runs("handler", "clear")
  /\ rest["handler"] = {}
  /\ dir' = NULL
  /\ list' = {}
  /\ sigusr1' = {}
  /\ at' = [at EXCEPT !["handler"] = "idle",
                      !["main"] = IF @ \in {"clear", "kept"} /\ list # {} THEN "lost" ELSE @]
  /\ UNCHANGED <<files, locals, curr, data, history, startup, restarts>>

(* The handler clears the list, closes m_pDIR and returns; the iterator of *)
(* a main that is in clearStorage, too, is invalid if there was a list.    *)
Return ==
  /\ Runs("handler", "clear")
  /\ rest["handler"] = {}
  /\ at' = [at EXCEPT !["handler"] = "idle",
                      !["main"] = IF @ \in {"clear", "kept"} /\ list # {} THEN "lost" ELSE @]
  /\ Closed

(* main does, and goes on to read packets.  The invalid iterator may be    *)
(* equal to end().                                                         *)
ReturnMain ==
  /\ (Runs("main", "clear") /\ rest["main"] = {}) \/ Runs("main", "lost")
  /\ Goto("main", "loop")
  /\ Closed

(* readdir(NULL), or an iterator that never meets end(). *)
Crash ==
  /\ (Runs("main", "scan") /\ dir = NULL) \/ Runs("main", "lost")
  /\ Goto("main", "crashed")
  /\ UNCHANGED <<files, locals, storage, sigusr1, history, startup, restarts>>

Scan(c) == OpenDir(c) \/ (\E f \in Files : ReadDir(c, f)) \/ EndOfDirectory(c) \/ ReadFile(c) \/ Copy(c)
Send(c) ==
  \/ SendSuccess(c) \/ SendFailed(c) \/ SendError(c) \/ Record(c)
  \/ ErrorLink(c) \/ ErrorLinkFails(c) \/ ErrorUnlink(c)
Clear(c) == (\E f \in Files : ClearLink(c, f) \/ ClearLinkFails(c, f)) \/ ClearUnlink(c)
Step(c) == Scan(c) \/ Send(c) \/ Clear(c)
Finish == Return \/ ReturnMain \/ Crash

Next ==
  \/ \E f \in Files : Arrive(f)
  \/ Start \/ Notify \/ Die
  \/ \E c \in Contexts : Step(c)
  \/ Finish

Spec == Init /\ [][Next]_vars

(* A process that can run does, and gets its signals. *)
Fairness == \A c \in Contexts : WF_vars(Step(c)) /\ WF_vars(Finish) /\ WF_vars(Notify)
FairSpec == Spec /\ Fairness

-----------------------------------------------------------------------------
(* Properties. *)

TypeOK ==
  /\ new \subseteq Files /\ queue \subseteq Files /\ backup \subseteq Files /\ error \subseteq Files
  /\ unkept \subseteq Files
  /\ at \in [Contexts -> Labels \cup {"down", "loop", "lost", "crashed", "idle"}]
  /\ name \in [Contexts -> Files \cup {None}]
  /\ buf \in [Contexts -> Files \cup {None}]
  /\ rest \in [Contexts -> SUBSET Files]
  /\ dir \subseteq Files \/ dir = NULL
  /\ curr \in Files \cup {None} /\ data \in Files \cup {None}
  /\ list \subseteq Files
  /\ sigusr1 \subseteq {"SIGUSR1"}
  /\ accepted \subseteq Files /\ twice \subseteq accepted
  /\ refused \subseteq Files /\ tried \subseteq Files
  /\ startup \in BOOLEAN /\ restarts \in 0..MaxRestarts

(* Whatever the two calls do to each other, a file that has arrived stays  *)
(* in the inbox until there is a copy of it in the backup or in error, or  *)
(* the file system has refused to make one.                                *)
NothingVanishes == Files \subseteq new \cup queue \cup backup \cup error \cup unkept

(* A file that lies in the inbox of a living session is passed to Send; if *)
(* main does not call OnNotify, the file takes a signal that is pending.   *)
EveryFileIsTried ==
  \A f \in Files : f \in queue /\ (startup \/ sigusr1 # {}) ~> (f \in tried \/ ~Alive)

(* clearStorage removes what has been sent, and nothing else ...           *)
KeptWasSent == backup \subseteq accepted

(* ... if OnNotify is called by the handler alone.                         *)
KeptIsSent == ~startup => KeptWasSent

(* To those who write into the inbox, OnNotify called by the handler alone  *)
(* is the spool of MessageTransfer: a file stays in it until Send has      *)
(* returned SUCCESS for it, a copy of it is in error, or link has failed.  *)
Promise == INSTANCE MessageTransfer WITH
  Messages <- Files, custody <- queue, delivered <- accepted, rejected <- error,
  abandoned <- unkept

HandlerKeepsPromise == Promise!Init /\ [][~startup => Promise!Next]_(Promise!vars)

(* backupError moves what Send returned ERROR for, and nothing else ...    *)
ErrorWasRefused == error \subseteq refused

(* ... if OnNotify is called by the handler alone.                         *)
ErrorIsRefused == ~startup => ErrorWasRefused

(* A session in which the handler alone calls OnNotify does not send a     *)
(* file it has sent: it takes the death of a session to send one again.    *)
TwiceNeedsRestart == ~startup /\ twice # {} => restarts > 0

(* OnNotify never uses a directory that is closed or an iterator of a list *)
(* that was cleared.                                                       *)
NeverCrashes == at["main"] # "crashed"

(* Whatever the two calls do to each other: nothing they hold is a file    *)
(* that has not arrived, and what they unlink has a second name unless     *)
(* link has failed.                                                        *)
NotifyInvariant ==
  /\ TypeOK
  /\ NothingVanishes
  /\ \A f \in new :
       /\ f \notin queue \cup error \cup list \cup accepted \cup unkept
       /\ f # curr /\ f # data
       /\ \A c \in Contexts : f # name[c] /\ f # buf[c] /\ f \notin rest[c]
  /\ \A c \in Contexts :
       /\ at[c] \in {"got", "copy", "send", "sent", "refused"} => curr # None
       /\ at[c] = "got" => name[c] # None
       /\ at[c] = "copy" => data # None
       /\ at[c] = "send" => buf[c] # None
       /\ at[c] = "moved" => name[c] \in error \cup unkept \/ name[c] \notin queue
       /\ at[c] = "kept" => name[c] \in backup \cup unkept \/ name[c] \notin queue

(* Why one call alone does what it should: curr, data and buf are the same *)
(* file, which stays in the inbox, until it has been handled; the list     *)
(* holds what was sent; what the scan has still to read is there, and not  *)
(* in the list.                                                            *)
HandlerAlone ==
  /\ at["main"] \in {"down", "loop"}
  /\ at["handler"] \in Labels \cup {"idle"}
  /\ at["main"] = "down" => at["handler"] = "idle"
  /\ at["handler"] \in {"got", "copy", "send", "sent", "refused"} =>
       /\ curr = name["handler"]
       /\ curr \in queue \ dir
  /\ at["handler"] \in {"copy", "send"} => data = curr
  /\ at["handler"] \in {"send", "sent", "refused"} => buf["handler"] = curr
  /\ at["handler"] = "sent" => curr \in accepted
  /\ at["handler"] = "refused" => curr \in refused
  /\ at["handler"] = "moved" => name["handler"] \in refused \ dir
  /\ at["handler"] = "kept" => name["handler"] \in rest["handler"]
  /\ at["handler"] \in {"idle", "open"} => list = {}
  /\ at["handler"] \in Scanning => dir \subseteq queue
  /\ dir # NULL => dir \cap list = {}
  /\ list \subseteq accepted
  /\ rest["handler"] \subseteq list
  /\ KeptWasSent
  /\ ErrorWasRefused

AloneInvariant == ~startup => HandlerAlone

(* What has been sent and is still in the inbox is in the list, or about   *)
(* to be, and is not sent again.                                           *)
SentIsListed ==
  ~startup /\ restarts = 0 =>
    /\ twice = {}
    /\ at["handler"] \in {"got", "copy", "send"} => curr \notin accepted
    /\ \A f \in accepted \cap queue :
         \/ f \in list /\ (at["handler"] \in {"clear", "kept"} => f \in rest["handler"])
         \/ at["handler"] = "sent" /\ f = curr
=============================================================================
