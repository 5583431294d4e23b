--------------------------- MODULE StorageNotify ---------------------------
(***************************************************************************)
(* CSMSStorage::OnNotify over CSMSDiskStorage: the consumer d of a queue   *)
(* directory.  SIGUSR1, raised by dnotify when a name appears, runs the    *)
(* handler, which reads every file, passes it to the protocol's Send and   *)
(* keeps the names of what was sent in m_readedFileList; only when the     *)
(* directory has been read to its end does clearStorage remove them.       *)
(* SIGUSR1 is blocked while its handler runs, and is no queued signal: any *)
(* number of arrivals leave one signal pending.                            *)
(***************************************************************************)
EXTENDS Spool

VARIABLES
  pc,               \* "down", "idle", "scan", "read", "refused", "clear", "kept"
  sigusr1,          \* SIGUSR1 is pending
  toRead,           \* the names readdir(m_pDIR) has still to return
  currFilename,     \* m_currFilename
  dataBuf,          \* m_pDataBuf: the message read from it
  readedFileList    \* m_readedFileList

notifyVars == <<pc, sigusr1, toRead, currFilename, dataBuf, readedFileList>>

NotifyStates == {"down", "idle", "scan", "read", "refused", "clear", "kept"}

NotifyTypeOK ==
  /\ pc \in [Dests -> NotifyStates]
  /\ sigusr1 \in [Dests -> BOOLEAN]
  /\ toRead \in [Dests -> SUBSET Names]
  /\ currFilename \in [Dests -> Names \cup {NoFile}]
  /\ dataBuf \in [Dests -> Messages \cup {Empty}]
  /\ readedFileList \in [Dests -> SUBSET Names]

NotifyInit ==
  /\ pc = [d \in Dests |-> "down"]
  /\ sigusr1 = [d \in Dests |-> FALSE]
  /\ toRead = [d \in Dests |-> {}]
  /\ currFilename = [d \in Dests |-> NoFile]
  /\ dataBuf = [d \in Dests |-> Empty]
  /\ readedFileList = [d \in Dests |-> {}]

Goto(d, label) == pc' = [pc EXCEPT ![d] = label]

(* OnNotify is between opendir and the readdir that returns NULL. *)
Reading(d) == pc[d] \in {"scan", "read", "refused"}

(* dnotify: the name n appeared in d.  A running readdir may or may not    *)
(* come across it; a process that is not there watches nothing.            *)
StorageNotified(d, n) ==
  /\ sigusr1' = [sigusr1 EXCEPT ![d] = pc[d] # "down"]
  /\ toRead' \in IF Reading(d) THEN {toRead, [toRead EXCEPT ![d] = @ \cup {n}]}
                               ELSE {toRead}
  /\ UNCHANGED <<pc, currFilename, dataBuf, readedFileList>>

(* init: set_notifier makes the directory if it is missing and watches it. *)
StorageStart(d) ==
  /\ pc[d] = "down"
  /\ Goto(d, "idle")
  /\ haveDir' = haveDir \cup {d}
  /\ UNCHANGED <<sigusr1, toRead, currFilename, dataBuf, readedFileList>>

(* The handler: getFirstSMSFromStorage opens the directory.  (When it is   *)
(* empty OnNotify throws, catches and goes on with clearStorage, as it     *)
(* does at the end of the directory.)                                      *)
OnNotify(d) ==
  /\ pc[d] = "idle"
  /\ sigusr1[d]
  /\ sigusr1' = [sigusr1 EXCEPT ![d] = FALSE]
  /\ toRead' = [toRead EXCEPT ![d] = Entries(queue[d])]
  /\ Goto(d, "scan")
  /\ UNCHANGED <<currFilename, dataBuf, readedFileList>>

(* getNextSMSFromStorage and readGettedSMS: the file has data. *)
ReadFile(d, n) ==
  /\ pc[d] = "scan"
  /\ n \in toRead[d]
  /\ content[queue[d][n]] # Empty
  /\ toRead' = [toRead EXCEPT ![d] = @ \ {n}]
  /\ currFilename' = [currFilename EXCEPT ![d] = n]
  /\ dataBuf' = [dataBuf EXCEPT ![d] = content[queue[d][n]]]
  /\ Goto(d, "read")
  /\ UNCHANGED <<sigusr1, readedFileList>>

(* Mutants of ReadEmpty: dataLen is not looked at, and the empty file is   *)
(* sent as the message; or the file is recorded as sent.                   *)
ReadEmptySent(d, n) ==
  /\ pc[d] = "scan"
  /\ n \in toRead[d]
  /\ content[queue[d][n]] = Empty
  /\ toRead' = [toRead EXCEPT ![d] = @ \ {n}]
  /\ currFilename' = [currFilename EXCEPT ![d] = n]
  /\ dataBuf' = [dataBuf EXCEPT ![d] = queue[d][n]]
  /\ Goto(d, "read")
  /\ UNCHANGED <<sigusr1, readedFileList>>

ReadEmptyRecorded(d, n) ==
  /\ pc[d] = "scan"
  /\ n \in toRead[d]
  /\ content[queue[d][n]] = Empty
  /\ toRead' = [toRead EXCEPT ![d] = @ \ {n}]
  /\ readedFileList' = [readedFileList EXCEPT ![d] = @ \cup {n}]
  /\ UNCHANGED <<pc, sigusr1, currFilename, dataBuf>>

(* It has none: dataLen = 0 counts as FAILED and the file stays. *)
ReadEmpty(d, n) ==
  /\ pc[d] = "scan"
  /\ n \in toRead[d]
  /\ content[queue[d][n]] = Empty
  /\ toRead' = [toRead EXCEPT ![d] = @ \ {n}]
  /\ currFilename' = [currFilename EXCEPT ![d] = n]
  /\ UNCHANGED <<pc, sigusr1, dataBuf, readedFileList>>

(* The read fails and throws: what is left of the directory is skipped.    *)
ReadError(d, n) ==
  /\ pc[d] = "scan"
  /\ n \in toRead[d]
  /\ toRead' = [toRead EXCEPT ![d] = {}]
  /\ currFilename' = [currFilename EXCEPT ![d] = n]
  /\ Goto(d, "clear")
  /\ UNCHANGED <<sigusr1, dataBuf, readedFileList>>

(* Send returns SUCCESS: recordSended. *)
SendSuccess(d) ==
  /\ pc[d] = "read"
  /\ readedFileList' = [readedFileList EXCEPT ![d] = @ \cup {currFilename[d]}]
  /\ Goto(d, "scan")
  /\ UNCHANGED <<sigusr1, toRead, currFilename, dataBuf>>

(* Mutant of SendFailed: the name is recorded as sent. *)
SendFailedRecorded(d) ==
  /\ pc[d] = "read"
  /\ readedFileList' = [readedFileList EXCEPT ![d] = @ \cup {currFilename[d]}]
  /\ Goto(d, "scan")
  /\ UNCHANGED <<sigusr1, toRead, currFilename, dataBuf>>

(* Send returns FAILED: the file stays. *)
SendFailed(d) ==
  /\ pc[d] = "read"
  /\ Goto(d, "scan")
  /\ UNCHANGED <<sigusr1, toRead, currFilename, dataBuf, readedFileList>>

(* Mutant of SendError: nothing is linked to the error directory. *)
SendErrorUnkept(d) ==
  /\ pc[d] = "read"
  /\ Goto(d, "refused")
  /\ UNCHANGED <<error, unkept, sigusr1, toRead, currFilename, dataBuf, readedFileList>>

(* Send returns ERROR: backupError links the file to the error directory   *)
SendError(d) ==
  /\ pc[d] = "read"
  /\ error' = Linked(error, currFilename[d], queue[d][currFilename[d]])
  /\ Goto(d, "refused")
  /\ UNCHANGED <<unkept, sigusr1, toRead, currFilename, dataBuf, readedFileList>>

(* or fails to, as nothing in the repository makes that directory, ...     *)
ErrorLinkFails(d) ==
  /\ pc[d] = "read"
  /\ Unlinkable(queue[d][currFilename[d]])
  /\ Goto(d, "refused")
  /\ UNCHANGED <<error, sigusr1, toRead, currFilename, dataBuf, readedFileList>>

(* ... and unlinks it, whatever link answered. *)
BackupErrorUnlink(d) ==
  /\ pc[d] = "refused"
  /\ queue' = [queue EXCEPT ![d] = Unlinked(@, currFilename[d])]
  /\ Goto(d, "scan")
  /\ UNCHANGED <<sigusr1, toRead, currFilename, dataBuf, readedFileList>>

(* getNextSMSFromStorage finds nothing more. *)
EndOfDirectory(d) ==
  /\ pc[d] = "scan"
  /\ toRead[d] = {}
  /\ Goto(d, "clear")
  /\ UNCHANGED <<sigusr1, toRead, currFilename, dataBuf, readedFileList>>

(* Mutant of ClearLink: there is no copy in the backup. *)
ClearLinkSkipped(d, n) ==
  /\ pc[d] = "clear"
  /\ n \in readedFileList[d]
  /\ currFilename' = [currFilename EXCEPT ![d] = n]
  /\ Goto(d, "kept")
  /\ UNCHANGED <<backup, unkept, sigusr1, toRead, dataBuf, readedFileList>>

(* clearStorage, once per name of the list: link it to the backup ...      *)
ClearLink(d, n) ==
  /\ pc[d] = "clear"
  /\ n \in readedFileList[d]
  /\ backup' = [backup EXCEPT ![d] = Linked(@, n, queue[d][n])]
  /\ currFilename' = [currFilename EXCEPT ![d] = n]
  /\ Goto(d, "kept")
  /\ UNCHANGED <<unkept, sigusr1, toRead, dataBuf, readedFileList>>

(* or fail to, ... *)
ClearLinkFails(d, n) ==
  /\ pc[d] = "clear"
  /\ n \in readedFileList[d]
  /\ Unlinkable(queue[d][n])
  /\ currFilename' = [currFilename EXCEPT ![d] = n]
  /\ Goto(d, "kept")
  /\ UNCHANGED <<backup, sigusr1, toRead, dataBuf, readedFileList>>

(* Mutant of ClearUnlink: the file stays. *)
ClearUnlinkSkipped(d) ==
  /\ pc[d] = "kept"
  /\ readedFileList' = [readedFileList EXCEPT ![d] = @ \ {currFilename[d]}]
  /\ Goto(d, "clear")
  /\ UNCHANGED <<queue, sigusr1, toRead, currFilename, dataBuf>>

(* ... and unlink it, whatever link answered. *)
ClearUnlink(d) ==
  /\ pc[d] = "kept"
  /\ queue' = [queue EXCEPT ![d] = Unlinked(@, currFilename[d])]
  /\ readedFileList' = [readedFileList EXCEPT ![d] = @ \ {currFilename[d]}]
  /\ Goto(d, "clear")
  /\ UNCHANGED <<sigusr1, toRead, currFilename, dataBuf>>

(* The list is cleared, the directory closed, set_notifier renews the      *)
(* watch, and the handler returns.                                         *)
NotifyReturn(d) ==
  /\ pc[d] = "clear"
  /\ readedFileList[d] = {}
  /\ Goto(d, "idle")
  /\ UNCHANGED <<sigusr1, toRead, currFilename, dataBuf, readedFileList>>

(* The process dies: kill -9, SIGTERM (exit in the handler), a crash. *)
StorageDies(d) ==
  /\ pc[d] # "down"
  /\ Goto(d, "down")
  /\ sigusr1' = [sigusr1 EXCEPT ![d] = FALSE]
  /\ toRead' = [toRead EXCEPT ![d] = {}]
  /\ currFilename' = [currFilename EXCEPT ![d] = NoFile]
  /\ dataBuf' = [dataBuf EXCEPT ![d] = Empty]
  /\ readedFileList' = [readedFileList EXCEPT ![d] = {}]
=============================================================================
