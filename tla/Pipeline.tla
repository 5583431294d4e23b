------------------------------ MODULE Pipeline ------------------------------
(***************************************************************************)
(* The whole way of a message through the spool: the processes that write  *)
(* it (StorageWrite), the relay that moves it (Deliver) and the consumer   *)
(* that sends it (StorageNotify), coupled by the directories and by the    *)
(* signals dnotify raises when a name is linked or created.                *)
(*                                                                         *)
(* With Dests = {outbox/18dx} it is the way from a BBS to the phone        *)
(* network; with the inboxes of the BBSs and inbox/default it is the way   *)
(* back.                                                                   *)
(***************************************************************************)
EXTENDS StorageWrite, Deliver, StorageNotify

CONSTANTS
  Consumers,   \* the directories of Dests some process consumes (nobody
               \* consumes inbox/default)
  MaxFaults    \* how many processes may die, reads and links fail, answers
               \* get lost

ASSUME PipelineAssumption ==
  /\ Consumers \subseteq Dests
  /\ MaxFaults \in Nat

VARIABLES
  delivered,   \* history: messages the peer has been given
  repeated,    \* history: messages the peer has been given more than once
  disturbed,   \* history: messages whose handling a fault cut short
  faults       \* faults so far

historyVars == <<delivered, repeated, disturbed>>
vars == <<spoolVars, writeVars, relayVars, notifyVars, historyVars, faults>>

Init ==
  /\ SpoolInit
  /\ WriteInit
  /\ RelayInit
  /\ NotifyInit
  /\ delivered = {}
  /\ repeated = {}
  /\ disturbed = {}
  /\ faults = 0

Fault ==
  /\ faults < MaxFaults
  /\ faults' = faults + 1

Stored(m) == writing[m] = "stored"

(* The peer receives m. *)
Handed(m) ==
  /\ delivered' = delivered \cup {m}
  /\ repeated' = IF m \in delivered THEN repeated \cup {m} ELSE repeated

-----------------------------------------------------------------------------
(* The writers. *)

Create(m) ==
  /\ WriteCreate(m)
  /\ RelayNotified(FileName[m])
  /\ UNCHANGED <<queue, backup, error, haveDir, unkept, notifyVars, historyVars, faults>>

WriteStep(m) ==
  /\ WriteRefused(m) \/ WriteTruncate(m) \/ WriteData(m) \/ WriteFails(m)
  /\ UNCHANGED <<queue, backup, error, haveDir, unkept, relayVars, notifyVars,
                 historyVars, faults>>

(* The relay. *)

Relay(n, d) ==
  /\ RelayLink(n, d)
  /\ IF queue' # queue THEN StorageNotified(d, n) ELSE UNCHANGED notifyVars
  /\ UNCHANGED <<outgoing, backup, error, haveDir, content, writeVars,
                 historyVars, faults>>

(* getDest has answered a directory that is not there. *)
RelayAstray(n, d) ==
  /\ RelayLinkFails(n, d)
  /\ d \notin haveDir
  /\ UNCHANGED <<outgoing, backup, error, haveDir, content, writeVars, notifyVars,
                 historyVars, faults>>

Unlink ==
  /\ RelayUnlink
  /\ UNCHANGED <<queue, backup, error, haveDir, content, unkept, writeVars, notifyVars,
                 historyVars, faults>>

RelayRun ==
  /\ RelayStart \/ RelayOpenDir \/ RelayCloseDir
  /\ UNCHANGED <<spoolVars, writeVars, notifyVars, historyVars, faults>>

RelayStep ==
  \/ \E n \in Names, d \in Dests : Relay(n, d) \/ RelayAstray(n, d)
  \/ Unlink
  \/ RelayRun

RelayFault ==
  /\ RelayDies
  /\ Fault
  /\ disturbed' = disturbed \cup
       {m \in Messages : relayPc = "linked" /\ FileName[m] = relayCurr}
  /\ UNCHANGED <<spoolVars, writeVars, notifyVars, delivered, repeated>>

(* The directory is there, and the link fails. *)
RelayLinkFault(n, d) ==
  /\ RelayLinkFails(n, d)
  /\ d \in haveDir
  /\ Fault
  /\ UNCHANGED <<outgoing, backup, error, haveDir, content, writeVars, notifyVars,
                 historyVars>>

(* The consumers. *)

Start(d) ==
  /\ StorageStart(d)
  /\ UNCHANGED <<outgoing, queue, backup, error, content, unkept, writeVars, relayVars,
                 historyVars, faults>>

Notify(d) ==
  /\ \/ OnNotify(d)
     \/ \E n \in Names : ReadFile(d, n) \/ ReadEmpty(d, n)
     \/ EndOfDirectory(d)
     \/ NotifyReturn(d)
  /\ UNCHANGED <<spoolVars, writeVars, relayVars, historyVars, faults>>

Send(d) ==
  /\ SendSuccess(d)
  /\ Handed(dataBuf[d])
  /\ UNCHANGED <<spoolVars, writeVars, relayVars, disturbed, faults>>

Refuse(d) ==
  /\ SendError(d)
  /\ UNCHANGED <<outgoing, queue, backup, haveDir, content, writeVars, relayVars,
                 historyVars, faults>>

Fail(d) ==
  /\ SendFailed(d)
  /\ UNCHANGED <<spoolVars, writeVars, relayVars, historyVars, faults>>

Backup(d) ==
  /\ \E n \in Names : ClearLink(d, n)
  /\ UNCHANGED <<outgoing, queue, error, haveDir, content, writeVars, relayVars,
                 historyVars, faults>>

Remove(d) ==
  /\ BackupErrorUnlink(d) \/ ClearUnlink(d)
  /\ UNCHANGED <<outgoing, backup, error, haveDir, content, unkept, writeVars, relayVars,
                 historyVars, faults>>

StorageStep(d) ==
  Start(d) \/ Notify(d) \/ Send(d) \/ Refuse(d) \/ Fail(d) \/ Backup(d) \/ Remove(d)

(* The peer has taken the message, but its answer is lost or late: Send    *)
(* times out and returns FAILED.                                           *)
SendUnconfirmed(d) ==
  /\ SendFailed(d)
  /\ Fault
  /\ Handed(dataBuf[d])
  /\ disturbed' = disturbed \cup {dataBuf[d]}
  /\ UNCHANGED <<spoolVars, writeVars, relayVars>>

RefuseFault(d) ==
  /\ ErrorLinkFails(d)
  /\ Fault
  /\ UNCHANGED <<outgoing, queue, backup, haveDir, content, writeVars, relayVars,
                 historyVars>>

BackupFault(d) ==
  /\ \E n \in Names : ClearLinkFails(d, n)
  /\ Fault
  /\ UNCHANGED <<outgoing, queue, error, haveDir, content, writeVars, relayVars,
                 historyVars>>

ReadFault(d) ==
  /\ \E n \in Names : ReadError(d, n)
  /\ Fault
  /\ UNCHANGED <<spoolVars, writeVars, relayVars, historyVars>>

StorageFault(d) ==
  /\ StorageDies(d)
  /\ Fault
  /\ disturbed' = disturbed \cup {m \in Messages : FileName[m] \in readedFileList[d]}
  /\ UNCHANGED <<spoolVars, writeVars, relayVars, delivered, repeated>>

(* Messages this model does not follow pass through the same directories:  *)
(* their arrival wakes the relay and the consumers.                        *)
OtherCreated ==
  /\ relayPc # "down"
  /\ relaySig = 0
  /\ relaySig' = 1
  /\ UNCHANGED <<relayPc, relayCurr, relayScan, spoolVars, writeVars, notifyVars,
                 historyVars, faults>>

OtherRelayed(d) ==
  /\ relayPc = "scan"
  /\ d \in haveDir
  /\ pc[d] # "down"
  /\ ~sigusr1[d]
  /\ sigusr1' = [sigusr1 EXCEPT ![d] = TRUE]
  /\ UNCHANGED <<pc, toRead, currFilename, dataBuf, readedFileList, spoolVars,
                 writeVars, relayVars, historyVars, faults>>

Next ==
  \/ \E m \in Messages : Create(m) \/ WriteStep(m)
  \/ RelayStep
  \/ RelayFault
  \/ \E n \in Names, d \in Dests : RelayLinkFault(n, d)
  \/ \E d \in Consumers : \/ StorageStep(d)
                          \/ SendUnconfirmed(d)
                          \/ RefuseFault(d)
                          \/ BackupFault(d)
                          \/ ReadFault(d)
                          \/ StorageFault(d)
                          \/ OtherRelayed(d)
  \/ OtherCreated

Spec == Init /\ [][Next]_vars

-----------------------------------------------------------------------------
(* Fairness.  A daemon that runs takes its next step (the scheduler), a    *)
(* daemon that died is started again (the operator), and a peer that is    *)
(* asked again and again takes or refuses the message some time.           *)
Fairness ==
  /\ WF_vars(RelayStep)
  /\ \A d \in Consumers : WF_vars(StorageStep(d)) /\ SF_vars(Send(d) \/ Refuse(d))

(* Other messages keep arriving. *)
Traffic ==
  /\ WF_vars(OtherCreated)
  /\ \A d \in Consumers : SF_vars(OtherRelayed(d))

BusySpec == Spec /\ Fairness /\ Traffic

(* All daemons run from the beginning, and nothing is said of traffic. *)
RunningInit ==
  /\ SpoolInit
  /\ WriteInit
  /\ relayPc = "idle"
  /\ relayCurr = NoFile
  /\ relayScan = {}
  /\ relaySig = 0
  /\ pc = [d \in Dests |-> IF d \in Consumers THEN "idle" ELSE "down"]
  /\ sigusr1 = [d \in Dests |-> FALSE]
  /\ toRead = [d \in Dests |-> {}]
  /\ currFilename = [d \in Dests |-> NoFile]
  /\ dataBuf = [d \in Dests |-> Empty]
  /\ readedFileList = [d \in Dests |-> {}]
  /\ delivered = {}
  /\ repeated = {}
  /\ disturbed = {}
  /\ faults = 0

RunningSpec == RunningInit /\ [][Next]_vars /\ Fairness

-----------------------------------------------------------------------------
(* Properties. *)

(* The values the state may take. *)
TypeOK ==
  /\ SpoolTypeOK
  /\ WriteTypeOK
  /\ RelayTypeOK
  /\ NotifyTypeOK
  /\ delivered \subseteq Messages
  /\ repeated \subseteq Messages
  /\ disturbed \subseteq Messages
  /\ faults \in 0..MaxFaults

InOutgoing(m) == outgoing[FileName[m]] = m
InQueue(m) == \E d \in Dests : queue[d][FileName[m]] = m
InError(m) == error[FileName[m]] = m

(* A message writeSMStoStorage answered SUCCESS for is never lost: until   *)
(* the peer has it, a file with its data is in a spool directory or in the *)
(* error directory, whichever process dies at whatever point, unless the   *)
(* file system has refused to link that file to where it should go.        *)
HasData(m, i) == content[i] = m /\ (InOutgoing(i) \/ InQueue(i) \/ InError(i))

NoMessageLost ==
  \A m \in Messages :
    Stored(m) => \/ m \in delivered \/ inode[m] \in unkept
                 \/ \E i \in Messages : HasData(m, i)

(* The peer is given only what a caller stored: never an empty file, half  *)
(* a file or the name of one that has gone.                                *)
OnlyStoredDelivered == \A m \in delivered : Stored(m)

(* Without a death or a lost answer in the middle of its handling, no      *)
(* message is sent twice, however the relay's and the consumers' handlers, *)
(* the signals and the late writes interleave.                             *)
NoNeedlessRepeat == repeated \subseteq disturbed

(* A consumer takes a file out of its directory only when a copy of it is  *)
(* in the backup or in the error directory, or the file system has refused *)
(* to make one.                                                            *)
RemovedFilesAreKept ==
  [][\A d \in Dests, n \in Names :
       (queue[d][n] # NoFile /\ queue'[d][n] = NoFile)
         => queue[d][n] \in {backup'[d][n], error'[n]} \cup unkept']_vars

(* sms_deliver_p2c.cpp:140, of every file it unlinks: "deliver msg: <file>  *)
(* to <directory>".  What leaves the outgoing directory has got further.   *)
RelayedIsDelivered ==
  [][\A n \in Names :
       (outgoing[n] # NoFile /\ outgoing'[n] = NoFile)
         => \/ outgoing[n] \in {error'[n]} \cup delivered
            \/ \E d \in Dests : queue'[d][n] = outgoing[n]]_vars

(* Once relayed, a file is in a queue or has got further, unless the file  *)
(* system has refused to link it.                                          *)
RelayedGetsFurther ==
  [][\A n \in Names :
       (outgoing[n] # NoFile /\ outgoing'[n] = NoFile)
         => \/ outgoing[n] \in {error'[n]} \cup delivered \cup unkept
            \/ \E d \in Dests : queue'[d][n] = outgoing[n]]_vars

(* The spool's promise, in the terms of MessageTransfer: what is stored    *)
(* and in a directory the daemons watch is in custody.                     *)
Custody == {m \in Messages : Stored(m) /\ (InOutgoing(m) \/ InQueue(m))}
Rejected == {m \in Messages : InError(m)}

Transfer == INSTANCE MessageTransfer WITH
  custody <- Custody, rejected <- Rejected, abandoned <- unkept

(* Every step of the daemons is a step of the promise: a message leaves    *)
(* the custody only when it was handed over, is kept as refused, or could  *)
(* not be linked.                                                          *)
KeepsPromise == Transfer!Spec

(* While other messages keep arriving, a message that was stored is handed *)
(* to the peer or refused by it in the end, unless its link has failed:    *)
(* the late write, the missed start-up scan, the failed attempt and the    *)
(* death of a daemon are all made good by a later signal.                  *)
EventuallyHandled ==
  \A m \in Messages : Stored(m) ~> (m \in delivered \/ InError(m) \/ m \in unkept)

(* smsstorage.h:23, of a daemon that runs: when there are new files in the *)
(* incoming directory, all of them are read into memory.                   *)
NewFilesAreRead ==
  \A m \in Messages :
    Stored(m) ~> (m \in delivered \/ InError(m) \/ \E d \in Dests : dataBuf[d] = m)
=============================================================================
