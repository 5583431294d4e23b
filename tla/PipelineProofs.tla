--------------------------- MODULE PipelineProofs ---------------------------
(***************************************************************************)
(* Proofs about Pipeline, for any sets of messages, names and directories  *)
(* and any number of faults.                                               *)
(***************************************************************************)
EXTENDS PipelineInv, TLAPS

-----------------------------------------------------------------------------
(* Lemmas on the directories. *)

(* link and unlink lead from directory to directory. *)
LEMMA DirectoryOps ==
  ASSUME NEW dir \in Directory, NEW n \in Names, NEW i \in Messages \cup {NoFile}
  PROVE  /\ Linked(dir, n, i) \in Directory
         /\ Unlinked(dir, n) \in Directory
         /\ Entries(dir) \subseteq Names
         /\ Entries(dir) \subseteq Entries(Linked(dir, n, i))
         /\ Entries(Unlinked(dir, n)) = Entries(dir) \ {n}
BY DEF Linked, Unlinked, Directory, Entries

(* When the relay cannot link a file, it leaves the directories alone.     *)
LEMMA RelayFailsIs ==
  ASSUME NEW n \in Names, NEW d \in Dests, RelayAstray(n, d) \/ RelayLinkFault(n, d)
  PROVE  /\ relayPc = "scan" /\ n \in relayScan
         /\ relayPc' = "linked" /\ relayCurr' = n
         /\ unkept' = unkept \cup {outgoing[n]}
         /\ faults' = faults \/ (faults < MaxFaults /\ faults' = faults + 1)
         /\ UNCHANGED <<outgoing, queue, backup, error, haveDir, content, writing, inode,
                        relayScan, relaySig, notifyVars, delivered, repeated, disturbed>>
         /\ UNCHANGED <<pc, sigusr1, toRead, currFilename, dataBuf, readedFileList>>
BY DEF RelayAstray, RelayLinkFault, RelayLinkFails, Unlinkable, Fault, writeVars, historyVars,
       notifyVars

-----------------------------------------------------------------------------
(* The type invariant. *)

LEMMA InitTypeInvariant == Init => TypeInvariant
BY SpoolAssumption, PipelineAssumption
   DEF Init, SpoolInit, WriteInit, RelayInit, NotifyInit, NoFiles, Directory,
       TypeInvariant, TypeOK, SpoolTypeOK, WriteTypeOK, RelayTypeOK, NotifyTypeOK,
       WriteStates, NotifyStates, ReadingInv, RelayReadingInv, Reading, Entries

LEMMA StepTypeInvariant == TypeInvariant /\ [Next]_vars => TypeInvariant'
<1> SUFFICES ASSUME TypeInvariant, [Next]_vars
             PROVE  TypeInvariant'
  OBVIOUS
<1> USE SpoolAssumption, PipelineAssumption
    DEF TypeInvariant, TypeOK, SpoolTypeOK, WriteTypeOK, RelayTypeOK, NotifyTypeOK,
        WriteStates, NotifyStates, ReadingInv, RelayReadingInv, Reading, Directory,
        spoolVars, writeVars, relayVars, notifyVars, historyVars
<1>1. ASSUME NEW m \in Messages, Create(m)
      PROVE  TypeInvariant'
  BY <1>1 DEF Create, WriteCreate, RelayNotified, Entries
<1>2. ASSUME NEW m \in Messages, WriteStep(m)
      PROVE  TypeInvariant'
  <2>1. CASE WriteRefused(m)
    BY <1>2, <2>1 DEF WriteStep, WriteRefused
  <2>2. CASE WriteTruncate(m)
    BY <1>2, <2>2 DEF WriteStep, WriteTruncate
  <2>3. CASE WriteData(m)
    BY <1>2, <2>3 DEF WriteStep, WriteData
  <2>4. CASE WriteFails(m)
    BY <1>2, <2>4 DEF WriteStep, WriteFails
  <2>5. QED
    BY <1>2, <2>1, <2>2, <2>3, <2>4 DEF WriteStep
<1>3. ASSUME NEW n \in Names, NEW d \in Dests, Relay(n, d)
      PROVE  TypeInvariant'
  <2>1. /\ queue' \in [Dests -> Directory]
        /\ \A e \in Dests : Entries(queue[e]) \subseteq Entries(queue'[e])
    BY <1>3 DEF Relay, RelayLink, Linked, Entries
  <2>2. relayPc' = "linked" /\ relayCurr' = n /\ UNCHANGED <<unkept, relayScan, relaySig>>
    BY <1>3 DEF Relay, RelayLink
  <2>3. UNCHANGED <<outgoing, backup, error, haveDir, content, writing, inode,
                    delivered, repeated, disturbed, faults>>
    BY <1>3 DEF Relay
  <2>4. CASE queue' # queue
    <3>1. n \in Entries(queue'[d])
      BY <1>3, <2>4 DEF Relay, RelayLink, Linked, Entries
    <3>2. StorageNotified(d, n)
      BY <1>3, <2>4 DEF Relay
    <3>3. /\ toRead' \in [Dests -> SUBSET Names]
          /\ sigusr1' \in [Dests -> BOOLEAN]
          /\ UNCHANGED <<pc, currFilename, dataBuf, readedFileList>>
      <4>1. toRead' \in {toRead, [toRead EXCEPT ![d] = @ \cup {n}]}
        BY <3>2 DEF StorageNotified
      <4>2. sigusr1' = [sigusr1 EXCEPT ![d] = pc[d] # "down"]
        BY <3>2 DEF StorageNotified
      <4>3. sigusr1' \in [Dests -> BOOLEAN]
        BY <4>2
      <4>4. toRead' \in [Dests -> SUBSET Names]
        <5>1. [toRead EXCEPT ![d] = @ \cup {n}] \in [Dests -> SUBSET Names]
          OBVIOUS
        <5>2. QED
          BY <4>1, <5>1
      <4>5. UNCHANGED <<pc, currFilename, dataBuf, readedFileList>>
        BY <3>2 DEF StorageNotified
      <4>6. QED
        BY <4>3, <4>4, <4>5
    <3>4. \A e \in Dests : toRead'[e] = toRead[e] \/ (e = d /\ Reading(d)
                                  /\ toRead'[d] = toRead[d] \cup {n})
      BY <3>2 DEF StorageNotified
    <3>5. ASSUME NEW e \in Dests
          PROVE  ReadingInv(e)'
      <4>1. /\ toRead'[e] \subseteq Entries(queue'[e])
            /\ ~Reading(e)' => toRead'[e] = {}
        BY <2>1, <3>1, <3>3, <3>4
      <4>2. n \notin Entries(queue[d])
        BY <1>3, <2>4 DEF Relay, RelayLink, Linked, Entries
      <4>3. /\ pc[e] \in {"read", "refused"} => currFilename[e] \notin toRead'[e]
            /\ \A k \in readedFileList[e] : k \notin toRead'[e]
        <5>1. ReadingInv(e) /\ toRead[e] \subseteq Names
          OBVIOUS
        <5>2. CASE toRead'[e] = toRead[e]
          BY <5>1, <5>2
        <5>3. CASE e = d /\ toRead'[d] = toRead[d] \cup {n}
          BY <5>1, <5>3, <4>2
        <5>4. QED
          BY <5>2, <5>3, <3>4
      <4>4. /\ pc[e] \in {"read", "refused"} =>
                 currFilename[e] \in Entries(queue'[e]) \ (toRead'[e] \cup readedFileList[e])
            /\ readedFileList[e] \subseteq Entries(queue'[e]) \ toRead'[e]
        BY <2>1, <4>3
      <4>5. QED
        BY <3>3, <4>1, <4>4 DEF Entries
    <3>6. RelayReadingInv'
      BY <1>3, <2>2, <2>3 DEF Relay, RelayLink, Entries
    <3>7. QED
      BY <2>1, <2>2, <2>3, <3>3, <3>5, <3>6
  <2>5. CASE queue' = queue
    <3>1. UNCHANGED notifyVars
      BY <1>3, <2>5 DEF Relay
    <3>2. RelayReadingInv'
      BY <1>3, <2>2, <2>3 DEF Relay, RelayLink, Entries
    <3>3. QED
      BY <2>2, <2>3, <2>5, <3>1, <3>2
  <2>6. QED
    BY <2>4, <2>5
<1>4. CASE Unlink
  BY <1>4 DEF Unlink, RelayUnlink, Unlinked, Entries
<1>5. CASE RelayRun
  BY <1>5 DEF RelayRun, RelayStart, RelayOpenDir, RelayCloseDir, Entries
<1>6. CASE RelayFault
  BY <1>6 DEF RelayFault, RelayDies, Fault
<1>7. ASSUME NEW d \in Dests, Start(d)
      PROVE  TypeInvariant'
  BY <1>7 DEF Start, StorageStart, Goto
<1>8. ASSUME NEW d \in Dests, Notify(d)
      PROVE  TypeInvariant'
  <2>1. CASE OnNotify(d)
    BY <1>8, <2>1 DEF Notify, OnNotify, Goto, Entries
  <2>2. ASSUME NEW n \in Names, ReadFile(d, n)
        PROVE  TypeInvariant'
    BY <1>8, <2>2 DEF Notify, ReadFile, Goto, Entries
  <2>3. ASSUME NEW n \in Names, ReadEmpty(d, n)
        PROVE  TypeInvariant'
    BY <1>8, <2>3 DEF Notify, ReadEmpty, Goto
  <2>4. CASE EndOfDirectory(d)
    BY <1>8, <2>4 DEF Notify, EndOfDirectory, Goto
  <2>5. CASE NotifyReturn(d)
    BY <1>8, <2>5 DEF Notify, NotifyReturn, Goto
  <2>6. QED
    BY <1>8, <2>1, <2>2, <2>3, <2>4, <2>5 DEF Notify
<1>9. ASSUME NEW d \in Dests, Send(d)
      PROVE  TypeInvariant'
  BY <1>9 DEF Send, SendSuccess, Handed, Goto, Entries
<1>10. ASSUME NEW d \in Dests, Refuse(d)
       PROVE  TypeInvariant'
  BY <1>10 DEF Refuse, SendError, Goto, Linked, Entries
<1>11. ASSUME NEW d \in Dests, Fail(d)
       PROVE  TypeInvariant'
  BY <1>11 DEF Fail, SendFailed, Goto
<1>12. ASSUME NEW d \in Dests, Backup(d)
       PROVE  TypeInvariant'
  BY <1>12 DEF Backup, ClearLink, Goto, Linked
<1>13. ASSUME NEW d \in Dests, Remove(d)
       PROVE  TypeInvariant'
  <2>1. CASE BackupErrorUnlink(d)
    BY <1>13, <2>1 DEF Remove, BackupErrorUnlink, Goto, Unlinked, Entries
  <2>2. CASE ClearUnlink(d)
    BY <1>13, <2>2 DEF Remove, ClearUnlink, Goto, Unlinked, Entries
  <2>3. QED
    BY <1>13, <2>1, <2>2 DEF Remove
<1>14. ASSUME NEW d \in Dests, SendUnconfirmed(d)
       PROVE  TypeInvariant'
  BY <1>14 DEF SendUnconfirmed, SendFailed, Handed, Fault, Goto
<1>15. ASSUME NEW d \in Dests, ReadFault(d)
       PROVE  TypeInvariant'
  BY <1>15 DEF ReadFault, ReadError, Fault, Goto
<1>16. ASSUME NEW d \in Dests, StorageFault(d)
       PROVE  TypeInvariant'
  BY <1>16 DEF StorageFault, StorageDies, Fault, Goto
<1>17. ASSUME NEW d \in Dests, OtherRelayed(d)
       PROVE  TypeInvariant'
  BY <1>17 DEF OtherRelayed
<1>18. CASE OtherCreated
  BY <1>18 DEF OtherCreated
<1>19. CASE UNCHANGED vars
  BY <1>19 DEF vars, Entries
<1>20. ASSUME NEW n \in Names, NEW d \in Dests, RelayAstray(n, d) \/ RelayLinkFault(n, d)
       PROVE  TypeInvariant'
  <2>1. outgoing[n] \in Messages
    BY <1>20, RelayFailsIs DEF Entries
  <2>2. unkept' \subseteq Messages
    BY <1>20, <2>1, RelayFailsIs
  <2>3. faults' \in 0..MaxFaults
    BY <1>20, RelayFailsIs
  <2>4. /\ relayPc' = "linked" /\ relayCurr' = n /\ n \in relayScan
        /\ UNCHANGED <<outgoing, queue, backup, error, haveDir, content, writing, inode,
                       relayScan, relaySig, delivered, repeated, disturbed>>
        /\ UNCHANGED <<pc, sigusr1, toRead, currFilename, dataBuf, readedFileList>>
    BY <1>20, RelayFailsIs
  <2>. QED
    BY <2>2, <2>3, <2>4 DEF Entries
<1>21. ASSUME NEW d \in Dests, RefuseFault(d)
       PROVE  TypeInvariant'
  BY <1>21 DEF RefuseFault, ErrorLinkFails, Unlinkable, Goto, Fault, Entries
<1>22. ASSUME NEW d \in Dests, BackupFault(d)
       PROVE  TypeInvariant'
  BY <1>22 DEF BackupFault, ClearLinkFails, Unlinkable, Goto, Fault, Entries
<1>23. QED
  BY <1>1, <1>2, <1>3, <1>4, <1>5, <1>6, <1>7, <1>8, <1>9, <1>10, <1>11, <1>12,
     <1>13, <1>14, <1>15, <1>16, <1>17, <1>18, <1>19, <1>20, <1>21, <1>22
     DEF Next, RelayStep, StorageStep

THEOREM TypeInvariantHolds == Spec => []TypeInvariant
<1>1. Init => TypeInvariant
  BY InitTypeInvariant
<1>2. TypeInvariant /\ [Next]_vars => TypeInvariant'
  BY StepTypeInvariant
<1>3. QED
  BY <1>1, <1>2, PTL DEF Spec

(* The state keeps its types in every behaviour, whatever names the        *)
(* writers give and whatever directories are missing.                      *)
THEOREM TypeCorrect == Spec => []TypeOK
<1>1. TypeInvariant => TypeOK
  BY DEF TypeInvariant
<1>2. QED
  BY <1>1, TypeInvariantHolds, PTL

-----------------------------------------------------------------------------
(* The safety invariant. *)

LEMMA StepPipelineInvariant ==
  ASSUME DistinctNames, PipelineInvariant, TypeInvariant', [Next]_vars
  PROVE  PipelineInvariant'
<1> USE SpoolAssumption, PipelineAssumption
    DEF PipelineInvariant, TypeInvariant, TypeOK, SpoolTypeOK, WriteTypeOK, RelayTypeOK,
        NotifyTypeOK, WriteStates, NotifyStates, ReadingInv, RelayReadingInv, Reading, Directory, Entries,
        NamesMatch, OwnNames, FilesOfWriters, FilesSafe, RelayInv, ConsumerInv,
        Safe, InOutgoing, InQueue, InError, Stored, DistinctNames, Goto,
        spoolVars, writeVars, relayVars, notifyVars, historyVars
<1>1. ASSUME NEW m \in Messages, Create(m)
      PROVE  PipelineInvariant'
  BY <1>1 DEF Create, WriteCreate, RelayNotified
<1>2. ASSUME NEW m \in Messages, WriteRefused(m) /\ WriteStep(m)
      PROVE  PipelineInvariant'
  BY <1>2 DEF WriteStep, WriteRefused
<1>3. ASSUME NEW m \in Messages, WriteTruncate(m) /\ WriteStep(m)
      PROVE  PipelineInvariant'
  BY <1>3 DEF WriteStep, WriteTruncate
<1>4. ASSUME NEW m \in Messages, WriteData(m) /\ WriteStep(m)
      PROVE  PipelineInvariant'
  BY <1>4 DEF WriteStep, WriteData
<1>5. ASSUME NEW m \in Messages, WriteFails(m) /\ WriteStep(m)
      PROVE  PipelineInvariant'
  BY <1>5 DEF WriteStep, WriteFails
<1>6. ASSUME NEW n \in Names, NEW d \in Dests, Relay(n, d)
      PROVE  PipelineInvariant'
  <2>1. NamesMatch'
    BY <1>6 DEF Relay, RelayLink, StorageNotified, Linked
  <2>2. FilesOfWriters'
    BY <1>6 DEF Relay, RelayLink, StorageNotified, Linked
  <2>3. FilesSafe'
    BY <1>6 DEF Relay, RelayLink, StorageNotified, Linked
  <2>4. RelayInv'
    BY <1>6 DEF Relay, RelayLink, StorageNotified, Linked
  <2>5. (\A e \in Dests : ConsumerInv(e))'
    BY <1>6 DEF Relay, RelayLink, StorageNotified, Linked
  <2>6. QED
    BY <2>1, <2>2, <2>3, <2>4, <2>5 DEF PipelineInvariant
<1>7. CASE Unlink
  BY <1>7 DEF Unlink, RelayUnlink, Unlinked
<1>8. CASE RelayRun
  BY <1>8 DEF RelayRun, RelayStart, RelayOpenDir, RelayCloseDir
<1>9. CASE RelayFault
  BY <1>9 DEF RelayFault, RelayDies, Fault
<1>10. ASSUME NEW d \in Dests, Start(d)
      PROVE  PipelineInvariant'
  BY <1>10 DEF Start, StorageStart
<1>11. ASSUME NEW d \in Dests, Notify(d)
      PROVE  PipelineInvariant'
  <2>1. CASE OnNotify(d)
    BY <1>11, <2>1 DEF Notify, OnNotify
  <2>2. ASSUME NEW n \in Names, ReadFile(d, n)
        PROVE  PipelineInvariant'
    <3>1. queue[d][n] \in Messages /\ content[queue[d][n]] # Empty
      BY <2>2 DEF ReadFile
    <3>2. Stored(queue[d][n]) /\ content[queue[d][n]] = queue[d][n]
      BY <3>1
    <3>3. QED
      BY <1>11, <2>2, <3>2 DEF Notify, ReadFile
  <2>3. ASSUME NEW n \in Names, ReadEmpty(d, n)
        PROVE  PipelineInvariant'
    BY <1>11, <2>3 DEF Notify, ReadEmpty
  <2>4. CASE EndOfDirectory(d)
    BY <1>11, <2>4 DEF Notify, EndOfDirectory
  <2>5. CASE NotifyReturn(d)
    BY <1>11, <2>5 DEF Notify, NotifyReturn
  <2>6. QED
    BY <1>11, <2>1, <2>2, <2>3, <2>4, <2>5 DEF Notify
<1>12. ASSUME NEW d \in Dests, Send(d)
      PROVE  PipelineInvariant'
  BY <1>12 DEF Send, SendSuccess, Handed
<1>13. ASSUME NEW d \in Dests, Refuse(d)
      PROVE  PipelineInvariant'
  BY <1>13 DEF Refuse, SendError, Linked
<1>14. ASSUME NEW d \in Dests, Fail(d)
      PROVE  PipelineInvariant'
  BY <1>14 DEF Fail, SendFailed
<1>15. ASSUME NEW d \in Dests, Backup(d)
      PROVE  PipelineInvariant'
  BY <1>15 DEF Backup, ClearLink, Linked
<1>16. ASSUME NEW d \in Dests, BackupErrorUnlink(d) /\ Remove(d)
      PROVE  PipelineInvariant'
  <2>1. NamesMatch'
    BY <1>16 DEF Remove, BackupErrorUnlink, Unlinked
  <2>2. FilesOfWriters'
    BY <1>16 DEF Remove, BackupErrorUnlink, Unlinked
  <2>3. FilesSafe'
    BY <1>16 DEF Remove, BackupErrorUnlink, Unlinked
  <2>4. RelayInv'
    <3>1. queue[d][currFilename[d]] \in {error[currFilename[d]]} \cup unkept
      BY <1>16 DEF BackupErrorUnlink
    <3>2. \A m \in Messages : InQueue(m) => InQueue(m)' \/ InError(m) \/ m \in unkept
      BY <1>16, <3>1 DEF BackupErrorUnlink, Unlinked
    <3>3. UNCHANGED <<relayScan, relayPc, relayCurr, outgoing, error, delivered, unkept>>
      BY <1>16 DEF Remove
    <3>4. QED
      <4>1. SUFFICES ASSUME relayPc = "linked"
                     PROVE  (InQueue(outgoing[relayCurr]) \/ InError(outgoing[relayCurr])
                              \/ outgoing[relayCurr] \in delivered
                              \/ outgoing[relayCurr] \in unkept)'
        BY <3>3
      <4>2. outgoing[relayCurr] \in Messages
        BY <4>1
      <4>3. QED
        BY <3>2, <3>3, <4>1, <4>2
  <2>5. (\A e \in Dests : ConsumerInv(e))'
    BY <1>16 DEF Remove, BackupErrorUnlink, Unlinked
  <2>6. QED
    BY <2>1, <2>2, <2>3, <2>4, <2>5 DEF PipelineInvariant
<1>17. ASSUME NEW d \in Dests, ClearUnlink(d) /\ Remove(d)
      PROVE  PipelineInvariant'
  <2>1. NamesMatch'
    BY <1>17 DEF Remove, ClearUnlink, Unlinked
  <2>2. FilesOfWriters'
    BY <1>17 DEF Remove, ClearUnlink, Unlinked
  <2>3. FilesSafe'
    BY <1>17 DEF Remove, ClearUnlink, Unlinked
  <2>4. RelayInv'
    <3>1. queue[d][currFilename[d]] \in delivered
      BY <1>17 DEF ClearUnlink
    <3>2. \A m \in Messages : InQueue(m) => InQueue(m)' \/ m \in delivered
      BY <1>17, <3>1 DEF ClearUnlink, Unlinked
    <3>3. UNCHANGED <<relayScan, relayPc, relayCurr, outgoing, error, delivered, unkept>>
      BY <1>17 DEF Remove
    <3>4. QED
      <4>1. SUFFICES ASSUME relayPc = "linked"
                     PROVE  (InQueue(outgoing[relayCurr]) \/ InError(outgoing[relayCurr])
                              \/ outgoing[relayCurr] \in delivered
                              \/ outgoing[relayCurr] \in unkept)'
        BY <3>3
      <4>2. outgoing[relayCurr] \in Messages
        BY <4>1
      <4>3. QED
        BY <3>2, <3>3, <4>1, <4>2
  <2>5. (\A e \in Dests : ConsumerInv(e))'
    BY <1>17 DEF Remove, ClearUnlink, Unlinked
  <2>6. QED
    BY <2>1, <2>2, <2>3, <2>4, <2>5 DEF PipelineInvariant
<1>18. ASSUME NEW d \in Dests, SendUnconfirmed(d)
      PROVE  PipelineInvariant'
  BY <1>18 DEF SendUnconfirmed, SendFailed, Handed, Fault
<1>19. ASSUME NEW d \in Dests, ReadFault(d)
      PROVE  PipelineInvariant'
  BY <1>19 DEF ReadFault, ReadError, Fault
<1>20. ASSUME NEW d \in Dests, StorageFault(d)
      PROVE  PipelineInvariant'
  BY <1>20 DEF StorageFault, StorageDies, Fault
<1>21. ASSUME NEW d \in Dests, OtherRelayed(d)
      PROVE  PipelineInvariant'
  BY <1>21 DEF OtherRelayed
<1>22. CASE OtherCreated
  BY <1>22 DEF OtherCreated
<1>23. CASE UNCHANGED vars
  BY <1>23 DEF vars
<1>24. ASSUME NEW n \in Names, NEW d \in Dests, RelayAstray(n, d) \/ RelayLinkFault(n, d)
       PROVE  PipelineInvariant'
  BY <1>24, RelayFailsIs
<1>25. ASSUME NEW d \in Dests, RefuseFault(d)
       PROVE  PipelineInvariant'
  BY <1>25 DEF RefuseFault, ErrorLinkFails, Unlinkable, Fault
<1>26. ASSUME NEW d \in Dests, BackupFault(d)
       PROVE  PipelineInvariant'
  BY <1>26 DEF BackupFault, ClearLinkFails, Unlinkable, Fault
<1>27. QED
  BY <1>1, <1>2, <1>3, <1>4, <1>5, <1>6, <1>7, <1>8, <1>9, <1>10, <1>11, <1>12, <1>13,
     <1>14, <1>15, <1>16, <1>17, <1>18, <1>19, <1>20, <1>21, <1>22, <1>23, <1>24, <1>25, <1>26
     DEF Next, RelayStep, StorageStep, WriteStep, Remove

(* For distinct names, whatever directories there are.                     *)
THEOREM InvariantHolds ==
  ASSUME DistinctNames
  PROVE  Spec => []PipelineInvariant
<1>1. Init => PipelineInvariant
  BY InitTypeInvariant, SpoolAssumption
     DEF Init, SpoolInit, WriteInit, RelayInit, NotifyInit, NoFiles, PipelineInvariant,
         NamesMatch, OwnNames, FilesOfWriters, FilesSafe, RelayInv, ConsumerInv,
         InOutgoing, InQueue, InError, Stored
<1>2. PipelineInvariant /\ TypeInvariant' /\ [Next]_vars => PipelineInvariant'
  BY StepPipelineInvariant
<1>3. QED
  BY <1>1, <1>2, TypeInvariantHolds, PTL DEF Spec

(* A stored message is never lost, whichever process dies at whatever      *)
(* point and however the handlers interleave, unless its file could not be *)
(* linked to where it should go.                                           *)
THEOREM MessagesAreKept ==
  ASSUME DistinctNames
  PROVE  Spec => []NoMessageLost
<1>1. PipelineInvariant => NoMessageLost
  BY DEF PipelineInvariant, FilesSafe, FilesOfWriters, NoMessageLost, HasData, Safe, Stored
<1>2. QED
  BY <1>1, InvariantHolds, PTL

(* What has data was written by a call that has returned SUCCESS.          *)
LEMMA StepStored ==
  ASSUME TypeInvariant, StoredInvariant, [Next]_vars
  PROVE  StoredInvariant'
<1> USE SpoolAssumption, PipelineAssumption
    DEF StoredInvariant, OnlyStoredDelivered, Stored, TypeInvariant, TypeOK, SpoolTypeOK,
        WriteTypeOK, NotifyTypeOK, spoolVars, writeVars, relayVars, notifyVars, historyVars, Goto
<1>1. ASSUME NEW m \in Messages, Create(m) PROVE StoredInvariant'
  BY <1>1 DEF Create, WriteCreate
<1>2. ASSUME NEW m \in Messages, WriteStep(m) PROVE StoredInvariant'
  <2>1. CASE WriteRefused(m)
    BY <1>2, <2>1 DEF WriteStep, WriteRefused
  <2>2. CASE WriteFails(m)
    BY <1>2, <2>2 DEF WriteStep, WriteFails
  <2>3. CASE WriteTruncate(m)
    BY <1>2, <2>3 DEF WriteStep, WriteTruncate
  <2>4. CASE WriteData(m)
    BY <1>2, <2>4 DEF WriteStep, WriteData
  <2>. QED
    BY <1>2, <2>1, <2>2, <2>3, <2>4 DEF WriteStep
<1>3. ASSUME NEW n \in Names, NEW d \in Dests, Relay(n, d) PROVE StoredInvariant'
  <2>1. UNCHANGED <<pc, dataBuf>>
    BY <1>3 DEF Relay, StorageNotified
  <2>. QED
    BY <1>3, <2>1 DEF Relay
<1>4. CASE Unlink \/ RelayRun \/ RelayFault \/ OtherCreated
  BY <1>4 DEF Unlink, RelayRun, RelayFault, OtherCreated
<1>5. ASSUME NEW d \in Dests, Notify(d) PROVE StoredInvariant'
  <2>1. ASSUME NEW n \in Names, ReadFile(d, n) PROVE StoredInvariant'
    <3>1. queue[d][n] \in Messages
      BY <2>1 DEF ReadFile, ReadingInv, Entries, Directory
    <3>. QED
      BY <1>5, <2>1, <3>1 DEF Notify, ReadFile
  <2>2. CASE OnNotify(d) \/ EndOfDirectory(d) \/ NotifyReturn(d) \/ \E n \in Names : ReadEmpty(d, n)
    BY <1>5, <2>2 DEF Notify, OnNotify, EndOfDirectory, NotifyReturn, ReadEmpty
  <2>. QED
    BY <1>5, <2>1, <2>2 DEF Notify
<1>6. ASSUME NEW d \in Dests, Send(d) \/ SendUnconfirmed(d) PROVE StoredInvariant'
  BY <1>6 DEF Send, SendUnconfirmed, SendSuccess, SendFailed, Handed
<1>7. ASSUME NEW d \in Dests, Start(d) \/ Refuse(d) \/ Fail(d) \/ Backup(d) \/ Remove(d)
      PROVE StoredInvariant'
  BY <1>7 DEF Start, Refuse, Fail, Backup, Remove, StorageStart, SendError, SendFailed,
              ClearLink, BackupErrorUnlink, ClearUnlink
<1>8. ASSUME NEW d \in Dests, ReadFault(d) \/ StorageFault(d) \/ OtherRelayed(d)
      PROVE StoredInvariant'
  BY <1>8 DEF ReadFault, ReadError, StorageFault, StorageDies, OtherRelayed
<1>9. CASE UNCHANGED vars
  BY <1>9 DEF vars
<1>10. ASSUME NEW n \in Names, NEW d \in Dests, RelayAstray(n, d) \/ RelayLinkFault(n, d)
       PROVE  StoredInvariant'
  BY <1>10, RelayFailsIs
<1>11. ASSUME NEW d \in Dests, RefuseFault(d) \/ BackupFault(d)
       PROVE  StoredInvariant'
  BY <1>11 DEF RefuseFault, ErrorLinkFails, BackupFault, ClearLinkFails
<1>. QED
  BY <1>1, <1>2, <1>3, <1>4, <1>5, <1>6, <1>7, <1>8, <1>9, <1>10, <1>11
  DEF Next, RelayStep, StorageStep

LEMMA StoredHolds == Spec => []StoredInvariant
<1>1. Init => StoredInvariant
  BY DEF Init, SpoolInit, WriteInit, NotifyInit, StoredInvariant, OnlyStoredDelivered, Stored
<1>2. TypeInvariant /\ StoredInvariant /\ [Next]_vars => StoredInvariant'
  BY StepStored
<1>. QED
  BY <1>1, <1>2, TypeInvariantHolds, PTL DEF Spec

(* Only what a caller stored is delivered, in whatever directories and     *)
(* under whatever names: a late write never makes the consumer send an     *)
(* empty file, and two writers that share a name, and an inode, do not     *)
(* make it send what neither has stored.                                   *)
THEOREM DeliveryIsStored == Spec => []OnlyStoredDelivered
<1>1. StoredInvariant => OnlyStoredDelivered
  BY DEF StoredInvariant
<1>. QED
  BY <1>1, StoredHolds, PTL

-----------------------------------------------------------------------------
(* Inodes, whatever their names. *)

(* Steps that leave the files, and what is being sent, where they are. *)
LEMMA SameInodes ==
  ASSUME InodeInvariant,
         UNCHANGED <<outgoing, queue, content, writing, inode, relayScan, relayPc, relayCurr>>,
         \A d \in Dests : pc'[d] = "read" =>
           /\ pc[d] = "read"
           /\ currFilename'[d] = currFilename[d]
           /\ dataBuf'[d] = dataBuf[d]
  PROVE  InodeInvariant'
  BY DEF InodeInvariant, OwnNames, InOutgoing, InQueue, Entries

LEMMA StepInode ==
  ASSUME TypeInvariant, StoredInvariant, InodeInvariant, [Next]_vars
  PROVE  InodeInvariant'
<1> USE SpoolAssumption, PipelineAssumption
    DEF StoredInvariant, InodeInvariant, OwnNames, Stored, InOutgoing, InQueue, Entries,
        TypeInvariant, TypeOK, SpoolTypeOK, WriteTypeOK, RelayTypeOK, NotifyTypeOK, Directory,
        RelayReadingInv, spoolVars, writeVars, relayVars, notifyVars, historyVars, Goto
<1>1. ASSUME NEW m \in Messages, Create(m) PROVE InodeInvariant'
  BY <1>1, SMTT(30) DEF Create, WriteCreate, RelayNotified
<1>2. ASSUME NEW m \in Messages, WriteStep(m) PROVE InodeInvariant'
  <2>1. CASE WriteRefused(m)
    BY <1>2, <2>1, SMTT(30) DEF WriteStep, WriteRefused
  <2>2. CASE WriteFails(m)
    BY <1>2, <2>2, SMTT(30) DEF WriteStep, WriteFails
  <2>3. CASE WriteTruncate(m)
    BY <1>2, <2>3, SMTT(30) DEF WriteStep, WriteTruncate
  <2>4. CASE WriteData(m)
    BY <1>2, <2>4, SMTT(30) DEF WriteStep, WriteData
  <2>. QED
    BY <1>2, <2>1, <2>2, <2>3, <2>4 DEF WriteStep
<1>3. ASSUME NEW n \in Names, NEW d \in Dests, Relay(n, d) PROVE InodeInvariant'
  <2>1. UNCHANGED <<pc, currFilename, dataBuf>>
    BY <1>3 DEF Relay, StorageNotified
  <2>2. UNCHANGED <<outgoing, content, writing, inode, relayScan>> /\ relayCurr' = n /\ n \in relayScan
    BY <1>3 DEF Relay, RelayLink
  <2>3. /\ queue' \in [Dests -> Directory]
        /\ \A e \in Dests, k \in Names : queue'[e][k] # queue[e][k] =>
             k = n /\ queue[e][k] = NoFile /\ queue'[e][k] = outgoing[n]
    BY <1>3 DEF Relay, RelayLink, Linked
  <2>4. \A e \in Dests : OwnNames(queue[e])'
    <3>1. \A e \in Dests : OwnNames(queue[e]) /\ OwnNames(outgoing)
      OBVIOUS
    <3>. HIDE DEF StoredInvariant, InodeInvariant, TypeInvariant
    <3>. QED
      BY <2>3, <3>1
  <2>5. \A i \in Messages : InQueue(i)' => InQueue(i) \/ InOutgoing(i)
    BY <2>2, <2>3, SMTT(30)
  <2>6. \A e \in Dests : pc[e] = "read" => queue'[e][currFilename[e]] = queue[e][currFilename[e]]
    BY <2>3, SMTT(30) DEF ReadingInv
  <2>7. \A i \in Messages : (InOutgoing(i) \/ InQueue(i))' => writing'[i] \notin {"new", "refused"}
    BY <2>2, <2>5
  <2>8. \A e \in Dests : pc'[e] = "read" => queue'[e][currFilename'[e]] = inode'[dataBuf'[e]]
    BY <2>1, <2>2, <2>6
  <2>9. /\ OwnNames(outgoing)'
        /\ (\A m \in Messages : writing[m] \in {"open", "stored"} =>
               /\ inode[m] \in Messages
               /\ FileName[inode[m]] = FileName[m]
               /\ writing[inode[m]] \notin {"new", "refused"})'
        /\ (\A i \in Messages : content[i] # Empty => inode[content[i]] = i)'
    BY <2>2
  <2>. QED
    BY <2>4, <2>7, <2>8, <2>9
<1>4. CASE Unlink
  BY <1>4, SMTT(30) DEF Unlink, RelayUnlink, Unlinked
<1>5. CASE RelayRun
  BY <1>5, SMTT(30) DEF RelayRun, RelayStart, RelayOpenDir, RelayCloseDir
<1>6. CASE RelayFault
  BY <1>6 DEF RelayFault, RelayDies
<1>12. CASE OtherCreated
  BY <1>12 DEF OtherCreated
<1>7. ASSUME NEW d \in Dests, Notify(d) PROVE InodeInvariant'
  <2>1. ASSUME NEW n \in Names, ReadFile(d, n) PROVE InodeInvariant'
    BY <1>7, <2>1, SMTT(30) DEF Notify, ReadFile, ReadingInv
  <2>2. CASE OnNotify(d) \/ EndOfDirectory(d) \/ NotifyReturn(d) \/ \E n \in Names : ReadEmpty(d, n)
    <3>1. /\ UNCHANGED <<outgoing, queue, content, writing, inode, relayVars, dataBuf>>
          /\ \A e \in Dests : pc'[e] = "read" =>
               pc[e] = "read" /\ currFilename'[e] = currFilename[e]
      <4>1. CASE OnNotify(d)
        BY <1>7, <4>1 DEF Notify, OnNotify
      <4>2. CASE EndOfDirectory(d)
        BY <1>7, <4>2 DEF Notify, EndOfDirectory
      <4>3. CASE NotifyReturn(d)
        BY <1>7, <4>3 DEF Notify, NotifyReturn
      <4>4. CASE \E n \in Names : ReadEmpty(d, n)
        BY <1>7, <4>4 DEF Notify, ReadEmpty
      <4>. QED
        BY <2>2, <4>1, <4>2, <4>3, <4>4
    <3>. QED
      BY <3>1, SameInodes
  <2>. QED
    BY <1>7, <2>1, <2>2 DEF Notify
<1>8. ASSUME NEW d \in Dests, Remove(d) PROVE InodeInvariant'
  <2>1. /\ queue' = [queue EXCEPT ![d] = Unlinked(@, currFilename[d])]
        /\ pc' \in {[pc EXCEPT ![d] = "scan"], [pc EXCEPT ![d] = "clear"]}
        /\ UNCHANGED <<outgoing, content, writing, inode, relayVars, currFilename, dataBuf>>
    BY <1>8 DEF Remove, BackupErrorUnlink, ClearUnlink
  <2>2. \A e \in Dests, k \in Names : queue'[e][k] = queue[e][k] \/ (e = d /\ queue'[e][k] = NoFile)
    BY <2>1 DEF Unlinked
  <2>3. \A e \in Dests : pc'[e] = "read" => e # d /\ pc[e] = "read" /\ currFilename[e] \in Names
    BY <2>1 DEF ReadingInv
  <2>4. \A e \in Dests : e # d => queue'[e] = queue[e]
    BY <2>1
  <2>. QED
    BY <2>1, <2>2, <2>3, <2>4, SMTT(60)
<1>9. ASSUME NEW d \in Dests, Send(d) \/ SendUnconfirmed(d) \/ Start(d) \/ Refuse(d) \/ Fail(d) \/ Backup(d)
      PROVE InodeInvariant'
  <2>1. /\ UNCHANGED <<outgoing, queue, content, writing, inode, relayVars, dataBuf>>
        /\ \A e \in Dests : pc'[e] = "read" =>
             pc[e] = "read" /\ currFilename'[e] = currFilename[e]
    BY <1>9, SMTT(30) DEF Send, SendUnconfirmed, SendSuccess, SendFailed, Start, Refuse, Fail, Backup,
              StorageStart, SendError, ClearLink
  <2>. QED
    BY <2>1, SameInodes
<1>10. ASSUME NEW d \in Dests, ReadFault(d) \/ StorageFault(d) \/ OtherRelayed(d)
      PROVE InodeInvariant'
  <2>1. /\ UNCHANGED <<outgoing, queue, content, writing, inode, relayVars>>
        /\ \A e \in Dests : pc'[e] = "read" =>
             pc[e] = "read" /\ currFilename'[e] = currFilename[e] /\ dataBuf'[e] = dataBuf[e]
    BY <1>10, SMTT(30) DEF ReadFault, ReadError, StorageFault, StorageDies, OtherRelayed
  <2>. QED
    BY <2>1, SameInodes
<1>11. CASE UNCHANGED vars
  BY <1>11 DEF vars
<1>13. ASSUME NEW n \in Names, NEW d \in Dests, RelayAstray(n, d) \/ RelayLinkFault(n, d)
       PROVE  InodeInvariant'
  BY <1>13, RelayFailsIs, SMTT(30)
<1>14. ASSUME NEW d \in Dests, RefuseFault(d) \/ BackupFault(d)
       PROVE  InodeInvariant'
  <2>1. /\ UNCHANGED <<outgoing, queue, content, writing, inode, relayVars, dataBuf>>
        /\ \A e \in Dests : pc'[e] = "read" =>
             pc[e] = "read" /\ currFilename'[e] = currFilename[e]
    BY <1>14 DEF RefuseFault, ErrorLinkFails, BackupFault, ClearLinkFails
  <2>. QED
    BY <2>1, SameInodes
<1>. QED
  BY <1>1, <1>2, <1>3, <1>4, <1>5, <1>6, <1>7, <1>8, <1>9, <1>10, <1>11, <1>12, <1>13, <1>14
  DEF Next, RelayStep, StorageStep

LEMMA InodeHolds == Spec => [](StoredInvariant /\ InodeInvariant)
<1>1. Init => InodeInvariant
  BY SpoolAssumption
  DEF Init, SpoolInit, WriteInit, RelayInit, NotifyInit, NoFiles, InodeInvariant, OwnNames,
      InOutgoing, InQueue, Entries
<1>2. TypeInvariant /\ StoredInvariant /\ InodeInvariant /\ [Next]_vars => InodeInvariant'
  BY StepInode
<1>. QED
  BY <1>1, <1>2, StoredHolds, TypeInvariantHolds, PTL DEF Spec

-----------------------------------------------------------------------------
(* Copies are kept. *)

(* link leaves a copy, if names are distinct: what has the name already is *)
(* the file itself.                                                        *)
LEMMA LinkKeeps ==
  ASSUME DistinctNames, NEW dir \in Directory, OwnNames(dir), NEW i \in Messages,
         NEW n \in Names, FileName[i] = n
  PROVE  /\ OwnNames(Linked(dir, n, i))
         /\ Linked(dir, n, i)[n] = i
         /\ \A l \in Names : l # n => Linked(dir, n, i)[l] = dir[l]
  BY SpoolAssumption DEF DistinctNames, OwnNames, Linked, Directory

(* Steps that leave what a consumer has its hands on where it is.          *)
LEMMA SameKept ==
  ASSUME KeptInvariant, UNCHANGED <<backup, error>>, unkept \subseteq unkept',
         \A d \in Dests : pc'[d] \in {"refused", "kept"} =>
           /\ pc'[d] = pc[d] /\ currFilename'[d] = currFilename[d]
           /\ queue'[d][currFilename[d]] = queue[d][currFilename[d]]
  PROVE  KeptInvariant'
  BY DEF KeptInvariant, OwnNames

LEMMA StepKept ==
  ASSUME DistinctNames, TypeInvariant, InodeInvariant, KeptInvariant, [Next]_vars
  PROVE  KeptInvariant'
<1> USE SpoolAssumption, PipelineAssumption
    DEF TypeInvariant, TypeOK, SpoolTypeOK, NotifyTypeOK,
        spoolVars, writeVars, relayVars, notifyVars, historyVars, Goto
<1>a. \A d \in Dests : pc[d] \in {"refused", "read", "kept"} =>
        /\ currFilename[d] \in Names
        /\ queue[d][currFilename[d]] \in Messages
        /\ FileName[queue[d][currFilename[d]]] = currFilename[d]
  BY DEF ReadingInv, Entries, Directory, InodeInvariant, OwnNames
<1>b. \A d \in Dests : \A n \in readedFileList[d] :
        n \in Names /\ queue[d][n] \in Messages /\ FileName[queue[d][n]] = n
  BY DEF ReadingInv, Entries, Directory, InodeInvariant, OwnNames
<1>1. ASSUME NEW n \in Names, NEW d \in Dests, Relay(n, d) PROVE KeptInvariant'
  <2>1. UNCHANGED <<pc, currFilename, backup, error, unkept>>
    BY <1>1 DEF Relay, RelayLink, StorageNotified
  <2>2. queue' \in {queue, [queue EXCEPT ![d] = Linked(@, n, outgoing[n])]}
    BY <1>1 DEF Relay, RelayLink
  <2>3. \A e \in Dests, l \in Names : queue[e][l] # NoFile => queue'[e][l] = queue[e][l]
    <3>1. \A l \in Names : queue[d][l] # NoFile => Linked(queue[d], n, outgoing[n])[l] = queue[d][l]
      BY DEF Linked, Directory
    <3>2. queue \in [Dests -> Directory]
      OBVIOUS
    <3>. HIDE DEF TypeInvariant, TypeOK, SpoolTypeOK, NotifyTypeOK
    <3>. QED
      BY <2>2, <3>1, <3>2
  <2>4. \A e \in Dests : pc[e] \in {"refused", "kept"} =>
          queue'[e][currFilename[e]] = queue[e][currFilename[e]]
    BY <1>a, <2>3
  <2>. QED
    BY <2>1, <2>4, SameKept
<1>2. ASSUME NEW d \in Dests, Refuse(d) PROVE KeptInvariant'
  <2> DEFINE n == currFilename[d]
             i == queue[d][n]
  <2>1. /\ n \in Names /\ i \in Messages /\ FileName[i] = n
        /\ error' = Linked(error, n, i)
        /\ pc' = [pc EXCEPT ![d] = "refused"]
        /\ UNCHANGED <<queue, backup, currFilename, unkept>>
    BY <1>a, <1>2 DEF Refuse, SendError
  <2>2. OwnNames(error)' /\ error'[n] = i /\ \A l \in Names : l # n => error'[l] = error[l]
    BY <2>1, LinkKeeps DEF KeptInvariant
  <2>3. ASSUME NEW e \in Dests, e # d, pc[e] = "refused"
        PROVE  queue[e][currFilename[e]] \in {error'[currFilename[e]]} \cup unkept
    <3>1. /\ currFilename[e] \in Names /\ queue[e][currFilename[e]] \in Messages
          /\ FileName[queue[e][currFilename[e]]] = currFilename[e]
      BY <1>a, <2>3
    <3>2. CASE currFilename[e] = n
      BY <2>1, <2>2, <3>1, <3>2 DEF DistinctNames
    <3>3. CASE currFilename[e] # n
      BY <2>2, <2>3, <3>1, <3>3 DEF KeptInvariant
    <3>. QED
      BY <3>2, <3>3
  <2>. QED
    BY <2>1, <2>2, <2>3 DEF KeptInvariant, OwnNames
<1>3. ASSUME NEW d \in Dests, Backup(d) PROVE KeptInvariant'
  <2>1. PICK n \in Names : ClearLink(d, n)
    BY <1>3 DEF Backup
  <2> DEFINE i == queue[d][n]
  <2>2. /\ i \in Messages /\ FileName[i] = n
        /\ backup' = [backup EXCEPT ![d] = Linked(@, n, i)]
        /\ currFilename' = [currFilename EXCEPT ![d] = n]
        /\ pc' = [pc EXCEPT ![d] = "kept"]
        /\ UNCHANGED <<queue, error, unkept>>
    BY <1>b, <1>3, <2>1 DEF Backup, ClearLink
  <2>3. OwnNames(Linked(backup[d], n, i)) /\ Linked(backup[d], n, i)[n] = i
    BY <2>2, LinkKeeps DEF KeptInvariant
  <2>. QED
    BY <2>2, <2>3 DEF KeptInvariant, OwnNames
<1>4. ASSUME NEW d \in Dests, Remove(d) PROVE KeptInvariant'
  <2>1. /\ UNCHANGED <<backup, error, currFilename, unkept>>
        /\ \A e \in Dests : pc'[e] \in {"refused", "kept"} => e # d /\ pc'[e] = pc[e]
        /\ \A e \in Dests : e # d => queue'[e] = queue[e]
    BY <1>4 DEF Remove, BackupErrorUnlink, ClearUnlink
  <2>. QED
    BY <2>1, SameKept
<1>5. ASSUME NEW d \in Dests, Notify(d) PROVE KeptInvariant'
  <2>1. UNCHANGED <<backup, error, queue, unkept>>
    BY <1>5 DEF Notify
  <2>2. \A e \in Dests : pc'[e] \in {"refused", "kept"} =>
          pc'[e] = pc[e] /\ currFilename'[e] = currFilename[e]
    <3>1. CASE OnNotify(d)
      BY <3>1 DEF OnNotify
    <3>2. CASE \E n \in Names : ReadFile(d, n)
      BY <3>2 DEF ReadFile
    <3>3. CASE \E n \in Names : ReadEmpty(d, n)
      BY <3>3 DEF ReadEmpty
    <3>4. CASE EndOfDirectory(d)
      BY <3>4 DEF EndOfDirectory
    <3>5. CASE NotifyReturn(d)
      BY <3>5 DEF NotifyReturn
    <3>. QED
      BY <1>5, <3>1, <3>2, <3>3, <3>4, <3>5 DEF Notify
  <2>. QED
    BY <2>1, <2>2, SameKept
<1>6. ASSUME NEW d \in Dests,
             \/ Start(d) \/ Send(d) \/ Fail(d) \/ SendUnconfirmed(d) \/ ReadFault(d)
             \/ StorageFault(d) \/ OtherRelayed(d)
      PROVE  KeptInvariant'
  <2>1. UNCHANGED <<backup, error, queue, unkept>>
    BY <1>6 DEF Start, Send, Fail, SendUnconfirmed, ReadFault, StorageFault, OtherRelayed
  <2>2. \A e \in Dests : pc'[e] \in {"refused", "kept"} =>
          pc'[e] = pc[e] /\ currFilename'[e] = currFilename[e]
    BY <1>6
    DEF Start, StorageStart, Send, SendSuccess, Fail, SendUnconfirmed, SendFailed, ReadFault,
        ReadError, StorageFault, StorageDies, OtherRelayed
  <2>. QED
    BY <2>1, <2>2, SameKept
<1>7. CASE UNCHANGED <<queue, backup, error, unkept, notifyVars>>
  BY <1>7, SameKept
<1>8. ASSUME NEW m \in Messages, Create(m) \/ WriteStep(m) PROVE KeptInvariant'
  BY <1>7, <1>8 DEF Create, WriteStep
<1>9. CASE Unlink \/ RelayRun \/ RelayFault \/ OtherCreated \/ UNCHANGED vars
  <2>1. UNCHANGED <<queue, backup, error, unkept, notifyVars>>
    BY <1>9 DEF Unlink, RelayRun, RelayFault, OtherCreated, vars
  <2>. QED
    BY <1>7, <2>1
<1>10. ASSUME NEW n \in Names, NEW d \in Dests, RelayAstray(n, d) \/ RelayLinkFault(n, d)
       PROVE  KeptInvariant'
  <2>1. UNCHANGED <<backup, error, queue, pc, currFilename>> /\ unkept \subseteq unkept'
    BY <1>10, RelayFailsIs
  <2>. QED
    BY <2>1, SameKept
<1>11. ASSUME NEW d \in Dests, RefuseFault(d) PROVE KeptInvariant'
  <2>1. /\ pc' = [pc EXCEPT ![d] = "refused"]
        /\ unkept' = unkept \cup {queue[d][currFilename[d]]}
        /\ UNCHANGED <<queue, backup, error, currFilename>>
    BY <1>11 DEF RefuseFault, ErrorLinkFails, Unlinkable
  <2>. QED
    BY <2>1 DEF KeptInvariant, OwnNames
<1>12. ASSUME NEW d \in Dests, BackupFault(d) PROVE KeptInvariant'
  <2>1. PICK n \in Names : ClearLinkFails(d, n)
    BY <1>12 DEF BackupFault
  <2>2. /\ pc' = [pc EXCEPT ![d] = "kept"]
        /\ unkept' = unkept \cup {queue[d][n]}
        /\ currFilename' = [currFilename EXCEPT ![d] = n]
        /\ UNCHANGED <<queue, backup, error>>
    BY <1>12, <2>1 DEF BackupFault, ClearLinkFails, Unlinkable
  <2>. QED
    BY <2>2 DEF KeptInvariant, OwnNames
<1>. QED
  BY <1>1, <1>2, <1>3, <1>4, <1>5, <1>6, <1>8, <1>9, <1>10, <1>11, <1>12
     DEF Next, RelayStep, StorageStep

LEMMA KeptHolds ==
  ASSUME DistinctNames
  PROVE  Spec => []KeptInvariant
<1>1. Init => KeptInvariant
  BY SpoolAssumption DEF Init, SpoolInit, NotifyInit, NoFiles, KeptInvariant, OwnNames
<1>2. TypeInvariant /\ StoredInvariant /\ InodeInvariant /\ KeptInvariant /\ [Next]_vars
        => KeptInvariant'
  BY StepKept
<1>. QED
  BY <1>1, <1>2, TypeInvariantHolds, InodeHolds, PTL DEF Spec

(* No step takes a file out of a consumer's directory that is not kept in  *)
(* the backup or in the error directory, if names are distinct and the     *)
(* link has not failed.                                                    *)
THEOREM RemovalIsSafe ==
  ASSUME DistinctNames
  PROVE  Spec => RemovedFilesAreKept
<1> DEFINE Kept == \A d \in Dests, n \in Names :
                     (queue[d][n] # NoFile /\ queue'[d][n] = NoFile)
                       => queue[d][n] \in {backup'[d][n], error'[n]} \cup unkept'
<1>1. ASSUME TypeInvariant, KeptInvariant, [Next]_vars
      PROVE  Kept
  <2> USE DEF TypeInvariant, TypeOK, SpoolTypeOK, NotifyTypeOK, KeptInvariant,
              Directory, spoolVars, Entries
  <2>1. CASE UNCHANGED queue
    BY <2>1
  <2>2. ASSUME NEW n \in Names, NEW d \in Dests, Relay(n, d)
        PROVE  Kept
    BY <1>1, <2>2 DEF Relay, RelayLink, Linked
  <2>3. ASSUME NEW d \in Dests, BackupErrorUnlink(d) /\ Remove(d)
        PROVE  Kept
    BY <1>1, <2>3 DEF Remove, BackupErrorUnlink, Unlinked
  <2>4. ASSUME NEW d \in Dests, ClearUnlink(d) /\ Remove(d)
        PROVE  Kept
    BY <1>1, <2>4 DEF Remove, ClearUnlink, Unlinked
  <2>5. QED
    BY <1>1, <2>1, <2>2, <2>3, <2>4, RelayFailsIs, PipelineAssumption
       DEF vars, Next, Create, WriteStep, RelayStep, Unlink, RelayRun, RelayFault,
           StorageStep, Start, Notify, Send, Refuse, Fail,
           Backup, Remove, SendUnconfirmed, RefuseFault, BackupFault, ReadFault,
           StorageFault, OtherCreated, OtherRelayed
<1>2. TypeInvariant /\ KeptInvariant /\ [Next]_vars => [Kept]_vars
  BY <1>1
<1>3. QED
  BY <1>2, TypeInvariantHolds, KeptHolds, PTL DEF Spec, RemovedFilesAreKept

-----------------------------------------------------------------------------
(* The relay. *)

(* What the relay unlinks lies in the directory of a consumer or in the    *)
(* error directory, or was sent: its log line "deliver msg" tells the      *)
(* truth where the link has not failed.                                    *)
THEOREM RelayIsSafe ==
  ASSUME DistinctNames
  PROVE  Spec => RelayedGetsFurther
<1> DEFINE Further == \A n \in Names :
                        (outgoing[n] # NoFile /\ outgoing'[n] = NoFile)
                          => \/ outgoing[n] \in {error'[n]} \cup delivered \cup unkept
                             \/ \E d \in Dests : queue'[d][n] = outgoing[n]
<1>1. ASSUME PipelineInvariant, [Next]_vars
      PROVE  Further
  <2> USE DEF PipelineInvariant, TypeInvariant, TypeOK, SpoolTypeOK, Directory, Entries,
              spoolVars
  <2>1. CASE UNCHANGED outgoing
    BY <2>1
  <2>2. ASSUME NEW m \in Messages, Create(m)
        PROVE  Further
    BY <2>2, SpoolAssumption DEF Create, WriteCreate
  <2>3. CASE Unlink
    <3>1. /\ relayCurr \in Names /\ outgoing[relayCurr] \in Messages
          /\ FileName[outgoing[relayCurr]] = relayCurr
      BY <1>1, <2>3 DEF Unlink, RelayUnlink, RelayReadingInv, NamesMatch, OwnNames
    <3>2. \/ outgoing[relayCurr] \in {error[relayCurr]} \cup delivered \cup unkept
          \/ \E d \in Dests : queue[d][relayCurr] = outgoing[relayCurr]
      BY <1>1, <2>3, <3>1 DEF Unlink, RelayUnlink, RelayInv, InQueue, InError
    <3>3. \A n \in Names : n # relayCurr => outgoing'[n] = outgoing[n]
      BY <2>3 DEF Unlink, RelayUnlink, Unlinked
    <3>4. UNCHANGED <<queue, error>>
      BY <2>3 DEF Unlink
    <3>5. QED
      BY <3>2, <3>3, <3>4
  <2>4. QED
    BY <1>1, <2>1, <2>2, <2>3, PipelineAssumption
       DEF vars, Next, WriteStep, WriteRefused, WriteTruncate, WriteData, WriteFails,
           RelayStep, Relay, RelayAstray, RelayLinkFault, RelayRun, RelayFault, StorageStep,
           Start, Notify, Send, Refuse, Fail, Backup, Remove, SendUnconfirmed, RefuseFault,
           BackupFault, ReadFault, StorageFault, OtherCreated, OtherRelayed
<1>2. PipelineInvariant /\ [Next]_vars => [Further]_vars
  BY <1>1
<1>3. QED
  BY <1>2, InvariantHolds, PTL DEF Spec, RelayedGetsFurther

-----------------------------------------------------------------------------
(* Nothing is sent twice without a fault. *)

(* A message that is being sent and was not disturbed has not been sent.   *)
LEMMA SendIsFirst ==
  ASSUME TypeInvariant, StoredInvariant, RepeatInvariant, NEW d \in Dests, pc[d] = "read",
         dataBuf[d] \notin disturbed
  PROVE  dataBuf[d] \notin delivered
<1>1. dataBuf[d] \in Messages
  BY DEF TypeInvariant, TypeOK, NotifyTypeOK, ReadingInv
<1>. QED
  BY <1>1 DEF RepeatInvariant, Undisturbed

LEMMA StepRepeated ==
  ASSUME TypeInvariant, StoredInvariant, RepeatInvariant, [Next]_vars
  PROVE  NoNeedlessRepeat'
<1> USE DEF NoNeedlessRepeat, historyVars
<1>1. repeated \subseteq disturbed
  BY DEF RepeatInvariant
<1>2. ASSUME NEW d \in Dests, Send(d)
      PROVE  NoNeedlessRepeat'
  <2>1. pc[d] = "read" /\ Handed(dataBuf[d]) /\ UNCHANGED disturbed
    BY <1>2 DEF Send, SendSuccess
  <2>. QED
    BY <1>1, <2>1, SendIsFirst DEF Handed
<1>3. ASSUME NEW d \in Dests, SendUnconfirmed(d)
      PROVE  NoNeedlessRepeat'
  BY <1>1, <1>3 DEF SendUnconfirmed, Handed
<1>4. CASE repeated' = repeated /\ disturbed \subseteq disturbed'
  BY <1>1, <1>4
<1>. QED
  BY <1>2, <1>3, <1>4, PipelineAssumption
     DEF vars, Next, Create, WriteStep, RelayStep, Relay, Unlink, RelayRun, RelayFault,
         RelayAstray, RelayLinkFault, StorageStep, Start, Notify, Refuse, Fail, Backup, Remove,
         RefuseFault, BackupFault, ReadFault, StorageFault, OtherCreated, OtherRelayed

(* Where a message that has been sent is: its inode. *)
LEMMA InodeOfSent ==
  ASSUME TypeInvariant, StoredInvariant, InodeInvariant, NEW m \in delivered
  PROVE  /\ m \in Messages /\ writing[m] = "stored"
         /\ inode[m] \in Messages /\ FileName[inode[m]] = FileName[m] /\ FileName[m] \in Names
         /\ writing[inode[m]] \notin {"new", "refused"}
  BY SpoolAssumption
  DEF TypeInvariant, TypeOK, StoredInvariant, OnlyStoredDelivered, Stored, InodeInvariant

(* What is being sent lies under its own name. *)
LEMMA InodeOfSend ==
  ASSUME TypeInvariant, StoredInvariant, InodeInvariant, NEW d \in Dests, pc[d] = "read"
  PROVE  /\ dataBuf[d] \in Messages /\ writing[dataBuf[d]] = "stored"
         /\ currFilename[d] = FileName[dataBuf[d]] /\ currFilename[d] \in Names
         /\ currFilename[d] \notin readedFileList[d]
         /\ queue[d][currFilename[d]] = inode[dataBuf[d]]
  BY SpoolAssumption
  DEF TypeInvariant, TypeOK, SpoolTypeOK, NotifyTypeOK, ReadingInv, Entries, Directory,
      StoredInvariant, Stored, InodeInvariant, OwnNames

(* Steps that leave the files and what was sent where they are. *)
LEMMA SameUndisturbed ==
  ASSUME NEW m \in Messages, Undisturbed(m),
         UNCHANGED <<outgoing, relayPc, relayCurr, queue, delivered, readedFileList>>,
         m \in delivered => UNCHANGED inode[m],
         m \in delivered => \A d \in Dests : pc'[d] = "read" /\ dataBuf'[d] = m =>
                              pc[d] = "read" /\ dataBuf[d] = m
  PROVE  Undisturbed(m)'
  BY DEF Undisturbed, InOutgoing, InQueue

LEMMA StepUndisturbed ==
  ASSUME TypeInvariant, StoredInvariant, InodeInvariant, RepeatInvariant, [Next]_vars,
         NEW m \in Messages \ disturbed'
  PROVE  Undisturbed(m)'
<1> DEFINE k == FileName[m]
<1>0. /\ m \notin disturbed /\ Undisturbed(m) /\ k \in Names
      /\ \A i \in Messages : FileName[i] \in Names
  <2>1. disturbed \subseteq disturbed'
    BY DEF vars, historyVars, Next, Create, WriteStep, RelayStep, Relay, Unlink, RelayRun,
           RelayFault, RelayAstray, RelayLinkFault, StorageStep, Start, Notify, Send, Refuse,
           Fail, Backup, Remove, SendUnconfirmed, RefuseFault, BackupFault, ReadFault,
           StorageFault, OtherCreated, OtherRelayed
  <2>. QED
    BY <2>1, SpoolAssumption DEF RepeatInvariant
<1>a. m \in delivered =>
        /\ writing[m] = "stored"
        /\ inode[m] \in Messages /\ FileName[inode[m]] = k
        /\ writing[inode[m]] \notin {"new", "refused"}
  BY InodeOfSent
<1> USE SpoolAssumption, PipelineAssumption
    DEF TypeInvariant, TypeOK, SpoolTypeOK, WriteTypeOK, RelayTypeOK, NotifyTypeOK, Directory,
        RelayReadingInv, spoolVars, writeVars, relayVars, historyVars
<1>1. ASSUME NEW x \in Messages, Create(x) PROVE Undisturbed(m)'
  <2>1. /\ outgoing' = [outgoing EXCEPT ![FileName[x]] = x] /\ writing[x] = "new"
        /\ inode' = [inode EXCEPT ![x] = x]
        /\ UNCHANGED <<relayPc, relayCurr, queue, delivered, readedFileList, pc, dataBuf>>
    BY <1>1 DEF Create, WriteCreate, RelayNotified, notifyVars
  <2>2. ~InQueue(x) /\ ~InOutgoing(x)
    BY <2>1 DEF InodeInvariant
  <2>3. m \in delivered => m # x /\ inode[m] # x /\ inode'[m] = inode[m]
    BY <1>a, <2>1
  <2>4. \A i \in Messages : InOutgoing(i)' => InOutgoing(i) \/ i = x
    BY <1>0, <2>1 DEF InOutgoing
  <2>5. m \in delivered => (outgoing'[k] = inode[m] => outgoing[k] = inode[m])
    BY <1>0, <2>1, <2>3
  <2>. QED
    BY <1>0, <2>1, <2>2, <2>3, <2>4, <2>5 DEF Undisturbed, InQueue
<1>2. ASSUME NEW x \in Messages, WriteStep(x) PROVE Undisturbed(m)'
  <2>1. UNCHANGED <<outgoing, relayPc, relayCurr, queue, delivered, readedFileList, pc, dataBuf>>
    BY <1>2 DEF WriteStep, WriteRefused, WriteTruncate, WriteData, WriteFails, notifyVars
  <2>2. writing[m] = "stored" => inode'[m] = inode[m]
    BY <1>2 DEF WriteStep, WriteRefused, WriteTruncate, WriteData, WriteFails
  <2>. QED
    BY <1>0, <1>a, <2>1, <2>2, SameUndisturbed
<1>3. ASSUME NEW n \in Names, NEW d \in Dests, Relay(n, d) PROVE Undisturbed(m)'
  <2>1. /\ relayPc = "scan" /\ relayPc' = "linked" /\ relayCurr' = n
        /\ outgoing[n] \in Messages /\ FileName[outgoing[n]] = n
    BY <1>3 DEF Relay, RelayLink, InodeInvariant, Entries, OwnNames
  <2>2. UNCHANGED <<outgoing, delivered, readedFileList, pc, dataBuf, inode>>
    BY <1>3 DEF Relay, notifyVars, StorageNotified
  <2>3. queue' \in {queue, [queue EXCEPT ![d] = Linked(@, n, outgoing[n])]}
    BY <1>3 DEF Relay, RelayLink
  <2>4. \A e \in Dests, l \in Names : queue'[e][l] # queue[e][l] =>
          e = d /\ l = n /\ queue'[e][l] = outgoing[n]
    BY <2>3 DEF Linked
  <2>5. k = n => ~InQueue(outgoing[n]) /\ (m \in delivered => outgoing[n] # inode[m])
    BY <1>0, <2>1 DEF Undisturbed, InOutgoing
  <2>6. \A i \in Messages : FileName[i] = k /\ InOutgoing(i)' /\ ~(relayPc' = "linked" /\ relayCurr' = k)
          => ~InQueue(i)'
    <3>1. CASE k = n
      BY <2>1, <3>1
    <3>2. CASE k # n
      BY <1>0, <2>1, <2>2, <2>4, <3>2 DEF Undisturbed, InOutgoing, InQueue
    <3>. QED
      BY <3>1, <3>2
  <2>7. \A i \in Messages : FileName[i] = k => \A e, f \in Dests :
          queue'[e][k] = i /\ queue'[f][k] = i => e = f
    <3>1. CASE k = n
      <4>1. \A e \in Dests : queue'[e][k] = outgoing[n] => e = d
        BY <2>1, <2>4, <2>5, <3>1 DEF InQueue
      <4>2. \A i \in Messages, e \in Dests : i # outgoing[n] /\ queue'[e][k] = i
              => queue[e][k] = i
        BY <1>0, <2>4
      <4>3. \A i \in Messages : FileName[i] = k => \A e, f \in Dests :
              queue[e][k] = i /\ queue[f][k] = i => e = f
        BY <1>0 DEF Undisturbed
      <4>. QED
        BY <4>1, <4>2, <4>3
    <3>2. CASE k # n
      BY <1>0, <2>4, <3>2 DEF Undisturbed
    <3>. QED
      BY <3>1, <3>2
  <2>8. m \in delivered => \A e \in Dests : queue'[e][k] = inode[m] => queue[e][k] = inode[m]
    BY <1>0, <2>4, <2>5
  <2>9. m \in delivered /\ outgoing[k] = inode[m] => FALSE
    BY <1>0, <2>1 DEF Undisturbed
  <2>. QED
    BY <1>0, <2>1, <2>2, <2>6, <2>7, <2>8, <2>9 DEF Undisturbed
<1>4. CASE Unlink
  <2>1. /\ relayPc = "linked" /\ outgoing' = [outgoing EXCEPT ![relayCurr] = NoFile]
        /\ relayPc' = "scan" /\ relayCurr \in Names
        /\ UNCHANGED <<queue, delivered, readedFileList, pc, dataBuf, inode>>
    BY <1>4 DEF Unlink, RelayUnlink, Unlinked, notifyVars, InodeInvariant
  <2>2. \A i \in Messages : InOutgoing(i)' => InOutgoing(i) /\ relayCurr # FileName[i]
    BY <1>0, <2>1 DEF InOutgoing
  <2>3. m \in delivered => outgoing'[k] # inode[m]
    BY <1>0, <1>a, <2>1 DEF Undisturbed
  <2>4. \A i \in Messages : FileName[i] = k /\ InOutgoing(i)' => ~InQueue(i)
    BY <1>0, <2>2 DEF Undisturbed
  <2>. QED
    BY <1>0, <2>1, <2>3, <2>4 DEF Undisturbed, InQueue
<1>5. CASE RelayRun \/ RelayFault
  <2>1. UNCHANGED <<outgoing, queue, delivered, readedFileList, pc, dataBuf, inode>>
    BY <1>5 DEF RelayRun, RelayFault, notifyVars
  <2>2. ~(relayPc = "linked" /\ relayCurr = k)
    BY <1>5 DEF RelayFault, RelayRun, RelayStart, RelayOpenDir, RelayCloseDir
  <2>. QED
    BY <1>0, <2>1, <2>2 DEF Undisturbed, InOutgoing, InQueue
<1>6. ASSUME NEW d \in Dests, Send(d) \/ SendUnconfirmed(d) PROVE Undisturbed(m)'
  <2>1. /\ pc[d] = "read" /\ delivered' = delivered \cup {dataBuf[d]} /\ pc'[d] = "scan"
        /\ \A e \in Dests : e # d => pc'[e] = pc[e]
        /\ \A e \in Dests : readedFileList[e] \subseteq readedFileList'[e]
        /\ dataBuf[d] = m => currFilename[d] \in readedFileList'[d]
        /\ UNCHANGED <<outgoing, relayPc, relayCurr, queue, dataBuf, inode>>
    <3>1. CASE Send(d)
      BY <3>1 DEF Send, SendSuccess, Handed, Goto
    <3>2. CASE SendUnconfirmed(d)
      <4>1. m # dataBuf[d]
        BY <3>2 DEF SendUnconfirmed
      <4>. QED
        BY <3>2, <4>1 DEF SendUnconfirmed, SendFailed, Handed, Goto
    <3>. QED
      BY <1>6, <3>1, <3>2
  <2>2. CASE m # dataBuf[d]
    BY <1>0, <2>1, <2>2 DEF Undisturbed, InOutgoing, InQueue
  <2>3. CASE m = dataBuf[d]
    <3>1. currFilename[d] = k /\ queue[d][k] = inode[m] /\ m \in Messages
      BY <2>1, <2>3, InodeOfSend
    <3>2. inode[m] \in Messages /\ FileName[inode[m]] = k
      BY <2>1, <2>3, InodeOfSend DEF InodeInvariant
    <3>3. outgoing[k] = inode[m] => relayPc = "linked" /\ relayCurr = k
      BY <1>0, <3>1, <3>2 DEF Undisturbed, InOutgoing, InQueue
    <3>4. \A e \in Dests : queue[e][k] = inode[m] => e = d
      BY <1>0, <3>1, <3>2 DEF Undisturbed
    <3>5. \A e \in Dests : pc'[e] = "read" => dataBuf[e] # m
      <4>1. ASSUME NEW e \in Dests, pc[e] = "read", dataBuf[e] = m PROVE e = d
        BY <3>4, <4>1, InodeOfSend
      <4>. QED
        BY <2>1, <4>1
    <3>. QED
      BY <1>0, <2>1, <2>3, <3>1, <3>3, <3>4, <3>5 DEF Undisturbed, InOutgoing, InQueue
  <2>. QED
    BY <2>2, <2>3
<1>7. ASSUME NEW d \in Dests, Remove(d) PROVE Undisturbed(m)'
  <2>1. /\ UNCHANGED <<outgoing, relayPc, relayCurr, delivered, dataBuf, inode>>
        /\ \A e \in Dests : pc'[e] = "read" => pc[e] = "read"
    BY <1>7 DEF Remove, BackupErrorUnlink, ClearUnlink, Goto
  <2>2. /\ currFilename[d] \in Names
        /\ queue' = [queue EXCEPT ![d] = [@ EXCEPT ![currFilename[d]] = NoFile]]
    BY <1>7 DEF Remove, BackupErrorUnlink, ClearUnlink, Unlinked, ReadingInv, Entries
  <2>3. \A e \in Dests, i \in Messages, l \in Names : queue'[e][l] = i =>
          /\ queue[e][l] = i /\ (e = d => l # currFilename[d])
    BY <2>2
  <2>4. \A e \in Dests : \A n \in Names :
          n \in readedFileList[e] => n \in readedFileList'[e] \/ (e = d /\ n = currFilename[d])
    BY <1>7 DEF Remove, BackupErrorUnlink, ClearUnlink
  <2>5. \A i \in Messages : InQueue(i)' => InQueue(i)
    BY <1>0, <2>3 DEF InQueue
  <2>6. m \in delivered => \A e \in Dests : queue'[e][k] = inode[m] => k \in readedFileList'[e]
    BY <1>0, <1>a, <2>3, <2>4 DEF Undisturbed
  <2>. QED
    BY <1>0, <2>1, <2>3, <2>5, <2>6 DEF Undisturbed, InOutgoing
<1>8. ASSUME NEW d \in Dests, StorageFault(d) PROVE Undisturbed(m)'
  <2>1. /\ k \notin readedFileList[d]
        /\ UNCHANGED <<outgoing, relayPc, relayCurr, queue, delivered, inode>>
        /\ readedFileList' = [readedFileList EXCEPT ![d] = {}]
        /\ \A e \in Dests : pc'[e] = "read" => pc[e] = "read" /\ dataBuf'[e] = dataBuf[e]
    BY <1>8 DEF StorageFault, StorageDies, Goto
  <2>. QED
    BY <1>0, <2>1 DEF Undisturbed, InOutgoing, InQueue
<1>9. ASSUME NEW d \in Dests, Notify(d) PROVE Undisturbed(m)'
  <2>1. UNCHANGED <<outgoing, relayPc, relayCurr, queue, delivered, readedFileList, inode>>
    <3>1. UNCHANGED readedFileList
      BY <1>9 DEF Notify, OnNotify, ReadFile, ReadEmpty, EndOfDirectory, NotifyReturn
    <3>. QED
      BY <1>9, <3>1 DEF Notify
  <2>2. ASSUME NEW n \in Names, ReadFile(d, n), m \in delivered, NEW e \in Dests,
               pc'[e] = "read", dataBuf'[e] = m
        PROVE  pc[e] = "read" /\ dataBuf[e] = m
    <3>1. CASE e # d
      BY <2>2, <3>1 DEF ReadFile, Goto
    <3>2. CASE e = d
      <4>1. /\ queue[d][n] \in Messages /\ content[queue[d][n]] = m /\ m # Empty
            /\ n \in toRead[d] /\ FileName[queue[d][n]] = n
        BY <2>2, <3>2 DEF ReadFile, ReadingInv, Entries, InodeInvariant, OwnNames
      <4>2. inode[m] = queue[d][n]
        BY <4>1 DEF InodeInvariant
      <4>3. n = k
        BY <2>2, <1>a, <4>1, <4>2
      <4>4. k \in readedFileList[d]
        BY <1>0, <2>2, <4>2, <4>3 DEF Undisturbed
      <4>. QED
        BY <4>1, <4>3, <4>4 DEF ReadingInv
    <3>. QED
      BY <3>1, <3>2
  <2>3. ASSUME ~ \E n \in Names : ReadFile(d, n)
        PROVE  \A e \in Dests : pc'[e] = "read" => pc[e] = "read" /\ dataBuf'[e] = dataBuf[e]
    <3>1. CASE OnNotify(d)
      BY <3>1 DEF OnNotify, Goto
    <3>2. CASE EndOfDirectory(d)
      BY <3>2 DEF EndOfDirectory, Goto
    <3>3. CASE NotifyReturn(d)
      BY <3>3 DEF NotifyReturn, Goto
    <3>4. CASE \E n \in Names : ReadEmpty(d, n)
      BY <3>4 DEF ReadEmpty
    <3>. QED
      BY <1>9, <2>3, <3>1, <3>2, <3>3, <3>4 DEF Notify
  <2>. QED
    BY <1>0, <2>1, <2>2, <2>3, SameUndisturbed
<1>10. ASSUME NEW d \in Dests,
              \/ Start(d) \/ Refuse(d) \/ RefuseFault(d) \/ Fail(d) \/ Backup(d)
              \/ BackupFault(d) \/ ReadFault(d) \/ OtherRelayed(d)
       PROVE  Undisturbed(m)'
  <2>1. UNCHANGED <<outgoing, relayPc, relayCurr, queue, delivered, readedFileList, inode, dataBuf>>
    BY <1>10
    DEF Start, StorageStart, Refuse, SendError, RefuseFault, ErrorLinkFails, Fail, SendFailed,
        Backup, ClearLink, BackupFault, ClearLinkFails, ReadFault, ReadError, OtherRelayed
  <2>2. \A e \in Dests : pc'[e] = "read" => pc[e] = "read"
    BY <1>10
    DEF Start, StorageStart, Refuse, SendError, RefuseFault, ErrorLinkFails, Fail, SendFailed,
        Backup, ClearLink, BackupFault, ClearLinkFails, ReadFault, ReadError, OtherRelayed, Goto
  <2>. QED
    BY <1>0, <2>1, <2>2, SameUndisturbed
<1>11. CASE OtherCreated \/ UNCHANGED vars
  <2>1. UNCHANGED <<outgoing, relayPc, relayCurr, queue, delivered, readedFileList, inode, pc, dataBuf>>
    BY <1>11 DEF OtherCreated, vars, notifyVars
  <2>. QED
    BY <1>0, <2>1, SameUndisturbed
<1>12. ASSUME NEW n \in Names, NEW d \in Dests, RelayAstray(n, d) \/ RelayLinkFault(n, d)
       PROVE  Undisturbed(m)'
  <2>1. /\ ~(relayPc = "linked" /\ relayCurr = k)
        /\ UNCHANGED <<outgoing, queue, delivered, readedFileList, pc, dataBuf, inode>>
    BY <1>12, RelayFailsIs
  <2>. QED
    BY <1>0, <2>1 DEF Undisturbed, InOutgoing, InQueue
<1>. QED
  BY <1>1, <1>2, <1>3, <1>4, <1>5, <1>6, <1>7, <1>8, <1>9, <1>10, <1>11, <1>12
     DEF Next, RelayStep, StorageStep

(* The peer is given a message a second time only if a daemon died or an   *)
(* answer was lost in the middle of its handling, however the handlers     *)
(* interleave, and whatever names the writers give and directories there   *)
(* are.                                                                    *)
THEOREM RepeatHasCause == Spec => []NoNeedlessRepeat
<1>1. Init => RepeatInvariant
  BY SpoolAssumption
     DEF Init, SpoolInit, NoFiles, RepeatInvariant, NoNeedlessRepeat, Undisturbed,
         InOutgoing, InQueue
<1>2. TypeInvariant /\ StoredInvariant /\ InodeInvariant /\ RepeatInvariant /\ [Next]_vars
        => RepeatInvariant'
  BY StepRepeated, StepUndisturbed DEF RepeatInvariant
<1>3. RepeatInvariant => NoNeedlessRepeat
  BY DEF RepeatInvariant
<1>4. QED
  BY <1>1, <1>2, <1>3, TypeInvariantHolds, InodeHolds, PTL DEF Spec

-----------------------------------------------------------------------------
(* The refinement of MessageTransfer. *)

(* What leaves the writers', the relay's and the consumers' files of every *)
(* message where they are is a stutter of the promise.                     *)
LEMMA Stutter ==
  ASSUME Custody' = Custody, Rejected' = Rejected, delivered' = delivered, unkept' = unkept
  PROVE  [Transfer!Next]_(Transfer!vars)
BY DEF Transfer!vars

(* A link that fails is the end of the promise for its message.            *)
LEMMA Abandoned ==
  ASSUME Custody' = Custody, Rejected' = Rejected, delivered' = delivered,
         NEW m \in Messages, unkept' = unkept \cup {m}
  PROVE  [Transfer!Next]_(Transfer!vars)
BY DEF Transfer!Next, Transfer!Abandon

LEMMA StepTransfer ==
  ASSUME DistinctNames, PipelineInvariant, PipelineInvariant', [Next]_vars
  PROVE  [Transfer!Next]_(Transfer!vars)
<1> USE SpoolAssumption, PipelineAssumption
    DEF PipelineInvariant, TypeInvariant, TypeOK, SpoolTypeOK, WriteTypeOK, NotifyTypeOK,
        Directory, Entries, ReadingInv, RelayReadingInv, NamesMatch, OwnNames, FilesOfWriters, FilesSafe,
        Safe, InOutgoing, InQueue, InError, Stored, Custody, Rejected, DistinctNames,
        spoolVars, writeVars, historyVars
<1>1. ASSUME NEW m \in Messages, Create(m)
      PROVE  [Transfer!Next]_(Transfer!vars)
  <2>1. Custody' = Custody
    BY <1>1 DEF Create, WriteCreate
  <2>2. Rejected' = Rejected /\ delivered' = delivered /\ unkept' = unkept
    BY <1>1 DEF Create
  <2>3. QED
    BY <2>1, <2>2, Stutter
<1>2. ASSUME NEW m \in Messages, WriteStep(m)
      PROVE  [Transfer!Next]_(Transfer!vars)
  <2>1. Rejected' = Rejected /\ delivered' = delivered /\ unkept' = unkept
    BY <1>2 DEF WriteStep
  <2>2. CASE WriteData(m)
    <3>1. m \notin Custody \cup delivered \cup Rejected
      BY <2>2 DEF WriteData
    <3>2. CASE InOutgoing(m) \/ InQueue(m)
      <4>1. Custody' = Custody \cup {m}
        BY <1>2, <2>2, <3>2 DEF WriteStep, WriteData
      <4>. QED
        BY <2>1, <3>1, <4>1 DEF Transfer!Next, Transfer!Put
    <3>3. CASE ~(InOutgoing(m) \/ InQueue(m))
      <4>1. Custody' = Custody
        BY <1>2, <2>2, <3>3 DEF WriteStep, WriteData
      <4>. QED
        BY <2>1, <4>1, Stutter
    <3>. QED
      BY <3>2, <3>3
  <2>3. CASE WriteTruncate(m)
    BY <2>3 DEF WriteTruncate
  <2>4. CASE WriteRefused(m) \/ WriteFails(m)
    <3>1. Custody' = Custody
      BY <1>2, <2>4 DEF WriteStep, WriteRefused, WriteFails
    <3>2. QED
      BY <2>1, <3>1, Stutter
  <2>5. QED
    BY <1>2, <2>2, <2>3, <2>4 DEF WriteStep
<1>3. ASSUME NEW n \in Names, NEW d \in Dests, Relay(n, d)
      PROVE  [Transfer!Next]_(Transfer!vars)
  <2>1. Custody' = Custody
    BY <1>3 DEF Relay, RelayLink, RelayInv, Linked
  <2>2. Rejected' = Rejected /\ delivered' = delivered /\ unkept' = unkept
    BY <1>3 DEF Relay, RelayLink
  <2>3. QED
    BY <2>1, <2>2, Stutter
<1>4. CASE Unlink
  <2> DEFINE m == outgoing[relayCurr]
  <2>1. m \in Messages /\ FileName[m] = relayCurr /\ relayCurr \in Names
    BY <1>4 DEF Unlink, RelayUnlink, RelayInv
  <2>2. InQueue(m) \/ InError(m) \/ m \in delivered \/ m \in unkept
    BY <1>4 DEF Unlink, RelayUnlink, RelayInv
  <2>3. Rejected' = Rejected /\ delivered' = delivered /\ unkept' = unkept
    BY <1>4 DEF Unlink
  <2>4. Custody' = IF InQueue(m) THEN Custody ELSE Custody \ {m}
    <3>1. outgoing' = [outgoing EXCEPT ![relayCurr] = NoFile]
      BY <1>4 DEF Unlink, RelayUnlink, Unlinked
    <3>2. \A x \in Messages : InOutgoing(x)' <=> InOutgoing(x) /\ x # m
      BY <2>1, <3>1
    <3>3. UNCHANGED <<queue, writing>>
      BY <1>4 DEF Unlink
    <3>4. Custody' = {x \in Messages : Stored(x) /\ ((InOutgoing(x) /\ x # m) \/ InQueue(x))}
      BY <3>2, <3>3
    <3>5. QED
      BY <2>1, <3>4
  <2>5. CASE InQueue(m) \/ m \notin Custody
    <3>1. Custody' = Custody
      <4>1. CASE InQueue(m)
        BY <2>4, <4>1
      <4>2. CASE m \notin Custody
        <5>1. Custody \ {m} = Custody
          BY <4>2
        <5>2. QED
          BY <2>4, <5>1
      <4>3. QED
        BY <2>5, <4>1, <4>2
    <3>2. QED
      BY <2>3, <3>1, Stutter
  <2>6. CASE ~InQueue(m) /\ m \in Custody
    <3>1. m \in delivered \cup Rejected \cup unkept
      BY <2>1, <2>2, <2>6
    <3>2. QED
      BY <2>1, <2>3, <2>4, <2>6, <3>1 DEF Transfer!Next, Transfer!Discharge
  <2>7. QED
    BY <2>5, <2>6
<1>5. ASSUME NEW d \in Dests, Send(d) \/ SendUnconfirmed(d)
      PROVE  [Transfer!Next]_(Transfer!vars)
  <2>1. dataBuf[d] \in Custody
    BY <1>5 DEF Send, SendSuccess, SendUnconfirmed, SendFailed, ConsumerInv
  <2>2. /\ Custody' = Custody /\ Rejected' = Rejected
        /\ delivered' = delivered \cup {dataBuf[d]} /\ unkept' = unkept
    BY <1>5 DEF Send, SendUnconfirmed, Handed
  <2>3. QED
    BY <2>1, <2>2 DEF Transfer!Next, Transfer!Hand
<1>6. ASSUME NEW d \in Dests, Refuse(d)
      PROVE  [Transfer!Next]_(Transfer!vars)
  <2>1. dataBuf[d] \in Custody /\ FileName[dataBuf[d]] = currFilename[d]
    BY <1>6 DEF Refuse, SendError, ConsumerInv
  <2>2. Custody' = Custody /\ delivered' = delivered /\ unkept' = unkept
    BY <1>6 DEF Refuse, SendError
  <2>3. Rejected' = Rejected \cup {dataBuf[d]}
    <3>1. error[currFilename[d]] \in {NoFile, dataBuf[d]}
      BY <2>1
    <3>2. \A n \in Names :
            error'[n] = IF n = currFilename[d] THEN dataBuf[d] ELSE error[n]
      BY <1>6, <2>1, <3>1 DEF Refuse, SendError, ConsumerInv, Linked
    <3>3. \A x \in Messages : InError(x)' <=> InError(x) \/ x = dataBuf[d]
      BY <2>1, <3>1, <3>2
    <3>4. dataBuf[d] \in Messages
      BY <2>1
    <3>5. QED
      BY <3>3, <3>4
  <2>4. QED
    BY <2>1, <2>2, <2>3 DEF Transfer!Next, Transfer!Reject
<1>7. ASSUME NEW d \in Dests, Remove(d)
      PROVE  [Transfer!Next]_(Transfer!vars)
  <2> DEFINE m == queue[d][currFilename[d]]
  <2>1. m \in delivered \cup Rejected \cup unkept /\ FileName[m] = currFilename[d]
    <3>1. CASE BackupErrorUnlink(d)
      <4>1. /\ m \in Messages /\ currFilename[d] \in Names
            /\ error[currFilename[d]] = m \/ m \in unkept
        BY <3>1 DEF BackupErrorUnlink, ConsumerInv
      <4>2. FileName[m] = currFilename[d]
        BY <4>1
      <4>3. QED
        BY <4>1, <4>2
    <3>2. CASE ClearUnlink(d)
      BY <3>2 DEF ClearUnlink, ConsumerInv
    <3>3. QED
      BY <1>7, <3>1, <3>2 DEF Remove
  <2>2. Rejected' = Rejected /\ delivered' = delivered /\ unkept' = unkept
    BY <1>7 DEF Remove
  <2>3. Custody' = Custody \/ (m \in Custody /\ Custody' = Custody \ {m})
    <3>1. queue' = [queue EXCEPT ![d] = [@ EXCEPT ![currFilename[d]] = NoFile]]
      BY <1>7 DEF Remove, BackupErrorUnlink, ClearUnlink, Unlinked
    <3>2. \A x \in Messages \ {m} : InQueue(x)' <=> InQueue(x)
      BY <3>1
    <3>3. \A x \in Messages : InQueue(x)' => InQueue(x)
      BY <3>1
    <3>4. UNCHANGED <<outgoing, writing>>
      BY <1>7 DEF Remove
    <3>5. Custody' \subseteq Custody /\ Custody \ {m} \subseteq Custody'
      BY <3>2, <3>3, <3>4
    <3>. HIDE DEF m, Custody, TypeInvariant, PipelineInvariant
    <3>6. CASE m \in Custody
      BY <3>5, <3>6, Zenon
    <3>7. CASE m \notin Custody
      BY <3>5, <3>7, Zenon
    <3>. QED
      BY <3>6, <3>7
  <2>. QED
    <3>1. CASE Custody' = Custody
      BY <2>2, <3>1, Stutter
    <3>2. CASE m \in Custody /\ Custody' = Custody \ {m}
      BY <2>1, <2>2, <3>2 DEF Transfer!Next, Transfer!Discharge
    <3>. QED
      BY <2>3, <3>1, <3>2
<1>8. CASE UNCHANGED <<spoolVars, writing, delivered>>
  BY <1>8, Stutter
<1>9. ASSUME NEW d \in Dests, Start(d) \/ Backup(d)
      PROVE  [Transfer!Next]_(Transfer!vars)
  BY <1>9, Stutter DEF Start, StorageStart, Backup, ClearLink
<1>10. ASSUME NEW n \in Names, NEW d \in Dests, RelayAstray(n, d) \/ RelayLinkFault(n, d)
       PROVE  [Transfer!Next]_(Transfer!vars)
  <2>1. outgoing[n] \in Messages
    BY <1>10, RelayFailsIs DEF RelayInv
  <2>2. Custody' = Custody /\ Rejected' = Rejected /\ delivered' = delivered
    BY <1>10, RelayFailsIs
  <2>3. unkept' = unkept \cup {outgoing[n]}
    BY <1>10, RelayFailsIs
  <2>. QED
    BY <2>1, <2>2, <2>3, Abandoned
<1>11. ASSUME NEW d \in Dests, RefuseFault(d) \/ BackupFault(d)
       PROVE  [Transfer!Next]_(Transfer!vars)
  <2>1. PICK n \in Names : queue[d][n] \in Messages /\ unkept' = unkept \cup {queue[d][n]}
    BY <1>11 DEF RefuseFault, ErrorLinkFails, BackupFault, ClearLinkFails, Unlinkable
  <2>2. Custody' = Custody /\ Rejected' = Rejected /\ delivered' = delivered
    BY <1>11 DEF RefuseFault, ErrorLinkFails, BackupFault, ClearLinkFails
  <2>. QED
    BY <2>1, <2>2, Abandoned
<1>12. QED
  BY <1>1, <1>2, <1>3, <1>4, <1>5, <1>6, <1>7, <1>8, <1>9, <1>10, <1>11
     DEF vars, Next, RelayStep, RelayRun, RelayFault, StorageStep, Notify, Fail,
         ReadFault, StorageFault, OtherCreated, OtherRelayed

(* The spool keeps its promise to those who write to it.                   *)
THEOREM PromiseIsKept ==
  ASSUME DistinctNames
  PROVE  Spec => KeepsPromise
<1>1. Init => Transfer!Init
  BY SpoolAssumption
     DEF Init, SpoolInit, WriteInit, NoFiles, Transfer!Init, Custody, Rejected,
         Stored, InError
<1>2. PipelineInvariant /\ PipelineInvariant' /\ [Next]_vars
        => [Transfer!Next]_(Transfer!vars)
  BY StepTransfer
<1>3. QED
  BY <1>1, <1>2, InvariantHolds, PTL DEF Spec, KeepsPromise, Transfer!Spec
=============================================================================
