---------------------------- MODULE StorageProofs ----------------------------
(***************************************************************************)
(* Proofs about CSMSStorage.  Of SessionNotify, for any number of files    *)
(* and of restarts: what survives two calls of OnNotify at once, what one  *)
(* alone does, and that one alone is the consumer of StorageNotify.  Of    *)
(* BadWordFilter and WordSearch, for all words, texts                      *)
(* and messages: that the search finds the words of a text and nothing     *)
(* else, and what that means for the messages that are stored.             *)
(***************************************************************************)
EXTENDS SessionConsumer, BadWordFilter, WellFoundedInduction, TLAPS

-----------------------------------------------------------------------------
(* SessionNotify: both calls. *)

LEMMA InitInvariant == Init => NotifyInvariant
  BY NotifyAssumption DEF Init, NotifyInvariant, TypeOK, NothingVanishes, NotRunning, Contexts, NULL

LEMMA StepInvariant == NotifyInvariant /\ [Next]_vars => NotifyInvariant'
<1> SUFFICES ASSUME NotifyInvariant, [Next]_vars PROVE NotifyInvariant'
    OBVIOUS
<1> USE NotifyAssumption
    DEF NotifyInvariant, TypeOK, NothingVanishes, Labels, Contexts, NULL,
        Runs, Goto, Alive, files, locals, storage, history
<1>1. CASE \E f \in Files : Arrive(f)
  BY <1>1, SMTT(20) DEF Arrive
<1>2. CASE Start
  BY <1>2, SMTT(20) DEF Start
<1>3. CASE Notify
  BY <1>3, SMTT(20) DEF Notify
<1>4. CASE Die
  BY <1>4, SMTT(20) DEF Die, NotRunning
<1>5. ASSUME NEW c \in Contexts, OpenDir(c) PROVE NotifyInvariant'
  BY <1>5, SMTT(20) DEF OpenDir
<1>6. ASSUME NEW c \in Contexts, NEW f \in Files, ReadDir(c, f) PROVE NotifyInvariant'
  BY <1>6, SMTT(20) DEF ReadDir
<1>7. ASSUME NEW c \in Contexts, EndOfDirectory(c) PROVE NotifyInvariant'
  BY <1>7, SMTT(20) DEF EndOfDirectory
<1>8. ASSUME NEW c \in Contexts, ReadFile(c) PROVE NotifyInvariant'
  BY <1>8, SMTT(20) DEF ReadFile
<1>9. ASSUME NEW c \in Contexts, Copy(c) PROVE NotifyInvariant'
  BY <1>9, SMTT(20) DEF Copy
<1>10. ASSUME NEW c \in Contexts, SendSuccess(c) PROVE NotifyInvariant'
  BY <1>10, SMTT(20) DEF SendSuccess
<1>11. ASSUME NEW c \in Contexts, SendFailed(c) PROVE NotifyInvariant'
  BY <1>11, SMTT(20) DEF SendFailed
<1>12. ASSUME NEW c \in Contexts, SendError(c) PROVE NotifyInvariant'
  BY <1>12, SMTT(20) DEF SendError
<1>13. ASSUME NEW c \in Contexts, Record(c) PROVE NotifyInvariant'
  BY <1>13, SMTT(20) DEF Record
<1>14. ASSUME NEW c \in Contexts, ErrorLink(c) PROVE NotifyInvariant'
  BY <1>14, SMTT(20) DEF ErrorLink
<1>15. ASSUME NEW c \in Contexts, ErrorUnlink(c) PROVE NotifyInvariant'
  BY <1>15, SMTT(20) DEF ErrorUnlink
<1>16. ASSUME NEW c \in Contexts, NEW f \in Files, ClearLink(c, f) PROVE NotifyInvariant'
  BY <1>16, SMTT(20) DEF ClearLink
<1>17. ASSUME NEW c \in Contexts, ClearUnlink(c) PROVE NotifyInvariant'
  BY <1>17, SMTT(20) DEF ClearUnlink
<1>18. CASE Return
  BY <1>18, SMTT(20) DEF Return, Closed
<1>19. CASE ReturnMain
  BY <1>19, SMTT(20) DEF ReturnMain, Closed
<1>20. CASE Crash
  BY <1>20, SMTT(20) DEF Crash
<1>21. CASE UNCHANGED vars
  BY <1>21 DEF vars
<1>22. ASSUME NEW c \in Contexts, ErrorLinkFails(c) PROVE NotifyInvariant'
  BY <1>22, SMTT(20) DEF ErrorLinkFails
<1>23. ASSUME NEW c \in Contexts, NEW f \in Files, ClearLinkFails(c, f) PROVE NotifyInvariant'
  BY <1>23, SMTT(20) DEF ClearLinkFails
<1>. QED
  BY <1>1, <1>2, <1>3, <1>4, <1>5, <1>6, <1>7, <1>8, <1>9, <1>10, <1>11, <1>12, <1>13,
     <1>14, <1>15, <1>16, <1>17, <1>18, <1>19, <1>20, <1>21, <1>22, <1>23
  DEF Next, Step, Scan, Send, Clear, Finish

(* The invariant holds, whether main calls OnNotify or not. *)
THEOREM InvariantHolds == Spec => []NotifyInvariant
  BY InitInvariant, StepInvariant, PTL DEF Spec

(* A file that has arrived is in the inbox, in the backup or in error, even *)
(* if the handler of SIGUSR1 runs in the middle of main's OnNotify, unless  *)
(* link has failed for it.                                                 *)
THEOREM NoFileVanishes == Spec => []NothingVanishes
<1>1. NotifyInvariant => NothingVanishes
  BY DEF NotifyInvariant
<1>. QED BY <1>1, InvariantHolds, PTL

-----------------------------------------------------------------------------
(* SessionNotify: one call at a time. *)

LEMMA InitAlone == Init => AloneInvariant
  BY NotifyAssumption
  DEF Init, AloneInvariant, HandlerAlone, Scanning, KeptWasSent, ErrorWasRefused, NotRunning, Contexts, NULL

LEMMA StepAlone ==
  NotifyInvariant /\ AloneInvariant /\ [Next]_vars => AloneInvariant'
<1> SUFFICES ASSUME NotifyInvariant, AloneInvariant, [Next]_vars
             PROVE  AloneInvariant'
    OBVIOUS
<1> USE NotifyAssumption
    DEF NotifyInvariant, TypeOK, AloneInvariant, HandlerAlone, Scanning, KeptWasSent,
        ErrorWasRefused, Labels, Contexts, NULL, Runs, Goto, Alive, files, locals, storage, history
<1>1. CASE \E f \in Files : Arrive(f)
  BY <1>1, SMTT(20) DEF Arrive
<1>2. CASE Start
  BY <1>2, SMTT(20) DEF Start
<1>3. CASE Notify
  BY <1>3, SMTT(20) DEF Notify
<1>4. CASE Die
  BY <1>4, SMTT(20) DEF Die, NotRunning
<1>5. ASSUME NEW c \in Contexts, OpenDir(c) PROVE AloneInvariant'
  BY <1>5, SMTT(20) DEF OpenDir
<1>6. ASSUME NEW c \in Contexts, NEW f \in Files, ReadDir(c, f) PROVE AloneInvariant'
  BY <1>6, SMTT(20) DEF ReadDir
<1>7. ASSUME NEW c \in Contexts, EndOfDirectory(c) PROVE AloneInvariant'
  BY <1>7, SMTT(20) DEF EndOfDirectory
<1>8. ASSUME NEW c \in Contexts, ReadFile(c) PROVE AloneInvariant'
  BY <1>8, SMTT(20) DEF ReadFile
<1>9. ASSUME NEW c \in Contexts, Copy(c) PROVE AloneInvariant'
  BY <1>9, SMTT(20) DEF Copy
<1>10. ASSUME NEW c \in Contexts, SendSuccess(c) PROVE AloneInvariant'
  BY <1>10, SMTT(20) DEF SendSuccess
<1>11. ASSUME NEW c \in Contexts, SendFailed(c) PROVE AloneInvariant'
  BY <1>11, SMTT(20) DEF SendFailed
<1>12. ASSUME NEW c \in Contexts, SendError(c) PROVE AloneInvariant'
  BY <1>12, SMTT(20) DEF SendError
<1>13. ASSUME NEW c \in Contexts, Record(c) PROVE AloneInvariant'
  BY <1>13, SMTT(20) DEF Record
<1>14. ASSUME NEW c \in Contexts, ErrorLink(c) PROVE AloneInvariant'
  BY <1>14, SMTT(20) DEF ErrorLink
<1>15. ASSUME NEW c \in Contexts, ErrorUnlink(c) PROVE AloneInvariant'
  BY <1>15, SMTT(20) DEF ErrorUnlink
<1>16. ASSUME NEW c \in Contexts, NEW f \in Files, ClearLink(c, f) PROVE AloneInvariant'
  BY <1>16, SMTT(20) DEF ClearLink
<1>17. ASSUME NEW c \in Contexts, ClearUnlink(c) PROVE AloneInvariant'
  BY <1>17, SMTT(20) DEF ClearUnlink
<1>18. CASE Return
  BY <1>18, SMTT(20) DEF Return, Closed
<1>19. CASE ReturnMain
  BY <1>19, SMTT(20) DEF ReturnMain, Closed
<1>20. CASE Crash
  BY <1>20, SMTT(20) DEF Crash
<1>21. CASE UNCHANGED vars
  BY <1>21 DEF vars
<1>22. ASSUME NEW c \in Contexts, ErrorLinkFails(c) PROVE AloneInvariant'
  BY <1>22, SMTT(20) DEF ErrorLinkFails
<1>23. ASSUME NEW c \in Contexts, NEW f \in Files, ClearLinkFails(c, f) PROVE AloneInvariant'
  BY <1>23, SMTT(20) DEF ClearLinkFails
<1>. QED
  BY <1>1, <1>2, <1>3, <1>4, <1>5, <1>6, <1>7, <1>8, <1>9, <1>10, <1>11, <1>12, <1>13,
     <1>14, <1>15, <1>16, <1>17, <1>18, <1>19, <1>20, <1>21, <1>22, <1>23
  DEF Next, Step, Scan, Send, Clear, Finish

THEOREM AloneHolds == Spec => []AloneInvariant
<1>1. NotifyInvariant /\ AloneInvariant /\ [Next]_vars => AloneInvariant'
  BY StepAlone
<1>. QED BY <1>1, InitAlone, InvariantHolds, PTL DEF Spec

(* If main does not call OnNotify, what clearStorage removes has been sent. *)
THEOREM RemovedWasSent ==
  Spec => []KeptIsSent
<1>1. AloneInvariant => KeptIsSent
  BY DEF AloneInvariant, HandlerAlone, KeptIsSent
<1>. QED BY <1>1, AloneHolds, PTL

(* If main does not call OnNotify, what is in error has been refused.      *)
THEOREM ErrorHolds ==
  Spec => []ErrorIsRefused
<1>1. AloneInvariant => ErrorIsRefused
  BY DEF AloneInvariant, HandlerAlone, ErrorIsRefused
<1>. QED BY <1>1, AloneHolds, PTL

(* ... and what each of its steps is to those who write into the inbox.    *)
LEMMA StepPromise ==
  ASSUME NotifyInvariant, HandlerAlone, Next
  PROVE  Promise!Next \/ UNCHANGED Promise!vars
<1> DEFINE Kept == UNCHANGED <<queue, accepted, error, unkept>>
<1>a. Kept => UNCHANGED Promise!vars
  BY DEF Promise!vars
<1>b. at["main"] \in {"down", "loop"} /\ "handler" \in Contexts
  BY DEF HandlerAlone, Contexts
<1>c. \A c \in Contexts : \A label \in Labels : Runs(c, label) => c = "handler"
  BY <1>b DEF Runs, Labels, Contexts
<1> USE <1>b DEF Runs, files, history, Labels
<1>1. ASSUME NEW f \in Files, Arrive(f) PROVE Promise!Put(f)
  BY <1>1 DEF Arrive, NotifyInvariant, Promise!Put, files, history
<1>2. ASSUME NEW c \in Contexts, SendSuccess(c) PROVE Promise!Hand(buf[c]) /\ buf[c] \in Files
  <2>1. c = "handler" /\ at[c] = "send"
    BY <1>2, <1>c DEF SendSuccess
  <2>2. buf[c] = curr /\ curr \in queue /\ queue \subseteq Files
    BY <2>1 DEF HandlerAlone, NotifyInvariant, TypeOK
  <2>. QED
    BY <1>2, <2>2 DEF SendSuccess, Promise!Hand
<1>3. ASSUME NEW c \in Contexts, ErrorLink(c) PROVE Promise!Reject(curr) /\ curr \in Files
  <2>1. c = "handler" /\ at[c] = "refused"
    BY <1>3, <1>c DEF ErrorLink
  <2>2. curr \in queue /\ queue \subseteq Files
    BY <2>1 DEF HandlerAlone, NotifyInvariant, TypeOK
  <2>3. error' = error \cup {curr}
    BY <1>3, <2>2 DEF ErrorLink
  <2>. QED
    BY <1>3, <2>2, <2>3 DEF ErrorLink, Promise!Reject
<1>4. ASSUME NEW c \in Contexts, ErrorUnlink(c) \/ ClearUnlink(c)
      PROVE  Kept \/ (Promise!Discharge(name[c]) /\ name[c] \in Files)
  <2>1. c = "handler" /\ at[c] \in {"moved", "kept"}
    BY <1>4, <1>c DEF ErrorUnlink, ClearUnlink
  <2>2. queue' = queue \ {name[c]} /\ UNCHANGED <<accepted, error, unkept>>
    BY <1>4 DEF ErrorUnlink, ClearUnlink
  <2>3. name[c] \in queue => name[c] \in accepted \cup error \cup unkept
    BY <2>1 DEF HandlerAlone, NotifyInvariant
  <2>4. CASE name[c] \in queue
    BY <2>2, <2>3, <2>4 DEF Promise!Discharge, NotifyInvariant, TypeOK
  <2>5. CASE name[c] \notin queue
    BY <2>2, <2>5
  <2>. QED
    BY <2>4, <2>5
<1>5. ASSUME NEW c \in Contexts, Scan(c) PROVE Kept
  BY <1>5 DEF Scan, OpenDir, ReadDir, EndOfDirectory, ReadFile, Copy
<1>6. ASSUME NEW c \in Contexts, SendFailed(c) \/ SendError(c) \/ Record(c) PROVE Kept
  BY <1>6 DEF SendFailed, SendError, Record
<1>7. ASSUME NEW c \in Contexts, NEW f \in Files, ClearLink(c, f) PROVE Kept
  BY <1>7 DEF ClearLink
<1>8. ASSUME Start \/ Notify \/ Die \/ Finish PROVE Kept
  BY <1>8 DEF Start, Notify, Die, Finish, Return, ReturnMain, Crash, Closed
<1>9. ASSUME NEW c \in Contexts, ErrorLinkFails(c) PROVE Promise!Abandon(curr) /\ curr \in Files
  <2>1. curr \in queue /\ queue \subseteq Files
    BY <1>9 DEF ErrorLinkFails, NotifyInvariant, TypeOK
  <2>. QED
    BY <1>9, <2>1 DEF ErrorLinkFails, Promise!Abandon
<1>10. ASSUME NEW c \in Contexts, NEW f \in Files, ClearLinkFails(c, f) PROVE Promise!Abandon(f)
  BY <1>10 DEF ClearLinkFails, Promise!Abandon
<1>. QED
  BY <1>1, <1>2, <1>3, <1>4, <1>5, <1>6, <1>7, <1>8, <1>9, <1>10, <1>a
  DEF Next, Step, Send, Clear, Promise!Next

(* OnNotify called by the handler alone implements the spool of            *)
(* MessageTransfer: a file is in the inbox until Send has returned SUCCESS *)
(* for it, a copy is in error or link has failed, whenever the session     *)
(* dies.                                                                   *)
THEOREM PromiseIsKept == Spec => HandlerKeepsPromise
<1>1. Init => Promise!Init
  BY DEF Init, Promise!Init
<1>2. NotifyInvariant /\ AloneInvariant /\ [Next]_vars => [~startup => Promise!Next]_(Promise!vars)
  <2> SUFFICES ASSUME NotifyInvariant, AloneInvariant, [Next]_vars, ~startup
               PROVE  Promise!Next \/ UNCHANGED Promise!vars
      OBVIOUS
  <2>1. CASE Next
    BY <2>1, StepPromise DEF AloneInvariant
  <2>2. CASE UNCHANGED vars
    BY <2>2 DEF vars, files, history, Promise!vars
  <2>. QED
    BY <2>1, <2>2
<1>. QED
  BY <1>1, <1>2, InvariantHolds, AloneHolds, PTL DEF Spec, HandlerKeepsPromise

(* SessionConsumer: the functions over the one inbox, and the directories. *)
LEMMA OneInbox ==
  /\ \A x : Of(x)[Inbox] = x
  /\ \A x, y : [Of(x) EXCEPT ![Inbox] = y] = Of(y)
  BY DEF Of

LEMMA Directories ==
  ASSUME NEW S, S \subseteq Files
  PROVE  /\ Storage!Entries(AsDirectory(S)) = S
         /\ \A f \in Files : AsDirectory(S)[f] = IF f \in S THEN f ELSE None
         /\ \A f \in Files : Storage!Unlinked(AsDirectory(S), f) = AsDirectory(S \ {f})
         /\ \A f \in Files : f \in S => \A T : T \subseteq Files =>
              Storage!Linked(AsDirectory(T), f, AsDirectory(S)[f]) = AsDirectory(T \cup {f})
  BY NotifyAssumption DEF Storage!Entries, Storage!Unlinked, Storage!Linked, AsDirectory

(* The steps of StorageNotify in the terms of SessionNotify: what the      *)
(* handler's label, directory, name, data and list have to do for the step *)
(* of the pipeline's consumer (one lemma per action of StorageNotify).     *)
LEMMA StartIs ==
  ASSUME ConsumerPc = "down", ConsumerPc' = "idle",
         UNCHANGED <<sigusr1, ToRead, name["handler"], DataBuf, ReadedFileList>>
  PROVE  Storage!StorageStart(Inbox)
  BY OneInbox DEF Storage!StorageStart, Storage!Goto

LEMMA OnNotifyIs ==
  ASSUME ConsumerPc = "idle", ConsumerPc' = "scan", sigusr1 # {}, sigusr1' = {},
         queue \subseteq Files, ToRead' = queue, UNCHANGED <<name["handler"], DataBuf, ReadedFileList>>
  PROVE  Storage!OnNotify(Inbox)
  BY OneInbox, Directories DEF Storage!OnNotify, Storage!Goto

LEMMA ReadFileIs ==
  ASSUME NEW f \in Files, queue \subseteq Files, f \in queue,
         ConsumerPc = "scan", ConsumerPc' = "read", f \in ToRead, ToRead' = ToRead \ {f},
         name'["handler"] = f, DataBuf' = f, UNCHANGED <<sigusr1, ReadedFileList>>
  PROVE  Storage!ReadFile(Inbox, f)
<1>1. AsDirectory(queue)[f] = f /\ f # None /\ [x \in Files |-> x][f] = f
  BY Directories, NotifyAssumption
<1>2. /\ Of(ToRead)' = [Of(ToRead) EXCEPT ![Inbox] = @ \ {f}]
      /\ Of(name["handler"])' = [Of(name["handler"]) EXCEPT ![Inbox] = f]
      /\ Of(ConsumerPc)' = [Of(ConsumerPc) EXCEPT ![Inbox] = "read"]
  BY OneInbox
<1>3. Of(DataBuf)' = [Of(DataBuf) EXCEPT ![Inbox] =
                        [x \in Files |-> x][Of(AsDirectory(queue))[Inbox][f]]]
  BY <1>1, OneInbox
<1>4. f \in Of(ToRead)[Inbox] /\ Of(ConsumerPc)[Inbox] = "scan"
  BY OneInbox
<1>5. [x \in Files |-> x][Of(AsDirectory(queue))[Inbox][f]] # None
  BY <1>1, OneInbox
<1>. QED
  BY <1>2, <1>3, <1>4, <1>5 DEF Storage!ReadFile, Storage!Goto

LEMMA EndIs ==
  ASSUME ConsumerPc = "scan", ConsumerPc' = "clear", ToRead = {},
         UNCHANGED <<sigusr1, ToRead, name["handler"], DataBuf, ReadedFileList>>
  PROVE  Storage!EndOfDirectory(Inbox)
  BY OneInbox DEF Storage!EndOfDirectory, Storage!Goto

LEMMA ReturnIs ==
  ASSUME ConsumerPc = "clear", ConsumerPc' = "idle", ReadedFileList = {},
         UNCHANGED <<sigusr1, ToRead, name["handler"], DataBuf, ReadedFileList>>
  PROVE  Storage!NotifyReturn(Inbox)
  BY OneInbox DEF Storage!NotifyReturn, Storage!Goto

LEMMA SuccessIs ==
  ASSUME ConsumerPc = "read", ConsumerPc' = "scan",
         ReadedFileList' = ReadedFileList \cup {name["handler"]},
         UNCHANGED <<sigusr1, ToRead, name["handler"], DataBuf>>
  PROVE  Storage!SendSuccess(Inbox)
  BY OneInbox DEF Storage!SendSuccess, Storage!Goto

LEMMA FailedIs ==
  ASSUME ConsumerPc = "read", ConsumerPc' = "scan",
         UNCHANGED <<sigusr1, ToRead, name["handler"], DataBuf, ReadedFileList>>
  PROVE  Storage!SendFailed(Inbox)
  BY OneInbox DEF Storage!SendFailed, Storage!Goto

LEMMA ErrorIs ==
  ASSUME ConsumerPc = "read", ConsumerPc' = "refused", queue \subseteq Files, error \subseteq Files,
         name["handler"] \in queue, error' = error \cup {name["handler"]},
         UNCHANGED <<unkept, sigusr1, ToRead, name["handler"], DataBuf, ReadedFileList>>
  PROVE  Storage!SendError(Inbox)
<1>1. Storage!Linked(AsDirectory(error), name["handler"], AsDirectory(queue)[name["handler"]])
        = AsDirectory(error')
  BY Directories
<1>. QED
  BY <1>1, OneInbox DEF Storage!SendError, Storage!Goto, AsDirectory

LEMMA ErrorFailsIs ==
  ASSUME ConsumerPc = "read", ConsumerPc' = "refused", queue \subseteq Files, error' = error,
         name["handler"] \in queue, unkept' = unkept \cup {name["handler"]},
         UNCHANGED <<sigusr1, ToRead, name["handler"], DataBuf, ReadedFileList>>
  PROVE  Storage!ErrorLinkFails(Inbox)
<1>1. AsDirectory(queue)[name["handler"]] = name["handler"]
  BY Directories
<1>. QED
  BY <1>1, OneInbox DEF Storage!ErrorLinkFails, Storage!Unlinkable, Storage!Goto, AsDirectory

LEMMA UnlinkIs ==
  ASSUME ConsumerPc = "refused", ConsumerPc' = "scan", queue \subseteq Files,
         name["handler"] \in Files, queue' = queue \ {name["handler"]},
         UNCHANGED <<sigusr1, ToRead, name["handler"], DataBuf, ReadedFileList>>
  PROVE  Storage!BackupErrorUnlink(Inbox)
<1>1. Storage!Unlinked(AsDirectory(queue), name["handler"]) = AsDirectory(queue')
  BY Directories
<1>. QED
  BY <1>1, OneInbox DEF Storage!BackupErrorUnlink, Storage!Goto, AsDirectory

LEMMA ClearLinkIs ==
  ASSUME NEW f \in Files, ConsumerPc = "clear", ConsumerPc' = "kept", queue \subseteq Files,
         backup \subseteq Files, f \in ReadedFileList, backup' = backup \cup ({f} \cap queue),
         name'["handler"] = f, UNCHANGED <<unkept, sigusr1, ToRead, DataBuf, ReadedFileList>>
  PROVE  Storage!ClearLink(Inbox, f)
<1>1. Storage!Linked(AsDirectory(backup), f, AsDirectory(queue)[f]) = AsDirectory(backup')
  <2>1. CASE f \in queue
    BY <2>1, Directories
  <2>2. CASE f \notin queue
    BY <2>2, NotifyAssumption DEF Storage!Linked, AsDirectory
  <2>. QED
    BY <2>1, <2>2
<1>. QED
  BY <1>1, OneInbox DEF Storage!ClearLink, Storage!Goto, AsDirectory

LEMMA ClearFailsIs ==
  ASSUME NEW f \in Files, ConsumerPc = "clear", ConsumerPc' = "kept", queue \subseteq Files,
         f \in ReadedFileList, f \in queue, backup' = backup, unkept' = unkept \cup {f},
         name'["handler"] = f, UNCHANGED <<sigusr1, ToRead, DataBuf, ReadedFileList>>
  PROVE  Storage!ClearLinkFails(Inbox, f)
<1>1. AsDirectory(queue)[f] = f
  BY Directories
<1>. QED
  BY <1>1, OneInbox DEF Storage!ClearLinkFails, Storage!Unlinkable, Storage!Goto, AsDirectory

LEMMA ClearUnlinkIs ==
  ASSUME ConsumerPc = "kept", ConsumerPc' = "clear", queue \subseteq Files,
         name["handler"] \in Files, queue' = queue \ {name["handler"]},
         ReadedFileList' = ReadedFileList \ {name["handler"]},
         UNCHANGED <<sigusr1, ToRead, name["handler"], DataBuf>>
  PROVE  Storage!ClearUnlink(Inbox)
<1>1. Storage!Unlinked(AsDirectory(queue), name["handler"]) = AsDirectory(queue')
  BY Directories
<1>. QED
  BY <1>1, OneInbox DEF Storage!ClearUnlink, Storage!Goto, AsDirectory

LEMMA DiesIs ==
  ASSUME ConsumerPc # "down", ConsumerPc' = "down", sigusr1' = {}, ToRead' = {},
         name'["handler"] = None, DataBuf' = None, ReadedFileList' = {}
  PROVE  Storage!StorageDies(Inbox)
  BY OneInbox DEF Storage!StorageDies, Storage!Goto

LEMMA NotifiedIs ==
  ASSUME NEW f \in Files, sigusr1' = IF ConsumerPc = "down" THEN {} ELSE {"SIGUSR1"},
         \/ ToRead' = ToRead
         \/ ConsumerPc \in {"scan", "read", "refused"} /\ ToRead' = ToRead \cup {f},
         UNCHANGED <<ConsumerPc, name["handler"], DataBuf, ReadedFileList>>
  PROVE  Storage!StorageNotified(Inbox, f)
<1>1. (sigusr1 # {})' = (ConsumerPc # "down")
  OBVIOUS
<1>2. Storage!Reading(Inbox) <=> ConsumerPc \in {"scan", "read", "refused"}
  BY OneInbox DEF Storage!Reading
<1>3. Of(ToRead)' \in IF Storage!Reading(Inbox)
                      THEN {Of(ToRead), [Of(ToRead) EXCEPT ![Inbox] = @ \cup {f}]}
                      ELSE {Of(ToRead)}
  BY <1>2, OneInbox DEF Of
<1>4. Of(sigusr1 # {})' = [Of(sigusr1 # {}) EXCEPT ![Inbox] = Of(ConsumerPc)[Inbox] # "down"]
  BY <1>1, OneInbox
<1>. QED
  BY <1>3, <1>4 DEF Storage!StorageNotified

(* What the handler's label says of them. *)
Views ==
  /\ at["main"] = "down" => ConsumerPc = "down"
  /\ at["main"] # "down" =>
       /\ at["handler"] \in {"open", "scan", "sent"} => ConsumerPc = "scan"
       /\ at["handler"] \in {"got", "copy", "send", "refused"} => ConsumerPc = "read"
       /\ at["handler"] = "moved" => ConsumerPc = "refused"
       /\ at["handler"] \in {"idle", "clear", "kept"} => ConsumerPc = at["handler"]
  /\ at["handler"] = "open" => ToRead = queue
  /\ at["handler"] \in Scanning => ToRead = dir
  /\ at["handler"] \in {"idle", "clear", "kept"} => ToRead = {}
  /\ at["handler"] = "got" => DataBuf = name["handler"]
  /\ at["handler"] # "got" => DataBuf = data
  /\ at["handler"] = "sent" => ReadedFileList = list \cup {curr}
  /\ at["handler"] \in {"clear", "kept"} => ReadedFileList = rest["handler"]
  /\ at["handler"] \notin {"sent", "clear", "kept"} => ReadedFileList = list

LEMMA ViewsHold == Views /\ Views'
<1>1a. at["main"] = "down" => ConsumerPc = "down"
  BY DEF ConsumerPc
<1>1b. at["main"] # "down" /\ at["handler"] \in {"open", "sent"} => ConsumerPc = "scan"
  BY DEF ConsumerPc
<1>1c. at["main"] # "down" /\ at["handler"] \in {"got", "copy", "send", "refused"} => ConsumerPc = "read"
  BY DEF ConsumerPc
<1>1d. at["main"] # "down" /\ at["handler"] = "moved" => ConsumerPc = "refused"
  BY DEF ConsumerPc
<1>1e. at["main"] # "down" /\ at["handler"] \in {"idle", "scan", "clear", "kept"} => ConsumerPc = at["handler"]
  BY DEF ConsumerPc
<1>2a. at'["main"] = "down" => ConsumerPc' = "down"
  BY DEF ConsumerPc
<1>2b. at'["main"] # "down" /\ at'["handler"] \in {"open", "sent"} => ConsumerPc' = "scan"
  BY DEF ConsumerPc
<1>2c. at'["main"] # "down" /\ at'["handler"] \in {"got", "copy", "send", "refused"} => ConsumerPc' = "read"
  BY DEF ConsumerPc
<1>2d. at'["main"] # "down" /\ at'["handler"] = "moved" => ConsumerPc' = "refused"
  BY DEF ConsumerPc
<1>2e. at'["main"] # "down" /\ at'["handler"] \in {"idle", "scan", "clear", "kept"} => ConsumerPc' = at'["handler"]
  BY DEF ConsumerPc
<1>3. /\ at["handler"] = "open" => ToRead = queue
      /\ at["handler"] \in Scanning => ToRead = dir
      /\ at["handler"] \in {"idle", "clear", "kept"} => ToRead = {}
  BY DEF ToRead, Scanning
<1>4. /\ at'["handler"] = "open" => ToRead' = queue'
      /\ at'["handler"] \in Scanning => ToRead' = dir'
      /\ at'["handler"] \in {"idle", "clear", "kept"} => ToRead' = {}
  BY DEF ToRead, Scanning
<1>5. /\ at["handler"] = "got" => DataBuf = name["handler"]
      /\ at["handler"] # "got" => DataBuf = data
      /\ at'["handler"] = "got" => DataBuf' = name'["handler"]
      /\ at'["handler"] # "got" => DataBuf' = data'
  BY DEF DataBuf
<1>6. /\ at["handler"] = "sent" => ReadedFileList = list \cup {curr}
      /\ at["handler"] \in {"clear", "kept"} => ReadedFileList = rest["handler"]
      /\ at["handler"] \notin {"sent", "clear", "kept"} => ReadedFileList = list
  BY DEF ReadedFileList
<1>7. /\ at'["handler"] = "sent" => ReadedFileList' = list' \cup {curr'}
      /\ at'["handler"] \in {"clear", "kept"} => ReadedFileList' = rest'["handler"]
      /\ at'["handler"] \notin {"sent", "clear", "kept"} => ReadedFileList' = list'
  BY DEF ReadedFileList
<1>. QED
  BY <1>1a, <1>1b, <1>1c, <1>1d, <1>1e, <1>2a, <1>2b, <1>2c, <1>2d, <1>2e,
     <1>3, <1>4, <1>5, <1>6, <1>7
  DEF Views

(* A step of the session the consumer does not see.                        *)
Same == UNCHANGED <<ConsumerPc, sigusr1, ToRead, name["handler"], DataBuf, ReadedFileList>>

LEMMA SameIs ==
  ASSUME Same, UNCHANGED <<queue, backup, error, unkept, accepted>>
  PROVE  UNCHANGED consumerVars
  BY DEF Same, consumerVars, Storage!notifyVars, Of

(* Every step of a handler alone is one of the consumer, or none.          *)
LEMMA StepConsumer ==
  ASSUME NotifyInvariant, HandlerAlone, Next
  PROVE  ConsumerNext \/ UNCHANGED consumerVars
<1>a. /\ at["main"] \in {"down", "loop"}
      /\ at["main"] = "down" => at["handler"] = "idle"
      /\ at["handler"] \in Labels \cup {"idle", "down", "loop", "lost", "crashed"}
      /\ queue \subseteq Files /\ backup \subseteq Files /\ error \subseteq Files
  BY DEF HandlerAlone, NotifyInvariant, TypeOK, Contexts
<1>b. \A c \in Contexts : \A label \in Labels : Runs(c, label) => c = "handler"
  BY <1>a DEF Runs, Labels, Contexts
<1> USE <1>a, <1>b, ViewsHold, NotifyAssumption
    DEF Views, files, history, Runs, Goto, locals, storage, TypeOK,
        NotifyInvariant, HandlerAlone, Contexts, Scanning, NULL, Labels
<1>1. ASSUME NEW f \in Files, Arrive(f) PROVE Linked(f)
  <2>1. /\ f \notin queue /\ queue' = queue \cup {f}
        /\ UNCHANGED <<backup, error, unkept, accepted, at, name, data, list, rest, curr>>
    BY <1>1 DEF Arrive
  <2>2. UNCHANGED <<ConsumerPc, name["handler"], DataBuf, ReadedFileList>>
    BY <2>1 DEF ConsumerPc, DataBuf, ReadedFileList
  <2>3. sigusr1' = IF ConsumerPc = "down" THEN {} ELSE {"SIGUSR1"}
    <3>1. ConsumerPc = "down" <=> at["main"] = "down"
      OBVIOUS
    <3>. QED
      BY <3>1, <1>1 DEF Arrive, Alive
  <2>4. \/ ToRead' = ToRead
        \/ ConsumerPc \in {"scan", "read", "refused"} /\ ToRead' = ToRead \cup {f}
    <3>1. CASE at["handler"] = "open"
      BY <3>1, <2>1
    <3>2. CASE at["handler"] \in Scanning
      <4>1. dir' \in {dir, dir \cup {f}}
        BY <1>1, <3>2 DEF Arrive
      <4>. QED
        BY <3>2, <2>1, <4>1
    <3>3. CASE at["handler"] \notin Scanning \cup {"open"}
      BY <3>3, <2>1 DEF ToRead
    <3>. QED
      BY <3>1, <3>2, <3>3
  <2>. QED
    BY <2>1, <2>2, <2>3, <2>4, NotifiedIs DEF Linked
<1>2. CASE Start
  <2>1. ConsumerPc = "down" /\ ConsumerPc' = "idle"
    BY <1>2 DEF Start
  <2>2. UNCHANGED <<sigusr1, ToRead, name["handler"], DataBuf, ReadedFileList>>
    BY <1>2 DEF Start
  <2>. QED
    BY <2>1, <2>2, <1>2, StartIs DEF Start, ConsumerNext, Reads
<1>3. CASE Notify
  <2>1. /\ ConsumerPc = "idle" /\ ConsumerPc' = "scan"
        /\ sigusr1 # {} /\ sigusr1' = {} /\ ToRead' = queue
        /\ UNCHANGED <<name["handler"], DataBuf, ReadedFileList>>
    BY <1>3 DEF Notify, Alive
  <2>. QED
    BY <2>1, <1>3, OnNotifyIs DEF Notify, ConsumerNext, Reads
<1>4. CASE Die
  <2>1. /\ ConsumerPc # "down" /\ ConsumerPc' = "down"
        /\ sigusr1' = {} /\ ToRead' = {}
        /\ name'["handler"] = None /\ DataBuf' = None /\ ReadedFileList' = {}
    BY <1>4 DEF Die, NotRunning
  <2>. QED
    BY <2>1, <1>4, DiesIs DEF Die, ConsumerNext, Reads
<1>5. ASSUME NEW c \in Contexts, OpenDir(c) PROVE UNCHANGED consumerVars
  <2>1. Same
    BY <1>5 DEF OpenDir, Same
  <2>. QED
    BY <2>1, <1>5, SameIs DEF OpenDir
<1>6. ASSUME NEW c \in Contexts, NEW f \in Files, ReadDir(c, f) PROVE ConsumerNext
  <2>1. /\ f \in queue /\ ConsumerPc = "scan" /\ ConsumerPc' = "read"
        /\ f \in ToRead /\ ToRead' = ToRead \ {f}
        /\ name'["handler"] = f /\ DataBuf' = f /\ UNCHANGED <<sigusr1, ReadedFileList>>
    BY <1>6 DEF ReadDir
  <2>. QED
    BY <2>1, <1>6, ReadFileIs DEF ReadDir, ConsumerNext, Reads
<1>7. ASSUME NEW c \in Contexts, EndOfDirectory(c) PROVE ConsumerNext
  <2>1. /\ ConsumerPc = "scan" /\ ConsumerPc' = "clear" /\ ToRead = {}
        /\ UNCHANGED <<sigusr1, ToRead, name["handler"], DataBuf, ReadedFileList>>
    BY <1>7 DEF EndOfDirectory
  <2>. QED
    BY <2>1, <1>7, EndIs DEF EndOfDirectory, ConsumerNext, Reads
<1>8. ASSUME NEW c \in Contexts, ReadFile(c) \/ Copy(c) PROVE UNCHANGED consumerVars
  <2>1. Same
    <3>1. CASE ReadFile(c)
      BY <3>1 DEF ReadFile, Same
    <3>2. CASE Copy(c)
      BY <3>2 DEF Copy, Same
    <3>. QED
      BY <1>8, <3>1, <3>2
  <2>. QED
    BY <2>1, <1>8, SameIs DEF ReadFile, Copy
<1>9. ASSUME NEW c \in Contexts, SendSuccess(c) PROVE ConsumerNext
  <2>1. /\ ConsumerPc = "read" /\ ConsumerPc' = "scan"
        /\ ReadedFileList' = ReadedFileList \cup {name["handler"]}
        /\ UNCHANGED <<sigusr1, ToRead, name["handler"], DataBuf>>
    BY <1>9 DEF SendSuccess
  <2>2. accepted' = accepted \cup {DataBuf}
    BY <1>9 DEF SendSuccess
  <2>. QED
    BY <2>1, <2>2, <1>9, SuccessIs DEF SendSuccess, ConsumerNext, Sends
<1>10. ASSUME NEW c \in Contexts, SendFailed(c) PROVE ConsumerNext
  <2>1. /\ ConsumerPc = "read" /\ ConsumerPc' = "scan"
        /\ UNCHANGED <<sigusr1, ToRead, name["handler"], DataBuf, ReadedFileList>>
    BY <1>10 DEF SendFailed
  <2>. QED
    BY <2>1, <1>10, FailedIs DEF SendFailed, ConsumerNext, Reads
<1>11. ASSUME NEW c \in Contexts, SendError(c) PROVE UNCHANGED consumerVars
  <2>1. Same
    BY <1>11 DEF SendError, Same
  <2>. QED
    BY <2>1, <1>11, SameIs DEF SendError
<1>12. ASSUME NEW c \in Contexts, Record(c) PROVE UNCHANGED consumerVars
  <2>1. Same
    BY <1>12 DEF Record, Same
  <2>. QED
    BY <2>1, <1>12, SameIs DEF Record
<1>13. ASSUME NEW c \in Contexts, ErrorLink(c) PROVE ConsumerNext
  <2>1. /\ ConsumerPc = "read" /\ ConsumerPc' = "refused"
        /\ name["handler"] \in queue /\ error' = error \cup {name["handler"]}
        /\ UNCHANGED <<sigusr1, ToRead, name["handler"], DataBuf, ReadedFileList>>
    BY <1>13 DEF ErrorLink
  <2>. QED
    BY <2>1, <1>13, ErrorIs DEF ErrorLink, ConsumerNext, Refuses
<1>14. ASSUME NEW c \in Contexts, ErrorUnlink(c) PROVE ConsumerNext
  <2>1. /\ ConsumerPc = "refused" /\ ConsumerPc' = "scan"
        /\ name["handler"] \in Files /\ queue' = queue \ {name["handler"]}
        /\ UNCHANGED <<sigusr1, ToRead, name["handler"], DataBuf, ReadedFileList>>
    BY <1>14 DEF ErrorUnlink
  <2>. QED
    BY <2>1, <1>14, UnlinkIs DEF ErrorUnlink, ConsumerNext, Removes
<1>15. ASSUME NEW c \in Contexts, NEW f \in Files, ClearLink(c, f) PROVE ConsumerNext
  <2>1. /\ ConsumerPc = "clear" /\ ConsumerPc' = "kept"
        /\ f \in ReadedFileList /\ backup' = backup \cup ({f} \cap queue)
        /\ name'["handler"] = f /\ UNCHANGED <<sigusr1, ToRead, DataBuf, ReadedFileList>>
    BY <1>15 DEF ClearLink
  <2>. QED
    BY <2>1, <1>15, ClearLinkIs DEF ClearLink, ConsumerNext, Keeps
<1>16. ASSUME NEW c \in Contexts, ClearUnlink(c) PROVE ConsumerNext
  <2>1. /\ ConsumerPc = "kept" /\ ConsumerPc' = "clear"
        /\ name["handler"] \in Files /\ queue' = queue \ {name["handler"]}
        /\ ReadedFileList' = ReadedFileList \ {name["handler"]}
        /\ UNCHANGED <<sigusr1, ToRead, name["handler"], DataBuf>>
    BY <1>16 DEF ClearUnlink
  <2>. QED
    BY <2>1, <1>16, ClearUnlinkIs DEF ClearUnlink, ConsumerNext, Removes
<1>17. CASE Return
  <2>1. /\ ConsumerPc = "clear" /\ ConsumerPc' = "idle" /\ ReadedFileList = {}
        /\ UNCHANGED <<sigusr1, ToRead, name["handler"], DataBuf, ReadedFileList>>
    BY <1>17 DEF Return, Closed
  <2>. QED
    BY <2>1, <1>17, ReturnIs DEF Return, Closed, ConsumerNext, Reads
<1>18. ~ ReturnMain /\ ~ Crash
  BY DEF ReturnMain, Crash
<1>19. ASSUME NEW c \in Contexts, ErrorLinkFails(c) PROVE ConsumerNext
  <2>1. /\ ConsumerPc = "read" /\ ConsumerPc' = "refused"
        /\ name["handler"] \in queue /\ error' = error /\ unkept' = unkept \cup {name["handler"]}
        /\ UNCHANGED <<sigusr1, ToRead, name["handler"], DataBuf, ReadedFileList>>
    BY <1>19 DEF ErrorLinkFails
  <2>. QED
    BY <2>1, <1>19, ErrorFailsIs DEF ErrorLinkFails, ConsumerNext, Refuses
<1>20. ASSUME NEW c \in Contexts, NEW f \in Files, ClearLinkFails(c, f) PROVE ConsumerNext
  <2>1. /\ ConsumerPc = "clear" /\ ConsumerPc' = "kept"
        /\ f \in ReadedFileList /\ f \in queue /\ unkept' = unkept \cup {f} /\ backup' = backup
        /\ name'["handler"] = f /\ UNCHANGED <<sigusr1, ToRead, DataBuf, ReadedFileList>>
    BY <1>20 DEF ClearLinkFails
  <2>. QED
    BY <2>1, <1>20, ClearFailsIs DEF ClearLinkFails, ConsumerNext, Keeps
<1>. QED
  BY <1>1, <1>2, <1>3, <1>4, <1>5, <1>6, <1>7, <1>8, <1>9, <1>10, <1>11, <1>12, <1>13,
     <1>14, <1>15, <1>16, <1>17, <1>18, <1>19, <1>20
  DEF Next, Step, Scan, Send, Clear, Finish, ConsumerNext

(* A session in which the handler alone calls OnNotify is the consumer of  *)
(* the module StorageNotify, which Pipeline composes with the relay: each  *)
(* step on m_currFilename, m_pDataBuf, m_readedFileList and the two paths  *)
(* is one of the consumer's steps on the directories, or nothing.          *)
THEOREM ConsumerRefined == Spec => HandlerIsConsumer
<1>1. Init => Storage!NotifyInit
  <2> SUFFICES ASSUME Init PROVE Storage!NotifyInit
      OBVIOUS
  <2>1. /\ ConsumerPc = "down" /\ sigusr1 = {} /\ ToRead = {} /\ name["handler"] = None
        /\ DataBuf = None /\ ReadedFileList = {}
    BY ViewsHold DEF Init, Views, NotRunning, Contexts
  <2>. QED
    BY <2>1 DEF Storage!NotifyInit, Of
<1>2. NotifyInvariant /\ AloneInvariant /\ [Next]_vars => [~startup => ConsumerNext]_consumerVars
  <2> SUFFICES ASSUME NotifyInvariant, AloneInvariant, [Next]_vars, ~startup
               PROVE  ConsumerNext \/ UNCHANGED consumerVars
      OBVIOUS
  <2>1. CASE Next
    BY <2>1, StepConsumer DEF AloneInvariant
  <2>2. CASE UNCHANGED vars
    <3>1. Same
      BY <2>2 DEF vars, files, locals, storage, Same, ConsumerPc, ToRead, DataBuf, ReadedFileList
    <3>. QED
      BY <2>2, <3>1, SameIs DEF vars, files, history
  <2>. QED
    BY <2>1, <2>2
<1>. QED
  BY <1>1, <1>2, InvariantHolds, AloneHolds, PTL DEF Spec, HandlerIsConsumer

LEMMA InitListed == Init => SentIsListed
  BY NotifyAssumption DEF Init, SentIsListed, NotRunning, Contexts

LEMMA StepListed ==
  NotifyInvariant /\ AloneInvariant /\ SentIsListed /\ [Next]_vars
    => SentIsListed'
<1> SUFFICES ASSUME NotifyInvariant, AloneInvariant, SentIsListed,
                    [Next]_vars
             PROVE  SentIsListed'
    OBVIOUS
<1> USE NotifyAssumption
    DEF NotifyInvariant, TypeOK, AloneInvariant, HandlerAlone, Scanning, SentIsListed,
        Labels, Contexts, NULL, Runs, Goto, Alive, files, locals, storage, history
<1>1. CASE \E f \in Files : Arrive(f)
  BY <1>1, SMTT(20) DEF Arrive
<1>2. CASE Start
  BY <1>2, SMTT(20) DEF Start
<1>3. CASE Notify
  BY <1>3, SMTT(20) DEF Notify
<1>4. CASE Die
  BY <1>4, SMTT(20) DEF Die, NotRunning
<1>5. ASSUME NEW c \in Contexts, OpenDir(c) PROVE SentIsListed'
  BY <1>5, SMTT(20) DEF OpenDir
<1>6. ASSUME NEW c \in Contexts, NEW f \in Files, ReadDir(c, f) PROVE SentIsListed'
  BY <1>6, SMTT(20) DEF ReadDir
<1>7. ASSUME NEW c \in Contexts, EndOfDirectory(c) PROVE SentIsListed'
  BY <1>7, SMTT(20) DEF EndOfDirectory
<1>8. ASSUME NEW c \in Contexts, ReadFile(c) PROVE SentIsListed'
  BY <1>8, SMTT(20) DEF ReadFile
<1>9. ASSUME NEW c \in Contexts, Copy(c) PROVE SentIsListed'
  BY <1>9, SMTT(20) DEF Copy
<1>10. ASSUME NEW c \in Contexts, SendSuccess(c) PROVE SentIsListed'
  BY <1>10, SMTT(20) DEF SendSuccess
<1>11. ASSUME NEW c \in Contexts, SendFailed(c) PROVE SentIsListed'
  BY <1>11, SMTT(20) DEF SendFailed
<1>12. ASSUME NEW c \in Contexts, SendError(c) PROVE SentIsListed'
  BY <1>12, SMTT(20) DEF SendError
<1>13. ASSUME NEW c \in Contexts, Record(c) PROVE SentIsListed'
  BY <1>13, SMTT(20) DEF Record
<1>14. ASSUME NEW c \in Contexts, ErrorLink(c) PROVE SentIsListed'
  BY <1>14, SMTT(20) DEF ErrorLink
<1>15. ASSUME NEW c \in Contexts, ErrorUnlink(c) PROVE SentIsListed'
  BY <1>15, SMTT(20) DEF ErrorUnlink
<1>16. ASSUME NEW c \in Contexts, NEW f \in Files, ClearLink(c, f) PROVE SentIsListed'
  BY <1>16, SMTT(20) DEF ClearLink
<1>17. ASSUME NEW c \in Contexts, ClearUnlink(c) PROVE SentIsListed'
  BY <1>17, SMTT(20) DEF ClearUnlink
<1>18. CASE Return
  BY <1>18, SMTT(20) DEF Return, Closed
<1>19. CASE ReturnMain
  BY <1>19, SMTT(20) DEF ReturnMain, Closed
<1>20. CASE Crash
  BY <1>20, SMTT(20) DEF Crash
<1>21. CASE UNCHANGED vars
  BY <1>21 DEF vars
<1>22. ASSUME NEW c \in Contexts, ErrorLinkFails(c) PROVE SentIsListed'
  BY <1>22, SMTT(20) DEF ErrorLinkFails
<1>23. ASSUME NEW c \in Contexts, NEW f \in Files, ClearLinkFails(c, f) PROVE SentIsListed'
  BY <1>23, SMTT(20) DEF ClearLinkFails
<1>. QED
  BY <1>1, <1>2, <1>3, <1>4, <1>5, <1>6, <1>7, <1>8, <1>9, <1>10, <1>11, <1>12, <1>13,
     <1>14, <1>15, <1>16, <1>17, <1>18, <1>19, <1>20, <1>21, <1>22, <1>23
  DEF Next, Step, Scan, Send, Clear, Finish

(* If main does not call OnNotify, no file is sent twice by one session.   *)
THEOREM SentOnce ==
  Spec => []TwiceNeedsRestart
<1>1. NotifyInvariant /\ SentIsListed => TwiceNeedsRestart
  BY NotifyAssumption DEF NotifyInvariant, TypeOK, SentIsListed, TwiceNeedsRestart
<1>2. NotifyInvariant /\ AloneInvariant /\ SentIsListed /\ [Next]_vars => SentIsListed'
  BY StepListed
<1>. QED BY <1>1, <1>2, InvariantHolds, AloneHolds, InitListed, PTL DEF Spec

-----------------------------------------------------------------------------
(* Induction, from the library's least elements: the theorem that says so  *)
(* takes a predicate as its parameter, this one a set.                     *)

LEMMA Least ==
  ASSUME NEW S, S \subseteq Nat, S # {}
  PROVE  \E n \in S : \A k \in S : n <= k
<1> DEFINE R == OpToRel(<, Nat)
<1>1. IsWellFoundedOn(R, Nat)
  BY NatLessThanWellFounded
<1>2. \A k, n \in Nat : k < n => <<k, n>> \in R
  BY DEF OpToRel
<1> HIDE DEF R
<1>3. PICK n \in S : \A k \in S : ~ (<<k, n>> \in R)
  BY <1>1, WFMin
<1>4. ASSUME NEW k \in S PROVE n <= k
  <2>1. n \in Nat /\ k \in Nat /\ ~ (k < n)
    BY <1>2, <1>3
  <2>. QED BY <2>1
<1>. QED
  BY <1>4

LEMMA Induction ==
  ASSUME NEW S, 0 \in S, \A n \in Nat : n \in S => n + 1 \in S
  PROVE  Nat \subseteq S
<1> DEFINE Missed == Nat \ S
<1> SUFFICES ASSUME Missed # {} PROVE FALSE
    OBVIOUS
<1>1. PICK n \in Missed : \A k \in Missed : n <= k
  <2>1. Missed \subseteq Nat
    OBVIOUS
  <2> HIDE DEF Missed
  <2>. QED BY <2>1, Least
<1>2. n \in Nat /\ n # 0 /\ n - 1 \in Nat
  OBVIOUS
<1>3. n - 1 \in S
  BY <1>1, <1>2
<1>. QED
  BY <1>2, <1>3

-----------------------------------------------------------------------------
(* WordSearch. *)

(* The recursive function of PatSpool has a value, and this is it.         *)
LEMMA SpoolIsDefined ==
  ASSUME NEW file
  PROVE  LET P == PatSpool(file)
         IN  (Len(file) \in Nat) =>
              P = [k \in 0..Len(file) |-> IF k = 0 THEN <<>> ELSE P[k - 1] \o Append(file[k], 0)]
<1> DEFINE Fills(f, n) ==
      f = [k \in 0..n |-> IF k = 0 THEN <<>> ELSE f[k - 1] \o Append(file[k], 0)]
<1> SUFFICES ASSUME Len(file) \in Nat
             PROVE  Fills(PatSpool(file), Len(file))
    OBVIOUS
<1> DEFINE Missed == {n \in Nat : ~ \E f : Fills(f, n)}
<1>1. Missed = {}
  <2> SUFFICES ASSUME Missed # {} PROVE FALSE
      OBVIOUS
  <2>1. PICK n \in Missed : \A k \in Missed : n <= k
    <3> HIDE DEF Missed
    <3>1. Missed \subseteq Nat
      BY DEF Missed
    <3>. QED BY <3>1, Least
  <2>0. n \in Nat
    OBVIOUS
  <2>2. CASE n = 0
    <3>1. Fills([k \in 0..0 |-> <<>>], 0)
      OBVIOUS
    <3>. QED
      BY <2>2, <3>1
  <2>3. CASE n # 0
    <3>1. n - 1 \in Nat /\ n - 1 \notin Missed
      <4> HIDE DEF Missed
      <4>. QED BY <2>0, <2>1, <2>3
    <3>2. PICK f : Fills(f, n - 1)
      BY <3>1
    <3> DEFINE g == [k \in 0..n |-> IF k < n THEN f[k] ELSE f[n - 1] \o Append(file[n], 0)]
    <3>3. \A k \in 0..(n - 1) : f[k] = IF k = 0 THEN <<>> ELSE f[k - 1] \o Append(file[k], 0)
      <4> HIDE DEF Missed
      <4>. QED BY <3>2, <3>1
    <3>4. ASSUME NEW k \in 0..n
          PROVE  g[k] = IF k = 0 THEN <<>> ELSE g[k - 1] \o Append(file[k], 0)
      <4> HIDE DEF Missed, Fills
      <4>1. CASE k < n
        <5>1. g[k] = f[k] /\ (k # 0 => g[k - 1] = f[k - 1])
          BY <4>1, <3>1, <2>0
        <5> HIDE DEF g
        <5>. QED BY <5>1, <4>1, <2>0, <3>1, <3>3
      <4>2. CASE k = n
        <5>1. g[n - 1] = f[n - 1] /\ g[n] = f[n - 1] \o Append(file[n], 0)
          BY <2>0, <2>3, <3>1
        <5> HIDE DEF g
        <5>. QED BY <5>1, <4>2, <2>0, <2>3
      <4>. QED BY <4>1, <4>2, <2>0
    <3>5. Fills(g, n)
      <4>1. g = [k \in 0..n |-> g[k]]
        OBVIOUS
      <4> HIDE DEF g, Missed
      <4>2. g = [k \in 0..n |-> IF k = 0 THEN <<>> ELSE g[k - 1] \o Append(file[k], 0)]
        BY <4>1, <3>4, Zenon
      <4>. QED BY <4>2
    <3>. QED BY <3>5
  <2>. QED BY <2>2, <2>3
<1>2. \E f : Fills(f, Len(file))
  BY <1>1
<1>3. PatSpool(file) = CHOOSE f : Fills(f, Len(file))
  BY DEF PatSpool
<1> HIDE DEF Fills
<1>. QED
  BY <1>2, <1>3

(* pat_spool grows, line after line, and keeps what it has.                *)
LEMMA SpoolGrows ==
  ASSUME NEW file \in Seq(Seq(LineBytes))
  PROVE  LET P == PatSpool(file) IN
         /\ P[0] = <<>>
         /\ \A k \in 0..Len(file) : P[k] \in Seq(Bytes)
         /\ \A k \in 0..(Len(file) - 1) : P[k + 1] = P[k] \o Append(file[k + 1], 0)
         /\ \A k, l \in 0..Len(file) : k <= l =>
              /\ Len(P[k]) <= Len(P[l])
              /\ \A i \in 1..Len(P[k]) : P[l][i] = P[k][i]
<1> DEFINE P == PatSpool(file)
           N == Len(file)
<1>0. N \in Nat
  OBVIOUS
<1>1. P = [k \in 0..N |-> IF k = 0 THEN <<>> ELSE P[k - 1] \o Append(file[k], 0)]
  BY <1>0, SpoolIsDefined
<1> HIDE DEF P, N
<1>2. P[0] = <<>>
  BY <1>0, <1>1
<1>3. ASSUME NEW k \in 0..(N - 1) PROVE P[k + 1] = P[k] \o Append(file[k + 1], 0)
  <2>1. k + 1 \in 0..N /\ k + 1 # 0 /\ k + 1 - 1 = k
    BY <1>0
  <2>2. ASSUME NEW l, l = k + 1 PROVE P[l] = P[k] \o Append(file[l], 0)
    <3>1. l \in 0..N /\ l # 0 /\ l - 1 = k
      BY <2>1, <2>2
    <3>2. P[l] = P[l - 1] \o Append(file[l], 0)
      BY <1>1, <3>1, Zenon
    <3>. QED BY <3>1, <3>2
  <2>. QED BY <2>2
<1>4. \A k \in 1..N : Append(file[k], 0) \in Seq(Bytes)
  BY DEF N, Bytes, LineBytes
<1>5. \A k \in 0..N : P[k] \in Seq(Bytes)
  <2> DEFINE S == {k \in Nat : k <= N => P[k] \in Seq(Bytes)}
  <2>1. 0 \in S
    <3>1. <<>> \in Seq(Bytes)
      OBVIOUS
    <3>. QED BY <1>2, <3>1
  <2>2. ASSUME NEW k \in Nat, k \in S PROVE k + 1 \in S
    <3>1. CASE k + 1 <= N
      <4>1. P[k] \in Seq(Bytes) /\ k + 1 \in 1..N
        BY <1>0, <2>2, <3>1
      <4>a. k \in 0..(N - 1)
        BY <1>0, <3>1
      <4>2. P[k + 1] = P[k] \o Append(file[k + 1], 0)
        BY <1>3, <4>a
      <4>3. Append(file[k + 1], 0) \in Seq(Bytes)
        BY <1>4, <4>1
      <4>4. P[k + 1] \in Seq(Bytes)
        BY <4>1, <4>2, <4>3
      <4>. QED BY <4>4
    <3>. QED BY <3>1, <1>0
  <2> HIDE DEF S
  <2>3. Nat \subseteq S
    BY <2>1, <2>2, Induction
  <2>. QED BY <2>3, <1>0 DEF S
<1>6. \A k, l \in 0..N : k <= l =>
              /\ Len(P[k]) <= Len(P[l])
              /\ \A i \in 1..Len(P[k]) : P[l][i] = P[k][i]
  <2> SUFFICES ASSUME NEW k \in 0..N
               PROVE  \A l \in 0..N : k <= l =>
                        Len(P[k]) <= Len(P[l]) /\ \A i \in 1..Len(P[k]) : P[l][i] = P[k][i]
      OBVIOUS
  <2> DEFINE Extends(l) == Len(P[k]) <= Len(P[l]) /\ \A i \in 1..Len(P[k]) : P[l][i] = P[k][i]
             S == {l \in Nat : k <= l /\ l <= N => Extends(l)}
  <2>1. 0 \in S
    BY <1>0, <1>5
  <2>2. ASSUME NEW l \in Nat, l \in S PROVE l + 1 \in S
    <3> SUFFICES ASSUME k <= l + 1, l + 1 <= N PROVE Extends(l + 1)
        OBVIOUS
    <3>1. CASE k = l + 1
      <4>1. P[k] \in Seq(Bytes)
        BY <1>5
      <4>. QED BY <3>1, <4>1
    <3>2. CASE k # l + 1
      <4>1. k <= l /\ l <= N /\ l + 1 \in 1..N /\ l \in 0..N
        BY <3>2, <1>0
      <4>2. Extends(l)
        BY <2>2, <4>1
      <4>a. l \in 0..(N - 1)
        BY <1>0, <4>1
      <4>3. P[l + 1] = P[l] \o Append(file[l + 1], 0)
        BY <1>3, <4>a
      <4>4. P[k] \in Seq(Bytes) /\ P[l] \in Seq(Bytes) /\ Append(file[l + 1], 0) \in Seq(Bytes)
        BY <1>4, <1>5, <4>1
      <4>5. Len(P[l]) <= Len(P[l + 1]) /\ \A i \in 1..Len(P[l]) : P[l + 1][i] = P[l][i]
        <5> DEFINE more == Append(file[l + 1], 0)
        <5>1. P[l] \in Seq(Bytes) /\ more \in Seq(Bytes) /\ P[l + 1] = P[l] \o more
          BY <4>3, <4>4
        <5> HIDE DEF more
        <5>. QED BY <5>1
      <4>. QED BY <4>2, <4>4, <4>5
    <3>. QED BY <3>1, <3>2
  <2> HIDE DEF S
  <2>3. Nat \subseteq S
    BY <2>1, <2>2, Induction
  <2>. QED BY <2>3, <1>0 DEF S
<1>. QED
  BY <1>2, <1>3, <1>5, <1>6 DEF P, N

(* The parts of an image: pattern k is line k, and pattern 0 as bytes the  *)
(* first.                                                                  *)
LEMMA ImageParts ==
  ASSUME NEW file, WordFile(file)
  PROVE  LET im == Image(file) IN
         /\ im.file = file
         /\ im.p_size = Size(file)
         /\ im.SHORT = (Size(file) = 1)
         /\ im.LONG \in BOOLEAN /\ (im.LONG => Size(file) > 2)
         /\ im.pat_len[0] = 0
         /\ \A k \in 1..Len(file) : im.pat_len[k] = Len(file[k])
         /\ \A k \in 1..Len(file) : \A i \in 1..Len(file[k]) : Pattern(im, k)[i] = file[k][i]
         /\ Len(file) > 0 => Pattern(im, 0) = Pattern(im, 1)
<1> DEFINE P == PatSpool(file)
           im == Image(file)
           N == Len(file)
<1>0. N \in Nat /\ file \in Seq(Seq(LineBytes)) /\ DOMAIN file = 1..N
  BY DEF WordFile
<1>a. /\ P[0] = <<>>
      /\ \A k \in 0..Len(file) : P[k] \in Seq(Bytes)
      /\ \A k \in 0..(Len(file) - 1) : P[k + 1] = P[k] \o Append(file[k + 1], 0)
      /\ \A k, l \in 0..Len(file) : k <= l =>
              /\ Len(P[k]) <= Len(P[l])
              /\ \A i \in 1..Len(P[k]) : P[l][i] = P[k][i]
  BY <1>0, SpoolGrows
<1> HIDE DEF P
<1>1. /\ im.file = file /\ im.p_size = Size(file) /\ im.SHORT = (Size(file) = 1)
      /\ im.LONG = (Len(P[Len(file)]) > LONGFILE /\ Size(file) > 2)
      /\ im.spool = P[Len(file)] \o <<19>>
      /\ im.patt = [k \in 0..Len(file) |-> IF k = 0 THEN 0 ELSE Len(P[k - 1])]
      /\ im.pat_len = [k \in 0..Len(file) |-> IF k = 0 THEN 0 ELSE Len(file[k])]
  BY DEF Image, P
<1> HIDE DEF im
<1>2. im.LONG \in BOOLEAN /\ (im.LONG => Size(file) > 2)
  BY <1>1
<1>3. im.pat_len[0] = 0 /\ \A k \in 1..N : im.pat_len[k] = Len(file[k])
  BY <1>0, <1>1
<1>4. ASSUME NEW k \in 1..N, NEW i \in 1..Len(file[k])
      PROVE  Pattern(im, k)[i] = file[k][i]
  <2>1. im.patt[k] = Len(P[k - 1])
    BY <1>0, <1>1
  <2>2. /\ P[k - 1] \in Seq(Bytes) /\ P[k] \in Seq(Bytes) /\ P[N] \in Seq(Bytes)
        /\ file[k] \in Seq(LineBytes)
    <3>1. k - 1 \in 0..N /\ k \in 0..N /\ N \in 0..N
      BY <1>0
    <3>2. file[k] \in Seq(LineBytes)
      BY <1>0
    <3>. QED BY <3>1, <3>2, <1>a
  <2>3. P[k] = P[k - 1] \o Append(file[k], 0)
    <3>1. k - 1 \in 0..(N - 1) /\ k - 1 + 1 = k
      BY <1>0
    <3>2. P[k - 1 + 1] = P[k - 1] \o Append(file[k - 1 + 1], 0)
      BY <1>a, <3>1
    <3>. QED BY <3>1, <3>2
  <2>4. /\ Len(P[k - 1]) + i \in 1..Len(P[k])
        /\ P[k][Len(P[k - 1]) + i] = file[k][i]
    <3>1. Append(file[k], 0) \in Seq(Bytes) /\ Len(Append(file[k], 0)) = Len(file[k]) + 1
      BY <2>2 DEF Bytes, LineBytes
    <3>2. Append(file[k], 0)[i] = file[k][i]
      BY <2>2
    <3> DEFINE more == Append(file[k], 0)
               before == P[k - 1]
    <3>3. /\ more \in Seq(Bytes) /\ Len(more) = Len(file[k]) + 1 /\ more[i] = file[k][i]
          /\ before \in Seq(Bytes) /\ P[k] = before \o more /\ Len(file[k]) \in Nat
      BY <2>2, <2>3, <3>1, <3>2
    <3> HIDE DEF more, before
    <3>4. i \in 1..Len(more)
      BY <3>3
    <3>5. /\ Len(before) + i \in 1..Len(P[k])
          /\ P[k][Len(before) + i] = file[k][i]
      BY <3>3, <3>4
    <3>. QED BY <3>5 DEF before
  <2>5. /\ Len(P[k]) <= Len(P[N])
        /\ \A j \in 1..Len(P[k]) : P[N][j] = P[k][j]
    BY <1>0, <1>a
  <2>6. Len(im.spool) = Len(P[N]) + 1 /\ \A j \in 1..Len(P[N]) : im.spool[j] = P[N][j]
    BY <1>1, <2>2
  <2>7. im.patt[k] + i <= Len(im.spool) /\ im.spool[im.patt[k] + i] = file[k][i]
    <3> DEFINE x == Len(P[k - 1]) + i
    <3>1. x \in 1..Len(P[k]) /\ P[k][x] = file[k][i]
      BY <2>4
    <3> HIDE DEF x
    <3>2. Len(P[k]) \in Nat /\ Len(P[N]) \in Nat
      BY <2>2
    <3>3. x \in 1..Len(P[N]) /\ P[N][x] = P[k][x]
      BY <2>5, <3>1, <3>2
    <3>4. x <= Len(im.spool) /\ im.spool[x] = file[k][i]
      BY <2>6, <3>1, <3>2, <3>3
    <3>. QED BY <2>1, <3>4 DEF x
  <2>8. i \in 1..MAXPAT
    <3>0. k \in DOMAIN file
      BY <1>0
    <3>1. Len(file[k]) < 256
      BY <3>0 DEF WordFile, MAXPAT
    <3>2. Len(file[k]) \in Nat
      BY <2>2
    <3>. QED BY <3>1, <3>2 DEF MAXPAT
  <2>. QED BY <2>7, <2>8 DEF Pattern
<1>5. N > 0 => Pattern(im, 0) = Pattern(im, 1)
  <2>1. N > 0 => im.patt[0] = 0 /\ im.patt[1] = 0
    BY <1>0, <1>1, <1>a
  <2>. QED BY <2>1 DEF Pattern
<1>. QED
  BY <1>1, <1>2, <1>3, <1>4, <1>5 DEF im

(* p_size is that of the shortest line, but for empty ones.                *)
LEMMA SizeIsLeast ==
  ASSUME NEW file, WordFile(file)
  PROVE  /\ Size(file) \in 1..MAXPAT
         /\ \A k \in 1..Len(file) : Len(file[k]) # 0 => Size(file) <= Len(file[k])
         /\ Size(file) = 1 => OneByte(file)
<1> DEFINE lengths == {Len(file[k]) : k \in DOMAIN file} \ {0}
           S == lengths \cup {MAXPAT}
<1>1. \A k \in 1..Len(file) : Len(file[k]) \in Nat
  BY DEF WordFile, LineBytes
<1>2. DOMAIN file = 1..Len(file)
  BY DEF WordFile
<1>3. S \subseteq 1..MAXPAT /\ S # {}
  <2>1. \A k \in 1..Len(file) : Len(file[k]) < 256
    BY <1>2 DEF WordFile, MAXPAT
  <2>2. lengths \subseteq 1..256
    <3> SUFFICES ASSUME NEW k \in 1..Len(file), Len(file[k]) # 0
                 PROVE  Len(file[k]) \in 1..256
        BY <1>2
    <3>1. Len(file[k]) \in Nat /\ Len(file[k]) < 256
      BY <1>1, <2>1
    <3>2. \A n \in Nat : n # 0 /\ n < 256 => n \in 1..256
      OBVIOUS
    <3>. QED BY <3>1, <3>2, Zenon
  <2> HIDE DEF lengths
  <2>. QED BY <2>2, SMT DEF MAXPAT
<1>4. \E n \in S : \A l \in S : n <= l
  <2>1. S \subseteq Nat
    BY <1>3 DEF MAXPAT
  <2> HIDE DEF S
  <2>. QED BY <1>3, <2>1, Least
<1>5. Size(file) \in S /\ \A l \in S : Size(file) <= l
  <2>1. Size(file) = CHOOSE n \in S : \A l \in S : n <= l
    BY DEF Size
  <2> HIDE DEF S
  <2>. QED BY <2>1, <1>4
<1>6. \A k \in 1..Len(file) : Len(file[k]) # 0 => Len(file[k]) \in S
  BY <1>2
<1>7. Size(file) = 1 => \E k \in DOMAIN file : Len(file[k]) = 1
  <2>1. Size(file) = 1 => Size(file) \in lengths
    BY <1>5 DEF MAXPAT
  <2>. QED BY <2>1
<1> HIDE DEF S
<1>. QED
  BY <1>3, <1>5, <1>6, <1>7 DEF OneByte, Lines

(* The window moves no farther than to a place of its bytes in a pattern.  *)
LEMMA ShiftBounds ==
  ASSUME NEW im, im.p_size \in Nat, im.p_size >= 2, NEW gram
  PROVE  LET m     == im.p_size
             first == IF im.LONG THEN 2 ELSE 1
         IN  /\ Shift(im, gram) \in 0..(m - 2)
             /\ \A i \in first..(m - 1) : \A k \in DOMAIN im.file :
                  gram = Gram(im, Pattern(im, k), i) => Shift(im, gram) <= m - 1 - i
<1> DEFINE m == im.p_size
           first == IF im.LONG THEN 2 ELSE 1
           found == {i \in first..(m - 1) : \E k \in DOMAIN im.file :
                       gram = Gram(im, Pattern(im, k), i)}
           S == {m - 1 - i : i \in found} \cup {m - 2}
<1>0. Shift(im, gram) = CHOOSE s \in S : \A i \in found : s <= m - 1 - i
  BY DEF Shift
<1>1. m \in Nat /\ m >= 2 /\ first \in 1..2
  OBVIOUS
<1>2. found \subseteq first..(m - 1)
  OBVIOUS
<1>a. \A i \in first..(m - 1) : \A k \in DOMAIN im.file :
                  gram = Gram(im, Pattern(im, k), i) => i \in found
  OBVIOUS
<1> HIDE DEF found, m, first
<1>3. S \subseteq 0..(m - 2) /\ S # {}
  BY <1>1, <1>2
<1>4. \E s \in S : \A l \in S : s <= l
  <2>1. S \subseteq Nat
    BY <1>1, <1>3
  <2> HIDE DEF S
  <2>. QED BY <1>3, <2>1, Least
<1>5. \E s \in S : \A i \in found : s <= m - 1 - i
  BY <1>4
<1>6. Shift(im, gram) \in S /\ \A i \in found : Shift(im, gram) <= m - 1 - i
  <2> HIDE DEF S
  <2>. QED BY <1>0, <1>5
<1>. QED
  <2>1. Shift(im, gram) \in 0..(m - 2)
    <3> HIDE DEF S
    <3>. QED BY <1>3, <1>6
  <2>. QED BY <2>1, <1>6, <1>a DEF m, first

(* The recursive function of monkey1 has a value, and this is what it says *)
(* of each place.                                                          *)
LEMMA WindowMoves ==
  ASSUME NEW im, im.p_size \in Nat, im.p_size >= 2, NEW memory, NEW num \in Nat
  PROVE  \E found :
           /\ monkey1(im, memory, num) = found[im.p_size - 1]
           /\ \A t \in 0..(num + im.p_size) :
                LET shift == Shift(im, Gram(im, memory, t)) IN
                /\ t >= num => ~ found[t]
                /\ t < num /\ shift > 0 => (found[t] <=> found[t + shift])
                /\ t < num /\ ~ (shift > 0) =>
                     (found[t] <=> FoundAt(im, memory, t - (im.p_size - 1)) \/ found[t + 1])
<1> DEFINE m == im.p_size
           E == num + m
           shift(t) == Shift(im, Gram(im, memory, t))
           hit(t) == FoundAt(im, memory, t - (m - 1))
           Body(f, t) == IF t >= num THEN FALSE
                         ELSE IF shift(t) > 0 THEN f[t + shift(t)]
                         ELSE hit(t) \/ f[t + 1]
           Fills(f, n) == f = [t \in (E - n)..E |-> Body(f, t)]
           Filled(n) == \E f : Fills(f, n)
           S == {n \in Nat : n <= E => Filled(n)}
<1>a. monkey1(im, memory, num) = (CHOOSE f : f = [t \in 0..E |-> Body(f, t)])[m - 1]
  BY DEF monkey1
<1>b. num <= E /\ E \in Nat
  OBVIOUS
<1>c. \A t \in 0..E : t < num => shift(t) \in Nat /\ t + shift(t) <= E
  <2> SUFFICES ASSUME NEW t \in 0..E, t < num
               PROVE  shift(t) \in Nat /\ t + shift(t) <= E
      OBVIOUS
  <2>1. shift(t) \in 0..(m - 2)
    BY ShiftBounds
  <2> HIDE DEF shift
  <2>. QED BY <2>1
<1> HIDE DEF E, m, shift, hit
<1>1. Filled(0)
  <2>1. \A t \in (E - 0)..E : t >= num
    BY <1>b
  <2> DEFINE g == [t \in (E - 0)..E |-> FALSE]
  <2>2. \A t \in (E - 0)..E : FALSE = Body(g, t)
    BY <2>1
  <2>3. g = [t \in (E - 0)..E |-> Body(g, t)]
    <3> HIDE DEF Body
    <3>. QED BY <2>2, Zenon
  <2> HIDE DEF Body
  <2>. QED BY <2>3
<1>2. ASSUME NEW n \in Nat, n + 1 <= E, Filled(n) PROVE Filled(n + 1)
  <2>1. PICK f : Fills(f, n)
    BY <1>2
  <2> DEFINE first == E - (n + 1)
             g == [t \in first..E |-> IF t = first THEN Body(f, t) ELSE f[t]]
  <2>2. first \in 0..E /\ first + 1 = E - n /\ first < E
    BY <1>b, <1>2
  <2>a. \A t \in (E - n)..E : t \in first..E /\ t # first
    <3> HIDE DEF first
    <3>. QED BY <1>b, <2>2
  <2>3. \A t \in (E - n)..E : t \in first..E /\ t # first /\ g[t] = f[t]
    <3> HIDE DEF first, Body
    <3>. QED BY <2>a, Zenon
  <2>4. \A t \in first..E : t < num => /\ t + 1 \in (E - n)..E
                                       /\ shift(t) > 0 => t + shift(t) \in (E - n)..E
    <3> SUFFICES ASSUME NEW t \in first..E, t < num
                 PROVE  t + 1 \in (E - n)..E /\ (shift(t) > 0 => t + shift(t) \in (E - n)..E)
        OBVIOUS
    <3> HIDE DEF first
    <3>1. shift(t) \in Nat /\ t + shift(t) <= E /\ t \in Int /\ first <= t
      BY <1>b, <1>c, <2>2
    <3>. QED BY <1>b, <1>2, <2>2, <3>1
  <2>5. \A t \in first..E : Body(g, t) = Body(f, t)
    <3> SUFFICES ASSUME NEW t \in first..E PROVE Body(g, t) = Body(f, t)
        OBVIOUS
    <3> HIDE DEF first, g
    <3>1. CASE t < num
      <4>1. g[t + 1] = f[t + 1] /\ (shift(t) > 0 => g[t + shift(t)] = f[t + shift(t)])
        BY <3>1, <2>3, <2>4
      <4>. QED BY <4>1
    <3>2. CASE ~ (t < num)
      <4>1. t >= num
        BY <2>2, <3>2
      <4>. QED BY <4>1, Zenon
    <3>. QED BY <3>1, <3>2
  <2>6. \A t \in (E - n)..E : f[t] = Body(f, t)
    BY <2>1, Zenon
  <2>7. \A t \in first..E : t # first => t \in (E - n)..E
    <3> HIDE DEF first
    <3>. QED BY <1>b, <2>2
  <2>8. \A t \in first..E : (IF t = first THEN Body(f, t) ELSE f[t]) = Body(g, t)
    <3> HIDE DEF first, g, Body
    <3>. QED BY <2>5, <2>6, <2>7, Zenon
  <2>9. g = [t \in first..E |-> Body(g, t)]
    <3> HIDE DEF Body
    <3>. QED BY <2>8, Zenon
  <2> HIDE DEF g, Body
  <2>. QED BY <2>9
<1>3. Filled(E)
  <2> HIDE DEF Filled
  <2>1. 0 \in S /\ \A n \in Nat : n \in S => n + 1 \in S
    BY <1>1, <1>2, <1>b
  <2> HIDE DEF S
  <2>2. Nat \subseteq S
    BY <2>1, Induction
  <2>. QED BY <1>b, <2>2 DEF S
<1>4. \E f : f = [t \in 0..E |-> Body(f, t)]
  <2>1. E - E = 0
    BY <1>b
  <2> HIDE DEF Body
  <2>. QED BY <1>3, <2>1
<1> DEFINE found == CHOOSE f : f = [t \in 0..E |-> Body(f, t)]
<1>5. found = [t \in 0..E |-> Body(found, t)]
  <2> HIDE DEF Body
  <2>. QED BY <1>4
<1>6. \A t \in 0..E : found[t] = Body(found, t)
  <2> HIDE DEF found, Body
  <2>. QED BY <1>5, Zenon
<1>7. monkey1(im, memory, num) = found[m - 1]
  BY <1>a
<1> HIDE DEF found
<1>8. \A t \in 0..E :
        /\ t >= num => ~ found[t]
        /\ t < num /\ shift(t) > 0 => (found[t] <=> found[t + shift(t)])
        /\ t < num /\ ~ (shift(t) > 0) => (found[t] <=> hit(t) \/ found[t + 1])
  <2> SUFFICES ASSUME NEW t \in 0..E
               PROVE  /\ t >= num => ~ found[t]
                      /\ t < num /\ shift(t) > 0 => (found[t] <=> found[t + shift(t)])
                      /\ t < num /\ ~ (shift(t) > 0) => (found[t] <=> hit(t) \/ found[t + 1])
      OBVIOUS
  <2>1. found[t] = Body(found, t)
    BY <1>6
  <2>2. t < num => ~ (t >= num)
    BY <1>b
  <2>. QED BY <2>1, <2>2
<1>. QED
  BY <1>7, <1>8 DEF E, m, shift, hit

(* Without a line of one byte, the window has two bytes or more. *)
LEMMA WindowSize ==
  ASSUME NEW file, WordFile(file), ~ OneByte(file)
  PROVE  /\ Image(file).p_size = Size(file)
         /\ Image(file).p_size \in Nat /\ Image(file).p_size >= 2 /\ Image(file).p_size <= MAXPAT
         /\ ~ Image(file).SHORT
<1>1. Size(file) \in 1..MAXPAT /\ Size(file) # 1
  BY SizeIsLeast
<1>2. Size(file) \in Nat /\ Size(file) >= 2 /\ Size(file) <= MAXPAT
  BY <1>1 DEF MAXPAT
<1> DEFINE im == Image(file)
<1>3. im.p_size = Size(file) /\ im.SHORT = (Size(file) = 1)
  BY ImageParts
<1> HIDE DEF im
<1>4. ~ im.SHORT
  BY <1>1, <1>3
<1>. QED BY <1>2, <1>3, <1>4 DEF im

(* What is found at a place is a word there, also for an empty bucket,     *)
(* whose pattern 0 never agrees.                                           *)
LEMMA FoundIsWord ==
  ASSUME NEW file, WordFile(file), ~ OneByte(file), \A k \in DOMAIN file : Len(file[k]) # 0,
         NEW memory \in Seq(Bytes), NEW t \in Nat,
         Len(file) > 0, FoundAt(Image(file), memory, t)
  PROVE  HasWord(file, memory)
<1> DEFINE im == Image(file)
           m == im.p_size
           N == Len(file)
           found == {k \in DOMAIN im.file : Bucket(im, Pattern(im, k), 0) = Bucket(im, memory, t)}
<1>1. N \in Nat \ {0} /\ file \in Seq(Seq(LineBytes)) /\ DOMAIN file = 1..N
  BY DEF WordFile
<1>2. /\ im.file = file
      /\ im.pat_len[0] = 0
      /\ \A k \in 1..N : im.pat_len[k] = Len(file[k])
      /\ \A k \in 1..N : \A i \in 1..Len(file[k]) : Pattern(im, k)[i] = file[k][i]
      /\ Pattern(im, 0) = Pattern(im, 1)
      /\ m = Size(file)
  BY ImageParts
<1>3. m \in Nat /\ m >= 2
  BY WindowSize
<1>4. \A k \in 1..N : Len(file[k]) \in Nat
  BY <1>1
<1>5. PICK k \in OrPatternZero(found) :
           Agrees(im, memory, k, t, IF im.pat_len[k] < m THEN m ELSE im.pat_len[k])
  BY DEF FoundAt
<1>6. Len(memory) \in Nat
  OBVIOUS
<1>a. found \subseteq 1..N
  BY <1>1, <1>2
<1>b. 1 \in 1..N /\ (Bucket(im, Pattern(im, 1), 0) = Bucket(im, memory, t) => 1 \in found)
  BY <1>1, <1>2
<1> HIDE DEF im, m, found
<1>7. CASE k \in 1..N
  <2>1. Agrees(im, memory, k, t, Len(file[k]))
    <3>1. \A j \in 0..(Len(file[k]) - 1) :
            j \in 0..((IF im.pat_len[k] < m THEN m ELSE im.pat_len[k]) - 1)
      BY <1>2, <1>3, <1>4, <1>7
    <3>. QED BY <1>5, <3>1 DEF Agrees
  <2>2. Len(file[k]) \in Nat \ {0} /\ file[k] # <<>> /\ k \in DOMAIN file
    BY <1>1, <1>4, <1>7
  <2>3. t + (Len(file[k]) - 1) < Len(memory)
    <3>1. Len(file[k]) - 1 \in 0..(Len(file[k]) - 1)
      BY <2>2
    <3>. QED BY <2>1, <3>1 DEF Agrees
  <2>4. \A j \in 1..Len(file[k]) : tr(memory[t + j]) = tr(file[k][j])
    <3> SUFFICES ASSUME NEW j \in 1..Len(file[k]) PROVE tr(memory[t + j]) = tr(file[k][j])
        OBVIOUS
    <3> DEFINE i == j - 1
    <3>1. i \in 0..(Len(file[k]) - 1) /\ i + 1 = j /\ t + i + 1 = t + j
      BY <2>2
    <3> HIDE DEF i
    <3>2. tr(memory[t + i + 1]) = tr(Pattern(im, k)[i + 1])
      BY <2>1, <3>1 DEF Agrees
    <3>. QED BY <1>2, <1>7, <3>1, <3>2
  <2>5. t \in 0..Len(memory) /\ t + Len(file[k]) <= Len(memory)
    BY <1>6, <2>2, <2>3
  <2>. QED BY <2>2, <2>4, <2>5 DEF HasWord
<1>8. CASE k \notin 1..N
  <2>1. k = 0 /\ found = {}
    BY <1>a, <1>5, <1>8 DEF OrPatternZero
  <2>2. Agrees(im, memory, 1, t, m)
    <3>0. im.pat_len[k] < m
      <4>1. im.pat_len[0] = 0
        BY <1>2
      <4>. QED BY <1>3, <2>1, <4>1
    <3>1. Agrees(im, memory, 0, t, m)
      BY <1>5, <2>1, <3>0, Zenon
    <3>. QED BY <1>2, <3>1 DEF Agrees
  <2>3. \A j \in 0..(IF m > 2 THEN 2 ELSE m - 1) : tr(memory[t + j + 1]) = tr(Pattern(im, 1)[0 + j + 1])
    BY <1>3, <2>2 DEF Agrees
  <2>4. Bucket(im, Pattern(im, 1), 0) = Bucket(im, memory, t)
    BY <2>3 DEF Bucket, Low, m
  <2>. QED BY <1>b, <2>1, <2>4
<1>. QED
  BY <1>7, <1>8

(* Without a word the window reaches the end of the text.                  *)
LEMMA Sound ==
  ASSUME NEW file, WordFile(file), ~ OneByte(file), \A k \in DOMAIN file : Len(file[k]) # 0,
         NEW memory \in Seq(Bytes), NEW num \in Nat,
         mgrep_str(memory, num, Image(file))
  PROVE  HasWord(file, memory)
<1> SUFFICES ASSUME ~ HasWord(file, memory) PROVE FALSE
    OBVIOUS
<1> DEFINE im == Image(file)
           m == im.p_size
           E == num + m
<1>1. Len(file) \in Nat /\ file \in Seq(Seq(LineBytes)) /\ DOMAIN file = 1..Len(file)
  BY DEF WordFile
<1>2. im.file = file
  BY ImageParts
<1>5. m \in Nat /\ m >= 2 /\ ~ im.SHORT /\ m = Size(file)
  BY WindowSize
<1> HIDE DEF im
<1>4. monkey1(im, memory, num)
  BY <1>5 DEF mgrep_str, im
<1> DEFINE shift(t) == Shift(im, Gram(im, memory, t))
<1>7. PICK found :
        /\ monkey1(im, memory, num) = found[m - 1]
        /\ \A t \in 0..E : /\ t >= num => ~ found[t]
                           /\ t < num /\ shift(t) > 0 => (found[t] <=> found[t + shift(t)])
                           /\ t < num /\ ~ (shift(t) > 0) =>
                                (found[t] <=> FoundAt(im, memory, t - (m - 1)) \/ found[t + 1])
  BY <1>5, WindowMoves
<1>8. \A t \in 0..E : shift(t) \in 0..(m - 2)
  BY <1>5, ShiftBounds
<1>9. \A t \in 0..E : t < num => shift(t) > 0 \/ ~ FoundAt(im, memory, t - (m - 1)) \/ t < m - 1
  <2> SUFFICES ASSUME NEW t \in 0..E, t >= m - 1, ~ (shift(t) > 0), FoundAt(im, memory, t - (m - 1))
               PROVE  FALSE
      BY <1>5
  <2>1. CASE Len(file) > 0
    <3>1. t - (m - 1) \in Nat
      BY <1>5
    <3>. QED BY <2>1, <3>1, FoundIsWord DEF im
  <2>2. CASE Len(file) = 0
    <3>1. shift(t) = m - 2
      <4>1. DOMAIN im.file = {}
        BY <1>1, <1>2, <2>2
      <4>. QED BY <4>1, <1>5 DEF Shift
    <3>2. m = 256
      <4>1. {Len(file[k]) : k \in DOMAIN file} \ {0} = {}
        BY <1>1, <2>2
      <4>. QED BY <1>5, <4>1 DEF Size, MAXPAT
    <3> HIDE DEF shift
    <3>. QED BY <3>1, <3>2
  <2>. QED BY <1>1, <2>1, <2>2
<1> HIDE DEF shift, m, E
<1>10. \A t \in (m - 1)..E : ~ found[t]
  <2> DEFINE S == {d \in Nat : \A t \in (m - 1)..E : E - t <= d => ~ found[t]}
  <2>0. E \in Nat /\ E = num + m
    BY <1>5 DEF E
  <2>1. 0 \in S
    BY <2>0, <1>5, <1>7
  <2>2. ASSUME NEW d \in Nat, d \in S PROVE d + 1 \in S
    <3> SUFFICES ASSUME NEW t \in (m - 1)..E, E - t <= d + 1, t < num PROVE ~ found[t]
        BY <2>0, <1>5, <1>7
    <3>0. t \in 0..E
      BY <1>5, <2>0
    <3>1. shift(t) \in 0..(m - 2)
      BY <1>8, <3>0
    <3>2. CASE shift(t) > 0
      <4>1. t + shift(t) \in (m - 1)..E /\ E - (t + shift(t)) <= d
        <5>1. /\ t \in Int /\ m - 1 <= t /\ t < num
              /\ shift(t) \in Nat /\ shift(t) > 0 /\ shift(t) <= m - 2
          BY <1>5, <2>0, <3>1, <3>2
        <5> DEFINE s == shift(t)
        <5>2. s \in Nat /\ s > 0 /\ s <= m - 2 /\ m \in Nat /\ E \in Nat /\ E = num + m /\ E - t <= d + 1
          BY <1>5, <2>0, <5>1
        <5> HIDE DEF s
        <5>3. t + s \in Int /\ m - 1 <= t + s /\ t + s <= E
          BY <5>1, <5>2
        <5>4. E - (t + s) <= d
          BY <5>1, <5>2
        <5>5. t + s \in (m - 1)..E
          BY <5>2, <5>3
        <5>. QED BY <5>4, <5>5 DEF s
      <4>2. ~ found[t + shift(t)]
        BY <2>2, <4>1
      <4>. QED BY <1>7, <3>0, <3>2, <4>2
    <3>3. CASE ~ (shift(t) > 0)
      <4>1. t + 1 \in (m - 1)..E /\ E - (t + 1) <= d
        BY <1>5, <2>0
      <4>2. ~ found[t + 1]
        BY <2>2, <4>1
      <4>3. ~ FoundAt(im, memory, t - (m - 1))
        BY <1>9, <1>5, <2>0, <3>0, <3>3
      <4>. QED BY <1>7, <3>0, <3>3, <4>2, <4>3
    <3>. QED BY <3>2, <3>3
  <2> HIDE DEF S
  <2>3. E \in S
    BY <2>0, <2>1, <2>2, Induction
  <2>. QED BY <2>0, <1>5, <2>3 DEF S
<1>. QED
  <2>1. m - 1 \in (m - 1)..E
    BY <1>5 DEF E
  <2>. QED BY <1>4, <1>7, <1>10, <2>1

(* A word is found: the window does not jump over the place where it ends  *)
(* with the first p_size bytes of the word.                                *)
LEMMA Complete ==
  ASSUME NEW file, WordFile(file), ~ OneByte(file),
         NEW memory \in Seq(Bytes), NEW num \in Nat, num <= Len(memory),
         NEW k \in DOMAIN file, Len(file[k]) # 0,
         NEW p \in Nat, p + Len(file[k]) <= num,
         \A j \in 1..Len(file[k]) : tr(memory[p + j]) = tr(file[k][j])
  PROVE  mgrep_str(memory, num, Image(file))
<1> DEFINE im == Image(file)
           m == im.p_size
           n == Len(file[k])
           E == num + m
           e == p + m - 1
           first == IF im.LONG THEN 2 ELSE 1
           shift(t) == Shift(im, Gram(im, memory, t))
<1>1. Len(file) \in Nat /\ file \in Seq(Seq(LineBytes)) /\ DOMAIN file = 1..Len(file)
  BY DEF WordFile
<1>2. n \in Nat /\ n # 0
  BY <1>1
<1>3. m \in Nat /\ m >= 2 /\ m <= n /\ ~ im.SHORT
  BY <1>1, WindowSize, SizeIsLeast
<1>4. /\ im.file = file /\ im.pat_len[k] = n /\ im.LONG \in BOOLEAN /\ (im.LONG => m > 2)
      /\ \A i \in 1..n : Pattern(im, k)[i] = file[k][i]
  BY <1>1, ImageParts
<1> HIDE DEF im, n
<1>5. \A j \in 1..n : tr(memory[p + j]) = tr(Pattern(im, k)[j])
  BY <1>4 DEF n
<1>6. PICK found :
        /\ monkey1(im, memory, num) = found[m - 1]
        /\ \A t \in 0..E : /\ t < num /\ shift(t) > 0 => (found[t] <=> found[t + shift(t)])
                           /\ t < num /\ ~ (shift(t) > 0) =>
                                (found[t] <=> FoundAt(im, memory, t - (m - 1)) \/ found[t + 1])
  BY <1>3, WindowMoves
<1>7. \A t : shift(t) \in 0..(m - 2)
  BY <1>3, ShiftBounds
<1>8. \A i \in first..(m - 1) : shift(p + i) <= m - 1 - i
  <2> SUFFICES ASSUME NEW i \in first..(m - 1) PROVE shift(p + i) <= m - 1 - i
      OBVIOUS
  <2>1. i \in Nat /\ i >= 1 /\ (im.LONG => i >= 2) /\ i < n
    BY <1>2, <1>3
  <2>2. Gram(im, memory, p + i) = Gram(im, Pattern(im, k), i)
    <3> DEFINE d == IF im.LONG THEN 2 ELSE 1
    <3>1. d \in Nat /\ d <= i
      BY <2>1
    <3>2. ASSUME NEW j \in 0..d PROVE Low(memory[p + i - j + 1]) = Low(Pattern(im, k)[i - j + 1])
      <4> HIDE DEF d
      <4> DEFINE l == i - j + 1
      <4>1. l \in 1..n /\ p + i - j + 1 = p + l
        <5>1. j \in Int /\ 0 <= j /\ j <= i
          BY <2>1, <3>1
        <5>. QED BY <1>2, <2>1, <5>1
      <4> HIDE DEF l
      <4>2. tr(memory[p + l]) = tr(Pattern(im, k)[l])
        BY <1>5, <4>1
      <4>3. memory[p + i - j + 1] = memory[p + l] /\ Pattern(im, k)[i - j + 1] = Pattern(im, k)[l]
        BY <4>1 DEF l
      <4>. QED BY <4>2, <4>3 DEF Low
    <3> HIDE DEF d
    <3>3. [j \in 0..d |-> Low(memory[p + i - j + 1])] = [j \in 0..d |-> Low(Pattern(im, k)[i - j + 1])]
      BY <3>2
    <3>. QED
      BY <3>3 DEF Gram, d
  <2>. QED BY <1>3, <1>4, <2>2, ShiftBounds
<1>9. FoundAt(im, memory, p)
  <2>1. Bucket(im, Pattern(im, k), 0) = Bucket(im, memory, p)
    <3>1. \A j \in 0..(IF m > 2 THEN 2 ELSE m - 1) :
            j + 1 \in 1..n /\ p + j + 1 = p + (j + 1) /\ 0 + j + 1 = j + 1
      BY <1>2, <1>3
    <3>2. \A j \in 0..(IF m > 2 THEN 2 ELSE m - 1) :
            tr(memory[p + j + 1]) = tr(Pattern(im, k)[0 + j + 1])
      BY <1>5, <3>1
    <3>. QED BY <3>2 DEF Bucket, Low
  <2>2. k \in {l \in DOMAIN im.file : Bucket(im, Pattern(im, l), 0) = Bucket(im, memory, p)}
    BY <1>4, <2>1
  <2>3. Agrees(im, memory, k, p, n)
    <3> SUFFICES ASSUME NEW j \in 0..(n - 1)
                 PROVE  p + j < Len(memory) /\ tr(memory[p + j + 1]) = tr(Pattern(im, k)[j + 1])
        BY DEF Agrees
    <3>1. j + 1 \in 1..n /\ p + j + 1 = p + (j + 1)
      BY <1>2
    <3>2. p + j < Len(memory)
      BY <1>2 DEF n
    <3>. QED BY <1>5, <3>1, <3>2
  <2>4. (IF im.pat_len[k] < m THEN m ELSE im.pat_len[k]) = n
    BY <1>2, <1>3, <1>4
  <2>. QED BY <2>2, <2>3, <2>4 DEF FoundAt, OrPatternZero
<1>a. first \in 1..2 /\ first <= m - 1 /\ (first = 2 => im.LONG)
  BY <1>3, <1>4
<1>b. e \in Nat /\ e < num /\ E = num + m /\ E \in Nat /\ m - 1 <= e
  BY <1>2, <1>3 DEF n
<1>c. shift(e) = 0 /\ e - (m - 1) = p
  <2> HIDE DEF shift
  <2>1. p + (m - 1) = e /\ m - 1 \in first..(m - 1) /\ e - (m - 1) = p
    BY <1>3, <1>a
  <2> HIDE DEF e, first
  <2>2. shift(p + (m - 1)) <= m - 1 - (m - 1)
    BY <1>8, <2>1
  <2>3. shift(e) \in Nat /\ shift(e) <= m - 1 - (m - 1)
    BY <1>3, <1>7, <2>1, <2>2
  <2>. QED BY <1>3, <2>1, <2>3
<1>d. ASSUME NEW t \in (m - 1)..e PROVE shift(t) <= e - t
  <2> DEFINE i == t - p
  <2>1. i \in Int /\ p + i = t /\ i <= m - 1 /\ e - t = m - 1 - i
    BY <1>3
  <2>2. shift(t) \in Nat /\ shift(t) <= m - 2
    BY <1>3, <1>7
  <2> HIDE DEF shift, m, first, e, i
  <2>3. CASE i >= first
    <3>1. i \in first..(m - 1)
      BY <1>a, <1>3, <2>1, <2>3
    <3>2. shift(p + i) <= m - 1 - i
      BY <1>8, <3>1
    <3>. QED BY <2>1, <3>2
  <2>4. CASE ~ (i >= first)
    <3>1. i <= 1
      BY <1>a, <2>1, <2>4
    <3>. QED BY <1>3, <2>1, <2>2, <3>1
  <2>. QED BY <2>3, <2>4
<1> HIDE DEF shift, m, first, E, e
<1>10. \A t \in (m - 1)..e : found[t]
  <2> DEFINE S == {d \in Nat : \A t \in (m - 1)..e : e - t <= d => found[t]}
  <2>1. 0 \in S
    <3> SUFFICES ASSUME NEW t \in (m - 1)..e, e - t <= 0 PROVE found[t]
        OBVIOUS
    <3>1. t = e /\ e \in 0..E
      BY <1>3, <1>b
    <3>2. ~ (shift(e) > 0) /\ FoundAt(im, memory, e - (m - 1))
      BY <1>9, <1>c
    <3>. QED BY <1>6, <1>b, <3>1, <3>2
  <2>2. ASSUME NEW d \in Nat, d \in S PROVE d + 1 \in S
    <3> SUFFICES ASSUME NEW t \in (m - 1)..e, e - t <= d + 1, ~ (e - t <= d) PROVE found[t]
        BY <2>2
    <3>1. t \in 0..E /\ t < num /\ t < e /\ t \in Int /\ m - 1 <= t
      BY <1>3, <1>b
    <3>2. shift(t) \in Nat /\ shift(t) <= e - t
      BY <1>3, <1>7, <1>d
    <3>3. CASE shift(t) > 0
      <4> DEFINE s == shift(t)
      <4>1. s \in Nat /\ s > 0 /\ s <= e - t
        BY <3>2, <3>3
      <4> HIDE DEF s
      <4>2. t + s \in (m - 1)..e /\ e - (t + s) <= d
        <5>1. t + s \in Int /\ m - 1 <= t + s /\ t + s <= e
          BY <1>3, <1>b, <3>1, <4>1
        <5>2. e - (t + s) <= d
          BY <1>b, <3>1, <4>1
        <5>. QED BY <1>3, <1>b, <5>1, <5>2
      <4>3. found[t + s]
        BY <2>2, <4>2
      <4>. QED BY <1>6, <3>1, <3>3, <4>3 DEF s
    <3>4. CASE ~ (shift(t) > 0)
      <4>1. t + 1 \in (m - 1)..e /\ e - (t + 1) <= d
        BY <1>3, <1>b, <3>1
      <4>2. found[t + 1]
        BY <2>2, <4>1
      <4>. QED BY <1>6, <3>1, <3>4, <4>2
    <3>. QED BY <3>3, <3>4
  <2> HIDE DEF S
  <2>3. e \in S
    BY <1>b, <2>1, <2>2, Induction
  <2>. QED BY <1>3, <1>b, <2>3 DEF S
<1>11. found[m - 1]
  <2>1. m - 1 \in (m - 1)..e
    BY <1>3, <1>b
  <2>. QED BY <1>10, <2>1
<1>. QED
  BY <1>3, <1>6, <1>11 DEF mgrep_str, im

(* mgrep_str finds the words of a text, in whatever case, and, if no line  *)
(* is empty, nothing else, for every file without a line of one byte.  The *)
(* bytes behind the text may help to find a word that begins in it.        *)
THEOREM SearchFindsWords ==
  ASSUME NEW file, WordFile(file), ~ OneByte(file),
         NEW memory \in Seq(Bytes), NEW num \in Nat, num <= Len(memory)
  PROVE  /\ HasWord(file, SubSeq(memory, 1, num)) => mgrep_str(memory, num, Image(file))
         /\ mgrep_str(memory, num, Image(file)) =>
              HasWord(file, memory) \/ \E k \in DOMAIN file : file[k] = <<>>
<1>1. Len(file) \in Nat /\ file \in Seq(Seq(LineBytes)) /\ DOMAIN file = 1..Len(file)
  BY DEF WordFile
<1>2. \A k \in DOMAIN file : file[k] \in Seq(LineBytes) /\ Len(file[k]) \in Nat
  BY <1>1
<1>3. ASSUME HasWord(file, SubSeq(memory, 1, num)) PROVE mgrep_str(memory, num, Image(file))
  <2> DEFINE text == SubSeq(memory, 1, num)
  <2>1. Len(text) = num /\ \A j \in 1..num : text[j] = memory[j]
    OBVIOUS
  <2> HIDE DEF text
  <2>2. PICK k \in DOMAIN file, p \in 0..Len(text) :
          /\ file[k] # <<>>
          /\ p + Len(file[k]) <= Len(text)
          /\ \A j \in 1..Len(file[k]) : tr(text[p + j]) = tr(file[k][j])
    BY <1>3 DEF HasWord, text
  <2>3. Len(file[k]) # 0 /\ p \in Nat /\ p + Len(file[k]) <= num
    BY <1>2, <2>1, <2>2
  <2>4. \A j \in 1..Len(file[k]) : tr(memory[p + j]) = tr(file[k][j])
    <3> SUFFICES ASSUME NEW j \in 1..Len(file[k]) PROVE tr(memory[p + j]) = tr(file[k][j])
        OBVIOUS
    <3>1. p + j \in 1..num
      BY <1>2, <2>3
    <3>. QED BY <2>1, <2>2, <3>1
  <2>. QED BY <2>3, <2>4, Complete
<1>4. ASSUME mgrep_str(memory, num, Image(file)), \A k \in DOMAIN file : file[k] # <<>>
      PROVE  HasWord(file, memory)
  <2>1. \A k \in DOMAIN file : Len(file[k]) # 0
    BY <1>2, <1>4
  <2>. QED BY <1>4, <2>1, Sound
<1>. QED
  BY <1>3, <1>4

-----------------------------------------------------------------------------
(* BadWordFilter. *)

(* A process that is about to start is fresh: its constructor has just run. *)
StartIsFresh ==
  process = "start" => silent /\ last = NoCall /\ step = "ready"

LEMMA InitFilter == FilterInit => FilterInvariant /\ StartIsFresh
<1> SUFFICES ASSUME FilterInit PROVE FilterInvariant /\ StartIsFresh
    OBVIOUS
<1>1. /\ process = "start" /\ step = "ready" /\ silent = TRUE /\ reload = FALSE
      /\ last = NoCall /\ m_filterBuf = Unread /\ badword \in Contents \cup Bad /\ edits = 0
  BY DEF FilterInit, NotCalled
<1>. QED
  BY <1>1 DEF FilterInvariant, StartIsFresh, CrashNeedsCause, NoImage, Steps

(* What a call of initFilter in one go leaves in m_filterBuf. *)
LEMMA FilterAfterwards ==
  FilterInvariant /\ StartIsFresh /\ process # "crashed" /\ initFilter =>
    /\ m_filterBuf' \in ((Contents \cup Edited) \ Bad) \cup NoImage
    /\ m_filterBuf' \in NoImage => suspect' \/ Reading
    /\ edits = 0 /\ badword \notin Bad => m_filterBuf' = badword \/ ~silent
  BY FilterAssumption
  DEF FilterInvariant, StartIsFresh, initFilter, AfterRead, AfterFree, Bad, NoImage

LEMMA StepFilter ==
  FilterInvariant /\ StartIsFresh /\ [FilterNext]_filterVars => FilterInvariant' /\ StartIsFresh'
<1> SUFFICES ASSUME FilterInvariant, StartIsFresh, [FilterNext]_filterVars
             PROVE  FilterInvariant' /\ StartIsFresh'
    OBVIOUS
<1> USE FilterAssumption
    DEF FilterInvariant, StartIsFresh, CrashNeedsCause, Reading, Steps, Bad, NoImage, AtStep, words,
        call, AfterFree
<1>1. CASE init
  BY <1>1 DEF init, initFilter, AfterRead
<1>2. CASE Silence
  BY <1>2 DEF Silence
<1>3. CASE Restart
  BY <1>3 DEF Restart
<1>4. ASSUME NEW msg \in Messages, writeSMStoStorage(msg) PROVE FilterInvariant' /\ StartIsFresh'
  BY <1>4 DEF writeSMStoStorage
<1>5. CASE Look
  BY <1>5 DEF Look
<1>6. CASE default_setting
  BY <1>6 DEF default_setting, AfterSetting
<1>7. CASE Free
  BY <1>7 DEF Free
<1>8. CASE FreeTwice
  BY <1>8 DEF FreeTwice, DoubleFree, Crashes
<1>9. CASE OpenFails
  BY <1>9 DEF OpenFails
<1>10. CASE Open
  BY <1>10 DEF Open
<1>11. CASE prepf
  BY <1>11 DEF prepf, AfterRead
<1>12. CASE Searched
  BY <1>12 DEF Searched
<1>13. CASE SearchCrashes
  BY <1>13 DEF SearchCrashes, MayCrash, Crashes
<1>14. ASSUME NEW msg \in Messages, HandlerWrites(msg) PROVE FilterInvariant' /\ StartIsFresh'
  <2>1. /\ process = "run" /\ bbs /\ initFilter
        /\ met' = (met \/ (step # "ready" /\ num_of_matched'))
        /\ UNCHANGED <<process, bbs, badword, step, sms, reload, fp, edits>>
    BY <1>14 DEF HandlerWrites
  <2>2. silent => step \in {"ready", "look"}
    OBVIOUS
  <2>. QED
    BY <2>1, <2>2 DEF initFilter, AfterRead
<1>15. CASE HandlerCrashes
  <2>1. /\ process = "run" /\ process' = "crashed" /\ bbs /\ initFilter
        /\ MayCrash(m_filterBuf') \/ (silent /\ DoubleFree)
        /\ UNCHANGED <<bbs, badword, num_of_matched, step, sms, reload, fp, met, last, edits>>
    BY <1>15 DEF HandlerCrashes
  <2>2. silent => step \in {"ready", "look"}
    OBVIOUS
  <2>. QED
    BY <2>1, <2>2 DEF initFilter, AfterRead, MayCrash, DoubleFree
<1>16. ASSUME NEW content \in Edited, Edit(content) PROVE FilterInvariant' /\ StartIsFresh'
  BY <1>16 DEF Edit
<1>17. CASE UNCHANGED filterVars
  BY <1>17 DEF filterVars
<1>. QED
  BY <1>1, <1>2, <1>3, <1>4, <1>5, <1>6, <1>7, <1>8, <1>9, <1>10, <1>11, <1>12, <1>13, <1>14,
     <1>15, <1>16, <1>17
  DEF FilterNext, Main, Handler

(* What m_filterBuf, num_of_matched and main's call hold, wherever the     *)
(* handler of a BBS session stores a message in the middle of it.          *)
THEOREM FilterHolds == FilterSpec => [](FilterInvariant /\ StartIsFresh)
  BY InitFilter, StepFilter, PTL DEF FilterSpec

(* The process crashes only if it has read a file that is bad, or in the   *)
(* handler of a BBS session, while main was between free and the end of    *)
(* prepf.                                                                  *)
THEOREM CrashHasCause == FilterSpec => []CrashNeedsCause
<1>1. FilterInvariant => CrashNeedsCause
  BY DEF FilterInvariant
<1>. QED BY <1>1, FilterHolds, PTL

(* For every file that may be read: the search finds its words in every    *)
(* text, and nothing else unless a line is empty.                          *)
THEOREM SearchHolds == FilterSpec => []SearchIsRight
<1>1. FilterInvariant => SearchIsRight
  <2> SUFFICES ASSUME FilterInvariant, m_filterBuf \notin NoImage, ~ OneByte(m_filterBuf),
                      NEW text \in Texts
               PROVE  LET found == mgrep_str(text, Len(text), Image(m_filterBuf)) IN
                      /\ HasWord(m_filterBuf, text) => found
                      /\ found => HasWord(m_filterBuf, text) \/ <<>> \in Lines(m_filterBuf)
      BY DEF SearchIsRight
  <2>1. WordFile(m_filterBuf)
    BY FilterAssumption DEF FilterInvariant
  <2>2. text \in Seq(Bytes) /\ Len(text) \in Nat /\ Len(text) <= Len(text)
        /\ SubSeq(text, 1, Len(text)) = text
    BY FilterAssumption
  <2>3. (\E k \in DOMAIN m_filterBuf : m_filterBuf[k] = <<>>) => <<>> \in Lines(m_filterBuf)
    BY DEF Lines
  <2>4. /\ HasWord(m_filterBuf, SubSeq(text, 1, Len(text))) =>
             mgrep_str(text, Len(text), Image(m_filterBuf))
        /\ mgrep_str(text, Len(text), Image(m_filterBuf)) =>
             HasWord(m_filterBuf, text) \/ \E k \in DOMAIN m_filterBuf : m_filterBuf[k] = <<>>
    BY <2>1, <2>2, SearchFindsWords
  <2>. QED BY <2>2, <2>3, <2>4
<1>. QED BY <1>1, FilterHolds, PTL

(* What is said of a call that has returned. *)
LEMMA AnswerIsRight ==
  ASSUME FilterInvariant', NEW msg \in Messages, NEW image, image = m_filterBuf',
         NEW found \in Search(image, msg), NEW again, NEW fresh, NEW meanwhile,
         Answers(msg, image, found, again, fresh, meanwhile),
         again /\ fresh => meanwhile,
         image \in NoImage => suspect' \/ Reading
  PROVE  VerdictIsRight'
<1>1. /\ last'.result = (IF num_of_matched' THEN "ERROR" ELSE "SUCCESS")
      /\ last'.msg = msg /\ last'.words = image /\ last'.fresh = fresh
      /\ last'.again = again /\ last'.met = meanwhile /\ last'.reading = Reading
      /\ num_of_matched' = (again \/ found)
  BY DEF Answers
<1>2. BlindHasCause'
  BY <1>1 DEF BlindHasCause
<1>3. CASE image \in NoImage
  BY <1>1, <1>2, <1>3 DEF VerdictIsRight, RefusedHasCause, AcceptedIsClean
<1>4. CASE image \notin NoImage
  <2>1. WordFile(image)
    BY <1>4, FilterAssumption DEF FilterInvariant
  <2>2. found = mgrep_str(msg.memory, msg.num, Image(image))
    BY <1>4 DEF Search, NoImage
  <2>3. msg.memory \in Seq(Bytes) /\ msg.num \in Nat /\ msg.num <= Len(msg.memory)
    BY FilterAssumption
  <2>4. found => HasWord(image, msg.memory) \/ OneByte(image) \/ <<>> \in Lines(image)
    <3>1. (\E k \in DOMAIN image : image[k] = <<>>) => <<>> \in Lines(image)
      BY DEF Lines
    <3>. QED BY <2>1, <2>2, <2>3, <3>1, SearchFindsWords
  <2>5. HasWord(image, Own(msg)) /\ ~ OneByte(image) => found
    BY <2>1, <2>2, <2>3, SearchFindsWords DEF Own
  <2>6. last'.result = "ERROR" => found \/ (last'.again /\ (~ last'.fresh \/ last'.met))
    BY <1>1
  <2>7. last'.result = "SUCCESS" => ~ found
    BY <1>1
  <2>8. RefusedHasCause'
    BY <1>1, <2>4, <2>6 DEF RefusedHasCause
  <2>9. AcceptedIsClean'
    BY <1>1, <2>5, <2>7 DEF AcceptedIsClean, Own
  <2>. QED BY <1>2, <2>8, <2>9 DEF VerdictIsRight
<1>. QED BY <1>3, <1>4

LEMMA StepVerdict ==
  FilterInvariant /\ StartIsFresh /\ VerdictIsRight /\ [FilterNext]_filterVars => VerdictIsRight'
<1> SUFFICES ASSUME FilterInvariant, StartIsFresh, VerdictIsRight, [FilterNext]_filterVars
             PROVE  VerdictIsRight'
    OBVIOUS
<1>a. FilterInvariant'
  BY StepFilter
<1>1. CASE last' = NoCall
  BY <1>1 DEF VerdictIsRight, RefusedHasCause, AcceptedIsClean, BlindHasCause
<1>2. CASE last' = last /\ (suspect => suspect')
  BY <1>2 DEF VerdictIsRight, RefusedHasCause, AcceptedIsClean, BlindHasCause
<1>3. CASE Searched
  <2>1. PICK found \in Search(m_filterBuf, sms) :
          Answers(sms, m_filterBuf, found, num_of_matched, reload, met)
    BY <1>3 DEF Searched
  <2>2. /\ AtStep("search") /\ UNCHANGED <<process, m_filterBuf, suspect>>
        /\ sms \in Messages
    BY <1>3 DEF Searched, AtStep, FilterInvariant
  <2>3. num_of_matched /\ reload => met
    BY <2>2 DEF AtStep, FilterInvariant
  <2>4. m_filterBuf \in NoImage => suspect
    BY <2>2 DEF AtStep, FilterInvariant, Reading
  <2>. QED
    BY <1>a, <2>1, <2>2, <2>3, <2>4, AnswerIsRight DEF AtStep
<1>4. ASSUME NEW msg \in Messages, HandlerWrites(msg) PROVE VerdictIsRight'
  <2>1. PICK image, again, meanwhile :
          image = m_filterBuf' /\ again = AfterSetting(silent) /\ meanwhile = FALSE
    OBVIOUS
  <2>2. PICK found \in Search(image, msg) : Answers(msg, image, found, again, silent, meanwhile)
    BY <1>4, <2>1 DEF HandlerWrites
  <2>3. process = "run" /\ initFilter
    BY <1>4 DEF HandlerWrites
  <2>4. again /\ silent => meanwhile
    BY <2>1 DEF AfterSetting
  <2>5. image \in NoImage => suspect' \/ Reading
    BY <2>1, <2>3, FilterAfterwards
  <2>. QED
    BY <1>a, <2>1, <2>2, <2>4, <2>5, AnswerIsRight
<1>5. init => last' = last /\ (suspect => suspect')
  BY DEF init, initFilter
<1>6. Main => Searched \/ last' = NoCall \/ (last' = last /\ (suspect => suspect'))
  <2>1. \A msg \in Messages : writeSMStoStorage(msg) => last' = NoCall
    BY DEF writeSMStoStorage
  <2>2. Look \/ default_setting \/ Free \/ Open => last' = last /\ suspect' = suspect
    BY DEF Look, default_setting, Free, Open
  <2>3. FreeTwice \/ SearchCrashes => last' = last /\ suspect' = suspect
    BY DEF FreeTwice, SearchCrashes, Crashes
  <2>4. OpenFails \/ prepf => last' = last /\ (suspect => suspect')
    BY DEF OpenFails, prepf
  <2>. QED
    BY <2>1, <2>2, <2>3, <2>4 DEF Main
<1>7. HandlerCrashes \/ Silence \/ (\E content \in Edited : Edit(content)) \/ UNCHANGED filterVars
        => last' = last /\ (suspect => suspect')
  <2>1. HandlerCrashes => last' = last /\ (suspect => suspect')
    BY DEF HandlerCrashes, initFilter
  <2>2. Silence \/ UNCHANGED filterVars => last' = last /\ suspect' = suspect
    BY DEF Silence, filterVars
  <2>3. \A content \in Edited : Edit(content) => last' = last /\ suspect' = suspect
    BY DEF Edit
  <2>. QED
    BY <2>1, <2>2, <2>3
<1>8. Restart => last' = NoCall
  BY DEF Restart
<1>. QED
  BY <1>1, <1>2, <1>3, <1>4, <1>5, <1>6, <1>7, <1>8 DEF FilterNext, Handler

(* A message is refused for a word, for a file with a line of one byte or  *)
(* none, or because one before it was, but the first after a silence only  *)
(* if the handler has refused one in the middle of the call; what is stored*)
(* has none of the words that were looked for, unless one of them has one  *)
(* byte; and the words are there, unless a bad file was read or the        *)
(* handler met main between free and the end of prepf.                     *)
THEOREM VerdictHolds == FilterSpec => []VerdictIsRight
<1>1. FilterInit => VerdictIsRight
  BY DEF FilterInit, NotCalled, VerdictIsRight, RefusedHasCause, AcceptedIsClean, BlindHasCause
<1>. QED BY <1>1, StepVerdict, FilterHolds, PTL DEF FilterSpec
=============================================================================
