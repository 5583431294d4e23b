--------------------------- MODULE SessionConsumer ---------------------------
(***************************************************************************)
(* A session in which the handler alone calls OnNotify is the consumer the *)
(* pipeline has at the end of a queue: the steps of SessionNotify, where   *)
(* the name, the data and the buffer of a file are a variable each and     *)
(* every call of the storage is a step, are those of StorageNotify or do   *)
(* nothing.                                                                *)
(***************************************************************************)
EXTENDS SessionNotify

Inbox == "inbox"

(* A set of files as the directory it is: each under a name of its own.    *)
AsDirectory(S) == [f \in Files |-> IF f \in S THEN f ELSE None]

(* The handler is at its scan from the signal on, which is taken for       *)
(* opendir, and again as soon as Send has returned SUCCESS; it has read a  *)
(* file when readdir has returned its name.                                *)
ConsumerPc ==
  IF at["main"] = "down" THEN "down"
  ELSE IF at["handler"] \in {"open", "sent"} THEN "scan"
  ELSE IF at["handler"] \in {"got", "copy", "send", "refused"} THEN "read"
  ELSE IF at["handler"] = "moved" THEN "refused"
  ELSE at["handler"]

ToRead ==
  CASE at["handler"] = "open"      -> queue
    [] at["handler"] \in Scanning  -> dir
    [] OTHER                       -> {}

DataBuf == IF at["handler"] = "got" THEN name["handler"] ELSE data

(* What was sent and is still to be removed. *)
ReadedFileList ==
  CASE at["handler"] = "sent"              -> list \cup {curr}
    [] at["handler"] \in {"clear", "kept"} -> rest["handler"]
    [] OTHER                               -> list

Of(x) == [d \in {Inbox} |-> x]

Storage == INSTANCE StorageNotify WITH
  Messages <- Files, Names <- Files, Dests <- {Inbox}, Existing <- {Inbox},
  NoFile <- None, Empty <- None, FileName <- [f \in Files |-> f],
  Routes <- [f \in Files |-> {Inbox}],
  outgoing <- AsDirectory(new), queue <- Of(AsDirectory(queue)),
  backup <- Of(AsDirectory(backup)), error <- AsDirectory(error),
  unkept <- unkept, haveDir <- {Inbox}, content <- [f \in Files |-> f],
  pc <- Of(ConsumerPc), sigusr1 <- Of(sigusr1 # {}), toRead <- Of(ToRead),
  currFilename <- Of(name["handler"]), dataBuf <- Of(DataBuf),
  readedFileList <- Of(ReadedFileList)

-----------------------------------------------------------------------------
(* The steps Pipeline makes of those of StorageNotify, with what each      *)
(* leaves alone.                                                           *)

Linked(f) ==
  /\ f \notin queue
  /\ queue' = queue \cup {f}
  /\ Storage!StorageNotified(Inbox, f)
  /\ UNCHANGED <<backup, error, unkept, accepted>>

Reads ==
  /\ \/ Storage!StorageStart(Inbox) \/ Storage!OnNotify(Inbox)
     \/ \E f \in Files : Storage!ReadFile(Inbox, f)
     \/ Storage!EndOfDirectory(Inbox) \/ Storage!NotifyReturn(Inbox)
     \/ Storage!SendFailed(Inbox) \/ Storage!StorageDies(Inbox)
  /\ UNCHANGED <<queue, backup, error, unkept, accepted>>

Sends ==
  /\ Storage!SendSuccess(Inbox)
  /\ accepted' = accepted \cup {DataBuf}
  /\ UNCHANGED <<queue, backup, error, unkept>>

Refuses ==
  /\ Storage!SendError(Inbox) \/ Storage!ErrorLinkFails(Inbox)
  /\ UNCHANGED <<queue, backup, accepted>>

Keeps ==
  /\ \E f \in Files : Storage!ClearLink(Inbox, f) \/ Storage!ClearLinkFails(Inbox, f)
  /\ UNCHANGED <<queue, error, accepted>>

Removes ==
  /\ Storage!BackupErrorUnlink(Inbox) \/ Storage!ClearUnlink(Inbox)
  /\ UNCHANGED <<backup, error, unkept, accepted>>

ConsumerNext == (\E f \in Files : Linked(f)) \/ Reads \/ Sends \/ Refuses \/ Keeps \/ Removes

consumerVars == <<queue, backup, error, unkept, accepted, Storage!notifyVars>>

-----------------------------------------------------------------------------
(* What OnNotify, m_currFilename, m_pDataBuf and m_readedFileList do when  *)
(* the handler alone runs is what Pipeline says of a consumer: a file that *)
(* has been read is the one that is sent, recorded, linked and unlinked.   *)
HandlerIsConsumer ==
  Storage!NotifyInit /\ [][~startup => ConsumerNext]_consumerVars
=============================================================================
