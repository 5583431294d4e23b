---------------------------- MODULE StorageWrite ----------------------------
(***************************************************************************)
(* CSMSDiskStorage::writeSMStoStorage: a process writes a message to the   *)
(* outgoing directory.  The file is created, by opening it, in the very    *)
(* directory the relay watches, and gets its data later: the relay may see *)
(* it in between.  The writers are separate processes (one per BBS         *)
(* session; one forked child per message that arrives from the phone       *)
(* network), each of which may be killed between the two steps: doStartChild*)
(* kills the previous session of a BBS when the BBS logs in again.         *)
(***************************************************************************)
EXTENDS Spool

VARIABLES
  writing,   \* how far the call that writes each message has come
  inode      \* the inode its stream is open on

writeVars == <<writing, inode>>

WriteStates == {"new", "open", "stored", "refused", "failed"}

WriteTypeOK ==
  /\ writing \in [Messages -> WriteStates]
  /\ inode \in [Messages -> Messages \cup {NoFile}]

WriteInit ==
  /\ writing = [m \in Messages |-> "new"]
  /\ inode = [m \in Messages |-> NoFile]

(* CSMSStorage::writeSMStoStorage finds a bad word: ERROR, nothing is      *)
(* written.                                                                *)
WriteRefused(m) ==
  /\ writing[m] = "new"
  /\ writing' = [writing EXCEPT ![m] = "refused"]
  /\ UNCHANGED <<inode, outgoing, content>>

(* os.open of a name that is not there creates the file ... *)
WriteCreate(m) ==
  /\ writing[m] = "new"
  /\ outgoing[FileName[m]] = NoFile
  /\ outgoing' = [outgoing EXCEPT ![FileName[m]] = m]
  /\ content' = [content EXCEPT ![m] = Empty]
  /\ inode' = [inode EXCEPT ![m] = m]
  /\ writing' = [writing EXCEPT ![m] = "open"]

(* ... and truncates a file that has the name already. *)
WriteTruncate(m) ==
  /\ writing[m] = "new"
  /\ outgoing[FileName[m]] # NoFile
  /\ content' = [content EXCEPT ![outgoing[FileName[m]]] = Empty]
  /\ inode' = [inode EXCEPT ![m] = outgoing[FileName[m]]]
  /\ writing' = [writing EXCEPT ![m] = "open"]
  /\ UNCHANGED outgoing

(* os.write and os.close: the data reaches the file, wherever the relay    *)
(* has linked it by now; the caller gets SUCCESS.                          *)
WriteData(m) ==
  /\ writing[m] = "open"
  /\ content' = [content EXCEPT ![inode[m]] = m]
  /\ writing' = [writing EXCEPT ![m] = "stored"]
  /\ UNCHANGED <<inode, outgoing>>

(* The open or the write fails (the caller gets ERROR), or the process is  *)
(* killed: what was created stays.                                         *)
WriteFails(m) ==
  /\ writing[m] \in {"new", "open"}
  /\ writing' = [writing EXCEPT ![m] = "failed"]
  /\ UNCHANGED <<inode, outgoing, content>>
=============================================================================
