------------------------------- MODULE Spool -------------------------------
(***************************************************************************)
(* The spool directories through which the daemons of the gateway hand     *)
(* messages to one another, as the file system sees them:                  *)
(*                                                                         *)
(*   outgoing   the directory CSMSDiskStorage::writeSMStoStorage writes    *)
(*              to and the relay (sms_deliver_c2p, sms_deliver_p2c) empties:*)
(*              /opt/sms/outbox/deliver or /opt/sms/inbox/deliver          *)
(*   queue[d]   the incoming directory of the consumer process d:          *)
(*              outbox/18dx, inbox/bbs_<name>, inbox/default               *)
(*   backup[d]  where d keeps what it has sent (outbox.back/18dx, ...)     *)
(*   error      /opt/sms/error, shared by all consumers                    *)
(*                                                                         *)
(* A directory maps file names to inodes.  An inode is named by the        *)
(* message whose open() created it; content says what its data is.  Two    *)
(* messages may have the same file name: a name is made of the sender, the *)
(* target, the time in seconds and a counter that is local to the writing  *)
(* process.                                                                *)
(***************************************************************************)
EXTENDS Naturals, FiniteSets

CONSTANTS
  Messages,   \* the messages that are written to the spool
  Names,      \* file names
  Dests,      \* the consumers' incoming directories
  NoFile,     \* a name that is not in a directory
  Empty,      \* a file that was created and has no data yet
  FileName,   \* the file name each message is given
  Routes,     \* the directories getDest may answer for a file name
  Existing    \* the directories of Dests that exist from the beginning

ASSUME SpoolAssumption ==
  /\ FileName \in [Messages -> Names]
  /\ Routes \in [Names -> SUBSET Dests]
  /\ Existing \subseteq Dests
  /\ NoFile \notin Messages
  /\ Empty \notin Messages

VARIABLES
  outgoing,   \* Names -> inode or NoFile
  queue,      \* Dests -> (Names -> inode or NoFile)
  backup,     \* Dests -> (Names -> inode or NoFile)
  error,      \* Names -> inode or NoFile
  haveDir,    \* the directories of Dests that exist
  content,    \* inode -> the message its data is, or Empty
  unkept      \* history: the inodes whose link to a further directory
              \* failed although the name was free

spoolVars == <<outgoing, queue, backup, error, haveDir, content, unkept>>

Directory == [Names -> Messages \cup {NoFile}]

SpoolTypeOK ==
  /\ outgoing \in Directory
  /\ queue \in [Dests -> Directory]
  /\ backup \in [Dests -> Directory]
  /\ error \in Directory
  /\ haveDir \subseteq Dests
  /\ content \in [Messages -> Messages \cup {Empty}]
  /\ unkept \subseteq Messages

NoFiles == [n \in Names |-> NoFile]

SpoolInit ==
  /\ outgoing = NoFiles
  /\ queue = [d \in Dests |-> NoFiles]
  /\ backup = [d \in Dests |-> NoFiles]
  /\ error = NoFiles
  /\ haveDir = Existing
  /\ content = [m \in Messages |-> Empty]
  /\ unkept = {}

(* The names readdir() finds in a directory. *)
Entries(dir) == {n \in Names : dir[n] # NoFile}

(* link(2): fails, and changes nothing, when the name is taken (EEXIST) or *)
(* the source is gone.  That it fails for another reason, as the directory *)
(* is missing or the disk is full, are steps of their own (Unlinkable).    *)
Linked(dir, n, inode) ==
  IF dir[n] = NoFile THEN [dir EXCEPT ![n] = inode] ELSE dir

(* link(2) fails though the name is free. *)
Unlinkable(inode) == unkept' = unkept \cup {inode}

(* unlink(2) *)
Unlinked(dir, n) == [dir EXCEPT ![n] = NoFile]

(* No two messages have the same file name. *)
DistinctNames == \A m1, m2 \in Messages : FileName[m1] = FileName[m2] => m1 = m2
=============================================================================
