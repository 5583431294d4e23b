---------------------------- MODULE PipelineInv ----------------------------
(***************************************************************************)
(* The inductive invariants behind Pipeline's safety properties:           *)
(* PipelineInvariant and KeptInvariant for the case that the writers give  *)
(* distinct names; StoredInvariant, InodeInvariant and RepeatInvariant for *)
(* any.                                                                    *)
(***************************************************************************)
EXTENDS Pipeline

(* Where a consumer is in its directory: the names still to be read, the   *)
(* one in hand and those that were sent are there, none of them twice, and *)
(* what it is about to send is no empty file.  This much holds of          *)
(* colliding names too.                                                    *)
ReadingInv(d) ==
  /\ toRead[d] \subseteq Entries(queue[d])
  /\ ~Reading(d) => toRead[d] = {}
  /\ pc[d] \in {"read", "refused"} =>
       currFilename[d] \in Entries(queue[d]) \ (toRead[d] \cup readedFileList[d])
  /\ readedFileList[d] \subseteq Entries(queue[d]) \ toRead[d]
  /\ pc[d] \in {"down", "idle"} => readedFileList[d] = {}
  /\ pc[d] = "read" => dataBuf[d] # Empty
  /\ pc[d] = "kept" => currFilename[d] \in readedFileList[d]

(* So is the relay in its own. *)
RelayReadingInv ==
  /\ relayScan \subseteq Entries(outgoing)
  /\ relayPc = "linked" => relayCurr \in relayScan

TypeInvariant ==
  /\ TypeOK
  /\ RelayReadingInv
  /\ \A d \in Dests : ReadingInv(d)

(* A directory holds every file under the name its message was given. *)
OwnNames(dir) == \A n \in Names : dir[n] # NoFile => FileName[dir[n]] = n

NamesMatch ==
  /\ OwnNames(outgoing)
  /\ OwnNames(error)
  /\ \A d \in Dests : OwnNames(queue[d]) /\ OwnNames(backup[d])

(* Only a call that opened its file has left one, and only a call that has *)
(* written has given it data.                                              *)
FilesOfWriters ==
  \A m \in Messages :
    /\ InOutgoing(m) \/ InQueue(m) \/ InError(m) => writing[m] \notin {"new", "refused"}
    /\ writing[m] \in {"open", "stored"} => inode[m] = m
    /\ content[m] = IF Stored(m) THEN m ELSE Empty
    /\ InError(m) \/ m \in delivered => Stored(m)

(* The message is still to be found by the daemons, or is where it should  *)
(* end up, or the file system would not have it there.                     *)
Safe(m) ==
  InOutgoing(m) \/ InQueue(m) \/ InError(m) \/ m \in delivered \/ m \in unkept

(* A file that is or will be a message is in a directory until it has been *)
(* sent.                                                                   *)
FilesSafe == \A m \in Messages : writing[m] \in {"open", "stored"} => Safe(m)

(* What the relay is about to unlink has got further. *)
RelayInv ==
  relayPc = "linked" =>
    LET m == outgoing[relayCurr]
    IN  InQueue(m) \/ InError(m) \/ m \in delivered \/ m \in unkept

(* What a consumer is about to send is in its buffer; what it is about to  *)
(* unlink has been sent, or is in the error directory, or the link has     *)
(* failed.                                                                 *)
ConsumerInv(d) ==
  /\ pc[d] = "read" =>
       /\ dataBuf[d] = queue[d][currFilename[d]]
       /\ Stored(dataBuf[d])
  /\ pc[d] = "refused" => queue[d][currFilename[d]] \in {error[currFilename[d]]} \cup unkept
  /\ \A n \in readedFileList[d] : queue[d][n] \in delivered

(* The invariant all of Pipeline's safety properties follow from: which    *)
(* files there are, under which names, and what is known of the file each  *)
(* daemon has its hands on, at every point a death may interrupt it.       *)
PipelineInvariant ==
  /\ TypeInvariant
  /\ NamesMatch
  /\ FilesOfWriters
  /\ FilesSafe
  /\ RelayInv
  /\ \A d \in Dests : ConsumerInv(d)

(* What is delivered was stored, whatever the names: no file has data but  *)
(* of a call that has written it, and a consumer sends what it has read    *)
(* from a file.                                                            *)
StoredInvariant ==
  /\ \A i \in Messages : content[i] = Empty \/ Stored(content[i])
  /\ \A d \in Dests : pc[d] = "read" => Stored(dataBuf[d])
  /\ OnlyStoredDelivered

(* An inode lies under the name of the message whose open created it; a    *)
(* message has been written to one inode of its name, and is there, if     *)
(* anywhere.  Colliding names and missing directories leave this much.     *)
InodeInvariant ==
  /\ OwnNames(outgoing)
  /\ \A d \in Dests : OwnNames(queue[d])
  /\ \A i \in Messages : InOutgoing(i) \/ InQueue(i) => writing[i] \notin {"new", "refused"}
  /\ \A m \in Messages : writing[m] \in {"open", "stored"} =>
       /\ inode[m] \in Messages
       /\ FileName[inode[m]] = FileName[m]
       /\ writing[inode[m]] \notin {"new", "refused"}
  /\ \A i \in Messages : content[i] # Empty => inode[content[i]] = i
  /\ \A d \in Dests : pc[d] = "read" => queue[d][currFilename[d]] = inode[dataBuf[d]]

(* What a consumer is about to unlink has a copy: what it has linked, or,  *)
(* if the name was taken, what was there, which is the same file where     *)
(* names are distinct; or its link has failed.                             *)
KeptInvariant ==
  /\ OwnNames(error)
  /\ \A d \in Dests :
       /\ OwnNames(backup[d])
       /\ pc[d] = "refused" => queue[d][currFilename[d]] \in {error[currFilename[d]]} \cup unkept
       /\ pc[d] = "kept" => queue[d][currFilename[d]] \in {backup[d][currFilename[d]]} \cup unkept

(* Why nothing is sent twice: as long as no fault has met the name of m,   *)
(* its inodes are in the outgoing directory until they are in one queue,   *)
(* but while the relay is between link and unlink; and from the moment m   *)
(* was sent, its inode is on the list of the consumer that has it.         *)
Undisturbed(m) ==
  /\ \A i \in Messages : FileName[i] = FileName[m] =>
       /\ InOutgoing(i) /\ ~(relayPc = "linked" /\ relayCurr = FileName[m]) => ~InQueue(i)
       /\ \A d, e \in Dests :
            queue[d][FileName[m]] = i /\ queue[e][FileName[m]] = i => d = e
  /\ m \in delivered =>
       /\ outgoing[FileName[m]] = inode[m] => relayPc = "linked" /\ relayCurr = FileName[m]
       /\ \A d \in Dests :
            /\ queue[d][FileName[m]] = inode[m] => FileName[m] \in readedFileList[d]
            /\ pc[d] = "read" => dataBuf[d] # m

RepeatInvariant ==
  /\ NoNeedlessRepeat
  /\ \A m \in Messages \ disturbed : Undisturbed(m)
=============================================================================
