------------------------------- MODULE Deliver -------------------------------
(***************************************************************************)
(* CDeliver, the relay daemon: sms_deliver_c2p moves what the BBS sessions *)
(* wrote to the provider's directory, sms_deliver_p2c what came from the   *)
(* phone network to the directory of the BBS its number belongs to.  It    *)
(* sleeps in pause() and does all its work in the handler of a queued      *)
(* realtime signal that dnotify raises once per file created.              *)
(***************************************************************************)
EXTENDS Spool

VARIABLES
  relayPc,     \* "down", "idle", "scan" or "linked"
  relayCurr,   \* the name OnNotify is working on
  relayScan,   \* the names its readdir has still to return
  relaySig     \* queued signals

relayVars == <<relayPc, relayCurr, relayScan, relaySig>>

RelayTypeOK ==
  /\ relayPc \in {"down", "idle", "scan", "linked"}
  /\ relayCurr \in Names \cup {NoFile}
  /\ relayScan \in SUBSET Names
  /\ relaySig \in Nat

RelayInit ==
  /\ relayPc = "down"
  /\ relayCurr = NoFile
  /\ relayScan = {}
  /\ relaySig = 0

(* dnotify: a name appeared in the outgoing directory.  A running readdir  *)
(* may or may not come across it; a dead relay has no watch on it.         *)
RelayNotified(n) ==
  /\ relaySig' = IF relayPc = "down" THEN 0 ELSE relaySig + 1
  /\ relayScan' \in IF relayPc \in {"scan", "linked"}
                    THEN {relayScan, relayScan \cup {n}}
                    ELSE {relayScan}
  /\ UNCHANGED <<relayPc, relayCurr>>

(* Run: set_notifier, then pause(); what is in the directory already is    *)
(* not looked at.                                                          *)
RelayStart ==
  /\ relayPc = "down"
  /\ relayPc' = "idle"
  /\ UNCHANGED <<relayCurr, relayScan, relaySig>>

(* Mutant of RelayOpenDir: the handler runs without a signal. *)
RelayOpenDirUnasked ==
  /\ relayPc = "idle"
  /\ relaySig' = relaySig - 1
  /\ relayScan' = Entries(outgoing)
  /\ relayPc' = "scan"
  /\ UNCHANGED relayCurr

(* The handler, OnNotify: opendir. *)
RelayOpenDir ==
  /\ relayPc = "idle"
  /\ relaySig > 0
  /\ relaySig' = relaySig - 1
  /\ relayScan' = Entries(outgoing)
  /\ relayPc' = "scan"
  /\ UNCHANGED relayCurr

(* Mutant of RelayLink: the file goes to no directory. *)
RelayLinkSkipped(n, d) ==
  /\ relayPc = "scan"
  /\ n \in relayScan
  /\ d \in Routes[n]
  /\ relayCurr' = n
  /\ relayPc' = "linked"
  /\ UNCHANGED <<queue, unkept, relayScan, relaySig>>

(* readdir returns n; stat; getDest answers d; link. *)
RelayLink(n, d) ==
  /\ relayPc = "scan"
  /\ n \in relayScan
  /\ d \in Routes[n] \cap haveDir
  /\ queue' = [queue EXCEPT ![d] = Linked(@, n, outgoing[n])]
  /\ relayCurr' = n
  /\ relayPc' = "linked"
  /\ UNCHANGED <<unkept, relayScan, relaySig>>

(* link fails, as d does not exist or for another reason: a line is logged.*)
RelayLinkFails(n, d) ==
  /\ relayPc = "scan"
  /\ n \in relayScan
  /\ d \in Routes[n]
  /\ Unlinkable(outgoing[n])
  /\ relayCurr' = n
  /\ relayPc' = "linked"
  /\ UNCHANGED <<queue, relayScan, relaySig>>

(* unlink, whatever link answered. *)
RelayUnlink ==
  /\ relayPc = "linked"
  /\ outgoing' = Unlinked(outgoing, relayCurr)
  /\ relayScan' = relayScan \ {relayCurr}
  /\ relayCurr' = NoFile
  /\ relayPc' = "scan"
  /\ UNCHANGED relaySig

(* readdir returns NULL: closedir, back to pause(). *)
RelayCloseDir ==
  /\ relayPc = "scan"
  /\ relayScan = {}
  /\ relayPc' = "idle"
  /\ UNCHANGED <<relayCurr, relayScan, relaySig>>

(* The process dies (SIGTERM is OnSignalTerm: exit). *)
RelayDies ==
  /\ relayPc # "down"
  /\ relayPc' = "down"
  /\ relayScan' = {}
  /\ relaySig' = 0
  /\ relayCurr' = NoFile
=============================================================================
