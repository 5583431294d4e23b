-------------------------- MODULE Gateway5168Proofs --------------------------
(***************************************************************************)
(* Proofs about Gateway5168, for any messages, any WAITTIME, and any       *)
(* number of lost connections and of ends of the daemon.                   *)
(***************************************************************************)
EXTENDS Gateway5168, TLAPS

LEMMA AgesBounded == \A age \in 0..MaxAge : Older(age) \in 0..MaxAge
  BY GatewayAssumption DEF Older, MaxAge

(* NULL is no directory. *)
LEMMA NotNull == \A S : S \subseteq Messages => S # NULL /\ S \ NULL = S
  BY GatewayAssumption DEF NULL

LEMMA InitInvariant == Init => GatewayInvariant
<1> SUFFICES ASSUME Init PROVE GatewayInvariant
    OBVIOUS
<1>1. /\ ~connected /\ connected \in BOOLEAN /\ failed \in BOOLEAN
      /\ recovers \in BOOLEAN /\ sigusr1 \in BOOLEAN
  BY Zenon DEF Init
<1>. QED
  BY <1>1, GatewayAssumption
  DEF Init, GatewayInvariant, TypeOK, SendsLoggedInOnly, ScanCovers, Contexts, MaxAge

(* What happens around the daemon, and its ends.                           *)
LEMMA SurroundingsInvariant ==
  ASSUME GatewayInvariant,
         Tick \/ Lose \/ Die \/ Crash \/ \E m \in Messages : Arrive(m)
  PROVE  GatewayInvariant'
<1> USE NotNull
    DEF GatewayInvariant, TypeOK, SendsLoggedInOnly, ScanCovers, Contexts,
        session, ages, storage, bounds
<1>1. CASE Tick
  BY <1>1, AgesBounded, SMTT(20) DEF Tick
<1>2. CASE Lose
  BY <1>2, GatewayAssumption, SMTT(20) DEF Lose
<1>3. CASE Die
  <2>1. /\ ~connected' /\ ~failed' /\ ~sigusr1'
        /\ connected' \in BOOLEAN /\ failed' \in BOOLEAN /\ sigusr1' \in BOOLEAN
    BY <1>3, Zenon DEF Die, Restart
  <2>. QED
    BY <2>1, <1>3, GatewayAssumption, SMTT(20) DEF Die, Restart
<1>4. CASE Crash
  <2>1. /\ ~connected' /\ ~failed' /\ ~sigusr1'
        /\ connected' \in BOOLEAN /\ failed' \in BOOLEAN /\ sigusr1' \in BOOLEAN
    BY <1>4, Zenon DEF Crash, Restart
  <2>. QED
    BY <2>1, <1>4, SMTT(20) DEF Crash, Restart
<1>5. ASSUME NEW m \in Messages, Arrive(m) PROVE GatewayInvariant'
  <2>1. sigusr1' /\ sigusr1' \in BOOLEAN
    BY <1>5, Zenon DEF Arrive
  <2>. QED
    BY <2>1, <1>5, SMTT(20) DEF Arrive
<1>. QED
  BY <1>1, <1>2, <1>3, <1>4, <1>5

(* Run, from apiLogin to the end of its loop.                              *)
LEMMA RunInvariant ==
  ASSUME GatewayInvariant, ApiLogin \/ LoginFailed \/ Login \/ StartUp \/ Loop
  PROVE  GatewayInvariant'
<1> USE NotNull
    DEF GatewayInvariant, TypeOK, SendsLoggedInOnly, ScanCovers, Contexts, Runs, Goto,
        session, ages, storage, bounds
<1>0. 0 \in 0..MaxAge
  BY GatewayAssumption DEF MaxAge
<1>1. CASE ApiLogin
  BY <1>1, SMTT(20) DEF ApiLogin
<1>2. CASE LoginFailed
  BY <1>2, SMTT(20) DEF LoginFailed
<1>3. CASE Login
  <2>1. connected' \in BOOLEAN /\ failed' \in BOOLEAN
    BY <1>3, Zenon DEF Login
  <2>. QED
    BY <2>1, <1>3, SMTT(20) DEF Login
<1>4. CASE StartUp
  BY <1>0, <1>4, SMTT(20) DEF StartUp
<1>5. CASE Receive
  BY <1>0, <1>5, SMTT(20) DEF Receive
<1>6. CASE ReceiveFailed
  <2>1. ~connected' /\ connected' \in BOOLEAN /\ failed' \in BOOLEAN
    BY <1>6, Zenon DEF ReceiveFailed
  <2>. QED
    BY <2>1, <1>6, SMTT(20) DEF ReceiveFailed
<1>7. CASE ReceiveTimeout
  BY <1>7, SMTT(20) DEF ReceiveTimeout
<1>8. CASE KeepAliveFailed
  <2>1. ~connected' /\ connected' \in BOOLEAN
    BY <1>8, Zenon DEF KeepAliveFailed
  <2>. QED
    BY <2>1, <1>8, SMTT(20) DEF KeepAliveFailed
<1>9. CASE GoOn
  BY <1>0, <1>9, SMTT(20) DEF GoOn
<1>10. CASE NoReply
  <2>1. ~connected' /\ connected' \in BOOLEAN
    BY <1>10, Zenon DEF NoReply
  <2>. QED
    BY <2>1, <1>0, <1>10, SMTT(20) DEF NoReply
<1>11. CASE Stop
  BY <1>11, SMTT(20) DEF Stop
<1>12. CASE Again
  <2>1. ~connected' /\ connected' \in BOOLEAN
    BY <1>12, Zenon DEF Again
  <2>. QED
    BY <2>1, <1>12, SMTT(20) DEF Again
<1>. QED
  BY <1>1, <1>2, <1>3, <1>4, <1>5, <1>6, <1>7, <1>8, <1>9, <1>10, <1>11, <1>12 DEF Loop

(* OnNotify, main's or the handler's.                                      *)
LEMMA ScanInvariant ==
  ASSUME GatewayInvariant, Notify \/ \E c \in Contexts : Scan(c)
  PROVE  GatewayInvariant'
<1> USE NotNull
    DEF GatewayInvariant, TypeOK, SendsLoggedInOnly, ScanCovers, Contexts, Runs, Goto, Read,
        session, ages, storage, bounds
<1>1. CASE Notify
  <2>1. ~sigusr1' /\ sigusr1' \in BOOLEAN
    BY <1>1, Zenon DEF Notify
  <2>. QED
    BY <2>1, <1>1, SMTT(20) DEF Notify
<1>2. ASSUME NEW c \in Contexts, NEW m \in Messages, SendOffline(c, m)
      PROVE  GatewayInvariant'
  BY <1>2, SMTT(20) DEF SendOffline
<1>3. ASSUME NEW c \in Contexts, NEW m \in Messages, SendFailed(c, m)
      PROVE  GatewayInvariant'
  BY <1>3, SMTT(20) DEF SendFailed
<1>4. ASSUME NEW c \in Contexts, NEW m \in Messages, SendSuccess(c, m)
      PROVE  GatewayInvariant'
  BY <1>4, SMTT(20) DEF SendSuccess
<1>5. ASSUME NEW c \in Contexts, Clear(c) PROVE GatewayInvariant'
  BY <1>5, SMTT(20) DEF Clear
<1>. QED
  BY <1>1, <1>2, <1>3, <1>4, <1>5 DEF Scan

LEMMA StepInvariant == GatewayInvariant /\ [Next]_vars => GatewayInvariant'
<1> SUFFICES ASSUME GatewayInvariant, [Next]_vars PROVE GatewayInvariant'
    OBVIOUS
<1>1. CASE UNCHANGED vars
  BY <1>1
  DEF vars, session, ages, storage, bounds, GatewayInvariant, TypeOK, SendsLoggedInOnly, ScanCovers
<1>. QED
  BY <1>1, SurroundingsInvariant, RunInvariant, ScanInvariant DEF Next, Run

(* The daemon is consistent wherever it is interrupted: in particular,     *)
(* apiSend is called between an answered login and apiStop only.           *)
THEOREM InvariantHolds == Spec => []GatewayInvariant
  BY InitInvariant, StepInvariant, PTL DEF Spec

(* After a login nothing is left behind that was refused before it: when   *)
(* main receives, and no signal is pending, every message that waits has   *)
(* been passed to apiSend.                                                 *)
THEOREM NothingStrandedHolds == Spec => []NothingStranded
<1>1. GatewayInvariant => NothingStranded
  BY DEF GatewayInvariant, ScanCovers, NothingStranded, NULL
<1>. QED BY <1>1, InvariantHolds, PTL
==============================================================================
