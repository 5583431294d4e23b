--------------------------- MODULE AkaSessionProofs ---------------------------
(***************************************************************************)
(* Proofs about AkaSession, for any number of connections, any packets the *)
(* clients write, and any number of failures and of ends of the parent.    *)
(***************************************************************************)
EXTENDS AkaSession, TLAPS

LEMMA InitInvariant == Init => AkaInvariant
<1> SUFFICES ASSUME Init PROVE AkaInvariant
    OBVIOUS
<1>1. ~sigchld /\ sigchld \in BOOLEAN /\ ~waiting /\ waiting \in BOOLEAN
  BY Zenon DEF Init
<1>2. TypeOK /\ ZombiesForSignals /\ OnlyVerifiedReceive
  BY <1>1, AkaAssumption
  DEF Init, TypeOK, ZombiesForSignals, OnlyVerifiedReceive, Conns, Living, Serving
<1>3. \A c \in Conns : Family(c) /\ Begun(c) /\ Progress(c) /\ Ended(c)
  BY DEF Init, Family, Begun, Progress, Ended, Conns, Living, Serving
<1>. QED
  BY <1>2, <1>3 DEF Init, AkaInvariant, ChildrenInvariant

-----------------------------------------------------------------------------
(* The parent and its clients. *)

LEMMA ParentInvariant ==
  ASSUME AkaInvariant, Accept \/ Fork \/ ParentEnds \/ ParentStarts \/ OnSignalChild
  PROVE  ChildrenInvariant'
<1> USE AkaAssumption
    DEF AkaInvariant, ChildrenInvariant, TypeOK, OnlyVerifiedReceive, Goto, Conns, Living, Serving,
        daemon, client, children, messages
<1>1. CASE Accept
  BY <1>1, SMTT(30)
  DEF Accept, ZombiesForSignals, Zombies, Family, Begun, Ended
<1>2. CASE Fork
  BY <1>2, SMTT(30)
  DEF Fork, ZombiesForSignals, Zombies, Family, Begun, Ended
<1>3. CASE ParentEnds
  <2>1. ~sigchld' /\ sigchld' \in BOOLEAN /\ ~waiting' /\ waiting' \in BOOLEAN
    BY <1>3, Zenon DEF ParentEnds
  <2>. QED
    BY <2>1, <1>3, SMTT(30)
    DEF ParentEnds, ZombiesForSignals, Zombies, Family, Begun, Ended
<1>4. CASE ParentStarts
  BY <1>4, SMTT(30)
  DEF ParentStarts, ZombiesForSignals, Zombies, Family, Begun, Ended
<1>5. CASE OnSignalChild
  <2>1. sigchld /\ ~sigchld' /\ sigchld' \in BOOLEAN /\ waiting' /\ waiting' \in BOOLEAN
    BY <1>5, Zenon DEF OnSignalChild
  <2>2. ZombiesForSignals'
    BY <2>1, <1>5, Zenon DEF OnSignalChild, ZombiesForSignals, Zombies
  <2>. QED
    BY <2>1, <2>2, <1>5, SMTT(30) DEF OnSignalChild, Family, Begun, Ended
<1>. QED
  BY <1>1, <1>2, <1>3, <1>4, <1>5

LEMMA WaitInvariant ==
  ASSUME AkaInvariant, NEW c \in Conns, Wait(c) \/ Hangup(c)
  PROVE  ChildrenInvariant'
<1> USE AkaAssumption
    DEF AkaInvariant, ChildrenInvariant, TypeOK, OnlyVerifiedReceive, Goto, Conns, Living, Serving,
        daemon, client, children, messages
<1>1. CASE Wait(c)
  <2>1. waiting /\ ~waiting' /\ waiting' \in BOOLEAN /\ sigchld' = sigchld
    BY <1>1, Zenon DEF Wait
  <2>2. Zombies' = Zombies \ {c} /\ c \in Zombies
    BY <1>1 DEF Wait, Zombies
  <2>3. ZombiesForSignals'
    BY <2>1, <2>2 DEF ZombiesForSignals
  <2>. QED
    BY <2>1, <2>3, <1>1, SMTT(30) DEF Wait, Zombies, Family, Begun, Ended
<1>2. CASE Hangup(c)
  BY <1>2, SMTT(30)
  DEF Hangup, ZombiesForSignals, Zombies, Family, Begun, Ended
<1>. QED
  BY <1>1, <1>2

-----------------------------------------------------------------------------
(* A child ends: what SIGCHLD and wait see of it. *)

LEMMA ExitZombies ==
  ASSUME TypeOK, ZombiesForSignals, NEW c \in Conns, at[c] # "zombie", Exits(c)
  PROVE  ZombiesForSignals' /\ sigchld' \in BOOLEAN
<1>1. CASE c \in own
  <2>1. sigchld' /\ sigchld' \in BOOLEAN /\ waiting' = waiting /\ own' = own
    BY <1>1, Zenon DEF Exits, children
  <2>2. Zombies' = Zombies \cup {c} /\ c \notin Zombies
    BY <1>1, <2>1 DEF Exits, Goto, Zombies, TypeOK
  <2>. QED
    BY <2>1, <2>2 DEF ZombiesForSignals
<1>2. CASE c \notin own
  <2>1. sigchld' = sigchld /\ sigchld' \in BOOLEAN /\ waiting' = waiting /\ own' = own
    BY <1>2, Zenon DEF Exits, TypeOK
  <2>2. Zombies' = Zombies
    BY <1>2, <2>1 DEF Exits, Goto, Zombies, TypeOK
  <2>. QED
    BY <2>1, <2>2 DEF ZombiesForSignals
<1>. QED
  BY <1>1, <1>2

(* ... and what it leaves behind. *)
LEMMA ExitInvariant ==
  ASSUME AkaInvariant, NEW c \in Conns,
         \/ Terminate(c) \/ ReadPart(c) \/ ReadEnd(c) \/ WrongPassword(c) \/ ReadOther(c)
  PROVE  ChildrenInvariant'
<1> USE AkaAssumption
    DEF AkaInvariant, ChildrenInvariant, TypeOK, OnlyVerifiedReceive, Goto, Conns, Living, Serving, Reads, Packet,
        daemon, client, messages
<1>1. at[c] # "zombie" /\ Exits(c)
  BY DEF Terminate, ReadPart, ReadEnd, WrongPassword, ReadOther
<1>2. ZombiesForSignals' /\ sigchld' \in BOOLEAN
  BY <1>1, ExitZombies
<1>3. CASE Terminate(c)
  BY <1>2, <1>3, SMTT(30) DEF Terminate, Exits, Family, Begun, Ended
<1>4. CASE ReadPart(c)
  BY <1>2, <1>4, SMTT(30) DEF ReadPart, Exits, Family, Begun, Ended
<1>5. CASE ReadEnd(c)
  <2>1. ASSUME NEW k \in Conns PROVE Ended(k)'
    BY <1>5, SMTT(30) DEF ReadEnd, Exits, Begun, Ended
  <2>2. TypeOK'
    BY <1>2, <1>5, SMTT(30) DEF ReadEnd, Exits
  <2>3. /\ at' = [at EXCEPT ![c] = "zombie"] /\ at[c] # "none"
        /\ UNCHANGED <<pos, script, verified, own, restarts, last, parent, term, m_pid, taken>>
    BY <1>5 DEF ReadEnd, Exits
  <2>4. ASSUME NEW k \in Conns PROVE Family(k)'
    BY <2>3, SMTT(30) DEF Family
  <2>5. ASSUME NEW k \in Conns PROVE Begun(k)'
    BY <2>3, SMTT(30) DEF Begun
  <2>. QED
    BY <2>1, <2>2, <2>3, <2>4, <2>5, <1>2
<1>6. CASE WrongPassword(c)
  BY <1>2, <1>6, SMTT(30) DEF WrongPassword, Exits, Family, Begun, Ended
<1>7. CASE ReadOther(c)
  BY <1>2, <1>7, SMTT(30) DEF ReadOther, Exits, Family, Begun, Ended
<1>. QED
  BY <1>3, <1>4, <1>5, <1>6, <1>7

-----------------------------------------------------------------------------
(* A session goes on. *)

LEMMA SessionInvariant ==
  ASSUME AkaInvariant, NEW c \in Conns,
         \/ Password(c) \/ StartUp(c) \/ ReadMessage(c) \/ ReadReply(c)
         \/ DoMessage(c) \/ \E d \in Inbox : Send(c, d)
  PROVE  ChildrenInvariant'
<1> USE AkaAssumption
    DEF AkaInvariant, ChildrenInvariant, TypeOK, OnlyVerifiedReceive, Goto, Conns, Living, Serving, Reads, Packet,
        daemon, client, messages, Family, Begun, Ended, Message
<1>0. ZombiesForSignals' /\ UNCHANGED children
  <2>1. UNCHANGED children /\ at[c] \in Living /\ (UNCHANGED at \/ \E l \in Living : Goto(c, l))
    BY DEF Password, StartUp, ReadMessage, ReadReply, DoMessage, Store, StoreFails, AnswerSMR,
           AnswerSMS, Send
  <2>2. Zombies' = Zombies
    BY <2>1 DEF Zombies, children
  <2>. QED
    BY <2>1, <2>2, Zenon DEF ZombiesForSignals, children
<1> USE DEF children
<1>1. CASE Password(c)
  BY <1>0, <1>1, SMTT(30) DEF Password
<1>2. CASE StartUp(c)
  BY <1>0, <1>2, SMTT(30) DEF StartUp
<1>3. CASE ReadMessage(c)
  BY <1>0, <1>3, SMTT(30) DEF ReadMessage
<1>4. CASE ReadReply(c)
  BY <1>0, <1>4, SMTT(30) DEF ReadReply
<1>5. CASE Store(c)
  BY <1>0, <1>5, SMTT(30) DEF Store
<1>6. CASE StoreFails(c)
  BY <1>0, <1>6, SMTT(30) DEF StoreFails
<1>7. CASE AnswerSMR(c)
  BY <1>0, <1>7, SMTT(30) DEF AnswerSMR
<1>8. CASE AnswerSMS(c)
  BY <1>0, <1>8, SMTT(30) DEF AnswerSMS, Progress
<1>9. ASSUME NEW d \in Inbox, Send(c, d) PROVE ChildrenInvariant'
  BY <1>0, <1>9, SMTT(30) DEF Send
<1>. QED
  BY <1>1, <1>2, <1>3, <1>4, <1>5, <1>6, <1>7, <1>8, <1>9 DEF DoMessage

-----------------------------------------------------------------------------
(* What a session has read it has dealt with. *)

LEMMA StepProgress ==
  ASSUME AkaInvariant, Next, NEW k \in Conns
  PROVE  Progress(k)'
<1> USE DEF Goto, Reads, Packet, Serving, Living, daemon, client, children, messages
<1>0. /\ at \in [Conns -> Living \cup {"none", "zombie"}]
      /\ pos[k] \in Nat
      /\ k <= last \/ at[k] = "none"
      /\ last < NConns => last + 1 \in Conns
      /\ Begun(k) /\ Family(k) /\ Progress(k)
  BY AkaAssumption DEF AkaInvariant, ChildrenInvariant, TypeOK, Family, Conns
<1>1. CASE Accept
  <2>1. k = last + 1 => at[k] = "none"
    BY <1>0, <1>1 DEF Accept, Family, AkaInvariant, ChildrenInvariant, TypeOK
  <2>2. k # last + 1 => script'[k] = script[k]
    BY <1>1 DEF Accept, AkaInvariant, ChildrenInvariant, TypeOK
  <2>3. UNCHANGED <<at, pos, verified, cut, messages>> /\ term \subseteq term'
    BY <1>1 DEF Accept
  <2>. QED
    BY <1>0, <2>1, <2>2, <2>3, SMTT(30) DEF Progress, Message
<1>2. CASE Fork
  BY <1>0, <1>2, SMTT(30) DEF Fork, Progress, Message, Begun
<1>3. CASE ParentEnds
  BY <1>0, <1>3, SMTT(30) DEF ParentEnds, Progress, Message, Begun
<1>4. CASE ParentStarts
  BY <1>0, <1>4, SMTT(30) DEF ParentStarts, Progress, Message, Begun
<1>5. CASE OnSignalChild
  BY <1>0, <1>5, SMTT(30) DEF OnSignalChild, Progress, Message, Begun
<1>6. ASSUME NEW c \in Conns, Wait(c) PROVE Progress(k)'
  BY <1>0, <1>6, SMTT(30) DEF Wait, Progress, Message, Begun
<1>7. ASSUME NEW c \in Conns, Hangup(c) PROVE Progress(k)'
  BY <1>0, <1>7, SMTT(30) DEF Hangup, Progress, Message, Begun
<1>8. ASSUME NEW c \in Conns, Terminate(c) PROVE Progress(k)'
  BY <1>0, <1>8, SMTT(30) DEF Terminate, Exits, Progress, Message, Begun
<1>9. ASSUME NEW c \in Conns, ReadPart(c) PROVE Progress(k)'
  BY <1>0, <1>9, SMTT(30) DEF ReadPart, Exits, Progress, Message, Begun
<1>10. ASSUME NEW c \in Conns, ReadEnd(c) PROVE Progress(k)'
  BY <1>0, <1>10, SMTT(30) DEF ReadEnd, Exits, Progress, Message, Begun
<1>11. ASSUME NEW c \in Conns, WrongPassword(c) PROVE Progress(k)'
  BY <1>0, <1>11, SMTT(30) DEF WrongPassword, Exits, Progress, Message, Begun
<1>12. ASSUME NEW c \in Conns, ReadOther(c) PROVE Progress(k)'
  BY <1>0, <1>12, SMTT(30) DEF ReadOther, Exits, Progress, Message, Begun
<1>13. ASSUME NEW c \in Conns, Password(c) PROVE Progress(k)'
  BY <1>0, <1>13, SMTT(30) DEF Password, Progress, Message, Begun
<1>14. ASSUME NEW c \in Conns, StartUp(c) PROVE Progress(k)'
  BY <1>0, <1>14, SMTT(30) DEF StartUp, Progress, Message, Begun
<1>15. ASSUME NEW c \in Conns, ReadMessage(c) PROVE Progress(k)'
  BY <1>0, <1>15, SMTT(30) DEF ReadMessage, Progress, Message, Begun
<1>16. ASSUME NEW c \in Conns, ReadReply(c) PROVE Progress(k)'
  BY <1>0, <1>16, SMTT(30) DEF ReadReply, Progress, Message, Begun
<1>17. ASSUME NEW c \in Conns, Store(c) PROVE Progress(k)'
  BY <1>0, <1>17, SMTT(30) DEF Store, Progress, Message, Begun
<1>18. ASSUME NEW c \in Conns, StoreFails(c) PROVE Progress(k)'
  BY <1>0, <1>18, SMTT(30) DEF StoreFails, Progress, Message, Begun
<1>19. ASSUME NEW c \in Conns, AnswerSMR(c) PROVE Progress(k)'
  BY <1>0, <1>19, SMTT(30) DEF AnswerSMR, Progress, Message, Begun
<1>20. ASSUME NEW c \in Conns, AnswerSMS(c) PROVE Progress(k)'
  BY <1>0, <1>20, SMTT(30) DEF AnswerSMS, Progress, Message, Begun
<1>21. ASSUME NEW c \in Conns, NEW d \in Inbox, Send(c, d) PROVE Progress(k)'
  BY <1>0, <1>21, SMTT(30) DEF Send, Progress, Message, Begun
<1>. QED
  BY <1>1, <1>2, <1>3, <1>4, <1>5, <1>6, <1>7, <1>8, <1>9, <1>10, <1>11,
     <1>12, <1>13, <1>14, <1>15, <1>16, <1>17, <1>18, <1>19, <1>20, <1>21
  DEF Next, Child, Login, Read, DoMessage

-----------------------------------------------------------------------------
LEMMA StepInvariant == AkaInvariant /\ [Next]_vars => AkaInvariant'
<1> SUFFICES ASSUME AkaInvariant, [Next]_vars PROVE AkaInvariant'
    OBVIOUS
<1>1. CASE UNCHANGED vars
  BY <1>1, Zenon
  DEF vars, daemon, client, children, messages, AkaInvariant, ChildrenInvariant, TypeOK,
      ZombiesForSignals, Zombies, Family, Begun, Progress, Ended, Message, OnlyVerifiedReceive
<1>2. CASE Next
  <2>1. ChildrenInvariant'
    BY <1>2, ParentInvariant, WaitInvariant, ExitInvariant, SessionInvariant
    DEF Next, Child, Login, Read, DoMessage
  <2>. QED
    BY <1>2, <2>1, StepProgress DEF AkaInvariant, Conns
<1>. QED
  BY <1>1, <1>2

(* What is known of the sessions, their parent and their messages holds    *)
(* whatever the clients write and whenever the signals come.               *)
THEOREM InvariantHolds == Spec => []AkaInvariant
  BY InitInvariant, StepInvariant, PTL DEF Spec

(* wait of the handler of SIGCHLD finds a zombie: it never stops the       *)
(* parent, however many children end at once and signals are merged.       *)
THEOREM WaitReturns == Spec => []WaitNeverBlocks
<1>1. AkaInvariant => WaitNeverBlocks
  BY DEF AkaInvariant, ChildrenInvariant, ZombiesForSignals, WaitNeverBlocks
<1>. QED BY <1>1, InvariantHolds, PTL

(* A second session beside that of the last login needs a restart of the   *)
(* parent, which forgets m_pid.                                            *)
THEOREM OneSession == Spec => []SurplusNeedsRestart
<1>1. AkaInvariant => SurplusNeedsRestart
  BY DEF AkaInvariant, ChildrenInvariant, Family, SurplusNeedsRestart
<1>. QED BY <1>1, InvariantHolds, PTL

(* A session leaves no message of its client behind without a cause.       *)
THEOREM LossHasCause == Spec => []LossNeedsCause
<1>1. AkaInvariant => LossNeedsCause
  <2> SUFFICES ASSUME AkaInvariant, NEW c \in Conns, NEW i \in 1..Len(script[c]),
                      at[c] = "zombie", c \in verified, script[c][i] = "SM",
                      <<c, i>> \notin stored \cup lost, c \notin term, c \notin cut
               PROVE  \E j \in 2..(i - 1) : script[c][j] \notin {"SM", "CDR"}
      BY Zenon DEF LossNeedsCause
  <2> USE DEF AkaInvariant, ChildrenInvariant, TypeOK
  <2>1. i # 1 /\ pos[c] \in Nat /\ Len(script[c]) \in Nat
    BY DEF Begun
  <2>2. ~ (i <= pos[c])
    BY <2>1 DEF Progress
  <2>3. pos[c] >= 2 /\ script[c][pos[c]] \notin {"SM", "CDR"}
    BY <2>1, <2>2 DEF Ended
  <2>. QED
    BY <2>1, <2>2, <2>3
<1>. QED BY <1>1, InvariantHolds, PTL
===============================================================================
