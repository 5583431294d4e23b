-------------------------- MODULE Gateway18dxProofs --------------------------
(***************************************************************************)
(* Proofs about Gateway18dx, for any messages and deliveries, and any      *)
(* number of attempts, lost connections, timeouts and ends of the daemon.  *)
(***************************************************************************)
EXTENDS Gateway18dx, TLAPS

LEMMA InitInvariant == Init => DxInvariant
<1> SUFFICES ASSUME Init PROVE DxInvariant
    OBVIOUS
<1>1. sigusr1 \in BOOLEAN
  BY Zenon DEF Init
<1>. QED
  BY <1>1, GatewayAssumption
  DEF Init, DxInvariant, TypeOK, OneQuestion, ScanOfDirectory, AnswerIsTrue, AcceptedIsListed

-----------------------------------------------------------------------------
(* The variables keep their types, ... *)

LEMMA StepType == ASSUME DxInvariant, Next PROVE TypeOK'
<1> USE GatewayAssumption
    DEF DxInvariant, TypeOK, OneQuestion, ScanOfDirectory, Results,
        connection, storage, provider, history, receive, bounds
<1>1. CASE Notify
  <2>1. sigusr1' \in BOOLEAN
    BY <1>1, Zenon DEF Notify
  <2>. QED
    BY <1>1, <2>1, SMTT(30) DEF Notify
<1>2. CASE Clear
  BY <1>2, SMTT(30) DEF Clear
<1>3. CASE Connect
  BY <1>3, SMTT(30) DEF Connect
<1>4. CASE ConnectFails
  BY <1>4, SMTT(30) DEF ConnectFails, Return
<1>5. CASE Write
  BY <1>5, SMTT(30) DEF Write
<1>6. CASE WriteLost
  BY <1>6, SMTT(30) DEF WriteLost
<1>7. CASE WriteFails
  BY <1>7, SMTT(30) DEF WriteFails, Return, Close
<1>8. CASE ReadTimeout
  BY <1>8, SMTT(30) DEF ReadTimeout, Return, Close, Fault
<1>9. CASE ReadFails
  BY <1>9, SMTT(30) DEF ReadFails, Return, Close
<1>10. CASE ReadAnswer
  BY <1>10, SMTT(30) DEF ReadAnswer, Return, Meaning
<1>11. ASSUME NEW result \in Results, ReadPart(result) PROVE TypeOK'
  BY <1>11, SMTT(30) DEF ReadPart, Return, Meaning
<1>12. CASE Lose
  BY <1>12, SMTT(30) DEF Lose, Fault
<1>13. CASE Die
  <2>1. sigusr1' \in BOOLEAN
    BY <1>13, Zenon DEF Die
  <2>. QED
    BY <1>13, <2>1, SMTT(30) DEF Die, Close, Fault
<1>14. ASSUME NEW m \in Messages, Arrive(m) PROVE TypeOK'
  BY <1>14, SMTT(30) DEF Arrive
<1>15. ASSUME NEW m \in Messages, Read(m) PROVE TypeOK'
  BY <1>15, SMTT(30) DEF Read
<1>16. ASSUME NEW result \in Results, Answer(result) PROVE TypeOK'
  BY <1>16, SMTT(30) DEF Answer, Decide
<1>17. ASSUME NEW m \in Messages, NEW result \in Results, AnswerNobody(m, result)
       PROVE  TypeOK'
  BY <1>17, SMTT(30) DEF AnswerNobody, Decide
<1>18. ASSUME NEW d \in Deliveries, Accept(d) \/ OnAccept(d) PROVE TypeOK'
  BY <1>18, SMTT(30) DEF Accept, OnAccept, ReadHead, ReadBody, ReadLess, Store, Child
<1>. QED
  BY <1>1, <1>2, <1>3, <1>4, <1>5, <1>6, <1>7, <1>8, <1>9, <1>10, <1>11, <1>12,
     <1>13, <1>14, <1>15, <1>16, <1>17, <1>18
  DEF Next, Send

-----------------------------------------------------------------------------
(* ... a request or an answer on its way is that of msg, ... *)

LEMMA StepQuestion == ASSUME DxInvariant, Next PROVE OneQuestion'
<1> USE GatewayAssumption
    DEF DxInvariant, TypeOK, OneQuestion, Results,
        connection, storage, provider, history, receive, bounds
<1>1. CASE Notify
  BY <1>1, SMTT(30) DEF Notify
<1>2. CASE Clear
  BY <1>2, SMTT(30) DEF Clear
<1>3. CASE Connect
  BY <1>3, SMTT(30) DEF Connect
<1>4. CASE ConnectFails
  BY <1>4, SMTT(30) DEF ConnectFails, Return
<1>5. CASE Write
  <2>1. reqs = <<>> /\ acks = <<>> /\ at' = "read" /\ UNCHANGED <<msg, acks>>
    BY <1>5 DEF Write
  <2>2. reqs' = <<msg>>
    BY <1>5, <2>1 DEF Write
  <2>. QED
    BY <2>1, <2>2
<1>6. CASE WriteLost
  BY <1>6, SMTT(30) DEF WriteLost
<1>7. CASE WriteFails
  BY <1>7, SMTT(30) DEF WriteFails, Return, Close
<1>8. CASE ReadTimeout
  BY <1>8, SMTT(30) DEF ReadTimeout, Return, Close, Fault
<1>9. CASE ReadFails
  BY <1>9, SMTT(30) DEF ReadFails, Return, Close
<1>10. CASE ReadAnswer
  BY <1>10, SMTT(30) DEF ReadAnswer, Return, Meaning
<1>11. ASSUME NEW result \in Results, ReadPart(result) PROVE OneQuestion'
  BY <1>11, SMTT(30) DEF ReadPart, Return, Meaning
<1>12. CASE Lose
  BY <1>12, SMTT(30) DEF Lose, Fault
<1>13. CASE Die
  BY <1>13, SMTT(30) DEF Die, Close, Fault
<1>14. ASSUME NEW m \in Messages, Arrive(m) PROVE OneQuestion'
  BY <1>14, SMTT(30) DEF Arrive
<1>15. ASSUME NEW m \in Messages, Read(m) PROVE OneQuestion'
  BY <1>15, SMTT(30) DEF Read
<1>16. ASSUME NEW result \in Results, Answer(result) PROVE OneQuestion'
  BY <1>16, SMTT(30) DEF Answer, Decide
<1>17. ASSUME NEW m \in Messages, NEW result \in Results, AnswerNobody(m, result)
       PROVE  OneQuestion'
  BY <1>17, SMTT(30) DEF AnswerNobody, Decide
<1>18. ASSUME NEW d \in Deliveries, Accept(d) \/ OnAccept(d) PROVE OneQuestion'
  BY <1>18, SMTT(30) DEF Accept, OnAccept, ReadHead, ReadBody, ReadLess, Store, Child
<1>. QED
  BY <1>1, <1>2, <1>3, <1>4, <1>5, <1>6, <1>7, <1>8, <1>9, <1>10, <1>11, <1>12,
     <1>13, <1>14, <1>15, <1>16, <1>17, <1>18
  DEF Next, Send

-----------------------------------------------------------------------------
(* ... scans keep to the directory, ... *)

LEMMA StepScan == ASSUME DxInvariant, Next PROVE ScanOfDirectory'
<1> USE GatewayAssumption
    DEF DxInvariant, TypeOK, ScanOfDirectory,
        connection, storage, provider, history, receive, bounds
<1>1. CASE Notify
  BY <1>1, SMTT(30) DEF Notify
<1>2. CASE Clear
  BY <1>2, SMTT(30) DEF Clear
<1>3. CASE Connect
  BY <1>3, SMTT(30) DEF Connect
<1>4. CASE ConnectFails
  BY <1>4, SMTT(30) DEF ConnectFails, Return
<1>5. CASE Write
  BY <1>5, SMTT(30) DEF Write
<1>6. CASE WriteLost
  BY <1>6, SMTT(30) DEF WriteLost
<1>7. CASE WriteFails
  BY <1>7, SMTT(30) DEF WriteFails, Return, Close
<1>8. CASE ReadTimeout
  BY <1>8, SMTT(30) DEF ReadTimeout, Return, Close, Fault
<1>9. CASE ReadFails
  BY <1>9, SMTT(30) DEF ReadFails, Return, Close
<1>10. CASE ReadAnswer
  BY <1>10, SMTT(30) DEF ReadAnswer, Return, Meaning
<1>11. ASSUME NEW result \in Results, ReadPart(result) PROVE ScanOfDirectory'
  BY <1>11, SMTT(30) DEF ReadPart, Return, Meaning
<1>12. CASE Lose
  BY <1>12, SMTT(30) DEF Lose, Fault
<1>13. CASE Die
  BY <1>13, SMTT(30) DEF Die, Close, Fault
<1>14. ASSUME NEW m \in Messages, Arrive(m) PROVE ScanOfDirectory'
  BY <1>14, SMTT(30) DEF Arrive
<1>15. ASSUME NEW m \in Messages, Read(m) PROVE ScanOfDirectory'
  BY <1>15, SMTT(30) DEF Read
<1>16. ASSUME NEW result \in Results, Answer(result) PROVE ScanOfDirectory'
  BY <1>16, SMTT(30) DEF Answer, Decide
<1>17. ASSUME NEW m \in Messages, NEW result \in Results, AnswerNobody(m, result)
       PROVE  ScanOfDirectory'
  BY <1>17, SMTT(30) DEF AnswerNobody, Decide
<1>18. ASSUME NEW d \in Deliveries, Accept(d) \/ OnAccept(d) PROVE ScanOfDirectory'
  BY <1>18, SMTT(30) DEF Accept, OnAccept, ReadHead, ReadBody, ReadLess, Store, Child
<1>. QED
  BY <1>1, <1>2, <1>3, <1>4, <1>5, <1>6, <1>7, <1>8, <1>9, <1>10, <1>11, <1>12,
     <1>13, <1>14, <1>15, <1>16, <1>17, <1>18
  DEF Next, Send

-----------------------------------------------------------------------------
(* ... answers are those of the provider, ... *)

LEMMA StepAnswer == ASSUME DxInvariant, Next PROVE AnswerIsTrue'
<1> USE GatewayAssumption
    DEF DxInvariant, TypeOK, OneQuestion, AnswerIsTrue, Results,
        connection, storage, provider, history, receive, bounds
<1>1. CASE Notify
  BY <1>1, SMTT(30) DEF Notify
<1>2. CASE Clear
  BY <1>2, SMTT(30) DEF Clear
<1>3. CASE Connect
  BY <1>3, SMTT(30) DEF Connect
<1>4. CASE ConnectFails
  BY <1>4, SMTT(30) DEF ConnectFails, Return
<1>5. CASE Write
  BY <1>5, SMTT(30) DEF Write
<1>6. CASE WriteLost
  BY <1>6, SMTT(30) DEF WriteLost
<1>7. CASE WriteFails
  BY <1>7, SMTT(30) DEF WriteFails, Return, Close
<1>8. CASE ReadTimeout
  BY <1>8, SMTT(30) DEF ReadTimeout, Return, Close, Fault
<1>9. CASE ReadFails
  BY <1>9, SMTT(30) DEF ReadFails, Return, Close
<1>10. CASE ReadAnswer
  BY <1>10, SMTT(30) DEF ReadAnswer, Return, Meaning
<1>11. ASSUME NEW result \in Results, ReadPart(result) PROVE AnswerIsTrue'
  BY <1>11, SMTT(30) DEF ReadPart, Return, Meaning
<1>12. CASE Lose
  BY <1>12, SMTT(30) DEF Lose, Fault
<1>13. CASE Die
  BY <1>13, SMTT(30) DEF Die, Close, Fault
<1>14. ASSUME NEW m \in Messages, Arrive(m) PROVE AnswerIsTrue'
  BY <1>14, SMTT(30) DEF Arrive
<1>15. ASSUME NEW m \in Messages, Read(m) PROVE AnswerIsTrue'
  BY <1>15, SMTT(30) DEF Read
<1>16. ASSUME NEW result \in Results, Answer(result) PROVE AnswerIsTrue'
  BY <1>16, SMTT(30) DEF Answer, Decide
<1>17. ASSUME NEW m \in Messages, NEW result \in Results, AnswerNobody(m, result)
       PROVE  AnswerIsTrue'
  BY <1>17, SMTT(30) DEF AnswerNobody, Decide
<1>18. ASSUME NEW d \in Deliveries, Accept(d) \/ OnAccept(d) PROVE AnswerIsTrue'
  BY <1>18, SMTT(30) DEF Accept, OnAccept, ReadHead, ReadBody, ReadLess, Store, Child
<1>. QED
  BY <1>1, <1>2, <1>3, <1>4, <1>5, <1>6, <1>7, <1>8, <1>9, <1>10, <1>11, <1>12,
     <1>13, <1>14, <1>15, <1>16, <1>17, <1>18
  DEF Next, Send

-----------------------------------------------------------------------------
(* ... and what was accepted is recorded. *)

LEMMA StepAccepted == ASSUME DxInvariant, Next PROVE AcceptedIsListed'
<1> USE GatewayAssumption
    DEF DxInvariant, TypeOK, OneQuestion, ScanOfDirectory, AcceptedIsListed, Results,
        connection, storage, provider, history, receive, bounds
<1>1. CASE Notify
  BY <1>1, SMTT(30) DEF Notify
<1>2. CASE Clear
  BY <1>2, SMTT(30) DEF Clear
<1>3. CASE Connect
  BY <1>3, SMTT(30) DEF Connect
<1>4. CASE ConnectFails
  BY <1>4, SMTT(30) DEF ConnectFails, Return
<1>5. CASE Write
  BY <1>5, SMTT(30) DEF Write
<1>6. CASE WriteLost
  BY <1>6, SMTT(30) DEF WriteLost
<1>7. CASE WriteFails
  BY <1>7, SMTT(30) DEF WriteFails, Return, Close
<1>8. CASE ReadTimeout
  BY <1>8, SMTT(30) DEF ReadTimeout, Return, Close, Fault
<1>9. CASE ReadFails
  BY <1>9, SMTT(30) DEF ReadFails, Return, Close
<1>10. CASE ReadAnswer
  BY <1>10, SMTT(30) DEF ReadAnswer, Return, Meaning
<1>11. ASSUME NEW result \in Results, ReadPart(result) PROVE AcceptedIsListed'
  BY <1>11, SMTT(30) DEF ReadPart, Return, Meaning
<1>12. CASE Lose
  BY <1>12, SMTT(30) DEF Lose, Fault
<1>13. CASE Die
  BY <1>13, SMTT(30) DEF Die, Close, Fault
<1>14. ASSUME NEW m \in Messages, Arrive(m) PROVE AcceptedIsListed'
  BY <1>14, SMTT(30) DEF Arrive
<1>15. ASSUME NEW m \in Messages, Read(m) PROVE AcceptedIsListed'
  BY <1>15, SMTT(30) DEF Read
<1>16. ASSUME NEW result \in Results, Answer(result) PROVE AcceptedIsListed'
  BY <1>16, SMTT(30) DEF Answer, Decide
<1>17. ASSUME NEW m \in Messages, NEW result \in Results, AnswerNobody(m, result)
       PROVE  AcceptedIsListed'
  BY <1>17, SMTT(30) DEF AnswerNobody, Decide
<1>18. ASSUME NEW d \in Deliveries, Accept(d) \/ OnAccept(d) PROVE AcceptedIsListed'
  BY <1>18, SMTT(30) DEF Accept, OnAccept, ReadHead, ReadBody, ReadLess, Store, Child
<1>. QED
  BY <1>1, <1>2, <1>3, <1>4, <1>5, <1>6, <1>7, <1>8, <1>9, <1>10, <1>11, <1>12,
     <1>13, <1>14, <1>15, <1>16, <1>17, <1>18
  DEF Next, Send

-----------------------------------------------------------------------------
LEMMA StepInvariant == DxInvariant /\ [Next]_vars => DxInvariant'
<1> SUFFICES ASSUME DxInvariant, [Next]_vars PROVE DxInvariant'
    OBVIOUS
<1>1. CASE UNCHANGED vars
  BY <1>1, Zenon
  DEF vars, connection, storage, provider, history, receive, bounds,
      DxInvariant, TypeOK, OneQuestion, ScanOfDirectory, AnswerIsTrue, AcceptedIsListed
<1>2. CASE Next
  BY <1>2, StepType, StepQuestion, StepScan, StepAnswer, StepAccepted DEF DxInvariant
<1>. QED
  BY <1>1, <1>2

(* No answer is taken for the answer to another message, and what the      *)
(* provider has accepted leaves the directory with the scan.               *)
THEOREM InvariantHolds == Spec => []DxInvariant
  BY InitInvariant, StepInvariant, PTL DEF Spec

-----------------------------------------------------------------------------
(* What became of the answers, and how often a message was accepted. *)

LEMMA InitCounters ==
  Init => ResultsAreTrue /\ TwiceNeedsFault
  BY DEF Init, ResultsAreTrue, TwiceNeedsFault

LEMMA StepResults ==
  DxInvariant /\ ResultsAreTrue /\ [Next]_vars => ResultsAreTrue'
<1> SUFFICES ASSUME DxInvariant, ResultsAreTrue, [Next]_vars PROVE ResultsAreTrue'
    OBVIOUS
<1> USE GatewayAssumption
    DEF DxInvariant, TypeOK, OneQuestion, ScanOfDirectory, AnswerIsTrue, AcceptedIsListed,
        Results, ResultsAreTrue,
        connection, storage, provider, history, receive, bounds
<1>1. CASE Notify
  BY <1>1, SMTT(30) DEF Notify
<1>2. CASE Clear
  BY <1>2, SMTT(30) DEF Clear
<1>3. CASE Connect
  BY <1>3, SMTT(30) DEF Connect
<1>4. CASE ConnectFails
  BY <1>4, SMTT(30) DEF ConnectFails, Return
<1>5. CASE Write
  BY <1>5, SMTT(30) DEF Write
<1>6. CASE WriteLost
  BY <1>6, SMTT(30) DEF WriteLost
<1>7. CASE WriteFails
  BY <1>7, SMTT(30) DEF WriteFails, Return, Close
<1>8. CASE ReadTimeout
  BY <1>8, SMTT(30) DEF ReadTimeout, Return, Close, Fault
<1>9. CASE ReadFails
  BY <1>9, SMTT(30) DEF ReadFails, Return, Close
<1>10. CASE ReadAnswer
  BY <1>10, SMTT(30) DEF ReadAnswer, Return, Meaning
<1>11. ASSUME NEW result \in Results, ReadPart(result) PROVE ResultsAreTrue'
  BY <1>11, SMTT(30) DEF ReadPart, Return, Meaning
<1>12. CASE Lose
  BY <1>12, SMTT(30) DEF Lose, Fault
<1>13. CASE Die
  BY <1>13, SMTT(30) DEF Die, Close, Fault
<1>14. ASSUME NEW m \in Messages, Arrive(m) PROVE ResultsAreTrue'
  BY <1>14, SMTT(30) DEF Arrive
<1>15. ASSUME NEW m \in Messages, Read(m) PROVE ResultsAreTrue'
  BY <1>15, SMTT(30) DEF Read
<1>16. ASSUME NEW result \in Results, Answer(result) PROVE ResultsAreTrue'
  BY <1>16, SMTT(30) DEF Answer, Decide
<1>17. ASSUME NEW m \in Messages, NEW result \in Results, AnswerNobody(m, result)
       PROVE  ResultsAreTrue'
  BY <1>17, SMTT(30) DEF AnswerNobody, Decide
<1>18. ASSUME NEW d \in Deliveries, Accept(d) \/ OnAccept(d) PROVE ResultsAreTrue'
  BY <1>18, SMTT(30) DEF Accept, OnAccept, ReadHead, ReadBody, ReadLess, Store, Child
<1>19. CASE UNCHANGED vars
  BY <1>19, Zenon DEF vars
<1>. QED
  BY <1>1, <1>2, <1>3, <1>4, <1>5, <1>6, <1>7, <1>8, <1>9, <1>10, <1>11, <1>12,
     <1>13, <1>14, <1>15, <1>16, <1>17, <1>18, <1>19
  DEF Next, Send

LEMMA StepTwice ==
  DxInvariant /\ TwiceNeedsFault /\ [Next]_vars => TwiceNeedsFault'
<1> SUFFICES ASSUME DxInvariant, TwiceNeedsFault, [Next]_vars PROVE TwiceNeedsFault'
    OBVIOUS
<1> USE GatewayAssumption
    DEF DxInvariant, TypeOK, OneQuestion, ScanOfDirectory, AnswerIsTrue, AcceptedIsListed,
        Results, TwiceNeedsFault,
        connection, storage, provider, history, receive, bounds
<1>1. CASE Notify
  BY <1>1, SMTT(30) DEF Notify
<1>2. CASE Clear
  BY <1>2, SMTT(30) DEF Clear
<1>3. CASE Connect
  BY <1>3, SMTT(30) DEF Connect
<1>4. CASE ConnectFails
  BY <1>4, SMTT(30) DEF ConnectFails, Return
<1>5. CASE Write
  BY <1>5, SMTT(30) DEF Write
<1>6. CASE WriteLost
  BY <1>6, SMTT(30) DEF WriteLost
<1>7. CASE WriteFails
  BY <1>7, SMTT(30) DEF WriteFails, Return, Close
<1>8. CASE ReadTimeout
  BY <1>8, SMTT(30) DEF ReadTimeout, Return, Close, Fault
<1>9. CASE ReadFails
  BY <1>9, SMTT(30) DEF ReadFails, Return, Close
<1>10. CASE ReadAnswer
  BY <1>10, SMTT(30) DEF ReadAnswer, Return, Meaning
<1>11. ASSUME NEW result \in Results, ReadPart(result) PROVE TwiceNeedsFault'
  BY <1>11, SMTT(30) DEF ReadPart, Return, Meaning
<1>12. CASE Lose
  BY <1>12, SMTT(30) DEF Lose, Fault
<1>13. CASE Die
  BY <1>13, SMTT(30) DEF Die, Close, Fault
<1>14. ASSUME NEW m \in Messages, Arrive(m) PROVE TwiceNeedsFault'
  BY <1>14, SMTT(30) DEF Arrive
<1>15. ASSUME NEW m \in Messages, Read(m) PROVE TwiceNeedsFault'
  BY <1>15, SMTT(30) DEF Read
<1>16. ASSUME NEW result \in Results, Answer(result) PROVE TwiceNeedsFault'
  BY <1>16, SMTT(30) DEF Answer, Decide
<1>17. ASSUME NEW m \in Messages, NEW result \in Results, AnswerNobody(m, result)
       PROVE  TwiceNeedsFault'
  BY <1>17, SMTT(30) DEF AnswerNobody, Decide
<1>18. ASSUME NEW d \in Deliveries, Accept(d) \/ OnAccept(d) PROVE TwiceNeedsFault'
  BY <1>18, SMTT(30) DEF Accept, OnAccept, ReadHead, ReadBody, ReadLess, Store, Child
<1>19. CASE UNCHANGED vars
  BY <1>19, Zenon DEF vars
<1>. QED
  BY <1>1, <1>2, <1>3, <1>4, <1>5, <1>6, <1>7, <1>8, <1>9, <1>10, <1>11, <1>12,
     <1>13, <1>14, <1>15, <1>16, <1>17, <1>18, <1>19
  DEF Next, Send

(* What is removed as sent was accepted by the provider, and what is moved *)
(* to error was refused, unless the answer came in part.                   *)
THEOREM ResultsHold == Spec => []ResultsAreTrue
  BY InitCounters, InvariantHolds, StepResults, PTL DEF Spec

(* The provider accepts a message twice only after a fault that concerns   *)
(* this message.                                                           *)
THEOREM TwiceHasCause == Spec => []TwiceNeedsFault
  BY InitCounters, InvariantHolds, StepTwice, PTL DEF Spec
==============================================================================
