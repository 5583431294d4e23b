---------------------------- MODULE ShmQueueProofs ----------------------------
(***************************************************************************)
(* Proofs about ShmQueue, for any number of processes and of requests, any *)
(* size of the queue, and any number of deaths.                            *)
(***************************************************************************)
EXTENDS ShmQueue, FiniteSetTheorems, TLAPS

(* Requests, and the units of the queue, are told apart.                   *)
LEMMA RequestsAre ==
  /\ \A p \in Procs : \A n \in 1..NRequests[p] : <<p, n>> \in Requests
  /\ \A r \in Requests : r = <<r[1], r[2]>> /\ r[1] \in Procs /\ r[2] \in 1..NRequests[r[1]]
  BY DEF Requests

LEMMA UnitsAre ==
  /\ \A r \in Requests : <<"head", r>> \in Heads /\ <<"body", r>> \in Bodies
  /\ \A x \in Heads : x[2] \in Requests /\ x = <<"head", x[2]>> /\ x \notin Bodies /\ x # None
  /\ None \in Units /\ Heads \subseteq Units /\ Bodies \subseteq Units
  BY QueueAssumption DEF Heads, Bodies, Units

LEMMA RequestOf ==
  ASSUME TypeOK, NEW p \in Procs, at[p] \notin {"idle", "dead"}
  PROVE  Request(p) \in Requests
<1>1. number[p] \in 1..NRequests[p]
  BY QueueAssumption DEF TypeOK
<1>. QED
  BY <1>1, RequestsAre DEF Request

(* What Put and GetBuf do with the buffer.                                 *)
LEMMA PutBuf ==
  ASSUME TypeOK, NEW unit \in Units, Put(unit)
  PROVE  /\ buf' \in Seq(Units) /\ Len(buf') < SMS_SHM_SIZE
         /\ buf' = buf \/ buf' = Append(buf, unit)
         /\ dropped' \in BOOLEAN
         /\ ~dropped' => ~dropped /\ buf' = Append(buf, unit)
<1>1. CASE Len(buf) + 1 >= SMS_SHM_SIZE
  BY <1>1, Zenon DEF Put, TypeOK
<1>2. CASE ~(Len(buf) + 1 >= SMS_SHM_SIZE)
  <2>1. buf' = Append(buf, unit) /\ dropped' = dropped
    BY <1>2, Zenon DEF Put
  <2>2. buf' \in Seq(Units) /\ Len(buf') < SMS_SHM_SIZE
    BY <2>1, <1>2, QueueAssumption DEF TypeOK
  <2>3. dropped' \in BOOLEAN /\ (~dropped' => ~dropped)
    BY <2>1, Zenon DEF TypeOK
  <2>. QED
    BY <2>1, <2>2, <2>3
<1>. QED
  BY <1>1, <1>2

LEMMA TakeBuf ==
  ASSUME TypeOK, NEW old, NEW new, GetBuf(old, new)
  PROVE  /\ buf' \in Seq(Units) /\ Len(buf') < SMS_SHM_SIZE
         /\ buf = <<>> => new = old /\ buf' = buf
         /\ buf # <<>> => /\ new = buf[1] /\ new \in Units
                          /\ Len(buf') = Len(buf) - 1
                          /\ \A i \in DOMAIN buf' : buf'[i] = buf[i + 1]
<1>1. CASE buf = <<>>
  BY <1>1 DEF GetBuf, TypeOK
<1>2. CASE buf # <<>>
  <2>1. new = Head(buf) /\ buf' = Tail(buf)
    BY <1>2, Zenon DEF GetBuf
  <2>2. buf \in Seq(Units) /\ Len(buf) < SMS_SHM_SIZE
    BY DEF TypeOK
  <2>. QED
    BY <2>1, <2>2, <1>2, QueueAssumption
<1>. QED
  BY <1>1, <1>2

LEMMA InitInvariant == Init => ShmInvariant
<1> SUFFICES ASSUME Init PROVE ShmInvariant
    OBVIOUS
<1>1. collided \in BOOLEAN /\ dropped \in BOOLEAN
  BY Zenon DEF Init
<1>2. TypeOK
  BY <1>1, QueueAssumption DEF Init, TypeOK, Units, Inside
<1>3. SemIsHeld /\ QueueIsWhole
  BY DEF Init, SemIsHeld, Holders, Inside, DaemonInside, QueueIsWhole, Whole
<1>4. \A r \in Requests : Unasked(r) /\ ~InBuf(r) /\ h # <<"head", r>>
  <2>1. asked = {} /\ oks = [r \in Requests |-> 0] /\ buf = <<>> /\ h = None
    BY DEF Init
  <2>2. ASSUME NEW r \in Requests PROVE ~InBuf(r)
    BY <2>1 DEF InBuf
  <2>3. ASSUME NEW r \in Requests PROVE h # <<"head", r>>
    BY <2>1, UnitsAre
  <2>4. ASSUME NEW r \in Requests PROVE Unasked(r)
    BY <2>1 DEF Unasked
  <2>. QED
    BY <2>2, <2>3, <2>4
<1>5. NewRequests
  BY <1>4, RequestsAre DEF NewRequests
<1>6. QueuedRequests
  BY <1>4 DEF Init, QueuedRequests, EachOnce
<1>. QED
  BY <1>2, <1>3, <1>5, <1>6 DEF ShmInvariant

-----------------------------------------------------------------------------
(* The variables keep their types, ... *)

LEMMA StepType == ASSUME ShmInvariant, Next PROVE TypeOK'
<1> USE QueueAssumption DEF ShmInvariant, TypeOK, Inside, DaemonInside, Alive,
        Goto, queue, procs, akasmsd, gateway, faults
<1>1. ASSUME NEW p \in Procs, Call(p) PROVE TypeOK'
  BY RequestsAre, UnitsAre, <1>1, SMTT(30) DEF Call
<1>2. ASSUME NEW p \in Procs, TestSem(p) PROVE TypeOK'
  BY RequestsAre, UnitsAre, <1>2, SMTT(30) DEF TestSem
<1>3. ASSUME NEW p \in Procs, SetSem(p) PROVE TypeOK'
  BY RequestsAre, UnitsAre, <1>3, SMTT(30) DEF SetSem
<1>4. ASSUME NEW p \in Procs, PutHead(p) PROVE TypeOK'
  <2>1. <<"head", Request(p)>> \in Units
    BY RequestOf, UnitsAre, <1>4 DEF PutHead
  <2>2. buf' \in Seq(Units) /\ Len(buf') < SMS_SHM_SIZE /\ dropped' \in BOOLEAN
    BY <2>1, PutBuf, <1>4 DEF PutHead
  <2>. QED
    BY <2>2, <1>4, SMTT(30) DEF PutHead
<1>5. ASSUME NEW p \in Procs, PutBody(p) PROVE TypeOK'
  <2>1. <<"body", Request(p)>> \in Units
    BY RequestOf, UnitsAre, <1>5 DEF PutBody
  <2>2. buf' \in Seq(Units) /\ Len(buf') < SMS_SHM_SIZE /\ dropped' \in BOOLEAN
    BY <2>1, PutBuf, <1>5 DEF PutBody
  <2>. QED
    BY <2>2, <1>5, SMTT(30) DEF PutBody
<1>6. ASSUME NEW p \in Procs, Release(p) PROVE TypeOK'
  BY RequestsAre, UnitsAre, <1>6, SMTT(30) DEF Release
<1>7. ASSUME NEW p \in Procs, ClearResult(p) PROVE TypeOK'
  BY RequestsAre, UnitsAre, <1>7, SMTT(30) DEF ClearResult
<1>8. ASSUME NEW p \in Procs, Install(p) PROVE TypeOK'
  BY RequestsAre, UnitsAre, <1>8, SMTT(30) DEF Install
<1>9. ASSUME NEW p \in Procs, Result(p) PROVE TypeOK'
  <2>1. Request(p) \in Requests
    BY RequestOf, <1>9 DEF Result
  <2>2. reported' \subseteq Requests
    BY <2>1, <1>9 DEF Result
  <2>. QED
    BY <2>2, <1>9, SMTT(30) DEF Result
<1>10. ASSUME NEW p \in Procs, Timeout(p) PROVE TypeOK'
  BY RequestsAre, UnitsAre, <1>10, SMTT(30) DEF Timeout
<1>11. ASSUME NEW p \in Procs, Kill(p) PROVE TypeOK'
  BY RequestsAre, UnitsAre, <1>11, SMTT(30) DEF Kill
<1>12. CASE DaemonEnds
  BY RequestsAre, UnitsAre, <1>12, SMTT(30) DEF DaemonEnds
<1>13. CASE DaemonStarts
  <2>1. collided' \in BOOLEAN /\ dropped' \in BOOLEAN
    BY <1>13, Zenon DEF DaemonStarts, InitMemory
  <2>. QED
    BY UnitsAre, <2>1, <1>13, SMTT(30) DEF DaemonStarts, InitMemory
<1>14. ASSUME NEW ok \in BOOLEAN, SmsLogin(ok) PROVE TypeOK'
  BY RequestsAre, UnitsAre, <1>14, SMTT(30) DEF SmsLogin
<1>15. ASSUME NEW ok \in BOOLEAN, NEW r \in Requests, ProcessRemote(r, ok)
       PROVE  TypeOK'
  <2>1. oks' \in [Requests -> Nat] /\ asked' \subseteq Requests
    BY <1>15 DEF ProcessRemote, GetReply
  <2>2. r[1] \in Procs
    BY RequestsAre
  <2>3. /\ at' \in [Procs -> Inside \cup {"idle", "test", "set", "clear", "install", "wait",
                                        "dead"}]
        /\ smsresult' \in [Procs -> {-1, 0, 1}]
        /\ \A p \in Procs : at'[p] # at[p] => at'[p] = "dead"
    BY <2>2, <1>15 DEF ProcessRemote, Deliver
  <2>. QED
    BY <2>1, <2>3, <1>15, SMTT(30) DEF ProcessRemote
<1>16. CASE ProcessBBS
  BY RequestsAre, UnitsAre, <1>16, SMTT(30) DEF ProcessBBS
<1>17. CASE DaemonSetSem
  BY RequestsAre, UnitsAre, <1>17, SMTT(30) DEF DaemonSetSem
<1>18. CASE Take
  <2>1. GetBuf(h, h')
    BY <1>18 DEF Take
  <2>2. buf' \in Seq(Units) /\ Len(buf') < SMS_SHM_SIZE /\ h' \in Units
    BY <2>1, TakeBuf
  <2>. QED
    BY <2>2, <1>18, SMTT(30) DEF Take
<1>19. CASE TakeBody
  <2>1. GetBuf(b, b')
    BY <1>19 DEF TakeBody
  <2>2. buf' \in Seq(Units) /\ Len(buf') < SMS_SHM_SIZE /\ b' \in Units
    BY <2>1, TakeBuf
  <2>. QED
    BY <2>2, <1>19, SMTT(30) DEF TakeBody
<1>20. CASE Forward
  BY RequestsAre, UnitsAre, <1>20, SMTT(30) DEF Forward, SendRequest
<1>21. CASE DaemonRelease
  BY RequestsAre, UnitsAre, <1>21, SMTT(30) DEF DaemonRelease
<1>. QED
  BY <1>1, <1>2, <1>3, <1>4, <1>5, <1>6, <1>7, <1>8, <1>9, <1>10, <1>11, <1>12,
     <1>13, <1>14, <1>15, <1>16, <1>17, <1>18, <1>19, <1>20, <1>21
  DEF Next, Step, Do, WaitForResult, Akasmsd

-----------------------------------------------------------------------------
(* ... one at most is at work on the queue, ... *)

LEMMA StepSem == ASSUME ShmInvariant, Next PROVE SemIsHeld'
<1> USE QueueAssumption DEF ShmInvariant, TypeOK, SemIsHeld, Holders, Inside, DaemonInside,
        Alive, Goto, queue, procs, akasmsd, gateway, faults
<1>1. ASSUME NEW p \in Procs, Call(p) PROVE SemIsHeld'
  BY <1>1, SMTT(30) DEF Call
<1>2. ASSUME NEW p \in Procs, TestSem(p) PROVE SemIsHeld'
  BY <1>2, SMTT(30) DEF TestSem
<1>3. ASSUME NEW p \in Procs, SetSem(p) PROVE SemIsHeld'
  <2>1. ~collided' => ~collided /\ sem # 1
    BY <1>3, Zenon DEF SetSem
  <2>. QED
    BY <2>1, <1>3, SMTT(30) DEF SetSem
<1>4. ASSUME NEW p \in Procs, PutHead(p) PROVE SemIsHeld'
  BY <1>4, SMTT(30) DEF PutHead, Put
<1>5. ASSUME NEW p \in Procs, PutBody(p) PROVE SemIsHeld'
  BY <1>5, SMTT(30) DEF PutBody, Put
<1>6. ASSUME NEW p \in Procs, Release(p) PROVE SemIsHeld'
  BY <1>6, SMTT(30) DEF Release
<1>7. ASSUME NEW p \in Procs, ClearResult(p) PROVE SemIsHeld'
  BY <1>7, SMTT(30) DEF ClearResult
<1>8. ASSUME NEW p \in Procs, Install(p) PROVE SemIsHeld'
  BY <1>8, SMTT(30) DEF Install
<1>9. ASSUME NEW p \in Procs, Result(p) PROVE SemIsHeld'
  BY <1>9, SMTT(30) DEF Result
<1>10. ASSUME NEW p \in Procs, Timeout(p) PROVE SemIsHeld'
  BY <1>10, SMTT(30) DEF Timeout
<1>11. ASSUME NEW p \in Procs, Kill(p) PROVE SemIsHeld'
  BY <1>11, SMTT(30) DEF Kill
<1>12. CASE DaemonEnds
  BY <1>12, SMTT(30) DEF DaemonEnds
<1>13. CASE DaemonStarts
  BY <1>13, SMTT(30) DEF DaemonStarts, InitMemory
<1>14. ASSUME NEW ok \in BOOLEAN, SmsLogin(ok) PROVE SemIsHeld'
  BY <1>14, SMTT(30) DEF SmsLogin
<1>15. ASSUME NEW ok \in BOOLEAN, NEW r \in Requests, ProcessRemote(r, ok)
       PROVE  SemIsHeld'
  <2>1. r[1] \in Procs
    BY RequestsAre
  <2>2. \A q \in Procs : at'[q] = at[q] \/ at'[q] = "dead"
    BY <2>1, <1>15 DEF ProcessRemote, Deliver
  <2>3. sem' = sem /\ daemon' = daemon /\ collided' = collided
    BY <1>15 DEF ProcessRemote
  <2>4. Holders' \subseteq Holders
    BY <2>2, <2>3 DEF Holders
  <2>5. ~collided => (\A x, y \in Holders : x = y) /\ (Holders # {} => sem = 1)
    BY Zenon DEF ShmInvariant, SemIsHeld
  <2>6. ASSUME ~collided' PROVE ~collided
    BY <2>3, <2>6, Zenon
  <2>7. ASSUME ~collided' PROVE (\A x, y \in Holders' : x = y) /\ (Holders' # {} => sem' = 1)
    BY <2>3, <2>4, <2>5, <2>6, <2>7
  <2>. QED
    BY <2>7, Zenon DEF SemIsHeld
<1>16. CASE ProcessBBS
  BY <1>16, SMTT(30) DEF ProcessBBS
<1>17. CASE DaemonSetSem
  <2>1. ~collided' => ~collided /\ sem # 1
    BY <1>17, Zenon DEF DaemonSetSem
  <2>. QED
    BY <2>1, <1>17, SMTT(30) DEF DaemonSetSem
<1>18. CASE Take
  BY <1>18, SMTT(30) DEF Take, GetBuf
<1>19. CASE TakeBody
  BY <1>19, SMTT(30) DEF TakeBody, GetBuf
<1>20. CASE Forward
  BY <1>20, SMTT(30) DEF Forward, SendRequest
<1>21. CASE DaemonRelease
  BY <1>21, SMTT(30) DEF DaemonRelease
<1>. QED
  BY <1>1, <1>2, <1>3, <1>4, <1>5, <1>6, <1>7, <1>8, <1>9, <1>10, <1>11, <1>12,
     <1>13, <1>14, <1>15, <1>16, <1>17, <1>18, <1>19, <1>20, <1>21
  DEF Next, Step, Do, WaitForResult, Akasmsd

-----------------------------------------------------------------------------
(* Who works on the queue works alone. *)

LEMMA OneHolder ==
  ASSUME ShmInvariant, ~collided
  PROVE  /\ \A p, q \in Procs : at[p] \in Inside /\ at[q] \in Inside => p = q
         /\ \A p \in Procs : at[p] \in Inside => daemon \notin DaemonInside /\ sem = 1
         /\ daemon \in DaemonInside => sem = 1
<1>1. (\A x, y \in Holders : x = y) /\ (Holders # {} => sem = 1)
  BY Zenon DEF ShmInvariant, SemIsHeld
<1>2. \A p \in Procs : at[p] \in Inside => p \in Holders
  BY DEF Holders
<1>3. daemon \in DaemonInside => None \in Holders
  BY DEF Holders
<1>. QED
  BY <1>1, <1>2, <1>3, QueueAssumption

(* What is left as it is. *)
LEMMA QueueFrame ==
  UNCHANGED queue =>
    /\ Whole' = Whole
    /\ \A p \in Procs : number'[p] = number[p] => HalfPut(p)' = HalfPut(p)
    /\ h' = h => HalfTaken' = HalfTaken
  BY Zenon DEF queue, Whole, HalfPut, HalfTaken, Packet, Request

(* One packet is put or taken. *)
LEMMA PutHeadWhole ==
  ASSUME TypeOK, Whole, NEW p \in Procs, Request(p) \in Requests, Request(p)' = Request(p),
         buf' = Append(buf, <<"head", Request(p)>>), total' = total + 1
  PROVE  HalfPut(p)'
<1>1. /\ Len(buf') = Len(buf) + 1 /\ buf'[Len(buf) + 1] = <<"head", Request(p)>>
      /\ \A i \in 1..Len(buf) : buf'[i] = buf[i]
  BY DEF TypeOK
<1>2. total \in Nat /\ Len(buf) = 2 * total
  BY DEF TypeOK, Whole
<1>3. ASSUME NEW i \in 1..total PROVE \E r \in Requests : Packet(2 * i - 1, r)'
  <2>1. PICK r \in Requests : Packet(2 * i - 1, r)
    BY DEF Whole
  <2>. QED
    BY <1>1, <1>2, <2>1 DEF Packet
<1>. QED
  BY <1>1, <1>2, <1>3 DEF HalfPut

LEMMA PutBodyWhole ==
  ASSUME TypeOK, NEW p \in Procs, HalfPut(p), Request(p) \in Requests,
         buf' = Append(buf, <<"body", Request(p)>>), total' = total
  PROVE  Whole'
<1>1. /\ Len(buf') = Len(buf) + 1 /\ buf'[Len(buf) + 1] = <<"body", Request(p)>>
      /\ \A i \in 1..Len(buf) : buf'[i] = buf[i]
  BY DEF TypeOK
<1>2. total \in Nat /\ total > 0 /\ Len(buf) = 2 * total - 1
  BY DEF TypeOK, HalfPut
<1>3. ASSUME NEW i \in 1..(total - 1) PROVE \E r \in Requests : Packet(2 * i - 1, r)'
  <2>1. PICK r \in Requests : Packet(2 * i - 1, r)
    BY DEF HalfPut
  <2>. QED
    BY <1>1, <1>2, <2>1 DEF Packet
<1>4. ASSUME NEW i \in 1..total, i = total PROVE \E r \in Requests : Packet(2 * i - 1, r)'
  <2>1. buf'[2 * i - 1] = <<"head", Request(p)>> /\ buf'[2 * i] = <<"body", Request(p)>>
    BY <1>1, <1>2, <1>4 DEF HalfPut
  <2>2. (2 * i - 1) + 1 = 2 * i
    BY <1>2
  <2>3. PICK r \in Requests : r = Request(p)
    OBVIOUS
  <2>4. Packet(2 * i - 1, r)'
    BY <2>1, <2>2, <2>3 DEF Packet
  <2>. QED
    BY <2>4
<1>5. ASSUME NEW i \in 1..total PROVE i \in 1..(total - 1) \/ i = total
  BY <1>2
<1>. QED
  BY <1>1, <1>2, <1>3, <1>4, <1>5 DEF Whole

LEMMA TakeHeadWhole ==
  ASSUME TypeOK, Whole, total > 0, GetBuf(h, h'), total' = total - 1
  PROVE  h' \in Heads /\ HalfTaken'
<1>1. total \in Nat /\ Len(buf) = 2 * total /\ buf # <<>>
  BY DEF TypeOK, Whole
<1>2. /\ h' = buf[1] /\ Len(buf') = Len(buf) - 1
      /\ \A i \in 1..(Len(buf) - 1) : buf'[i] = buf[i + 1]
  BY <1>1, TakeBuf DEF TypeOK
<1>3. PICK r \in Requests : Packet(1, r)
  <2>1. 1 \in 1..total /\ 2 * 1 - 1 = 1
    BY <1>1
  <2>. QED
    BY <2>1 DEF Whole
<1>4. h' = <<"head", r>> /\ buf'[1] = <<"body", r>>
  BY <1>1, <1>2, <1>3 DEF Packet
<1>5. ASSUME NEW i \in 1..total' PROVE \E s \in Requests : Packet(2 * i, s)'
  <2>0. i + 1 \in 1..total
    BY <1>1
  <2>1. PICK s \in Requests : Packet(2 * (i + 1) - 1, s)
    BY <2>0 DEF Whole
  <2>2. buf'[2 * i] = buf[2 * i + 1] /\ buf'[2 * i + 1] = buf[2 * i + 2]
    BY <1>1, <1>2
  <2>3. buf[2 * i + 1] = <<"head", s>> /\ buf[2 * i + 2] = <<"body", s>>
    BY <1>1, <2>1 DEF Packet
  <2>. QED
    BY <1>1, <2>2, <2>3 DEF Packet
<1>. QED
  BY <1>1, <1>2, <1>4, <1>5, UnitsAre DEF HalfTaken

LEMMA TakeBodyWhole ==
  ASSUME TypeOK, HalfTaken, GetBuf(b, b'), total' = total
  PROVE  b' = <<"body", h[2]>> /\ Whole'
<1>1. total \in Nat /\ Len(buf) = 2 * total + 1 /\ buf # <<>> /\ buf[1] = <<"body", h[2]>>
  BY DEF TypeOK, HalfTaken
<1>2. /\ b' = buf[1] /\ Len(buf') = Len(buf) - 1
      /\ \A i \in 1..(Len(buf) - 1) : buf'[i] = buf[i + 1]
  <2>1. /\ b' = buf[1] /\ Len(buf') = Len(buf) - 1 /\ buf' \in Seq(Units)
        /\ \A i \in DOMAIN buf' : buf'[i] = buf[i + 1]
    BY <1>1, TakeBuf
  <2>. QED
    BY <2>1
<1>3. ASSUME NEW i \in 1..total PROVE \E r \in Requests : Packet(2 * i - 1, r)'
  <2>1. PICK r \in Requests : Packet(2 * i, r)
    BY DEF HalfTaken
  <2>2. buf'[2 * i - 1] = buf[2 * i] /\ buf'[2 * i] = buf[2 * i + 1]
    BY <1>1, <1>2
  <2>. QED
    BY <1>1, <2>1, <2>2 DEF Packet
<1>. QED
  BY <1>1, <1>2, <1>3 DEF Whole

-----------------------------------------------------------------------------
(* ... who leaves whole packets in the queue, ... *)

LEMMA StepQueue == ASSUME ShmInvariant, Next PROVE QueueIsWhole'
<1> USE QueueAssumption DEF ShmInvariant, QueueIsWhole, Inside, DaemonInside, Alive,
        Goto, queue, procs, akasmsd, gateway, faults
<1>0. TypeOK
  OBVIOUS
<1>1. ASSUME NEW p \in Procs, Call(p) PROVE QueueIsWhole'
  BY <1>0, OneHolder, QueueFrame, <1>1, SMTT(30) DEF Call
<1>2. ASSUME NEW p \in Procs, TestSem(p) PROVE QueueIsWhole'
  BY <1>0, OneHolder, QueueFrame, <1>2, SMTT(30) DEF TestSem
<1>3. ASSUME NEW p \in Procs, SetSem(p) PROVE QueueIsWhole'
  <2>1. ~collided' => ~collided /\ sem # 1
    BY <1>3, Zenon DEF SetSem
  <2>. QED
    BY <1>0, <2>1, OneHolder, QueueFrame, <1>3, SMTT(30) DEF SetSem, TypeOK
<1>4. ASSUME NEW p \in Procs, PutHead(p) PROVE QueueIsWhole'
  <2>1. Request(p) \in Requests /\ Request(p)' = Request(p) /\ <<"head", Request(p)>> \in Units
    BY <1>0, RequestOf, UnitsAre, <1>4 DEF PutHead, Request
  <2>2. ~dropped' => ~dropped /\ buf' = Append(buf, <<"head", Request(p)>>)
    BY <1>0, <2>1, PutBuf, <1>4 DEF PutHead
  <2>3. ~collided' /\ ~dropped' => HalfPut(p)'
    BY <1>0, <2>1, <2>2, PutHeadWhole, <1>4, Zenon DEF PutHead
  <2>4. ~collided' /\ ~dropped' =>
          /\ \A q \in Procs : at'[q] \in Inside => q = p
          /\ sem' = 1 /\ daemon' \notin DaemonInside
    BY <1>0, OneHolder, <1>4 DEF PutHead, TypeOK
  <2>5. at'[p] = "body"
    BY <1>0, <1>4 DEF PutHead, TypeOK
  <2>. QED
    BY <2>3, <2>4, <2>5
<1>5. ASSUME NEW p \in Procs, PutBody(p) PROVE QueueIsWhole'
  <2>1. Request(p) \in Requests /\ <<"body", Request(p)>> \in Units
    BY <1>0, RequestOf, UnitsAre, <1>5 DEF PutBody
  <2>2. ~dropped' => ~dropped /\ buf' = Append(buf, <<"body", Request(p)>>)
    BY <1>0, <2>1, PutBuf, <1>5 DEF PutBody
  <2>3. ~collided' /\ ~dropped' => Whole'
    BY <1>0, <2>1, <2>2, PutBodyWhole, <1>5, Zenon DEF PutBody
  <2>4. ~collided' /\ ~dropped' =>
          /\ \A q \in Procs : at'[q] \in Inside => q = p
          /\ daemon' \notin DaemonInside
    BY <1>0, OneHolder, <1>5 DEF PutBody, TypeOK
  <2>5. at'[p] = "release"
    BY <1>0, <1>5 DEF PutBody, TypeOK
  <2>. QED
    BY <2>3, <2>4, <2>5
<1>6. ASSUME NEW p \in Procs, Release(p) PROVE QueueIsWhole'
  BY <1>0, OneHolder, QueueFrame, <1>6, SMTT(30) DEF Release
<1>7. ASSUME NEW p \in Procs, ClearResult(p) PROVE QueueIsWhole'
  BY <1>0, OneHolder, QueueFrame, <1>7, SMTT(30) DEF ClearResult
<1>8. ASSUME NEW p \in Procs, Install(p) PROVE QueueIsWhole'
  BY <1>0, OneHolder, QueueFrame, <1>8, SMTT(30) DEF Install
<1>9. ASSUME NEW p \in Procs, Result(p) PROVE QueueIsWhole'
  BY <1>0, OneHolder, QueueFrame, <1>9, SMTT(30) DEF Result
<1>10. ASSUME NEW p \in Procs, Timeout(p) PROVE QueueIsWhole'
  BY <1>0, OneHolder, QueueFrame, <1>10, SMTT(30) DEF Timeout
<1>11. ASSUME NEW p \in Procs, Kill(p) PROVE QueueIsWhole'
  BY <1>0, OneHolder, QueueFrame, <1>11, SMTT(30) DEF Kill
<1>12. CASE DaemonEnds
  BY <1>0, OneHolder, QueueFrame, <1>12, SMTT(30) DEF DaemonEnds
<1>13. CASE DaemonStarts
  <2>1. ~collided' => \A q \in Procs : at'[q] \notin Inside
    BY <1>13, Zenon DEF DaemonStarts, InitMemory
  <2>2. Whole' /\ daemon' = "login"
    BY <1>13 DEF DaemonStarts, InitMemory, Whole
  <2>. QED
    BY <2>1, <2>2
<1>14. ASSUME NEW ok \in BOOLEAN, SmsLogin(ok) PROVE QueueIsWhole'
  BY <1>0, OneHolder, QueueFrame, <1>14, SMTT(30) DEF SmsLogin
<1>15. ASSUME NEW ok \in BOOLEAN, NEW r \in Requests, ProcessRemote(r, ok)
       PROVE  QueueIsWhole'
  <2>1. r[1] \in Procs
    BY RequestsAre
  <2>2. \A q \in Procs : at'[q] = at[q] \/ at'[q] = "dead"
    BY <1>0, <2>1, <1>15 DEF ProcessRemote, Deliver, TypeOK
  <2>3. UNCHANGED <<sem, queue, number, daemon, h, b, collided, dropped>>
    BY <1>15 DEF ProcessRemote
  <2>. QED
    BY <2>2, <2>3, QueueFrame, SMTT(30)
<1>16. CASE ProcessBBS
  BY <1>0, OneHolder, QueueFrame, <1>16, SMTT(30) DEF ProcessBBS
<1>17. CASE DaemonSetSem
  <2>1. ~collided' => ~collided /\ sem # 1
    BY <1>17, Zenon DEF DaemonSetSem
  <2>. QED
    BY <1>0, <2>1, OneHolder, QueueFrame, <1>17, SMTT(30) DEF DaemonSetSem, TypeOK
<1>18. CASE Take
  <2>1. ~collided /\ ~dropped => h' \in Heads /\ HalfTaken'
    BY <1>0, TakeHeadWhole, <1>18 DEF Take
  <2>2. ~collided => sem = 1 /\ \A q \in Procs : at[q] \notin Inside
    BY OneHolder, <1>18 DEF Take
  <2>. QED
    BY <2>1, <2>2, <1>18, SMTT(30) DEF Take
<1>19. CASE TakeBody
  <2>1. ~collided /\ ~dropped => b' = <<"body", h[2]>> /\ Whole'
    BY <1>0, TakeBodyWhole, <1>19 DEF TakeBody
  <2>2. ~collided => sem = 1 /\ \A q \in Procs : at[q] \notin Inside
    BY OneHolder, <1>19 DEF TakeBody
  <2>3. h \in Heads
    BY <1>0, <1>19 DEF TakeBody, TypeOK
  <2>. QED
    BY <2>1, <2>2, <2>3, <1>19, SMTT(30) DEF TakeBody
<1>20. CASE Forward
  BY <1>0, OneHolder, QueueFrame, <1>20, SMTT(30) DEF Forward, SendRequest
<1>21. CASE DaemonRelease
  BY <1>0, OneHolder, QueueFrame, <1>21, SMTT(30) DEF DaemonRelease
<1>. QED
  BY <1>1, <1>2, <1>3, <1>4, <1>5, <1>6, <1>7, <1>8, <1>9, <1>10, <1>11, <1>12,
     <1>13, <1>14, <1>15, <1>16, <1>17, <1>18, <1>19, <1>20, <1>21
  DEF Next, Step, Do, WaitForResult, Akasmsd

-----------------------------------------------------------------------------
(* Which headers are in the queue after one is put or taken. *)

LEMMA PutHeadOnce ==
  ASSUME TypeOK, NEW r \in Requests, buf' = Append(buf, <<"head", r>>)
  PROVE  /\ \A s \in Requests : InBuf(s)' => InBuf(s) \/ s = r
         /\ EachOnce /\ ~InBuf(r) => EachOnce'
<1>1. \A i \in DOMAIN buf' :
        (i \in DOMAIN buf /\ buf'[i] = buf[i]) \/ (i = Len(buf) + 1 /\ buf'[i] = <<"head", r>>)
  BY DEF TypeOK
<1>2. ASSUME NEW s \in Requests, InBuf(s)' PROVE InBuf(s) \/ s = r
  <2>1. PICK i \in DOMAIN buf' : buf'[i] = <<"head", s>>
    BY <1>2 DEF InBuf
  <2>. QED
    BY <1>1, <2>1 DEF InBuf
<1>3. ASSUME EachOnce, ~InBuf(r), NEW i \in DOMAIN buf', NEW k \in DOMAIN buf',
             buf'[i] \in Heads, buf'[i] = buf'[k]
      PROVE  i = k
  BY <1>1, <1>3 DEF EachOnce, InBuf
<1>. QED
  BY <1>2, <1>3 DEF EachOnce

LEMMA PutBodyOnce ==
  ASSUME TypeOK, NEW r \in Requests, buf' = Append(buf, <<"body", r>>)
  PROVE  /\ \A s \in Requests : InBuf(s)' => InBuf(s)
         /\ EachOnce => EachOnce'
<1>1. \A i \in DOMAIN buf' :
        (i \in DOMAIN buf /\ buf'[i] = buf[i]) \/ (i = Len(buf) + 1 /\ buf'[i] = <<"body", r>>)
  BY DEF TypeOK
<1>2. ASSUME NEW s \in Requests, InBuf(s)' PROVE InBuf(s)
  <2>1. PICK i \in DOMAIN buf' : buf'[i] = <<"head", s>>
    BY <1>2 DEF InBuf
  <2>. QED
    BY <1>1, <2>1 DEF InBuf
<1>3. <<"body", r>> \notin Heads
  BY UnitsAre
<1>4. ASSUME EachOnce, NEW i \in DOMAIN buf', NEW k \in DOMAIN buf',
             buf'[i] \in Heads, buf'[i] = buf'[k]
      PROVE  i = k
  BY <1>1, <1>3, <1>4 DEF EachOnce
<1>. QED
  BY <1>2, <1>4 DEF EachOnce

LEMMA TakeOnce ==
  ASSUME TypeOK, NEW old, NEW new, GetBuf(old, new)
  PROVE  /\ \A s \in Requests : InBuf(s)' => InBuf(s)
         /\ EachOnce => EachOnce'
         /\ buf = <<>> => new = old
         /\ buf # <<>> => \A s \in Requests :
              new = <<"head", s>> => InBuf(s) /\ (EachOnce => ~InBuf(s)')
<1>1. CASE buf = <<>>
  <2>1. new = old /\ buf' = buf
    BY <1>1, TakeBuf
  <2>. QED
    BY <2>1, <1>1 DEF InBuf, EachOnce
<1>2. CASE buf # <<>>
  <2>1. /\ new = buf[1] /\ 1 \in DOMAIN buf
        /\ \A i \in DOMAIN buf' :
             i \in Nat /\ i > 0 /\ i + 1 \in DOMAIN buf /\ buf'[i] = buf[i + 1]
    BY <1>2, TakeBuf DEF TypeOK
  <2>2. ASSUME NEW s \in Requests, InBuf(s)' PROVE InBuf(s)
    BY <2>1, <2>2 DEF InBuf
  <2>3. ASSUME EachOnce PROVE EachOnce'
    BY <2>1, <2>3 DEF EachOnce
  <2>4. ASSUME NEW s \in Requests, new = <<"head", s>>
        PROVE  InBuf(s) /\ (EachOnce => ~InBuf(s)')
    <3>1. InBuf(s)
      BY <2>1, <2>4 DEF InBuf
    <3>2. ASSUME EachOnce, InBuf(s)' PROVE FALSE
      <4>1. PICK i \in DOMAIN buf' : buf'[i] = <<"head", s>>
        BY <3>2 DEF InBuf
      <4>2. buf[i + 1] = buf[1] /\ buf[1] \in Heads
        BY <2>1, <2>4, <4>1, UnitsAre
      <4>3. i + 1 = 1
        BY <2>1, <3>2, <4>1, <4>2 DEF EachOnce
      <4>. QED
        BY <2>1, <4>1, <4>3
    <3>. QED
      BY <3>1, <3>2
  <2>. QED
    BY <1>2, <2>2, <2>3, <2>4
<1>. QED
  BY <1>1, <1>2

-----------------------------------------------------------------------------
(* ... of requests that were not there before, ... *)

LEMMA StepNew == ASSUME ShmInvariant, Next PROVE NewRequests'
<1>a. TypeOK /\ buf \in Seq(Units)
  BY DEF ShmInvariant, TypeOK
<1>b. NewRequests
  BY DEF ShmInvariant
<1>1. ASSUME NEW p \in Procs, PutHead(p) PROVE NewRequests'
  <2>1. Request(p) \in Requests /\ <<"head", Request(p)>> \in Units
    BY <1>a, RequestOf, UnitsAre, <1>1 DEF PutHead
  <2>2. buf' = buf \/ buf' = Append(buf, <<"head", Request(p)>>)
    BY <1>a, <2>1, PutBuf, <1>1 DEF PutHead
  <2>3. \A r \in Requests : InBuf(r)' => InBuf(r) \/ r = Request(p)
    BY <1>a, <2>1, <2>2, PutHeadOnce DEF InBuf
  <2>4. \A q \in Procs : \A n \in 1..NRequests[q] :
          IsNew(q, n)' => IsNew(q, n) /\ <<q, n>> # Request(p)
    BY <1>a, <1>1 DEF PutHead, Request, IsNew, Goto, TypeOK
  <2>5. UNCHANGED <<asked, oks, h>>
    BY <1>1 DEF PutHead, gateway, akasmsd
  <2>. QED
    BY <1>b, <2>3, <2>4, <2>5, RequestsAre DEF NewRequests, Unasked
<1>2. ASSUME NEW p \in Procs, PutBody(p) PROVE NewRequests'
  <2>1. Request(p) \in Requests /\ <<"body", Request(p)>> \in Units
    BY <1>a, RequestOf, UnitsAre, <1>2 DEF PutBody
  <2>2. buf' = buf \/ buf' = Append(buf, <<"body", Request(p)>>)
    BY <1>a, <2>1, PutBuf, <1>2 DEF PutBody
  <2>3. \A r \in Requests : InBuf(r)' => InBuf(r)
    BY <1>a, <2>1, <2>2, PutBodyOnce DEF InBuf
  <2>4. \A q \in Procs : \A n \in 1..NRequests[q] : IsNew(q, n)' => IsNew(q, n)
    BY <1>a, <1>2 DEF PutBody, IsNew, Goto, TypeOK
  <2>5. UNCHANGED <<asked, oks, h>>
    BY <1>2 DEF PutBody, gateway, akasmsd
  <2>. QED
    BY <1>b, <2>3, <2>4, <2>5, RequestsAre DEF NewRequests, Unasked
<1>3. CASE DaemonStarts
  <2>0. buf' = <<>> /\ h' = None
    BY <1>3 DEF DaemonStarts, InitMemory
  <2>1. \A r \in Requests : ~InBuf(r)' /\ h' # <<"head", r>>
    <3>1. ASSUME NEW r \in Requests PROVE ~InBuf(r)'
      BY <2>0 DEF InBuf
    <3>2. ASSUME NEW r \in Requests PROVE h' # <<"head", r>>
      BY <2>0, UnitsAre
    <3>. QED
      BY <3>1, <3>2
  <2>2. UNCHANGED <<asked, oks, at, number>>
    BY <1>3 DEF DaemonStarts, gateway, procs
  <2>. QED
    BY <1>b, <2>1, <2>2, RequestsAre DEF NewRequests, IsNew, Unasked
<1>4. CASE ProcessBBS
  <2>1. \A r \in Requests : h' = <<"head", r>> => h = <<"head", r>>
    BY UnitsAre, <1>4 DEF ProcessBBS
  <2>2. UNCHANGED <<asked, oks, at, number, buf>>
    BY <1>4 DEF ProcessBBS, gateway, procs, queue
  <2>. QED
    BY <1>b, <2>1, <2>2, RequestsAre DEF NewRequests, IsNew, Unasked, InBuf
<1>5. CASE Take
  <2>1. GetBuf(h, h') /\ UNCHANGED <<asked, oks, at, number>>
    BY <1>5 DEF Take, gateway, procs
  <2>2. \A r \in Requests : h' = <<"head", r>> => h = <<"head", r>> \/ InBuf(r)
    BY <1>a, <2>1, TakeOnce
  <2>3. \A r \in Requests : InBuf(r)' => InBuf(r)
    BY <1>a, <2>1, TakeOnce
  <2>. QED
    BY <1>b, <2>1, <2>2, <2>3, RequestsAre DEF NewRequests, IsNew, Unasked
<1>6. CASE TakeBody
  <2>1. GetBuf(b, b') /\ UNCHANGED <<asked, oks, at, number, h>>
    BY <1>6 DEF TakeBody, gateway, procs
  <2>2. \A r \in Requests : InBuf(r)' => InBuf(r)
    BY <1>a, <2>1, TakeOnce
  <2>. QED
    BY <1>b, <2>1, <2>2, RequestsAre DEF NewRequests, IsNew, Unasked
<1>7. CASE Forward
  <2>1. h \in Heads /\ UNCHANGED <<buf, oks, at, number, h>>
    BY <1>a, <1>7 DEF Forward, TypeOK, queue, procs
  <2>2. h = <<"head", h[2]>> /\ asked' \subseteq asked \cup {h[2]}
    BY <2>1, UnitsAre, <1>7 DEF Forward, SendRequest
  <2>. QED
    BY <1>b, <2>1, <2>2, RequestsAre DEF NewRequests, IsNew, Unasked, InBuf
<1>. USE <1>a, <1>b, RequestsAre DEF NewRequests, IsNew, Unasked, InBuf, TypeOK,
     Alive, Goto, queue, procs, akasmsd, gateway, faults
<1>8. ASSUME NEW p \in Procs, Call(p) PROVE NewRequests'
  BY <1>8, SMTT(30) DEF Call
<1>9. ASSUME NEW p \in Procs, TestSem(p) PROVE NewRequests'
  BY <1>9, SMTT(30) DEF TestSem
<1>10. ASSUME NEW p \in Procs, SetSem(p) PROVE NewRequests'
  BY <1>10, SMTT(30) DEF SetSem
<1>11. ASSUME NEW p \in Procs, Release(p) PROVE NewRequests'
  BY <1>11, SMTT(30) DEF Release
<1>12. ASSUME NEW p \in Procs, ClearResult(p) PROVE NewRequests'
  BY <1>12, SMTT(30) DEF ClearResult
<1>13. ASSUME NEW p \in Procs, Install(p) PROVE NewRequests'
  BY <1>13, SMTT(30) DEF Install
<1>14. ASSUME NEW p \in Procs, Result(p) PROVE NewRequests'
  BY <1>14, SMTT(30) DEF Result
<1>15. ASSUME NEW p \in Procs, Timeout(p) PROVE NewRequests'
  BY <1>15, SMTT(30) DEF Timeout
<1>16. ASSUME NEW p \in Procs, Kill(p) PROVE NewRequests'
  BY <1>16, SMTT(30) DEF Kill
<1>17. CASE DaemonEnds
  BY <1>17, SMTT(30) DEF DaemonEnds
<1>18. ASSUME NEW ok \in BOOLEAN, SmsLogin(ok) PROVE NewRequests'
  BY <1>18, SMTT(30) DEF SmsLogin
<1>19. ASSUME NEW ok \in BOOLEAN, NEW r \in Requests, ProcessRemote(r, ok)
       PROVE  NewRequests'
  BY <1>19, SMTT(30) DEF ProcessRemote, GetReply, Deliver
<1>20. CASE DaemonSetSem
  BY <1>20, SMTT(30) DEF DaemonSetSem
<1>21. CASE DaemonRelease
  BY <1>21, SMTT(30) DEF DaemonRelease
<1>. QED
  BY <1>1, <1>2, <1>3, <1>4, <1>5, <1>6, <1>7, <1>8, <1>9, <1>10, <1>11, <1>12,
     <1>13, <1>14, <1>15, <1>16, <1>17, <1>18, <1>19, <1>20, <1>21
  DEF Next, Step, Do, WaitForResult, Akasmsd

-----------------------------------------------------------------------------
(* ... and were not handed over. *)

LEMMA StepQueued == ASSUME ShmInvariant, Next PROVE QueuedRequests'
<1>a. TypeOK /\ buf \in Seq(Units)
  BY DEF ShmInvariant, TypeOK
<1>b. QueuedRequests
  BY DEF ShmInvariant
<1>1. ASSUME NEW p \in Procs, PutHead(p) PROVE QueuedRequests'
  <2>1. Request(p) \in Requests /\ <<"head", Request(p)>> \in Units
    BY <1>a, RequestOf, UnitsAre, <1>1 DEF PutHead
  <2>2. ~dropped' => ~dropped /\ buf' = Append(buf, <<"head", Request(p)>>)
    BY <1>a, <2>1, PutBuf, <1>1 DEF PutHead
  <2>3. Unasked(Request(p)) /\ ~InBuf(Request(p))
    <3>1. number[p] \in Nat /\ number[p] > 0 /\ number[p] <= NRequests[p]
      BY <1>a, <1>1 DEF PutHead, TypeOK
    <3>2. number[p] \in 1..NRequests[p]
      BY <3>1, QueueAssumption
    <3>3. IsNew(p, number[p])
      BY <1>1 DEF PutHead, IsNew
    <3>. QED
      BY <3>2, <3>3 DEF ShmInvariant, NewRequests, Request
  <2>4. collided' = collided /\ daemon' = daemon /\ at[p] \in Inside
    BY <1>1 DEF PutHead, akasmsd, Inside
  <2>5. ~collided => daemon' \notin DaemonInside
    BY <2>4, OneHolder
  <2>6. UNCHANGED <<asked, oks>>
    BY <1>1 DEF PutHead, gateway
  <2>. QED
    BY <1>a, <1>b, <2>1, <2>2, <2>3, <2>4, <2>5, <2>6, PutHeadOnce
    DEF QueuedRequests, Unasked, DaemonInside
<1>2. ASSUME NEW p \in Procs, PutBody(p) PROVE QueuedRequests'
  <2>1. Request(p) \in Requests /\ <<"body", Request(p)>> \in Units
    BY <1>a, RequestOf, UnitsAre, <1>2 DEF PutBody
  <2>2. ~dropped' => ~dropped /\ buf' = Append(buf, <<"body", Request(p)>>)
    BY <1>a, <2>1, PutBuf, <1>2 DEF PutBody
  <2>4. collided' = collided /\ daemon' = daemon /\ at[p] \in Inside
    BY <1>2 DEF PutBody, akasmsd, Inside
  <2>5. ~collided => daemon' \notin DaemonInside
    BY <2>4, OneHolder
  <2>6. UNCHANGED <<asked, oks>>
    BY <1>2 DEF PutBody, gateway
  <2>. QED
    BY <1>a, <1>b, <2>1, <2>2, <2>4, <2>5, <2>6, PutBodyOnce
    DEF QueuedRequests, Unasked, DaemonInside
<1>3. CASE Take
  <2>1. GetBuf(h, h') /\ total > 0 /\ UNCHANGED <<asked, oks, collided, dropped>>
    BY <1>3 DEF Take, gateway, faults
  <2>2. ~collided /\ ~dropped => Whole
    BY <1>3 DEF Take, ShmInvariant, QueueIsWhole
  <2>3. ~collided /\ ~dropped => h' \in Heads /\ buf # <<>>
    BY <1>a, <2>1, <2>2, TakeHeadWhole, <1>3 DEF Take, Whole, TypeOK
  <2>4. ~collided /\ ~dropped => h' = <<"head", h'[2]>> /\ h'[2] \in Requests
    BY <2>3, UnitsAre
  <2>. QED
    BY <1>a, <1>b, <2>1, <2>3, <2>4, TakeOnce DEF QueuedRequests, Unasked
<1>4. CASE TakeBody
  <2>1. GetBuf(b, b') /\ daemon = "takeBody" /\ UNCHANGED <<h, asked, oks, collided, dropped>>
    BY <1>4 DEF TakeBody, gateway, faults
  <2>2. h[2] \in Requests
    BY <1>a, <2>1, UnitsAre DEF TypeOK
  <2>. QED
    BY <1>a, <1>b, <2>1, <2>2, TakeOnce DEF QueuedRequests, Unasked
<1>. USE <1>a, <1>b, RequestsAre, OneHolder DEF QueuedRequests, EachOnce, Unasked,
     InBuf, DaemonInside, TypeOK, Alive, Goto, queue, procs, akasmsd, gateway, faults
<1>5. ASSUME NEW p \in Procs, Call(p) PROVE QueuedRequests'
  BY <1>5, SMTT(30) DEF Call
<1>6. ASSUME NEW p \in Procs, TestSem(p) PROVE QueuedRequests'
  BY <1>6, SMTT(30) DEF TestSem
<1>7. ASSUME NEW p \in Procs, SetSem(p) PROVE QueuedRequests'
  BY <1>7, SMTT(30) DEF SetSem
<1>8. ASSUME NEW p \in Procs, Release(p) PROVE QueuedRequests'
  BY <1>8, SMTT(30) DEF Release
<1>9. ASSUME NEW p \in Procs, ClearResult(p) PROVE QueuedRequests'
  BY <1>9, SMTT(30) DEF ClearResult
<1>10. ASSUME NEW p \in Procs, Install(p) PROVE QueuedRequests'
  BY <1>10, SMTT(30) DEF Install
<1>11. ASSUME NEW p \in Procs, Result(p) PROVE QueuedRequests'
  BY <1>11, SMTT(30) DEF Result
<1>12. ASSUME NEW p \in Procs, Timeout(p) PROVE QueuedRequests'
  BY <1>12, SMTT(30) DEF Timeout
<1>13. ASSUME NEW p \in Procs, Kill(p) PROVE QueuedRequests'
  BY <1>13, SMTT(30) DEF Kill
<1>14. CASE DaemonEnds
  BY <1>14, SMTT(30) DEF DaemonEnds
<1>15. CASE DaemonStarts
  BY <1>15, SMTT(30) DEF DaemonStarts, InitMemory
<1>16. ASSUME NEW ok \in BOOLEAN, SmsLogin(ok) PROVE QueuedRequests'
  BY <1>16, SMTT(30) DEF SmsLogin
<1>17. ASSUME NEW ok \in BOOLEAN, NEW r \in Requests, ProcessRemote(r, ok)
       PROVE  QueuedRequests'
  BY <1>17, SMTT(30) DEF ProcessRemote, GetReply, Deliver
<1>18. CASE ProcessBBS
  BY <1>18, SMTT(30) DEF ProcessBBS
<1>19. CASE DaemonSetSem
  BY <1>19, SMTT(30) DEF DaemonSetSem
<1>20. CASE Forward
  BY <1>20, SMTT(30) DEF Forward, SendRequest
<1>21. CASE DaemonRelease
  BY <1>21, SMTT(30) DEF DaemonRelease
<1>. QED
  BY <1>1, <1>2, <1>3, <1>4, <1>5, <1>6, <1>7, <1>8, <1>9, <1>10, <1>11, <1>12,
     <1>13, <1>14, <1>15, <1>16, <1>17, <1>18, <1>19, <1>20, <1>21
  DEF Next, Step, Do, WaitForResult, Akasmsd

-----------------------------------------------------------------------------
LEMMA StepInvariant == ShmInvariant /\ [Next]_vars => ShmInvariant'
<1> SUFFICES ASSUME ShmInvariant, [Next]_vars PROVE ShmInvariant'
    OBVIOUS
<1>1. CASE Next
  BY <1>1, StepType, StepSem, StepQueue, StepNew, StepQueued DEF ShmInvariant
<1>2. CASE UNCHANGED vars
  <2>1. UNCHANGED <<sem, total, buf, at, number, smsresult, handled, daemon, h, b, asked, oks,
                    reported, collided, dropped, nfaults>>
    BY <1>2 DEF vars, queue, procs, akasmsd, gateway, faults
  <2>2. TypeOK' /\ SemIsHeld'
    BY <2>1 DEF ShmInvariant, TypeOK, SemIsHeld, Holders
  <2>3. QueueIsWhole'
    BY <2>1, Zenon DEF ShmInvariant, QueueIsWhole, Whole, HalfPut, HalfTaken, Packet, Request
  <2>4. NewRequests' /\ QueuedRequests'
    BY <2>1, Zenon DEF ShmInvariant, NewRequests, QueuedRequests, IsNew, InBuf,
      EachOnce, Unasked
  <2>. QED
    BY <2>2, <2>3, <2>4 DEF ShmInvariant
<1>. QED
  BY <1>1, <1>2

(* The queue in shared memory is sound as long as no two have found sem    *)
(* free at once: do_sms_send and processbbs never leave half a packet to   *)
(* each other.                                                             *)
THEOREM InvariantHolds == Spec => []ShmInvariant
<1>1. Init => ShmInvariant
  BY InitInvariant
<1>2. ShmInvariant /\ [Next]_vars => ShmInvariant'
  BY StepInvariant
<1>. QED
  BY <1>1, <1>2, PTL DEF Spec

(* processbbs hands over the header and the body of one request, which it  *)
(* has not handed over before, in the same condition.                      *)
THEOREM PacketsHold == Spec => PacketsAreWhole
<1>1. ShmInvariant /\ [Next]_vars =>
        [Forward /\ ~collided /\ ~dropped =>
           b \in Bodies /\ h[2] = b[2] /\ h[2] \notin asked /\ oks[h[2]] = 0]_vars
  <2> SUFFICES ASSUME ShmInvariant, Forward, ~collided, ~dropped
               PROVE  b \in Bodies /\ h[2] = b[2] /\ h[2] \notin asked /\ oks[h[2]] = 0
    OBVIOUS
  <2>1. daemon = "send"
    BY DEF Forward
  <2>2. h \in Heads /\ b = <<"body", h[2]>> /\ Unasked(h[2])
    BY <2>1 DEF ShmInvariant, QueueIsWhole, QueuedRequests
  <2>. QED
    BY <2>2, UnitsAre DEF Unasked
<1>. QED
  BY <1>1, InvariantHolds, PTL DEF Spec, PacketsAreWhole

-----------------------------------------------------------------------------
(* Success is counted.  An OK that has come and that its process has not   *)
(* looked at yet stands for one success to come; one that comes before     *)
(* smsresult is cleared, or after its process has given up, for none.      *)
ToCome(p) == IF at[p] \in {"install", "wait"} /\ smsresult[p] = 1 THEN 1 ELSE 0

CountIsRight(p) ==
  /\ IsFiniteSet(Told(p)) /\ IsFiniteSet(Answers(p))
  /\ Cardinality(Told(p)) + ToCome(p) <= Cardinality(Answers(p))

AnswersInvariant == \A p \in Procs : CountIsRight(p)

LEMMA ToComeIs == \A p \in Procs : ToCome(p) \in {0, 1} /\ ToCome(p)' \in {0, 1}
  BY DEF ToCome

(* What a step that neither tells a process nor answers may do.            *)
LEMMA NothingTold ==
  ASSUME AnswersInvariant, reported' = reported, oks' = oks,
         \A p \in Procs : ToCome(p)' <= ToCome(p)
  PROVE  AnswersInvariant'
<1> SUFFICES ASSUME NEW p \in Procs PROVE CountIsRight(p)'
    BY DEF AnswersInvariant
<1>1. Told(p)' = Told(p) /\ Answers(p)' = Answers(p)
  BY DEF Told, Answers
<1>2. CountIsRight(p) /\ ToCome(p)' <= ToCome(p)
  BY DEF AnswersInvariant
<1>3. Cardinality(Told(p)) \in Nat /\ Cardinality(Answers(p)) \in Nat
  BY <1>2, FS_CardinalityType DEF CountIsRight
<1>. QED
  BY <1>1, <1>2, <1>3, ToComeIs DEF CountIsRight

LEMMA InitAnswers == Init => AnswersInvariant
<1> SUFFICES ASSUME Init, NEW p \in Procs PROVE CountIsRight(p)
    BY DEF AnswersInvariant
<1>1. Told(p) = {}
  BY DEF Init, Told
<1>2. Answers(p) = {}
  BY DEF Init, Answers
<1>3. ToCome(p) = 0
  BY DEF Init, ToCome
<1>. QED
  BY <1>1, <1>2, <1>3, FS_EmptySet DEF CountIsRight

(* A process that is told success has one success less to come.            *)
LEMMA ResultAnswers ==
  ASSUME TypeOK, AnswersInvariant, NEW p \in Procs, Result(p)
  PROVE  AnswersInvariant'
<1>1. at[p] = "wait" /\ at' = [at EXCEPT ![p] = "idle"] /\ UNCHANGED <<smsresult, oks>>
  BY DEF Result, Goto, gateway
<1>2. reported' = reported \cup (IF smsresult[p] = 1 THEN {Request(p)} ELSE {})
  BY DEF Result
<1> SUFFICES ASSUME NEW q \in Procs PROVE CountIsRight(q)'
    BY DEF AnswersInvariant
<1>3. CountIsRight(q) /\ Answers(q)' = Answers(q)
  BY <1>1 DEF AnswersInvariant, Answers
<1>4. Cardinality(Told(q)) \in Nat /\ Cardinality(Answers(q)) \in Nat
  BY <1>3, FS_CardinalityType DEF CountIsRight
<1>5. CASE q = p /\ smsresult[p] = 1
  <2>1. Told(q)' = Told(q) \cup {Request(p)}
    BY <1>2, <1>5 DEF Told, Request
  <2>2. ToCome(q) = 1 /\ ToCome(q)' = 0
    BY <1>1, <1>5 DEF ToCome, TypeOK
  <2>3. IsFiniteSet(Told(q)') /\ Cardinality(Told(q)') <= Cardinality(Told(q)) + 1
    <3>1. IsFiniteSet(Told(q))
      BY <1>3 DEF CountIsRight
    <3>2. /\ IsFiniteSet(Told(q) \cup {Request(p)})
          /\ \/ Cardinality(Told(q) \cup {Request(p)}) = Cardinality(Told(q))
             \/ Cardinality(Told(q) \cup {Request(p)}) = Cardinality(Told(q)) + 1
      BY <3>1, FS_AddElement
    <3>. QED
      BY <2>1, <3>2, <1>4
  <2>4. Cardinality(Told(q)') \in Nat
    BY <2>3, FS_CardinalityType
  <2>5. Cardinality(Told(q)) + 1 <= Cardinality(Answers(q))
    BY <2>2, <1>3 DEF CountIsRight
  <2>6. Cardinality(Told(q)') + 0 <= Cardinality(Answers(q))
    BY <2>3, <2>4, <2>5, <1>4
  <2>. QED
    BY <2>2, <2>3, <2>6, <1>3 DEF CountIsRight
<1>6. CASE ~(q = p /\ smsresult[p] = 1)
  <2>1. Told(q)' = Told(q)
    BY <1>2, <1>6 DEF Told, Request
  <2>2. ToCome(q)' <= ToCome(q)
    BY <1>1, <1>6 DEF ToCome, TypeOK
  <2>. QED
    BY <2>1, <2>2, <1>3, <1>4, ToComeIs DEF CountIsRight
<1>. QED
  BY <1>5, <1>6

(* An answer OK is one more of its process, which gets at most one success *)
(* to come by it.                                                          *)
LEMMA RemoteAnswers ==
  ASSUME TypeOK, AnswersInvariant, NEW ok \in BOOLEAN, NEW r \in Requests, ProcessRemote(r, ok)
  PROVE  AnswersInvariant'
<1>1. oks' = [oks EXCEPT ![r] = IF ok THEN @ + 1 ELSE @] /\ reported' = reported
  BY DEF ProcessRemote, GetReply
<1>2. Deliver(r[1], IF ok THEN 1 ELSE -1)
  BY DEF ProcessRemote
<1>3. r[1] \in Procs /\ oks \in [Requests -> Nat]
  BY RequestsAre DEF TypeOK
<1> SUFFICES ASSUME NEW q \in Procs PROVE CountIsRight(q)'
    BY DEF AnswersInvariant
<1>4. CountIsRight(q) /\ Told(q)' = Told(q)
  BY <1>1 DEF AnswersInvariant, Told
<1>5. Cardinality(Told(q)) \in Nat /\ Cardinality(Answers(q)) \in Nat
  BY <1>4, FS_CardinalityType DEF CountIsRight
<1>6. CASE ok /\ q = r[1]
  <2>1. Answers(q)' = Answers(q) \cup {<<r, oks[r] + 1>>} /\ <<r, oks[r] + 1>> \notin Answers(q)
    <3>1. oks'[r] = oks[r] + 1 /\ \A s \in Requests : s # r => oks'[s] = oks[s]
      BY <1>1, <1>3, <1>6
    <3>2. 1..oks'[r] = (1..oks[r]) \cup {oks[r] + 1} /\ oks[r] + 1 \notin 1..oks[r]
      BY <3>1, <1>3
    <3>3. \A x : x \in Answers(q) <=> \E s \in Requests : \E n \in 1..oks[s] : s[1] = q /\ x = <<s, n>>
      BY DEF Answers
    <3>4. \A x : x \in Answers(q)' <=> \E s \in Requests : \E n \in 1..oks'[s] : s[1] = q /\ x = <<s, n>>
      BY DEF Answers
    <3>5. ASSUME NEW x \in Answers(q)' PROVE x \in Answers(q) \cup {<<r, oks[r] + 1>>}
      <4>1. PICK s \in Requests : \E n \in 1..oks'[s] : s[1] = q /\ x = <<s, n>>
        BY <3>4, <3>5
      <4>. QED
        BY <4>1, <3>1, <3>2, <3>3
    <3>6. ASSUME NEW x \in Answers(q) PROVE x \in Answers(q)'
      <4>1. PICK s \in Requests : \E n \in 1..oks[s] : s[1] = q /\ x = <<s, n>>
        BY <3>3, <3>6
      <4>. QED
        BY <4>1, <3>1, <3>2, <3>4
    <3>7. <<r, oks[r] + 1>> \in Answers(q)'
      <4>1. oks[r] + 1 \in 1..oks'[r]
        BY <3>2
      <4>. QED
        BY <4>1, <1>6, <3>4
    <3>8. <<r, oks[r] + 1>> \notin Answers(q)
      BY <3>2, <3>3
    <3>. QED
      BY <3>5, <3>6, <3>7, <3>8
  <2>2. IsFiniteSet(Answers(q)') /\ Cardinality(Answers(q)') = Cardinality(Answers(q)) + 1
    BY <2>1, <1>4, FS_AddElement DEF CountIsRight
  <2>. QED
    BY <2>2, <1>4, <1>5, ToComeIs DEF CountIsRight
<1>7. CASE ~(ok /\ q = r[1])
  <2>1. Answers(q)' = Answers(q)
    <3>1. \A s \in Requests : s[1] = q => oks'[s] = oks[s]
      BY <1>1, <1>3, <1>7
    <3>. QED
      BY <3>1 DEF Answers
  <2>2. ToCome(q)' <= ToCome(q)
    <3>1. CASE q # r[1]
      BY <3>1, <1>2, <1>3 DEF Deliver, Goto, ToCome, TypeOK
    <3>2. CASE q = r[1] /\ ~ok
      BY <3>2, <1>2, <1>3 DEF Deliver, Goto, ToCome, TypeOK
    <3>. QED
      BY <3>1, <3>2, <1>7
  <2>. QED
    BY <2>1, <2>2, <1>4, <1>5, ToComeIs DEF CountIsRight
<1>. QED
  BY <1>6, <1>7

LEMMA StepAnswers == TypeOK /\ AnswersInvariant /\ [Next]_vars => AnswersInvariant'
<1> SUFFICES ASSUME TypeOK, AnswersInvariant, [Next]_vars PROVE AnswersInvariant'
    OBVIOUS
<1>1. ASSUME NEW p \in Procs, Result(p) PROVE AnswersInvariant'
  BY <1>1, ResultAnswers
<1>2. ASSUME NEW ok \in BOOLEAN, NEW r \in Requests, ProcessRemote(r, ok)
      PROVE  AnswersInvariant'
  BY <1>2, RemoteAnswers
<1>3. ASSUME NEW p \in Procs, Release(p) \/ ClearResult(p) \/ Install(p) \/ Timeout(p)
      PROVE  AnswersInvariant'
  <2>1. reported' = reported /\ oks' = oks
    BY <1>3 DEF Release, ClearResult, Install, Timeout, gateway
  <2>2. \A q \in Procs : ToCome(q)' <= ToCome(q)
    BY <1>3 DEF Release, ClearResult, Install, Timeout, Goto, ToCome, TypeOK
  <2>. QED
    BY <2>1, <2>2, NothingTold
<1>4. ASSUME NEW p \in Procs, Call(p) \/ Do(p) \/ Kill(p) PROVE AnswersInvariant'
  <2>1. reported' = reported /\ oks' = oks /\ smsresult' = smsresult
    BY <1>4 DEF Call, Do, TestSem, SetSem, PutHead, PutBody, Kill, gateway
  <2>2. \E label \in {"test", "set", "idle", "put", "body", "release", "dead"} : Goto(p, label)
    BY <1>4 DEF Call, Do, TestSem, SetSem, PutHead, PutBody, Kill
  <2>3. \A q \in Procs : ToCome(q)' <= ToCome(q)
    BY <2>1, <2>2 DEF Goto, ToCome, TypeOK
  <2>. QED
    BY <2>1, <2>3, NothingTold
<1>5. CASE \/ Akasmsd \/ DaemonEnds \/ DaemonStarts
           \/ \E ok \in BOOLEAN : SmsLogin(ok)
           \/ UNCHANGED vars
  <2>1. reported' = reported /\ oks' = oks /\ smsresult' = smsresult /\ at' = at
    BY <1>5 DEF Akasmsd, ProcessBBS, DaemonSetSem, Take, TakeBody, Forward, DaemonRelease,
      DaemonEnds, DaemonStarts, SmsLogin, vars, gateway, procs
  <2>2. \A q \in Procs : ToCome(q)' <= ToCome(q)
    BY <2>1 DEF ToCome
  <2>. QED
    BY <2>1, <2>2, NothingTold
<1>. QED
  BY <1>1, <1>2, <1>3, <1>4, <1>5 DEF Next, Step, WaitForResult

(* DoReg, DoCheck, DoUnReg and DoSendSMS tell a user of success no more    *)
(* often than the gateway has answered OK, though an answer may be taken   *)
(* for that of a later request.                                            *)
THEOREM AnswersHold == Spec => []SuccessIsAnswered
<1>1. ShmInvariant => TypeOK
  BY DEF ShmInvariant
<1>2. AnswersInvariant => SuccessIsAnswered
  <2> SUFFICES ASSUME AnswersInvariant, NEW p \in Procs
               PROVE  Cardinality(Told(p)) <= Cardinality(Answers(p))
      BY DEF SuccessIsAnswered
  <2>1. CountIsRight(p)
    BY DEF AnswersInvariant
  <2>2. Cardinality(Told(p)) \in Nat /\ Cardinality(Answers(p)) \in Nat
    BY <2>1, FS_CardinalityType DEF CountIsRight
  <2>. QED
    BY <2>1, <2>2, ToComeIs DEF CountIsRight
<1>. QED
  BY <1>1, <1>2, InitAnswers, StepAnswers, InvariantHolds, PTL DEF Spec

===============================================================================
