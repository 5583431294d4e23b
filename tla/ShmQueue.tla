------------------------------ MODULE ShmQueue ------------------------------
(***************************************************************************)
(* The BBS's side of the gateway in libbbssms/demo: processes of the BBS   *)
(* (sendsms.c) put requests into a queue in shared memory, the daemon      *)
(* akasmsd hands them to the gateway through libbbssms and answers with    *)
(* SIGUSR1 or SIGUSR2.  The int sem guards the queue: it is tested and     *)
(* set in two steps.                                                       *)
(*                                                                         *)
(* A process of the BBS makes one request after the other, which are pairs *)
(* <<process, number>>; a packet is a header and a body, one unit of the   *)
(* queue each.  What total++ and length+=s do when two processes run them  *)
(* at once is left out: nothing is claimed of a queue two have collided    *)
(* in.                                                                     *)
(***************************************************************************)
EXTENDS Integers, Sequences, FiniteSets

CONSTANTS
  Procs,        \* processes of the BBS
  None,         \* what was not yet written
  NRequests,    \* bound: requests of each process
  SMS_SHM_SIZE, \* units of the queue
  MaxFaults     \* bound: processes that are killed, and ends of akasmsd

Requests == UNION {{p} \X (1..NRequests[p]) : p \in Procs}
Heads == {<<"head", r>> : r \in Requests}
Bodies == {<<"body", r>> : r \in Requests}

ASSUME QueueAssumption ==
  /\ None \notin Procs /\ None \notin Heads \cup Bodies
  /\ NRequests \in [Procs -> Nat]
  /\ SMS_SHM_SIZE \in Nat \ {0} /\ MaxFaults \in Nat

VARIABLES
  sem, total, buf,   \* the shared memory; Len(buf) is its length
  at,         \* where a process is
  number,     \* of its request
  smsresult,  \* 0, 1 or -1
  handled,    \* it has installed its handlers for SIGUSR1 and SIGUSR2
  daemon,     \* where akasmsd is
  h, b,       \* header and body it has read
  asked,      \* the requests the gateway has still to answer
  oks,        \* history: how often it has answered a request with OK
  reported,   \* history: the requests whose process was told success
  collided,   \* history: two were in the queue at once
  dropped,    \* history: a packet did not fit
  nfaults

queue == <<total, buf>>
procs == <<at, number, smsresult, handled>>
akasmsd == <<daemon, h, b>>
gateway == <<asked, oks>>
faults == <<collided, dropped, nfaults>>
vars == <<sem, queue, procs, akasmsd, gateway, reported, faults>>

Units == Heads \cup Bodies \cup {None}
Inside == {"put", "body", "release"}          \* a process holds sem
DaemonInside == {"take", "takeBody", "send"}  \* akasmsd does

Init ==
  /\ sem = 0 /\ total = 0 /\ buf = <<>>
  /\ at = [p \in Procs |-> "idle"]
  /\ number = [p \in Procs |-> 0]
  /\ smsresult = [p \in Procs |-> 0]
  /\ handled = [p \in Procs |-> FALSE]
  /\ daemon = "select" /\ h = None /\ b = None
  /\ asked = {} /\ oks = [r \in Requests |-> 0]
  /\ reported = {}
  /\ collided = FALSE /\ dropped = FALSE /\ nfaults = 0

Goto(p, label) == at' = [at EXCEPT ![p] = label]
Request(p) == <<p, number[p]>>
Alive(p) == at[p] # "dead"

-----------------------------------------------------------------------------
(* A process: DoReg, DoCheck, DoUnReg and DoSendSMS are the same here.     *)

Call(p) ==
  /\ at[p] = "idle"
  /\ number[p] < NRequests[p]
  /\ number' = [number EXCEPT ![p] = @ + 1]
  /\ Goto(p, "test")
  /\ UNCHANGED <<sem, queue, smsresult, handled, akasmsd, gateway, reported, faults>>

(* Mutant: the seconds are not counted. *)
TestSemForEver(p) ==
  /\ at[p] = "test"
  /\ sem = 0
  /\ Goto(p, "set")
  /\ UNCHANGED <<sem, queue, number, smsresult, handled, akasmsd, gateway, reported, faults>>

(* while (sem): five seconds, and -1. *)
TestSem(p) ==
  /\ at[p] = "test"
  /\ Goto(p, IF sem = 0 THEN "set" ELSE "idle")
  /\ UNCHANGED <<sem, queue, number, smsresult, handled, akasmsd, gateway, reported, faults>>

(* Two have found it free if it is set by now. *)
SetSem(p) ==
  /\ at[p] = "set"
  /\ sem' = 1
  /\ collided' = (collided \/ sem = 1)
  /\ Goto(p, "put")
  /\ UNCHANGED <<queue, number, smsresult, handled, akasmsd, gateway,
                 reported, dropped, nfaults>>

(* sendtosms *)
Put(unit) ==
  IF Len(buf) + 1 >= SMS_SHM_SIZE
  THEN dropped' = TRUE /\ UNCHANGED buf
  ELSE buf' = Append(buf, unit) /\ UNCHANGED dropped

(* Mutant: total is counted only after the packet. *)
PutHeadUncounted(p) ==
  /\ at[p] = "put"
  /\ Put(<<"head", Request(p)>>)
  /\ Goto(p, "body")
  /\ UNCHANGED <<sem, total, number, smsresult, handled, akasmsd, gateway,
                 reported, collided, nfaults>>

PutHead(p) ==
  /\ at[p] = "put"
  /\ total' = total + 1
  /\ Put(<<"head", Request(p)>>)
  /\ Goto(p, "body")
  /\ UNCHANGED <<sem, number, smsresult, handled, akasmsd, gateway,
                 reported, collided, nfaults>>

PutBody(p) ==
  /\ at[p] = "body"
  /\ Put(<<"body", Request(p)>>)
  /\ Goto(p, "release")
  /\ UNCHANGED <<sem, total, number, smsresult, handled, akasmsd, gateway,
                 reported, collided, nfaults>>

(* wait_for_result *)
Release(p) ==
  /\ at[p] = "release"
  /\ sem' = 0
  /\ Goto(p, "clear")
  /\ UNCHANGED <<queue, number, smsresult, handled, akasmsd, gateway, reported, faults>>

(* Mutant: smsresult keeps the result of the request before. *)
ClearResultSkipped(p) ==
  /\ at[p] = "clear"
  /\ Goto(p, "install")
  /\ UNCHANGED <<sem, queue, number, smsresult, handled, akasmsd, gateway, reported, faults>>

ClearResult(p) ==
  /\ at[p] = "clear"
  /\ smsresult' = [smsresult EXCEPT ![p] = 0]
  /\ Goto(p, "install")
  /\ UNCHANGED <<sem, queue, number, handled, akasmsd, gateway, reported, faults>>

(* Both handlers: a signal that comes between the two is as one that comes *)
(* before them or after.                                                   *)
Install(p) ==
  /\ at[p] = "install"
  /\ handled' = [handled EXCEPT ![p] = TRUE]
  /\ Goto(p, "wait")
  /\ UNCHANGED <<sem, queue, number, smsresult, akasmsd, gateway, reported, faults>>

Result(p) ==
  /\ at[p] = "wait"
  /\ smsresult[p] # 0
  /\ reported' = reported \cup (IF smsresult[p] = 1 THEN {Request(p)} ELSE {})
  /\ Goto(p, "idle")
  /\ UNCHANGED <<sem, queue, number, smsresult, handled, akasmsd, gateway, faults>>

(* Thirty seconds have passed; a result that comes in the last is not      *)
(* looked at.                                                              *)
Timeout(p) ==
  /\ at[p] = "wait"
  /\ Goto(p, "idle")
  /\ UNCHANGED <<sem, queue, number, smsresult, handled, akasmsd, gateway, reported, faults>>

(* A signal is delivered before the process does anything else:            *)
(* SMS_request, SMS_request2, or, if there is no handler yet, its end.     *)
Deliver(p, result) ==
  CASE ~Alive(p)              -> UNCHANGED <<at, smsresult>>
    [] Alive(p) /\ handled[p] -> /\ smsresult' = [smsresult EXCEPT ![p] = result]
                                 /\ UNCHANGED at
    [] OTHER                  -> Goto(p, "dead") /\ UNCHANGED smsresult

(* The user's connection breaks, or the like: sem stays as it is.          *)
Kill(p) ==
  /\ nfaults < MaxFaults
  /\ nfaults' = nfaults + 1
  /\ Alive(p)
  /\ Goto(p, "dead")
  /\ UNCHANGED <<sem, queue, number, smsresult, handled, akasmsd, gateway,
                 reported, collided, dropped>>

-----------------------------------------------------------------------------
(* akasmsd. *)

(* It dies or exits, because the gateway has closed the connection.        *)
DaemonEnds ==
  /\ daemon \notin {"down", "login"}
  /\ nfaults < MaxFaults
  /\ nfaults' = nfaults + 1
  /\ daemon' = "down"
  /\ asked' = {}
  /\ UNCHANGED <<sem, queue, procs, h, b, oks, reported, collided, dropped>>

(* Mutant: the queue is left as it was. *)
InitMemoryUnclean ==
  /\ sem' = 0
  /\ UNCHANGED queue
  /\ collided' = (\E p \in Procs : at[p] \in Inside)
  /\ dropped' = FALSE

InitMemory ==
  /\ sem' = 0 /\ total' = 0 /\ buf' = <<>>
  /\ collided' = (\E p \in Procs : at[p] \in Inside)
  /\ dropped' = FALSE

DaemonStarts ==
  /\ daemon = "down"
  /\ InitMemory
  /\ daemon' = "login"
  /\ h' = None /\ b' = None
  /\ UNCHANGED <<procs, gateway, reported, nfaults>>

(* sms_login: connected, sent, and answered OK, or akasmsd exits. *)
SmsLogin(ok) ==
  /\ daemon = "login"
  /\ daemon' = IF ok THEN "select" ELSE "down"
  /\ UNCHANGED <<sem, queue, procs, h, b, gateway, reported, faults>>

(* sms_getReply: the gateway answers a request.  (What it sends on its own, *)
(* messages for users and requests to bind, changes nothing here: the      *)
(* former are appended to a file and the latter are forgotten.)            *)
GetReply(r, ok) ==
  /\ r \in asked
  /\ asked' = asked \ {r}
  /\ oks' = [oks EXCEPT ![r] = IF ok THEN @ + 1 ELSE @]

(* processremote: the process is told by its pid alone.                    *)
ProcessRemote(r, ok) ==
  /\ daemon = "select"
  /\ GetReply(r, ok)
  /\ Deliver(r[1], IF ok THEN 1 ELSE -1)
  /\ UNCHANGED <<sem, queue, number, handled, akasmsd, reported, faults>>

(* processbbs has found sem free and total not 0.  What is in h then is    *)
(* left from the call before, or anything; what is in b never matters.     *)
ProcessBBS ==
  /\ daemon = "select"
  /\ sem = 0
  /\ total > 0
  /\ daemon' = "set"
  /\ h' \in {h, None}
  /\ b' = None
  /\ UNCHANGED <<sem, queue, procs, gateway, reported, faults>>

DaemonSetSem ==
  /\ daemon = "set"
  /\ sem' = 1
  /\ collided' = (collided \/ sem = 1)
  /\ daemon' = "take"
  /\ UNCHANGED <<queue, procs, h, b, gateway, reported, dropped, nfaults>>

(* getbuf: nothing is read if there is not enough. *)
GetBuf(old, new) ==
  IF buf = <<>>
  THEN new = old /\ UNCHANGED buf
  ELSE new = Head(buf) /\ buf' = Tail(buf)

Take ==
  /\ daemon = "take"
  /\ total > 0
  /\ total' = total - 1
  /\ GetBuf(h, h')
  /\ daemon' = IF h' \in Heads THEN "takeBody" ELSE "take"
  /\ UNCHANGED <<sem, procs, b, gateway, reported, faults>>

TakeBody ==
  /\ daemon = "takeBody"
  /\ GetBuf(b, b')
  /\ daemon' = "send"
  /\ UNCHANGED <<sem, total, procs, h, gateway, reported, faults>>

(* sms_sendRegisterNumber, sms_checkRegisterNumber, sms_unRegister or      *)
(* sms_sendSMS, which may fail; akasmsd does not look at what they return. *)
SendRequest(r) == asked' \in {asked, asked \cup {r}}

Forward ==
  /\ daemon = "send"
  /\ SendRequest(h[2])
  /\ daemon' = "take"
  /\ UNCHANGED <<sem, queue, procs, h, b, oks, reported, faults>>

DaemonRelease ==
  /\ daemon = "take"
  /\ total = 0
  /\ sem' = 0
  /\ daemon' = "select"
  /\ b' = None
  /\ UNCHANGED <<queue, procs, h, gateway, reported, faults>>

Do(p) == TestSem(p) \/ SetSem(p) \/ PutHead(p) \/ PutBody(p)
WaitForResult(p) ==
  \/ Release(p) \/ ClearResult(p) \/ Install(p) \/ Result(p) \/ Timeout(p)
Step(p) == Do(p) \/ WaitForResult(p)
Akasmsd == ProcessBBS \/ DaemonSetSem \/ Take \/ TakeBody \/ Forward \/ DaemonRelease

Next ==
  \/ \E p \in Procs : Call(p) \/ Step(p) \/ Kill(p)
  \/ Akasmsd \/ DaemonEnds \/ DaemonStarts
  \/ \E ok \in BOOLEAN : SmsLogin(ok) \/ \E r \in Requests : ProcessRemote(r, ok)

Spec == Init /\ [][Next]_vars

(* Processes run, and their seconds pass. *)
Fairness == \A p \in Procs : WF_vars(Step(p))
FairSpec == Spec /\ Fairness

-----------------------------------------------------------------------------
(* Properties. *)

TypeOK ==
  /\ sem \in {0, 1} /\ total \in Nat
  /\ buf \in Seq(Units) /\ Len(buf) < SMS_SHM_SIZE
  /\ at \in [Procs -> Inside \cup {"idle", "test", "set", "clear", "install", "wait", "dead"}]
  /\ number \in [Procs -> Nat]
  /\ \A p \in Procs :
       /\ number[p] <= NRequests[p]
       /\ at[p] \notin {"idle", "dead"} => number[p] > 0
  /\ smsresult \in [Procs -> {-1, 0, 1}]
  /\ handled \in [Procs -> BOOLEAN]
  /\ daemon \in DaemonInside \cup {"down", "login", "select", "set"}
  /\ h \in Units /\ b \in Units
  /\ daemon \in {"takeBody", "send"} => h \in Heads
  /\ asked \subseteq Requests
  /\ oks \in [Requests -> Nat] /\ reported \subseteq Requests
  /\ collided \in BOOLEAN /\ dropped \in BOOLEAN /\ nfaults \in 0..MaxFaults

(* Nobody holds sem but the one who is at work on the queue, ...           *)
Holders ==
  {p \in Procs : at[p] \in Inside} \cup (IF daemon \in DaemonInside THEN {None} ELSE {})

SemIsHeld == ~collided => (\A x, y \in Holders : x = y) /\ (Holders # {} => sem = 1)

(* ... who leaves whole packets in it, as many as total says: ...          *)
Packet(i, r) == buf[i] = <<"head", r>> /\ buf[i + 1] = <<"body", r>>

Whole == Len(buf) = 2 * total /\ \A i \in 1..total : \E r \in Requests : Packet(2 * i - 1, r)

HalfPut(p) ==
  /\ total > 0 /\ Len(buf) = 2 * total - 1
  /\ \A i \in 1..(total - 1) : \E r \in Requests : Packet(2 * i - 1, r)
  /\ buf[2 * total - 1] = <<"head", Request(p)>>

HalfTaken ==
  /\ Len(buf) = 2 * total + 1
  /\ h \in Heads /\ buf[1] = <<"body", h[2]>>
  /\ \A i \in 1..total : \E r \in Requests : Packet(2 * i, r)

QueueIsWhole ==
  ~collided /\ ~dropped =>
    /\ sem = 0 => Whole
    /\ \A p \in Procs :
         (at[p] \in {"put", "release"} => Whole) /\ (at[p] = "body" => HalfPut(p))
    /\ daemon \in {"take", "send"} => Whole
    /\ daemon = "takeBody" => HalfTaken
    /\ daemon = "send" => h \in Heads /\ b = <<"body", h[2]>>

(* ... those of requests nobody has handed over.                           *)
InBuf(r) == \E i \in DOMAIN buf : buf[i] = <<"head", r>>
EachOnce == \A i, k \in DOMAIN buf : buf[i] \in Heads /\ buf[i] = buf[k] => i = k
Unasked(r) == r \notin asked /\ oks[r] = 0
IsNew(p, n) == n > number[p] \/ (n = number[p] /\ at[p] \in {"test", "set", "put"})

NewRequests ==
  \A p \in Procs : \A n \in 1..NRequests[p] :
    IsNew(p, n) => Unasked(<<p, n>>) /\ ~InBuf(<<p, n>>) /\ h # <<"head", <<p, n>>>>

QueuedRequests ==
  ~collided /\ ~dropped =>
    /\ EachOnce
    /\ \A r \in Requests : InBuf(r) => Unasked(r)
    /\ daemon \in {"takeBody", "send"} => Unasked(h[2]) /\ ~InBuf(h[2])

(* The queue in shared memory is sound as long as no two have found sem    *)
(* free at once, whoever was killed in the middle of its packet.           *)
ShmInvariant == TypeOK /\ SemIsHeld /\ QueueIsWhole /\ NewRequests /\ QueuedRequests

(* As long as no two have found sem free at once and no packet was too     *)
(* large for the queue, akasmsd hands over whole packets: the header and   *)
(* the body of one request, which nobody has handed over before.           *)
PacketsAreWhole ==
  [][Forward /\ ~collided /\ ~dropped =>
       b \in Bodies /\ h[2] = b[2] /\ h[2] \notin asked /\ oks[h[2]] = 0]_vars

(* The requests a process was told success of, and the OKs the gateway has *)
(* answered its requests with: the first one of r, the second, ...         *)
Told(p) == {r \in reported : r[1] = p}
Answers(p) == UNION {{r} \X (1..oks[r]) : r \in {q \in Requests : q[1] = p}}

(* A user is told of success no more often than the gateway has answered   *)
(* OK, however late its answers come: none is taken twice.                 *)
SuccessIsAnswered == \A p \in Procs : Cardinality(Told(p)) <= Cardinality(Answers(p))

(* Nobody waits for ever, whoever died with sem set: a process gets a      *)
(* result or -1.                                                           *)
RequestsReturn == \A p \in Procs : at[p] # "idle" ~> at[p] \in {"idle", "dead"}

(* note.txt:14: an answer belongs to the request it answers.               *)
AnswerIsForRequest == \A r \in reported : oks[r] > 0
=============================================================================
