----------------------------- MODULE BBSSession -----------------------------
(***************************************************************************)
(* A logged-in session of CSMSBBSChildProtocol and the table               *)
(* SMSRegister_TB: which phone is bound to which id of the BBS, and what   *)
(* the pair has spent today.                                               *)
(*                                                                         *)
(* The process has two contexts.  main reads a packet of the BBS and runs  *)
(* dispatchMessage.  handler is OnNotify, run by SIGUSR1: it processes the *)
(* commands phones sent, and interrupts main at any point where the signal *)
(* is not blocked; main stands still until it returns.  An SQL statement   *)
(* is atomic, but between two statements of one operation the table may be *)
(* changed by the other context or by sms_money_clearer, which cron runs.  *)
(* A statement of the handler that comes in the middle of one of main      *)
(* finds their common connection busy: one of the two fails (SqlFails).    *)
(*                                                                         *)
(* A session ends by LOGOUT, by an error on its socket or by the SIGKILL   *)
(* of the next login (doStartChild), wherever it is; the next one starts   *)
(* with no requests and serial number 0.                                   *)
(***************************************************************************)
EXTENDS Naturals

CONSTANTS
  Pairs,         \* pairs of a phone number and an id of the BBS
  Codes,         \* validation codes
  NoCode,        \* the empty ValidatationNumber of a bound pair
  Fee,           \* what a short message costs
  DefaultLimit,  \* m_defaultMoneyLimit
  Limits,        \* the limits phones ask for
  Commands,      \* what phones send
  None,          \* no row, no pair, no answer
  MaxSerial,     \* bound: requests sent to the BBS in one session
  MaxFaults,     \* bound: SQL statements that fail
  MaxRestarts    \* bound: sessions that end

ASSUME SessionAssumption ==
  /\ NoCode \notin Codes
  /\ None \notin Pairs
  /\ Fee \in Nat
  /\ DefaultLimit \in Nat
  /\ Limits \subseteq Nat
  /\ Commands \subseteq {"ZCYH", "QXZC", "SZXE", "QKYY", "CXXE", "PARSE_ERROR", "mail"}
  /\ MaxSerial \in Nat
  /\ MaxFaults \in Nat
  /\ MaxRestarts \in Nat

VARIABLES
  row,           \* SMSRegister_TB
  at,            \* where each context is
  pair,          \* the pair it is working on
  job,           \* what it is going to write, and why
  blocked,       \* the signals that are blocked
  oldmask,       \* oldmask of doReplyRegisterRequest
  serial,        \* m_serial
  requestList,   \* m_requestList
  answer,        \* the answer of the BBS main is working on
  asked,         \* the requests the BBS has received in this session
  due,           \* those of them it has not answered
  before,        \* those it received in earlier sessions
  misled,        \* history: this session got a reply to none of due
  faults,        \* SQL statements that have failed
  restarts       \* sessions that have ended

contextVars == <<at, pair, job>>
requestVars == <<serial, requestList, asked, due, before>>
maskVars == <<blocked, oldmask, answer, misled>>
vars == <<row, contextVars, requestVars, maskVars, faults, restarts>>

Contexts == {"main", "handler"}

MainLabels ==
  {"idle",
   "replace", "confirm", "delete",                          \* REG, CHECK, UNREG
   "check", "charge", "write",                              \* sendSMS
   "find", "bind", "insert", "unbind", "remove", "notice"}  \* REQUESTREPLY

HandlerLabels ==
  {"idle", "check", "charge", "write",                      \* sendSMS
   "push", "ask", "limit", "zero", "query", "deliver"}  \* Send

(* What a phone may send: a bind or an unbind request, a new limit, zeroing *)
(* what was spent today, a query, a command that cannot be parsed, and     *)
(* "mail", a message to a user of the BBS.                                 *)
AllCommands == {"ZCYH", "QXZC", "SZXE", "QKYY", "CXXE", "PARSE_ERROR", "mail"}

MainJobs == {"none", "code", "sms", "reply",
             "bound", "already", "unbound", "never", "refused"}

Rows == [code : Codes \cup {NoCode}, today : Nat, limit : Nat]
ASSUME RowAssumption == None \notin Rows

Signals == {"SIGUSR1", "SIGUSR2"}
Requests == [sn : 0..MaxSerial, pair : Pairs, kind : {"bind", "unbind"}]

(* A REQUESTREPLY, and what the BBS answers: a request that is due, one it *)
(* has answered already, one of an earlier session, or none.               *)
Answers == [sn : 0..MaxSerial, request : Requests \cup {None},
            origin : {"due", "repeat", "before", "nobody"}]

Registered(p) == row[p] # None
Bound(p) == Registered(p) /\ row[p].code = NoCode
Pending(p) == Registered(p) /\ row[p].code # NoCode

NewRow(code) == [code |-> code, today |-> 0, limit |-> DefaultLimit]

Init ==
  /\ row = [p \in Pairs |-> None]
  /\ at = [c \in Contexts |-> "idle"]
  /\ pair = [c \in Contexts |-> None]
  /\ job = [c \in Contexts |-> "none"]
  /\ blocked = {}
  /\ oldmask = {}
  /\ serial = 0
  /\ requestList = {}
  /\ answer = None
  /\ asked = {} /\ due = {} /\ before = {}
  /\ misled = FALSE
  /\ faults = 0
  /\ restarts = 0

-----------------------------------------------------------------------------
(* The contexts. *)

(* The context c is at label and runs: main only while no handler does. *)
Runs(c, label) ==
  /\ at[c] = label
  /\ c = "main" => at["handler"] = "idle"

Begin(c, p, label, what) ==
  /\ at' = [at EXCEPT ![c] = label]
  /\ pair' = [pair EXCEPT ![c] = p]
  /\ job' = [job EXCEPT ![c] = what]

Goto(c, label) == at' = [at EXCEPT ![c] = label] /\ UNCHANGED <<pair, job>>
Tell(what) ==
  /\ at' = [at EXCEPT !["main"] = "notice"]
  /\ job' = [job EXCEPT !["main"] = what]
  /\ UNCHANGED pair
Done(c) == Begin(c, None, "idle", "none")

Update(p, r) == row' = IF Registered(p) THEN [row EXCEPT ![p] = r] ELSE row

-----------------------------------------------------------------------------
(* Packets of the BBS: dispatchMessage reads one and runs its first        *)
(* statement, a select.                                                    *)

(* Mutant: every REG makes a new code. *)
RegFresh(p) ==
  /\ Runs("main", "idle")
  /\ Begin("main", p, "replace", "code")
  /\ UNCHANGED <<row, requestVars, maskVars, faults, restarts>>

(* SMS_BBS_CMD_REG, getValidateNum: a pair whose code has not been used is *)
(* sent the same code again, any other one gets a new one.                 *)
Reg(p) ==
  /\ Runs("main", "idle")
  /\ Begin("main", p, IF Pending(p) THEN "check" ELSE "replace", "code")
  /\ UNCHANGED <<row, requestVars, maskVars, faults, restarts>>

(* "replace into": the row that was there is gone, whatever it was.        *)
Replace(code) ==
  /\ Runs("main", "replace")
  /\ row' = [row EXCEPT ![pair["main"]] = NewRow(code)]
  /\ Goto("main", "check")
  /\ UNCHANGED <<requestVars, maskVars, faults, restarts>>

(* SMS_BBS_CMD_CHECK, doRegisterValidation: the code is right ...          *)
Check(p, code) ==
  /\ Runs("main", "idle")
  /\ Pending(p)
  /\ row[p].code = code
  /\ Begin("main", p, "confirm", "none")
  /\ UNCHANGED <<row, requestVars, maskVars, faults, restarts>>

(* ... and is taken away. *)
Confirm ==
  /\ Runs("main", "confirm")
  /\ LET p == pair["main"] IN Update(p, [row[p] EXCEPT !.code = NoCode])
  /\ Done("main")
  /\ UNCHANGED <<requestVars, maskVars, faults, restarts>>

(* SMS_BBS_CMD_UNREG, doUnregister. *)
Unreg(p) ==
  /\ Runs("main", "idle")
  /\ Registered(p)
  /\ Begin("main", p, "delete", "none")
  /\ UNCHANGED <<row, requestVars, maskVars, faults, restarts>>

Delete ==
  /\ Runs("main", "delete")
  /\ row' = [row EXCEPT ![pair["main"]] = None]
  /\ Done("main")
  /\ UNCHANGED <<requestVars, maskVars, faults, restarts>>

(* SMS_BBS_CMD_BBSSEND, doSend: canSendSMS. *)
Send(p) ==
  /\ Runs("main", "idle")
  /\ Bound(p)
  /\ Begin("main", p, "check", "sms")
  /\ UNCHANGED <<row, requestVars, maskVars, faults, restarts>>

-----------------------------------------------------------------------------
(* sendSMS, from either context: countMoney and writeSMStoStorage. *)

(* Mutant: the fee of the message itself is forgotten. *)
WithinLimitBefore(p) == Registered(p) /\ row[p].today <= row[p].limit

WithinLimit(p) == Registered(p) /\ row[p].today + Fee <= row[p].limit

(* countMoney's select finds a row with enough money left, or not. *)
CheckMoney(c) ==
  /\ Runs(c, "check")
  /\ IF WithinLimit(pair[c]) THEN Goto(c, "charge") ELSE Done(c)
  /\ UNCHANGED <<row, requestVars, maskVars, faults, restarts>>

(* countMoney's update. *)
Charge(c) ==
  /\ Runs(c, "charge")
  /\ LET p == pair[c] IN Update(p, [row[p] EXCEPT !.today = @ + Fee])
  /\ Goto(c, "write")
  /\ UNCHANGED <<requestVars, maskVars, faults, restarts>>

(* writeSMStoStorage, whether it can write the message or not.  After the  *)
(* answer to a command that cannot be parsed, Send falls through to        *)
(* deliverSMS.                                                             *)
Write(c) ==
  /\ Runs(c, "write")
  /\ IF job[c] = "PARSE_ERROR" THEN Goto(c, "deliver") ELSE Done(c)
  /\ UNCHANGED <<row, requestVars, maskVars, faults, restarts>>

-----------------------------------------------------------------------------
(* SMS_BBS_CMD_REQUESTREPLY, doReplyRegisterRequest. *)

(* Mutant: SIGUSR1 is not blocked. *)
ReplyUnblocked(sn, r, origin) ==
  /\ Runs("main", "idle")
  /\ answer' = [sn |-> sn, request |-> r, origin |-> origin]
  /\ misled' = (misled \/ origin # "due")
  /\ oldmask' = blocked
  /\ UNCHANGED blocked
  /\ Goto("main", "find")
  /\ UNCHANGED <<row, serial, requestList, asked, before, faults, restarts>>

(* The signals are blocked, to protect m_requestList.                      *)
Reply(sn, r, origin) ==
  /\ Runs("main", "idle")
  /\ answer' = [sn |-> sn, request |-> r, origin |-> origin]
  /\ misled' = (misled \/ origin # "due")
  /\ oldmask' = blocked
  /\ blocked' = blocked \cup Signals
  /\ Goto("main", "find")
  /\ UNCHANGED <<row, serial, requestList, asked, before, faults, restarts>>

(* Of a reply the gateway sees its number only, and takes any.  The BBS    *)
(* answers a request, answers it again, answers one it received before it  *)
(* logged in again, or sends a number that nobody asked under.             *)
RequestReply(r) ==
  r \in due /\ due' = due \ {r} /\ Reply(r.sn, r, "due")
RepeatedReply(r) ==
  r \in asked \ due /\ UNCHANGED due /\ Reply(r.sn, r, "repeat")
LateReply(r) ==
  r \in before /\ UNCHANGED due /\ Reply(r.sn, r, "before")
StrayReply(sn) == UNCHANGED due /\ Reply(sn, None, "nobody")

(* The list has no request of this number: doReplyRegisterRequest returns, *)
(* and the signals stay blocked.                                           *)
NotFound ==
  /\ Runs("main", "find")
  /\ \A r \in requestList : r.sn # answer.sn
  /\ Done("main")
  /\ answer' = None
  /\ UNCHANGED <<row, requestVars, blocked, oldmask, misled, faults, restarts>>

(* What isSucceed makes of the request: 0 is yes and a statement, 1 and 2  *)
(* are a refusal for the phone, and anything else is nothing.              *)
Act(r) ==
  \/ Begin("main", r.pair, r.kind, "reply") /\ UNCHANGED answer
  \/ Begin("main", r.pair, "notice", "refused") /\ UNCHANGED answer
  \/ Done("main") /\ answer' = None

(* Mutant: the first request of the list is taken, whatever its number.    *)
FoundAny(r) ==
  /\ Runs("main", "find")
  /\ r \in requestList
  /\ requestList' = requestList \ {r}
  /\ blocked' = oldmask
  /\ Act(r)
  /\ UNCHANGED <<row, serial, asked, due, before, oldmask, misled, faults, restarts>>

(* Mutant: SIGUSR1 stays blocked. *)
FoundBlocked(r) ==
  /\ Runs("main", "find")
  /\ r \in requestList
  /\ r.sn = answer.sn
  /\ requestList' = requestList \ {r}
  /\ Act(r)
  /\ UNCHANGED <<row, serial, asked, due, before, blocked, oldmask, misled, faults, restarts>>

(* It has: the request is erased and SIGUSR1 is as before.                 *)
Found(r) ==
  /\ Runs("main", "find")
  /\ r \in requestList
  /\ r.sn = answer.sn
  /\ requestList' = requestList \ {r}
  /\ blocked' = oldmask
  /\ Act(r)
  /\ UNCHANGED <<row, serial, asked, due, before, oldmask, misled, faults, restarts>>

(* doRegisterSMS: select ... *)
Bind ==
  /\ Runs("main", "bind")
  /\ IF Registered(pair["main"]) THEN Tell("already") ELSE Goto("main", "insert")
  /\ UNCHANGED <<row, requestVars, maskVars, faults, restarts>>

(* ... and insert. *)
Insert ==
  /\ Runs("main", "insert")
  /\ row' = [row EXCEPT ![pair["main"]] = NewRow(NoCode)]
  /\ Tell("bound")
  /\ UNCHANGED <<requestVars, maskVars, faults, restarts>>

(* doUnregisterSMS: select ... *)
Unbind ==
  /\ Runs("main", "unbind")
  /\ IF Registered(pair["main"]) THEN Goto("main", "remove") ELSE Tell("never")
  /\ UNCHANGED <<row, requestVars, maskVars, faults, restarts>>

(* ... and delete. *)
Remove ==
  /\ Runs("main", "remove")
  /\ row' = [row EXCEPT ![pair["main"]] = None]
  /\ Tell("unbound")
  /\ UNCHANGED <<requestVars, maskVars, faults, restarts>>

(* The phone is told, by a message that is not charged. *)
Notice ==
  /\ Runs("main", "notice")
  /\ Done("main")
  /\ answer' = None
  /\ UNCHANGED <<row, requestVars, blocked, oldmask, misled, faults, restarts>>

-----------------------------------------------------------------------------
(* Send and processCommandSMS, in the handler. *)

Numbered == {"ZCYH", "QXZC", "PARSE_ERROR", "mail"}  \* go to the BBS, under a serial number

FirstStep ==
  [command \in AllCommands |->
    CASE command \in {"ZCYH", "QXZC"} -> "push"
      [] command = "SZXE" -> "limit"
      [] command = "QKYY" -> "zero"
      [] command = "CXXE" -> "query"
      [] command = "PARSE_ERROR" -> "write"
      [] command = "mail" -> "deliver"]

(* SIGUSR1 is delivered, and a message of a phone is in the inbox. *)
Command(p, command) ==
  /\ Runs("handler", "idle")
  /\ "SIGUSR1" \notin blocked
  /\ command \in Numbered => serial < MaxSerial
  /\ Begin("handler", p, FirstStep[command], command)
  /\ UNCHANGED <<row, requestVars, maskVars, faults, restarts>>

(* deliverSMS: the message takes a serial number and goes to the BBS. *)
Deliver ==
  /\ Runs("handler", "deliver")
  /\ serial' = serial + 1
  /\ Done("handler")
  /\ UNCHANGED <<row, requestList, asked, due, before, maskVars, faults, restarts>>

Request(sn) == [sn |-> sn, pair |-> pair["handler"], 
                kind |-> IF job["handler"] = "ZCYH" THEN "bind" ELSE "unbind"]

(* Mutant: an unbind request is executed without asking the BBS. *)
PushUnbound ==
  /\ Runs("handler", "push")
  /\ row' = IF job["handler"] = "QXZC" THEN [row EXCEPT ![pair["handler"]] = None] ELSE row
  /\ requestList' = requestList \cup {Request(serial)}
  /\ serial' = serial + 1
  /\ Goto("handler", "ask")
  /\ UNCHANGED <<asked, due, before, maskVars, faults, restarts>>

(* Mutant: the serial number does not advance. *)
PushUncounted ==
  /\ Runs("handler", "push")
  /\ requestList' = requestList \cup {Request(serial)}
  /\ Goto("handler", "ask")
  /\ UNCHANGED <<row, serial, asked, due, before, maskVars, faults, restarts>>

(* doSendRegisterMsg: the request is put on the list under a new serial    *)
(* number ...                                                              *)
Push ==
  /\ Runs("handler", "push")
  /\ requestList' = requestList \cup {Request(serial)}
  /\ serial' = serial + 1
  /\ Goto("handler", "ask")
  /\ UNCHANGED <<row, asked, due, before, maskVars, faults, restarts>>

(* ... and sent to the BBS, which may not get it; it stays on the list.    *)
Ask ==
  /\ Runs("handler", "ask")
  /\ \E received \in SUBSET {Request(serial - 1)} :
       asked' = asked \cup received /\ due' = due \cup received
  /\ Done("handler")
  /\ UNCHANGED <<row, serial, requestList, before, maskVars, faults, restarts>>

(* doSetMoneyLimit *)
SetLimit(limit) ==
  /\ Runs("handler", "limit")
  /\ LET p == pair["handler"] IN Update(p, [row[p] EXCEPT !.limit = limit])
  /\ Goto("handler", "check")
  /\ UNCHANGED <<requestVars, maskVars, faults, restarts>>

(* doZeroTodayTotal *)
Zero ==
  /\ Runs("handler", "zero")
  /\ LET p == pair["handler"] IN Update(p, [row[p] EXCEPT !.today = 0])
  /\ Goto("handler", "check")
  /\ UNCHANGED <<requestVars, maskVars, faults, restarts>>

(* doGetMoneyLimit, doGetTodayTotal: the answer is a message of its own.   *)
Query ==
  /\ Runs("handler", "query")
  /\ IF Registered(pair["handler"]) THEN Goto("handler", "check") ELSE Done("handler")
  /\ UNCHANGED <<row, requestVars, maskVars, faults, restarts>>

-----------------------------------------------------------------------------
(* Failures, and the rest of the world. *)

Statements == {"replace", "confirm", "delete", "check", "charge",
               "bind", "insert", "unbind", "remove", "limit", "zero", "query"}

(* Mutant: doReplyRegisterRequest takes BadQuery for success. *)
SqlFailsUnseen(c) ==
  /\ \E label \in Statements : Runs(c, label)
  /\ faults < MaxFaults
  /\ faults' = faults + 1
  /\ CASE at[c] \in {"bind", "insert"} -> Tell("bound")
       [] at[c] \in {"unbind", "remove"} -> Tell("unbound")
       [] OTHER -> Done(c)
  /\ UNCHANGED <<row, requestVars, maskVars, restarts>>

(* A statement throws BadQuery.  doReplyRegisterRequest takes the FAILED   *)
(* of doRegisterSMS and doUnregisterSMS for "bound already" and "was not   *)
(* bound": it looks for ERROR.                                             *)
SqlFails(c) ==
  /\ \E label \in Statements : Runs(c, label)
  /\ faults < MaxFaults
  /\ faults' = faults + 1
  /\ CASE at[c] \in {"bind", "insert"} -> Tell("already")
       [] at[c] \in {"unbind", "remove"} -> Tell("never")
       [] OTHER -> Done(c)
  /\ UNCHANGED <<row, requestVars, maskVars, restarts>>

(* The session ends and the BBS logs in again. *)
Restart ==
  /\ restarts < MaxRestarts
  /\ restarts' = restarts + 1
  /\ at' = [c \in Contexts |-> "idle"]
  /\ pair' = [c \in Contexts |-> None]
  /\ job' = [c \in Contexts |-> "none"]
  /\ blocked' = {}
  /\ oldmask' = {}
  /\ serial' = 0
  /\ requestList' = {}
  /\ answer' = None
  /\ before' = before \cup asked
  /\ asked' = {} /\ due' = {}
  /\ misled' = FALSE
  /\ UNCHANGED <<row, faults>>

(* sms_money_clearer: a new day. *)
ClearMoney ==
  /\ row' = [p \in Pairs |-> IF Registered(p) THEN [row[p] EXCEPT !.today = 0] ELSE None]
  /\ UNCHANGED <<contextVars, requestVars, maskVars, faults, restarts>>

Replies ==
  \/ \E r \in asked \cup before : RequestReply(r) \/ RepeatedReply(r) \/ LateReply(r)
  \/ \E sn \in 0..MaxSerial : StrayReply(sn)

Packet ==
  \/ \E p \in Pairs : \/ Reg(p) \/ Unreg(p) \/ Send(p)
                      \/ \E code \in Codes : Check(p, code)
  \/ Replies

Dispatch ==
  \/ \E code \in Codes : Replace(code)
  \/ Confirm \/ Delete
  \/ NotFound \/ \E r \in requestList : Found(r)
  \/ Bind \/ Insert \/ Unbind \/ Remove \/ Notice

Money == \E c \in Contexts : CheckMoney(c) \/ Charge(c) \/ Write(c)

Handle ==
  \/ \E p \in Pairs, command \in Commands : Command(p, command)
  \/ Deliver \/ Push \/ Ask \/ Zero \/ Query
  \/ \E limit \in Limits : SetLimit(limit)

Next ==
  \/ Packet
  \/ Dispatch
  \/ Money
  \/ Handle
  \/ \E c \in Contexts : SqlFails(c)
  \/ Restart
  \/ ClearMoney

Spec == Init /\ [][Next]_vars
-----------------------------------------------------------------------------
(* Properties. *)

TypeOK ==
  /\ row \in [Pairs -> Rows \cup {None}]
  /\ at \in [Contexts -> MainLabels \cup HandlerLabels]
  /\ pair \in [Contexts -> Pairs \cup {None}]
  /\ job \in [Contexts -> MainJobs \cup AllCommands]
  /\ blocked \subseteq Signals /\ oldmask \subseteq Signals
  /\ serial \in 0..MaxSerial
  /\ requestList \subseteq Requests
  /\ asked \subseteq Requests /\ due \subseteq asked /\ before \subseteq Requests
  /\ misled \in BOOLEAN
  /\ answer \in Answers \cup {None}
  /\ faults \in 0..MaxFaults /\ restarts \in 0..MaxRestarts

(* A message of the BBS is charged and written only while its pair is      *)
(* bound: nothing that may happen between canSendSMS and                   *)
(* writeSMStoStorage unbinds the pair, because an unbind request of the    *)
(* phone waits for the BBS's answer, which main reads.                     *)
SentOnlyWhileBound ==
  at["main"] \in {"check", "charge", "write"} /\ job["main"] = "sms" => Bound(pair["main"])

(* While doReplyRegisterRequest iterates over m_requestList, nobody else   *)
(* changes the list.                                                       *)
ListIsProtected == at["main"] = "find" => at["handler"] = "idle"

(* A phone that is told "bound" or "unbound" is: between the statement and *)
(* the notice nothing changes the row back.                                *)
SuccessNoticesAreTrue ==
  at["main"] = "notice" =>
    /\ job["main"] = "bound" => Bound(pair["main"])
    /\ job["main"] = "unbound" => ~Registered(pair["main"])

(* What the contexts are doing, and on whose behalf.                       *)
Places ==
  /\ at["main"] \in MainLabels
  /\ at["handler"] \in HandlerLabels
  /\ at["main"] \notin {"idle", "find"} => pair["main"] \in Pairs
  /\ at["handler"] # "idle" => pair["handler"] \in Pairs
  /\ job["main"] \in MainJobs
  /\ at["main"] = "replace" => job["main"] = "code"
  /\ at["handler"] # "idle" => job["handler"] \in Commands
  /\ at["handler"] \in {"push", "ask"} => job["handler"] \in {"ZCYH", "QXZC"}

(* A command that needs a serial number finds one left.                    *)
Numbers ==
  /\ at["handler"] \in {"push", "deliver"} => serial < MaxSerial
  /\ job["handler"] = "PARSE_ERROR" => serial < MaxSerial
  /\ at["handler"] = "ask" => serial > 0

(* main iterates over m_requestList with SIGUSR1 blocked, for an answer.   *)
Searching == at["main"] = "find" => "SIGUSR1" \in blocked /\ at["handler"] = "idle" /\ answer \in Answers

(* The inductive invariant: no statement of another context changes what   *)
(* main has found out about the row of its pair, other than the money.     *)
SessionInvariant ==
  /\ TypeOK
  /\ Places
  /\ Numbers
  /\ Searching
  /\ SentOnlyWhileBound
  /\ SuccessNoticesAreTrue
  /\ at["main"] = "replace" => ~Pending(pair["main"])

(* The code a phone was sent stays the one CHECK compares with until it is *)
(* used or the row is deleted: a second REG sends the same code again.     *)
CodeStable ==
  [][\A p \in Pairs : Pending(p) /\ Registered(p)' => row'[p].code \in {row[p].code, NoCode}]_vars

(* countMoney selects and then updates, and the handler may charge between *)
(* the two: a pair exceeds its limit, but never by more than one message.  *)
OverrunIsOneMessage == \A p \in Pairs : Registered(p) => row[p].today <= row[p].limit + Fee

(* What the BBS approves is what the gateway does: main executes the       *)
(* request that the reply it is working on answers.                        *)
Executing == at["main"] \in {"bind", "insert", "unbind", "remove"}
ExecutesIts(r) ==
  /\ pair["main"] = r.pair
  /\ r.kind = IF at["main"] \in {"bind", "insert"} THEN "bind" ELSE "unbind"

(* Refuted: the serial numbers begin again with every session, and a late  *)
(* reply finds another request.                                            *)
ExecutedAsApproved == Executing /\ answer.request # None => ExecutesIts(answer.request)

(* The answer to a request that this session has sent executes that        *)
(* request and no other, whatever replies came before it; and a second     *)
(* answer to the same request executes nothing.                            *)
OwnRepliesAreRight ==
  Executing =>
    /\ answer.origin # "repeat"
    /\ answer.origin = "due" => ExecutesIts(answer.request)

(* A session that waits for its BBS hears SIGUSR1: a reply leaves the mask *)
(* as it found it.  Refuted: one that finds no request does not.           *)
Deaf == at["main"] = "idle" /\ "SIGUSR1" \in blocked
NeverDeaf == ~Deaf

(* What makes a session deaf is a reply to a request that was not due,     *)
(* and nothing else: every other way out of doReplyRegisterRequest         *)
(* unblocks the signals, and an answer that is due finds its request.      *)
DeafNeedsForeignReply == Deaf => misled

(* Where the limits do not change, what a context has found out about the  *)
(* money of its pair: the handler's finding still holds when it charges,   *)
(* that of main may be out of date by what the handler charged.            *)
MoneyInvariant ==
  /\ OverrunIsOneMessage
  /\ at["main"] = "charge" /\ Registered(pair["main"]) =>
       row[pair["main"]].today <= row[pair["main"]].limit
  /\ at["handler"] = "charge" /\ Registered(pair["handler"]) =>
       row[pair["handler"]].today + Fee <= row[pair["handler"]].limit
  /\ at["handler"] # "limit"

(* Numbers are not used twice in a session, so that a number means one    *)
(* request, and none once it has been answered; until a reply misleads     *)
(* main, every request that is due is on the list, and the signals are     *)
(* blocked only while main searches it.                                    *)
ReplyInvariant ==
  /\ \A r \in requestList \cup asked : r.sn < serial
  /\ \A r \in requestList \cup asked, q \in requestList : r.sn = q.sn => r = q
  /\ at["handler"] = "ask" => Request(serial - 1) \in requestList \ asked
  /\ at["main"] = "find" /\ answer.origin \in {"due", "repeat"} =>
       answer.request \in asked \ due /\ answer.request.sn = answer.sn
  /\ \A r \in (asked \ due) \cap requestList :
       at["main"] = "find" /\ answer.origin = "due" /\ answer.request = r
  /\ ~misled =>
       /\ due \subseteq requestList
       /\ at["main"] = "find" =>
            /\ oldmask = {}
            /\ answer.origin = "due" /\ answer.request \in requestList
       /\ at["main"] # "find" => blocked = {}
  /\ OwnRepliesAreRight

(* SMS_BBS_CMD_EXCEEDMONEY_LIMIT: a message is not charged beyond the      *)
(* limit.                                                                  *)
ChargesWithinLimit ==
  [][\A p \in Pairs : Registered(p) /\ Registered(p)' /\ row'[p].today > row[p].today
       => row'[p].today <= row'[p].limit]_vars

(* SMS_BBS_CMD_REGISTERED: a pair that is bound is bound until it is       *)
(* deleted.                                                                *)
BoundStaysBound == [][\A p \in Pairs : Bound(p) /\ Registered(p)' => Bound(p)']_vars

(* A phone that is told that it is bound already is bound, one that is     *)
(* told that it never was is not.                                          *)
NoticesAreTrue ==
  at["main"] = "notice" =>
    /\ job["main"] = "already" => Bound(pair["main"])
    /\ job["main"] = "never" => ~Bound(pair["main"])
=============================================================================
