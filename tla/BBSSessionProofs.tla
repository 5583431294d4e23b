-------------------------- MODULE BBSSessionProofs --------------------------
(***************************************************************************)
(* Proofs about BBSSession, for any pairs, codes, fee, limits, commands    *)
(* and numbers of failures and sessions.                                   *)
(***************************************************************************)
EXTENDS BBSSession, TLAPS

-----------------------------------------------------------------------------
(* The invariant. *)

LEMMA InitInvariant == Init => SessionInvariant
<1> SUFFICES ASSUME Init PROVE SessionInvariant
    OBVIOUS
<1>1. TypeOK
  <2>1. requestList \subseteq Requests /\ asked \subseteq Requests /\ due \subseteq asked
        /\ before \subseteq Requests /\ misled \in BOOLEAN /\ answer \in Answers \cup {None}
    BY DEF Init
  <2>. QED BY <2>1, SessionAssumption
       DEF Init, TypeOK, Contexts, MainLabels, HandlerLabels, AllCommands, MainJobs, Signals
<1>. QED
  BY <1>1, SessionAssumption
  DEF Init, SessionInvariant, Places, Numbers, Searching,
      SentOnlyWhileBound, SuccessNoticesAreTrue,
      Contexts, MainLabels, HandlerLabels, AllCommands, MainJobs, Signals

(* A reply of whatever origin runs the same code.                          *)
LEMMA RepliesAre ==
  ASSUME TypeOK, Replies
  PROVE  \E sn \in 0..MaxSerial, r \in Requests \cup {None}, origin \in {"due", "repeat", "before", "nobody"} :
           /\ Reply(sn, r, origin)
           /\ origin = "nobody" \/ (r \in Requests /\ sn = r.sn)
           /\ \/ origin = "due" /\ r \in due /\ due' = due \ {r}
              \/ origin # "due" /\ due' = due
           /\ origin = "repeat" => r \in asked \ due
           /\ asked' = asked /\ before' = before
<1> USE DEF TypeOK, Requests
<1>1. CASE \E r \in asked \cup before : RequestReply(r) \/ RepeatedReply(r) \/ LateReply(r)
  <2>1. PICK r \in asked \cup before : RequestReply(r) \/ RepeatedReply(r) \/ LateReply(r)
    BY <1>1
  <2>2. r \in Requests /\ r.sn \in 0..MaxSerial
    OBVIOUS
  <2>3. CASE RequestReply(r)
    BY <2>2, <2>3 DEF RequestReply, Reply
  <2>4. CASE RepeatedReply(r)
    BY <2>2, <2>4 DEF RepeatedReply, Reply
  <2>5. CASE LateReply(r)
    BY <2>2, <2>5 DEF LateReply, Reply
  <2>. QED BY <2>1, <2>3, <2>4, <2>5
<1>2. CASE \E sn \in 0..MaxSerial : StrayReply(sn)
  BY <1>2 DEF StrayReply, Reply
<1>. QED BY <1>1, <1>2 DEF Replies

LEMMA StepInvariant == SessionInvariant /\ [Next]_vars => SessionInvariant'
<1> SUFFICES ASSUME SessionInvariant, [Next]_vars PROVE SessionInvariant'
    OBVIOUS
<1> USE SessionAssumption, RowAssumption
    DEF Runs, Begin, Goto, Tell, Done, contextVars, requestVars, maskVars,
        SessionInvariant, TypeOK, Places, Numbers, Searching,
        SentOnlyWhileBound, SuccessNoticesAreTrue, Bound, Pending, Registered,
        Contexts, MainLabels, HandlerLabels, AllCommands, MainJobs, Signals,
        Requests, Answers
<1>1. CASE \E p \in Pairs : Reg(p)
  BY <1>1, SMTT(20) DEF Reg
<1>2. CASE \E p \in Pairs : Unreg(p)
  BY <1>2, SMTT(20) DEF Unreg
<1>3. CASE \E p \in Pairs : Send(p)
  BY <1>3, SMTT(20) DEF Send
<1>4. CASE \E p \in Pairs, code \in Codes : Check(p, code)
  BY <1>4, SMTT(20) DEF Check
<1>5. CASE Replies
  <2>1. PICK sn \in 0..MaxSerial, r \in Requests \cup {None}, origin \in {"due", "repeat", "before", "nobody"} :
          /\ Reply(sn, r, origin)
          /\ due' \subseteq due
    BY <1>5, RepliesAre
  <2>2. answer' \in Answers
    BY <2>1 DEF Reply
  <2>. QED BY <2>1, <2>2, SMTT(20) DEF Reply
<1>6. ASSUME NEW code \in Codes, Replace(code) PROVE SessionInvariant'
  <2>1. NewRow(code) \in Rows
    BY DEF NewRow, Rows
  <2>2. /\ row' \in [Pairs -> Rows \cup {None}]
        /\ row'[pair["main"]] = NewRow(code)
    BY <2>1, <1>6 DEF Replace
  <2>3. row'[pair["main"]] # None /\ row'[pair["main"]].code = code
    BY <2>1, <2>2 DEF NewRow
  <2>. QED BY <2>2, <2>3, <1>6, SMTT(20) DEF Replace
<1>7. CASE Confirm
  <2>1. /\ row' \in [Pairs -> Rows \cup {None}]
        /\ \A p \in Pairs : Registered(p)' <=> Registered(p)
    BY <1>7, SMTT(30) DEF Confirm, Update, Rows
  <2>. QED BY <2>1, <1>7, SMTT(20) DEF Confirm
<1>8. CASE Delete
  BY <1>8, SMTT(20) DEF Delete
<1>9. CASE NotFound
  BY <1>9, SMTT(20) DEF NotFound
<1>10. CASE \E r \in requestList : Found(r)
  BY <1>10, SMTT(20) DEF Found, Act
<1>11. CASE Bind
  BY <1>11, SMTT(20) DEF Bind
<1>12. CASE Insert
  <2>1. NewRow(NoCode) \in Rows
    BY DEF NewRow, Rows
  <2>2. /\ row' \in [Pairs -> Rows \cup {None}]
        /\ row'[pair["main"]] = NewRow(NoCode)
    BY <2>1, <1>12 DEF Insert
  <2>3. row'[pair["main"]] # None /\ row'[pair["main"]].code = NoCode
    BY <2>1, <2>2 DEF NewRow
  <2>. QED BY <2>2, <2>3, <1>12, SMTT(20) DEF Insert
<1>13. CASE Unbind
  BY <1>13, SMTT(20) DEF Unbind
<1>14. CASE Remove
  BY <1>14, SMTT(20) DEF Remove
<1>15. CASE Notice
  BY <1>15, SMTT(20) DEF Notice
<1>16. CASE \E c \in Contexts : CheckMoney(c)
  BY <1>16, SMTT(20) DEF CheckMoney
<1>17. ASSUME NEW c \in Contexts, Charge(c) PROVE SessionInvariant'
  <2>1. /\ row' \in [Pairs -> Rows \cup {None}]
        /\ \A p \in Pairs : Registered(p)' <=> Registered(p)
        /\ \A p \in Pairs : Registered(p) => row'[p].code = row[p].code
    BY <1>17, SMTT(30) DEF Charge, Update, Rows
  <2>2. CASE c = "main"
    BY <2>1, <2>2, <1>17, SMTT(20) DEF Charge
  <2>3. CASE c = "handler"
    BY <2>1, <2>3, <1>17, SMTT(20) DEF Charge
  <2>. QED BY <2>2, <2>3
<1>18. CASE \E c \in Contexts : Write(c)
  BY <1>18, SMTT(20) DEF Write
<1>19. CASE \E p \in Pairs, command \in Commands : Command(p, command)
  BY <1>19, SMTT(20) DEF Command, FirstStep, Numbered
<1>20. CASE Deliver
  BY <1>20, SMTT(20) DEF Deliver
<1>21. CASE Push
  <2>1. Request(serial) \in Requests
    BY <1>21 DEF Push, Request
  <2>. QED BY <2>1, <1>21, SMTT(20) DEF Push
<1>22. CASE Ask
  BY <1>22, SMTT(20) DEF Ask, Request
<1>23. CASE Zero
  <2>1. /\ row' \in [Pairs -> Rows \cup {None}]
        /\ \A p \in Pairs : Registered(p)' <=> Registered(p)
        /\ \A p \in Pairs : Registered(p) => row'[p].code = row[p].code
    BY <1>23, SMTT(30) DEF Zero, Update, Rows
  <2>. QED BY <2>1, <1>23, SMTT(20) DEF Zero
<1>24. CASE Query
  BY <1>24, SMTT(20) DEF Query
<1>25. ASSUME NEW limit \in Limits, SetLimit(limit) PROVE SessionInvariant'
  <2>1. /\ row' \in [Pairs -> Rows \cup {None}]
        /\ \A p \in Pairs : Registered(p)' <=> Registered(p)
        /\ \A p \in Pairs : Registered(p) => row'[p].code = row[p].code
    BY <1>25, SMTT(30) DEF SetLimit, Update, Rows
  <2>. QED BY <2>1, <1>25, SMTT(20) DEF SetLimit
<1>26. CASE \E c \in Contexts : SqlFails(c)
  BY <1>26, SMTT(20) DEF SqlFails, Statements
<1>27. CASE Restart
  <2>1. /\ asked' = {} /\ due' = {} /\ before' \subseteq Requests
        /\ requestList' = {} /\ answer' = None /\ misled' = FALSE
    BY <1>27 DEF Restart
  <2>2. /\ asked' \subseteq Requests /\ due' \subseteq asked' /\ requestList' \subseteq Requests
        /\ answer' \in Answers \cup {None} /\ misled' \in BOOLEAN
    BY <2>1
  <2>. QED BY <1>27, <2>1, <2>2, SMTT(20) DEF Restart
<1>28. CASE ClearMoney
  <2>1. /\ row' \in [Pairs -> Rows \cup {None}]
        /\ \A p \in Pairs : Registered(p)' <=> Registered(p)
        /\ \A p \in Pairs : Registered(p) => row'[p].code = row[p].code
    BY <1>28, SMTT(30) DEF ClearMoney, Rows
  <2>. QED BY <2>1, <1>28, SMTT(20) DEF ClearMoney
<1>29. CASE UNCHANGED vars
  BY <1>29 DEF vars, Request
<1>. QED
  BY <1>1, <1>2, <1>3, <1>4, <1>5, <1>6, <1>7, <1>8, <1>9, <1>10, <1>11, 
     <1>12, <1>13, <1>14, <1>15, <1>16, <1>17, <1>18, <1>19, <1>20, 
     <1>21, <1>22, <1>23, <1>24, <1>25, <1>26, <1>27, <1>28, <1>29
  DEF Next, Packet, Dispatch, Money, Handle

(* The session keeps its invariant, with it the types, and:                *)
(* between canSendSMS and writeSMStoStorage the pair stays bound;          *)
(* m_requestList stands still while main iterates over it;                 *)
(* a phone that is told "bound" or "unbound" is.                           *)
THEOREM InvariantHolds == Spec => []SessionInvariant
<1>1. Init => SessionInvariant
  BY InitInvariant
<1>2. SessionInvariant /\ [Next]_vars => SessionInvariant'
  BY StepInvariant
<1>. QED BY <1>1, <1>2, PTL DEF Spec

(* A message of the BBS is charged and written only while its pair is      *)
(* bound.                                                                  *)
THEOREM OnlyBoundPairsSend == Spec => []SentOnlyWhileBound
<1>1. SessionInvariant => SentOnlyWhileBound
  BY DEF SessionInvariant
<1>. QED BY <1>1, InvariantHolds, PTL

(* doReplyRegisterRequest has m_requestList for itself.                    *)
THEOREM ListStandsStill == Spec => []ListIsProtected
<1>1. SessionInvariant => ListIsProtected
  BY DEF SessionInvariant, Searching, ListIsProtected
<1>. QED BY <1>1, InvariantHolds, PTL

(* doRegisterSMS and doUnregisterSMS have done what their notices of       *)
(* success say.                                                            *)
THEOREM SuccessIsTrue == Spec => []SuccessNoticesAreTrue
<1>1. SessionInvariant => SuccessNoticesAreTrue
  BY DEF SessionInvariant
<1>. QED BY <1>1, InvariantHolds, PTL

-----------------------------------------------------------------------------
(* The validation code. *)

(* The steps that write the table. *)
LEMMA OtherStepsKeepRows ==
  ASSUME [Next]_vars
  PROVE  \/ \E code \in Codes : Replace(code)
         \/ Confirm \/ Delete \/ Remove \/ Insert
         \/ \E c \in Contexts : Charge(c)
         \/ Zero \/ \E limit \in Limits : SetLimit(limit)
         \/ ClearMoney
         \/ UNCHANGED row
  BY DEF Next, Packet, Dispatch, Money, Handle, vars,
         Reg, Unreg, Send, Check, Replies, RequestReply, RepeatedReply, LateReply, StrayReply,
         Reply, NotFound, Found, Bind, Unbind, Notice,
         CheckMoney, Write, Command, Deliver, Push, Ask, Query, SqlFails, Restart

(* A step of Next that changes the row of a pair whose code is unused      *)
(* keeps the code, takes it away or deletes the row.                       *)
LEMMA StepKeepsCode ==
  ASSUME SessionInvariant, [Next]_vars, NEW p \in Pairs, Pending(p), Registered(p)'
  PROVE  row'[p].code \in {row[p].code, NoCode}
<1> USE SessionAssumption, RowAssumption
    DEF SessionInvariant, TypeOK, Places, Pending, Registered, Runs
<1>1. CASE \E code \in Codes : Replace(code)
  BY <1>1 DEF Replace
<1>2. CASE Confirm
  BY <1>2, SMTT(20) DEF Confirm, Update, Rows
<1>3. CASE Delete \/ Remove
  BY <1>3 DEF Delete, Remove
<1>4. CASE Insert
  BY <1>4 DEF Insert, NewRow
<1>5. ASSUME NEW c \in Contexts, Charge(c) PROVE row'[p].code = row[p].code
  BY <1>5, SMTT(20) DEF Charge, Update, Rows
<1>6. CASE Zero
  BY <1>6, SMTT(20) DEF Zero, Update, Rows
<1>7. CASE \E limit \in Limits : SetLimit(limit)
  BY <1>7, SMTT(20) DEF SetLimit, Update, Rows
<1>8. CASE ClearMoney
  BY <1>8 DEF ClearMoney, Rows
<1>9. CASE UNCHANGED row
  BY <1>9
<1>. QED
  BY <1>1, <1>2, <1>3, <1>4, <1>5, <1>6, <1>7, <1>8, <1>9, OtherStepsKeepRows

(* A phone that has been sent a code can use it until it is used or the    *)
(* row is deleted.                                                         *)
THEOREM CodesAreStable == Spec => CodeStable
<1>1. SessionInvariant /\ [Next]_vars
        => [\A p \in Pairs : Pending(p) /\ Registered(p)' => row'[p].code \in {row[p].code, NoCode}]_vars
  BY StepKeepsCode
<1>. QED BY <1>1, InvariantHolds, PTL DEF Spec, CodeStable

(* Only countMoney's select brings a context to its update, and only SZXE  *)
(* the handler to a new limit.                                             *)
LEMMA ChargeComesFromCheck ==
  ASSUME "SZXE" \notin Commands, SessionInvariant, at["handler"] # "limit", [Next]_vars,
         ~\E c \in Contexts : CheckMoney(c)
  PROVE  /\ at'["main"] = "charge" => at["main"] = "charge" /\ pair'["main"] = pair["main"]
         /\ at'["handler"] = "charge" => at["handler"] = "charge" /\ pair'["handler"] = pair["handler"]
         /\ at'["handler"] # "limit"
<1> USE SessionAssumption
    DEF SessionInvariant, TypeOK, Places, Runs, Begin, Goto, Tell, Done, contextVars,
        Contexts, MainLabels, HandlerLabels, AllCommands
<1>1. CASE Packet
  BY <1>1, SMTT(30) DEF Packet, Reg, Unreg, Send, Check, Replies, RequestReply, RepeatedReply, LateReply,
     StrayReply, Reply, maskVars
<1>2. CASE Dispatch
  BY <1>2, SMTT(30) DEF Dispatch, Replace, Confirm, Delete, NotFound, Found, Act,
     Requests, Bind, Insert, Unbind, Remove, Notice
<1>3. CASE Money
  BY <1>3, SMTT(30) DEF Money, Charge, Write
<1>4. CASE Handle
  <2>1. ASSUME NEW p \in Pairs, NEW command \in Commands, Command(p, command)
        PROVE  at'["handler"] \notin {"charge", "limit"} /\ UNCHANGED <<at["main"], pair["main"]>>
    <3>1. FirstStep[command] \in {"push", "zero", "query", "write", "deliver"}
      BY DEF FirstStep
    <3>. QED BY <2>1, <3>1 DEF Command
  <2>2. CASE Deliver
    BY <2>2 DEF Deliver
  <2>3. CASE Push
    BY <2>3 DEF Push
  <2>4. CASE Ask
    BY <2>4 DEF Ask
  <2>5. CASE Zero
    BY <2>5 DEF Zero
  <2>6. CASE Query
    BY <2>6 DEF Query
  <2>7. ~ \E limit \in Limits : SetLimit(limit)
    BY DEF SetLimit
  <2>. QED BY <1>4, <2>1, <2>2, <2>3, <2>4, <2>5, <2>6, <2>7 DEF Handle
<1>5. CASE \E c \in Contexts : SqlFails(c)
  BY <1>5, SMTT(30) DEF SqlFails, Statements
<1>6. CASE Restart \/ ClearMoney
  BY <1>6, SMTT(30) DEF Restart, ClearMoney
<1>7. CASE UNCHANGED vars
  BY <1>7, SMTT(30) DEF vars
<1>. QED BY <1>1, <1>2, <1>3, <1>4, <1>5, <1>6, <1>7 DEF Next

-----------------------------------------------------------------------------
(* Money. *)

(* countMoney: while no phone changes a limit, a pair exceeds its limit by *)
(* one message at most, whatever order the selects and updates of main and *)
(* the handler come in.                                                    *)
LEMMA StepKeepsMoney ==
  ASSUME "SZXE" \notin Commands, SessionInvariant, MoneyInvariant, [Next]_vars
  PROVE  MoneyInvariant'
<1> USE SessionAssumption, RowAssumption
    DEF SessionInvariant, TypeOK, Places, Runs, Contexts, Registered,
        MoneyInvariant, OverrunIsOneMessage
<1>1. CASE \E code \in Codes : Replace(code)
  <2>1. PICK code \in Codes : Replace(code)
    BY <1>1
  <2>2. row'[pair["main"]] = NewRow(code)
    BY <2>1 DEF Replace
  <2>. QED BY <2>1, <2>2, SMTT(30) DEF Replace, NewRow, Goto
<1>2. CASE Confirm
  <2>1. \A p \in Pairs : row'[p] # None =>
          row[p] # None /\ row'[p].today = row[p].today /\ row'[p].limit = row[p].limit
    BY <1>2, SMTT(30) DEF Confirm, Update, Rows
  <2>. QED BY <1>2, <2>1, SMTT(30) DEF Confirm, Done, Begin
<1>3. CASE Delete \/ Remove
  <2>1. \A p \in Pairs : row'[p] # None => row'[p] = row[p]
    BY <1>3 DEF Delete, Remove
  <2>2. at' = [at EXCEPT !["main"] = "idle"] \/ at' = [at EXCEPT !["main"] = "notice"]
    BY <1>3 DEF Delete, Remove, Done, Begin, Tell
  <2>3. pair'["handler"] = pair["handler"]
    BY <1>3 DEF Delete, Remove, Done, Begin, Tell
  <2>. QED BY <2>1, <2>2, <2>3, SMTT(30)
<1>4. CASE Insert
  <2>1. row'[pair["main"]] = NewRow(NoCode)
    BY <1>4 DEF Insert
  <2>. QED BY <1>4, <2>1, SMTT(30) DEF Insert, NewRow, Tell
<1>5. ASSUME NEW c \in Contexts, Charge(c) PROVE MoneyInvariant'
  <2>1. /\ \A p \in Pairs \ {pair[c]} : row'[p] = row[p]
        /\ row'[pair[c]] # None =>
             /\ row[pair[c]] # None
             /\ row'[pair[c]].today = row[pair[c]].today + Fee
             /\ row'[pair[c]].limit = row[pair[c]].limit
             /\ row[pair[c]].today \in Nat /\ row[pair[c]].limit \in Nat
    BY <1>5, SMTT(30) DEF Charge, Update, Rows
  <2>2. CASE c = "main"
    BY <1>5, <2>1, <2>2, SMTT(30) DEF Charge, Goto, Rows
  <2>3. CASE c = "handler"
    BY <1>5, <2>1, <2>3, SMTT(30) DEF Charge, Goto, Rows
  <2>. QED BY <2>2, <2>3
<1>6. CASE Zero \/ ClearMoney
  <2>1. \A p \in Pairs : row'[p] # None =>
          /\ row[p] # None
          /\ row'[p].today \in {0, row[p].today}
          /\ row'[p].limit = row[p].limit
          /\ row[p].today \in Nat /\ row[p].limit \in Nat
    BY <1>6, SMTT(30) DEF Zero, ClearMoney, Update, Rows
  <2>2. /\ at'["main"] = at["main"] /\ pair' = pair
        /\ at'["handler"] = at["handler"] \/ at'["handler"] = "check"
    BY <1>6 DEF Zero, ClearMoney, Goto, contextVars
  <2>. QED BY <2>1, <2>2, SMTT(30)
<1>7. CASE \E limit \in Limits : SetLimit(limit)
  BY <1>7 DEF SetLimit
<1>8. CASE \E c \in Contexts : CheckMoney(c)
  <2>1. \A p \in Pairs : row[p] # None => row[p].today \in Nat /\ row[p].limit \in Nat
    BY DEF Rows
  <2>. QED BY <1>8, <2>1, SMTT(30) DEF CheckMoney, WithinLimit, Goto, Done, Begin
<1>9. CASE UNCHANGED row /\ ~\E c \in Contexts : CheckMoney(c)
  <2>1. /\ at'["main"] = "charge" => at["main"] = "charge" /\ pair'["main"] = pair["main"]
        /\ at'["handler"] = "charge" => at["handler"] = "charge" /\ pair'["handler"] = pair["handler"]
        /\ at'["handler"] # "limit"
    BY <1>9, ChargeComesFromCheck
  <2>. QED BY <1>9, <2>1
<1>. QED
  BY <1>1, <1>2, <1>3, <1>4, <1>5, <1>6, <1>7, <1>8, <1>9, OtherStepsKeepRows

(* The bound on what a pair overspends.                                    *)
THEOREM OverrunIsBounded ==
  ASSUME "SZXE" \notin Commands
  PROVE  Spec => []OverrunIsOneMessage
<1>1. Init => MoneyInvariant
  BY SessionAssumption DEF Init, MoneyInvariant, OverrunIsOneMessage, Registered, Contexts
<1>2. SessionInvariant /\ MoneyInvariant /\ [Next]_vars => MoneyInvariant'
  BY StepKeepsMoney
<1>3. MoneyInvariant => OverrunIsOneMessage
  BY DEF MoneyInvariant
<1>. QED BY <1>1, <1>2, <1>3, InvariantHolds, PTL DEF Spec

-----------------------------------------------------------------------------
(* Replies. *)

(* A reply that is due finds the request it answers, and a second one      *)
(* finds nothing: serial numbers are not used twice in a session, and only *)
(* main takes a request from the list.                                     *)
LEMMA StepKeepsReplies ==
  ASSUME SessionInvariant, ReplyInvariant, [Next]_vars
  PROVE  ReplyInvariant'
<1> USE SessionAssumption
    DEF Runs, Begin, Goto, Tell, Done, contextVars, requestVars, maskVars,
        SessionInvariant, TypeOK, Places, Numbers, Searching, Contexts, Requests, Answers,
        ReplyInvariant, OwnRepliesAreRight, Executing, ExecutesIts, Request
<1>1. CASE \E p \in Pairs : Reg(p)
  BY <1>1, SMTT(20) DEF Reg
<1>2. CASE \E p \in Pairs : Unreg(p)
  BY <1>2, SMTT(20) DEF Unreg
<1>3. CASE \E p \in Pairs : Send(p)
  BY <1>3, SMTT(20) DEF Send
<1>4. CASE \E p \in Pairs, code \in Codes : Check(p, code)
  BY <1>4, SMTT(20) DEF Check
<1>5. CASE Replies
  <2>1. PICK sn \in 0..MaxSerial, r \in Requests \cup {None}, origin \in {"due", "repeat", "before", "nobody"} :
          /\ Reply(sn, r, origin)
          /\ origin = "nobody" \/ (r \in Requests /\ sn = r.sn)
          /\ \/ origin = "due" /\ r \in due /\ due' = due \ {r}
             \/ origin # "due" /\ due' = due
          /\ origin = "repeat" => r \in asked \ due
          /\ asked' = asked /\ before' = before
    BY <1>5, RepliesAre
  <2>2. /\ at["main"] = "idle" /\ at'["main"] = "find" /\ at'["handler"] = "idle"
        /\ answer'.sn = sn /\ answer'.request = r /\ answer'.origin = origin
        /\ misled' = (misled \/ origin # "due")
        /\ oldmask' = blocked
        /\ serial' = serial /\ requestList' = requestList
    BY <2>1 DEF Reply
  <2>3. /\ \A q \in requestList' \cup asked' : q.sn < serial'
        /\ \A q \in requestList' \cup asked', l \in requestList' : q.sn = l.sn => q = l
    BY <2>1, <2>2
  <2>4. origin \in {"due", "repeat"} => r \in asked' \ due' /\ r.sn = sn
    BY <2>1
  <2>5. \A q \in (asked' \ due') \cap requestList' : origin = "due" /\ r = q
    BY <2>1, <2>2
  <2>6. ~misled' => ~misled /\ origin = "due" /\ r \in due
    BY <2>1, <2>2
  <2>7. ~misled' => due' \subseteq requestList' /\ oldmask' = {} /\ r \in requestList'
    BY <2>1, <2>2, <2>6
  <2>. QED BY <2>2, <2>3, <2>4, <2>5, <2>6, <2>7
<1>6. CASE \E code \in Codes : Replace(code)
  BY <1>6, SMTT(20) DEF Replace, NewRow
<1>7. CASE Confirm
  BY <1>7, SMTT(20) DEF Confirm, Update
<1>8. CASE Delete
  BY <1>8, SMTT(20) DEF Delete
<1>9. CASE NotFound
  BY <1>9, SMTT(20) DEF NotFound
<1>10. CASE \E r \in requestList : Found(r)
  BY <1>10, SMTT(20) DEF Found, Act
<1>11. CASE Bind
  BY <1>11, SMTT(20) DEF Bind
<1>12. CASE Insert
  BY <1>12, SMTT(20) DEF Insert, NewRow
<1>13. CASE Unbind
  BY <1>13, SMTT(20) DEF Unbind
<1>14. CASE Remove
  BY <1>14, SMTT(20) DEF Remove
<1>15. CASE Notice
  BY <1>15, SMTT(20) DEF Notice
<1>16. CASE \E c \in Contexts : CheckMoney(c)
  BY <1>16, SMTT(20) DEF CheckMoney
<1>17. CASE \E c \in Contexts : Charge(c)
  BY <1>17, SMTT(20) DEF Charge, Update
<1>18. CASE \E c \in Contexts : Write(c)
  BY <1>18, SMTT(20) DEF Write
<1>19. ASSUME NEW p \in Pairs, NEW command \in Commands, Command(p, command)
      PROVE  ReplyInvariant'
  <2>1. FirstStep[command] # "ask"
    BY DEF FirstStep, AllCommands
  <2>. QED BY <1>19, <2>1, SMTT(20) DEF Command
<1>20. CASE Deliver
  BY <1>20, SMTT(20) DEF Deliver
<1>21. CASE Push
  BY <1>21, SMTT(20) DEF Push
<1>22. CASE Ask
  BY <1>22, SMTT(20) DEF Ask
<1>23. CASE Zero
  BY <1>23, SMTT(20) DEF Zero, Update
<1>24. CASE Query
  BY <1>24, SMTT(20) DEF Query
<1>25. CASE \E limit \in Limits : SetLimit(limit)
  BY <1>25, SMTT(20) DEF SetLimit, Update
<1>26. CASE \E c \in Contexts : SqlFails(c)
  BY <1>26, SMTT(20) DEF SqlFails, Statements
<1>27. CASE Restart
  BY <1>27, SMTT(20) DEF Restart
<1>28. CASE ClearMoney
  BY <1>28, SMTT(20) DEF ClearMoney
<1>29. CASE UNCHANGED vars
  BY <1>29 DEF vars
<1>. QED
  BY <1>1, <1>2, <1>3, <1>4, <1>5, <1>6, <1>7, <1>8, <1>9, <1>10, <1>11, 
     <1>12, <1>13, <1>14, <1>15, <1>16, <1>17, <1>18, <1>19, <1>20, 
     <1>21, <1>22, <1>23, <1>24, <1>25, <1>26, <1>27, <1>28, <1>29
  DEF Next, Packet, Dispatch, Money, Handle

(* What the numbers of requests and replies say, in every session.         *)
THEOREM RepliesAreTold == Spec => []ReplyInvariant
<1>1. Init => ReplyInvariant
  BY DEF Init, ReplyInvariant, OwnRepliesAreRight, Executing, Contexts
<1>2. SessionInvariant /\ ReplyInvariant /\ [Next]_vars => ReplyInvariant'
  BY StepKeepsReplies
<1>. QED BY <1>1, <1>2, InvariantHolds, PTL DEF Spec

(* The reply to a request of this session makes the gateway bind or unbind *)
(* the pair the request was about, and a second reply to it does nothing,  *)
(* whatever replies come besides.                                          *)
THEOREM RepliesExecuteRequests == Spec => []OwnRepliesAreRight
<1>1. ReplyInvariant => OwnRepliesAreRight
  BY DEF ReplyInvariant
<1>. QED BY <1>1, RepliesAreTold, PTL

(* The session hears SIGUSR1 while it waits for its BBS until the BBS      *)
(* answers something that is not due: then lines 427 and 428 may return    *)
(* with the signals blocked.                                               *)
THEOREM DeafHasCause == Spec => []DeafNeedsForeignReply
<1>1. ReplyInvariant => DeafNeedsForeignReply
  BY DEF ReplyInvariant, DeafNeedsForeignReply, Deaf
<1>. QED BY <1>1, RepliesAreTold, PTL
=============================================================================
