# aka-smsd in TLA+

aka-smsd is an SMS gateway for bulletin boards: BBS servers log in to it over TCP
and send short messages, subscribers' phones answer through a provider (18dx, 5168),
and the gateway keeps the books (who has registered which number, what a message
costs). It is a set of small daemons that share nothing but directories, a MySQL
database, pid files and signals. This directory holds a model of it in TLA+, the
configurations that check the model with TLC, and proofs checked with TLAPS.

## 1. Inventory

| component | source | state it keeps | operations | talks to |
|---|---|---|---|---|
| spool directories | smsdiskstorage.h/.cpp | files in `outgoing`, `incoming`, backup, `error` | `writeSMStoStorage`, link, unlink, readdir | all daemons, by dnotify signals |
| relay daemons | sms_deliver_c2p.cpp, sms_deliver_p2c.cpp | the directory stream of one scan, queued signals | `Run`, `OnNotify`, `getDest` | outgoing directory of the writers, incoming directories of the consumers |
| consumer storage | smsstorage.cpp/.h, smsdiskstorage.h | `m_currFilename`, `m_pDataBuf`, `m_readedFileList`, the stream `m_pDIR` | `init`, `OnNotify`, `clearStorage`, `backupError` | the protocol's `Send` |
| bad word filter | smsstorage.h, mgrep.cpp | the image of the words (`m_filterBuf`), the time `m_ft` of the last look, `num_of_matched` | `initFilter`, `prepf`, `mgrep_str` | `writeSMStoStorage`; the file etc/badword |
| provider 18dx | sms18dxprotocol.h, sms_p_18dx.cpp | the connection `m_tcp`, kept open from one message to the next; a child for each delivery | `Send` in the handler of SIGUSR1, `Run`, `OnAccept` | provider over TCP |
| provider 5168 | sms5168protocol.h, sms_p_5168.cpp | `m_connected`, `m_lastrcvtime`, `m_lastsendtime` | `Run` with its login, its receive loop and its keep-alive; `Send` | provider's library (libs/5168) |
| BBS sessions | smsbbschildprotocol.h, smsdaemon.cpp | pid file of the child's code, serial numbers, signal mask | login, `dispatchMessage`, `doStartChild`, `doReply` | BBS over TCP, database, storage |
| registration and billing | smsbbschildprotocol.h, smsbbschildprivilegechecker.h, smsmysqlfeecodegetter.h, smslogger.h, sms_money_clearer.cpp | tables SMSRegister_TB, SMSChildUser_TB, fee table, log table | REG/CHECK/UNREG and bind requests, `countMoney`, `sendSMS`, monthly clearing | BBS sessions |
| aka sessions | smschildprotocol.h, sms_c_aka.cpp, smsdaemon.cpp | the parent's `m_pid`; one child for each connection | `Run`, `OnAccept`, `Send`; SIGTERM to the child before, SIGCHLD and `wait` | BBS over TCP, `inbox/c_aka` |
| daemon base | smsdaemon.h/.cpp | signal handlers | `InitDaemon`, `InitSignal`, the handler of SIGCHLD | all daemons |
| BBS client library | libbbssms/libbbssms.c | the client's buffers | requests and replies of smsbbsprotocoldefine.h | BBS sessions |
| BBS client demo | libbbssms/demo | a queue in shared memory: `sem`, `total`, `length` | daemon akasmsd; sendsms in each process of the BBS; SIGUSR1 and SIGUSR2 as answers | libbbssms |
| php client library | libsms/ | none | one request per call | aka sessions |
| CMPP | smscmpp2protocol.h, smscmppprotocol.cpp, CMPPAPI.hpp, backup_src/ | | not built | |

What is hard here: the daemons run concurrently and are coupled by signals that
are raised at the creation of a file, not when it is complete; a handler runs in
the middle of anything; everything that was sent is remembered in memory until
the end of a scan; a failed system call is logged and ignored; a second login
kills the first session wherever it is; the books are kept in several database
statements without a transaction; answers carry no number that would tell whose
they are, so that a late one meets the next request; `sem` is an int that is tested
and set in two steps.

What makes each part correct:

- spool and pipeline: what a writer was told is stored is not lost, only stored
  messages are sent, and a message is sent again only if something failed;
- storage: what leaves an incoming directory has a copy, only what was sent is in
  the backup, only what was refused is in `error`;
- BBS session and tables: a message is sent and charged only for a bound pair and
  within its limit, the gateway does what the BBS approved, a phone is told the
  truth, and the session keeps hearing its signals;
- takeover: one session per BBS, which the pipeline relies on (one consumer for
  each inbox), and a login that does not wait for ever;
- 18dx: what is recorded as sent was accepted, and a message is accepted twice only
  after a fault that concerns it;
- 5168: `apiSend` is called while the daemon is logged in only, and what was refused
  offline is sent after the next login;
- aka sessions: the parent is never stopped by `wait`, one session lives on, and a
  message a client wrote is lost for a named cause only;
- client queue: whole packets reach the gateway, a user is not told of success
  without an answer, and nobody waits for ever;
- bad word filter: the search finds a word if and only if it is there, and what was
  read of the file stays usable.

## 2. Modules

| module | models | code |
|---|---|---|
| Spool | directories, inodes, link and unlink | the file system as smsdiskstorage.h and the relays use it |
| StorageWrite | open, truncate, write of a message; refusals and failures | `writeSMStoStorage` |
| Deliver | the relay: scan, link, unlink, death, queued signal | sms_deliver_c2p.cpp, sms_deliver_p2c.cpp |
| StorageNotify | the consumer's handler: scan, read, send, record, clear | `CSMSStorage::OnNotify`, smsdiskstorage.h |
| Pipeline | the three composed by the directories and the signals | all of them |
| MessageTransfer | the promise: a message that is accepted is delivered, rejected or kept | (abstract specification) |
| PipelineInv, PipelineProofs | the inductive invariant; the proofs | |
| SessionNotify | `OnNotify` run by the signal in the middle of the `OnNotify` of main; implements `MessageTransfer` where it is not | smsbbschildprotocol.h:698-700, smsstorage.cpp, smsdiskstorage.h |
| SessionConsumer | the mapping from a session to the consumer of `StorageNotify` | (refinement) |
| StorageProofs | the proofs about `SessionNotify`, `SessionConsumer`, `WordSearch` and `BadWordFilter` | |
| BBSSession, BBSSessionProofs | the packets of a BBS and the commands of phones, each SQL statement a step, in the contexts main and handler | smsbbschildprotocol.h, sms_money_clearer.cpp |
| Takeover, TakeoverProofs | the pid file, its lock and the SIGKILL of the session before | `doStartChild` |
| Gateway18dx, Gateway18dxProofs | requests and answers on a stream that stays open, six-second timeouts, the storage around `Send`, and the children that receive | sms18dxprotocol.h |
| Gateway5168, Gateway5168Proofs | login, receive, keep-alive and stop, with the ages of the two time stamps; `OnNotify` in main and in the handler | sms5168protocol.h, sms_p_5168.cpp |
| AkaSession, AkaSessionProofs | the parent, its children, SIGTERM, SIGCHLD with one `wait`, the packets of a session | smschildprotocol.h, smsdaemon.cpp |
| ShmQueue, ShmQueueProofs | `sem` tested and set in two steps, packets of two units, timeouts, answers by signal, deaths | libbbssms/demo |
| WordSearch | `prepf`, `f_prep`, `monkey1` and `m_short` as functions of a file and a text, beside the definition they should compute | mgrep.cpp |
| BadWordFilter | `writeSMStoStorage` of main, step by step, and of the handler in its middle: when the words are read, what a missing or too large file leaves behind | smsstorage.h, smsstorage.cpp, smsbbschildprotocol.h:226 |
| MCPipeline, MCSessionNotify, MCBBSSession, MCTakeover, MCGateway18dx, MCGateway5168, MCAkaSession, MCShmQueue, MCBadWordFilter | the instances TLC checks | |

`Pipeline` EXTENDS `StorageWrite`, `Deliver` and `StorageNotify`, which share the
variables of `Spool`; each operation of theirs is an action that names what it
leaves alone, and `Pipeline` adds the signals. `MessageTransfer` is instantiated
with the refinement mapping in `Pipeline` (`Transfer`), and `KeepsPromise` states
the implementation. A program counter stands for the place in a function; the
step from one to the next is one system call, one SQL statement or one call of
the protocol. Files are model values, a file name is a function of the message,
and the number of a pid is its sequence of digits, since its length matters.

`SessionNotify` is about one directory whose files are whole. It details what
`StorageNotify` says of a consumer: there the handler runs while main only waits,
which is what sms18dxprotocol.h does (line 107: the start-up call is commented
out) and what a BBS session does once the start-up call has returned; with `startup`
it is what the session does until then. That the two agree is not left to the
reader: without `startup` the session implements `MessageTransfer`
(`HandlerKeepsPromise`: delivered is what was sent, rejected what lies in `error`)
and, in `SessionConsumer`, the actions of `StorageNotify` themselves with what
`Pipeline` says each of them leaves alone (`HandlerIsConsumer`). The second mapping
is where the two differ: `OnNotify` keeps the name, the data, the buffer and the
list of one file in four places that follow one another, and the consumer has one
step for what they do. In `Pipeline` a BBS
session's start-up scan, where no signal interrupts it, is a scan after the arrival
of some other message (`OtherRelayed`).

`Gateway18dx` and `Gateway5168` are the two providers that `Pipeline` has as a
consumer whose `Send` succeeds, refuses or fails: they say how that comes about,
and repeat of the storage only what `Send` meets there. `AkaSession` is the same
for the older protocol, `ShmQueue` for what a BBS has in front of its session.
`BadWordFilter` EXTENDS `WordSearch`; its verdict is an outcome of the call in
`StorageWrite`, which either answer may be there. The call of main is taken in the
steps of `initFilter`, and in a BBS session the handler's call
(`processCommandSMS`, `sendSMS`) may come between any two of them; it is one step,
since main stands still until it returns. What it finds between `free` and the end
of `prepf` is memory that was freed or an image that is being filled (`Freed`,
`Filling`): the search may crash there or answer anything.

`link` fails in two ways. That the name is taken or the source gone is part of
`Linked`; every other failure (no such directory, as nothing creates
`/opt/sms/error`; a full disk) is an action of its own, which changes nothing but the
history variable `unkept`. The code goes on to `unlink` after either. The 5168 library is external: a
connection that is up, lost or absent, and a prophecy (`recovers`) of whether
`apiRecv` may succeed again after it has failed. WAITTIME is milliseconds where
`apiRecv` takes it and seconds where `Run` does, so time passes in steps of a second
(`Tick`) and only ages that a comparison can tell apart are kept.

Mutants (`...Skipped`, `...Unkept`, `RegFresh`, `KillNobody`, ...) stand beside
the definitions they change: each is a bug that one of the properties finds.

## 3. What TLC checks

| run | instance | shows |
|---|---|---|
| pipeline | two messages for the BBSs, an inbox and inbox/default, `getDest` may answer either at every scan, two faults, failing links among them | nothing stored is lost, no repeat without a fault, what is removed was kept, what the relay moved lies or has been sent somewhere (all but what `link` itself has failed for), and the daemons implement `MessageTransfer`; `PipelineInvariant` is the inductive invariant of the proofs |
| downlink_live | two messages for a provider, one fault, and other traffic | every stored message is sent or refused in the end |
| uplink_same_name | two messages with one name | refutes `NoMessageLost`: the first caller has SUCCESS, and the open of the second writer truncates its file before it was sent |
| session | one pair, two codes, all packets and commands, a failing statement, a second session | messages are sent for bound pairs only, notices of success are true, codes stay |
| replies | one pair, limits fixed, a failing statement, a second session, replies that are due, repeated, late or stray | an answer that is due executes its request and a second one nothing, only a reply that is not due leaves signals blocked, the list stands still under the search, limits are exceeded by one message at most |
| takeover | three pids of one and two digits, other processes, two failing calls | one session at a time, besides those whose pid was written over a longer one and one more per failed call; every login gets through |
| nested | two files, one death of the session, with and without the start-up call of `OnNotify`, links that fail | no file vanishes unless link failed for it, and each is passed to Send; without the start-up call, the session implements `MessageTransfer` and the consumer of `StorageNotify`, and one process sends nothing twice |
| gateway18dx | three messages, a delivery, five tries, two losses, timeouts or deaths | `DxInvariant`: no late answer is taken for the next message's; results are true, and a message is accepted twice only after a fault of its own |
| gateway5168 | two messages, a delivery, WAITTIME of a second, one loss, one death | `apiSend` is called while logged in, a login leaves nothing behind, what was refused offline is tried later |
| aka | two connections, three scripts of packets, a waiting message, one failure, one end of the parent | `wait` never blocks, one session lives on, only clients with the password are served, losses have a cause, sessions end |
| client | processes with two requests and one, a queue that holds two packets, one death | packets are whole and successes are answered unless two have found `sem` free at once or a packet did not fit; every request returns |
| filter | files of one line of up to three bytes, or of two of a choice of twelve, over two bytes; edited, missing or too large; all texts up to four bytes, and some of five; three messages | the search agrees with its definition, what is stored has none of the words that were read, a refusal and a verdict without the words have a named cause, and so has a crash |

Bounds and why they suffice. Two messages are the fewest for a collision of names,
for a scan that finds one file whole and one empty, and for a signal that arrives
during a scan; each message goes through the same code, and no guard counts them.
18dx has three, so that the answer to the first can be late for the third. Two faults
let a death follow a lost answer, which is what a repeat of a repeat needs. Three
pids give an old session, a new one and a process that has nothing to do with them.
Two requests and two serial numbers let a reply find the wrong one. WAITTIME = 1
has all the orders of its three thresholds. Two connections are one that is told to
end and one that follows, whose ends may meet in one SIGCHLD. `SMS_SHM_SIZE` = 5 units
is two packets and no third. Two bytes and two lines have words within, at the end
of and across one another, and LONGFILE = 5 lets both tables of the search be used.
`MaxSerial`, `MaxFaults`, `MaxTries`, `MaxLosses`, `MaxDeaths`, `MaxFailures`,
`MaxEdits` and `MaxRestarts` bound how often something happens, not where. The
proofs do without any of these values. `CHECK_DEADLOCK FALSE` stands where the system
may come to rest: every message handled, every connection closed, every request
answered.

Further configurations, each refuting properties that are stated in their module:

- `late_write` (`NewFilesAreRead`): the file is read between open and write, and no
  signal comes for the write;
- `uplink_no_inbox` (`RelayedIsDelivered`, which does without `unkept`): link fails
  where the inbox is missing, and the relay unlinks;
- `limit_overrun` (`ChargesWithinLimit`), `register_again` (`BoundStaysBound`),
  `notices` (`NoticesAreTrue`), `stale_reply` (`ExecutedAsApproved`: a late reply
  with a number of the session that follows), `deaf` (`NeverDeaf`: a reply that finds
  no request leaves SIGUSR1 blocked);
- `pid_digits` (`AtMostOneSession`, pids of one and two digits and no failure: a
  shorter pid leaves a digit of the longer one, and the number in the file is
  nobody's), `pid_reused` (`OnlySessionsAreKilled`);
- `nested_anywhere` (`KeptWasSent`, `ErrorWasRefused`, `NeverCrashes`, with
  `tlc -continue`): what the start-up call of `OnNotify` and the handler do to each
  other: a file for which Send returned FAILED is removed, another is moved to
  `error`, a closed directory is read;
- `late_answer` (`AnswerIsForRequest`): an answer that comes after the timeout is
  reported for the next request of the process.

`same_name` holds: of two writers that share a name only whole messages are sent
(which `DeliveryIsStored` proves for any number of them).
Four more statements are refuted by the instances above if they are added to them:
`OnlyVerifiedTakesOver` (any connection ends the aka session, before it has said the
password) and `AnsweredIsStored` (MSG_OK is written whatever `writeSMStoStorage`
returns) with `aka.cfg`; `RefusedHasWord` (bytes behind the message are searched too)
with `filter.cfg`; `WaitingIsTried` (after a failure `break` leaves the switch and
not the loop) with `gateway5168.cfg`.

### Fairness

`downlink_live` (`BusySpec`) assumes weak fairness of the steps of the relay and of
the consumer, starting again after a death included (processes are scheduled, and an
operator restarts daemons), strong fairness of the peer, which takes or refuses a
message it is asked to take again and again, and that other messages keep arriving
(`Traffic`): the code does not look at its directories when it starts, so without
another arrival nothing is owed, which is what `late_write` shows. Writers and faults
are not fair. `nested` assumes that a running process goes on and that a pending
signal whose handler does not run is delivered; deaths, starts and arrivals are
not fair. `takeover` assumes weak fairness of the steps of `doStartChild` and
strong fairness of the lock: flock serves whoever waits if it is released again
and again. Logins and logouts are not fair. `gateway5168` assumes that time passes,
that a pending signal is delivered, that main and the handler go on, and strong
fairness of the login: one that is tried again and again is granted in the end.
`aka` assumes that a child goes on and that SIGTERM reaches it; what clients write
and when they close is not fair. `client` assumes that the processes of the BBS go on,
their seconds included; akasmsd and the gateway are not fair, which is the point of
`RequestsReturn`.

## 4. What is proved

All proofs are checked by TLAPS for every value of the constants that satisfies
the named assumptions of the modules.

- **PipelineProofs.** `TypeCorrect`; `InvariantHolds` for `PipelineInvariant`.
  `NoMessageLost` is not inductive: it has to be known where a message is while it
  is moved (linked and not yet unlinked, read and not yet recorded, in the
  backup and not yet removed), and that a directory entry names an inode whose
  content is its message. `MessagesAreKept` and `RelayIsSafe` follow from it, and
  `PromiseIsKept` is the refinement of `MessageTransfer`. These assume that names are
  distinct (`uplink_same_name` shows what happens otherwise) and nothing of the
  directories: they say what holds of every message but those for which `link`
  itself has failed (`unkept`; in `MessageTransfer`, `abandoned`), which
  `uplink_no_inbox` shows to be lost.
  The rest holds without, and has invariants of its own for that.
  `DeliveryIsStored`, for any names and directories, rests on `StoredInvariant`: what
  a file holds and what a consumer has read was written by somebody who has
  finished. `RepeatHasCause` (`NoNeedlessRepeat`), for any names and directories
  too, rests on `InodeInvariant` (every entry of a directory is an inode under its
  own name, also when two writers share one) and on `RepeatInvariant`: as long as no
  fault has met a message, its file lies in one inbox only, once it has been sent
  it is there only while it is on the list of its consumer, and while it is in
  `outgoing` it has not been sent. The inodes are needed because a second writer may
  change what the file of the first one holds. `RemovalIsSafe` needs distinct
  names, by `KeptInvariant` (the second name of a file that is to be unlinked is that
  of the same inode, unless `link` failed for it): link to a backup that has the
  name already would fail, and the file would be unlinked all the same.
- **BBSSessionProofs.** `SessionInvariant` (what a context has found out about a row
  still holds when it acts on it, because only an answer of the BBS, which main
  reads, binds or deletes) gives `OnlyBoundPairsSend`, `SuccessIsTrue` and
  `ListStandsStill`; `CodesAreStable` is an action property; `OverrunIsBounded`
  assumes that phones do not set limits. `ReplyInvariant` (a serial number means one
  request of the session, and none once it has been answered) gives
  `RepliesExecuteRequests` and `DeafHasCause` for every session and any replies:
  `misled` is a history variable, true once the session got a reply to something that
  was not due. `stale_reply` and `deaf` show what such a reply can do.
- **TakeoverProofs.** `TakeoverInvariant` (who is between flock and unlock owns the
  lock; what was read stays what the file says until the kill) and `MissedIsBounded`
  (the sessions the file does not name, or is about to forget, are as many as the
  failures, those aside that wrote over a longer pid) give `SurplusHasCause`. Nothing
  is assumed of the pids, and every call on the file may fail.
- **StorageProofs**, of the consumer: `NotifyInvariant` (what the calls hold has
  arrived, what they unlink has a second name, or `link` has failed for it) gives
  `NoFileVanishes` however they interleave; `AloneInvariant` and `SentIsListed` give `RemovedWasSent`,
  `ErrorHolds` and `SentOnce` where main does not call `OnNotify`. From the same
  invariants `PromiseIsKept` shows that each step is one of `MessageTransfer` or
  none, and `ConsumerRefined` that it is one of `StorageNotify` or none: one lemma
  for each step of the consumer (`ReadFileIs`, `ClearUnlinkIs`, ...), one for what
  the mapping is at each place of `OnNotify` (`ViewsHold`), and one case for each
  place in `StepConsumer`.
- **StorageProofs**, of the bad words: `SearchFindsWords` says that `mgrep_str`,
  with the tables of `prepf`, finds a word in a text if there is one (`Complete`: the
  window does not jump over the place where the first `p_size` bytes of the word
  end) and, where no line of the file is empty, nothing else (`FoundIsWord`,
  `Sound`), whatever lies behind the text. A file is fewer than `MAXLINES` lines of bytes
  without 0 that are shorter than `MAXPAT`, none of them of one byte: then `m_short`
  is used, about which nothing is claimed. The steps are recursive functions on the
  naturals; what they compute is proved with sets of naturals and their least
  elements. `FilterHolds`, `CrashHasCause`, `SearchHolds` and `VerdictHolds` are
  about the process that reads the file, with `FilterAssumption` (files and messages
  are bytes): `FilterInvariant` follows `m_filterBuf` through the steps of main and the
  calls of the handler in between: it is an image of no file only after a bad file or
  between `free` and the end of `prepf`, and a crash (`CrashNeedsCause`) has the
  same two causes. `VerdictIsRight` says that a refusal has one of its causes, the
  refusal of another message by the handler in the middle of this call among them
  (`met`), that what is stored has none of the words, and when a message is judged
  without the words.
- **Gateway18dxProofs.** `DxInvariant` (the stream holds the requests and answers of
  the message at hand and of no other, because a timeout closes it) gives
  `ResultsHold` and `TwiceHasCause`.
- **Gateway5168Proofs.** `GatewayInvariant`, whose part `ScanCovers` says who has the
  waiting messages before it wherever the handler interrupts main, gives
  `NothingStrandedHolds`.
- **AkaSessionProofs.** `AkaInvariant` (for a signal that comes while the handler
  waits there is a second zombie; a session has dealt with what it has read) gives
  `WaitReturns`, `OneSession` and `LossHasCause`.
- **ShmQueueProofs.** `ShmInvariant` (`SemIsHeld`: who is at work holds `sem`, alone;
  `QueueIsWhole`; `NewRequests` and `QueuedRequests`: a request is in one place)
  gives `PacketsHold`. It is conditional, as the code is: once two have found `sem`
  free nothing is claimed. `AnswersHold` (`SuccessIsAnswered`) is not: for each
  process it counts the successes it was told, one more to come if `smsresult` says so
  while it waits, and the answers (`AnswersInvariant`).

Only model-checked: liveness (`EventuallyHandled`, `LoginCompletes`,
`EveryFileIsTried`, `OfflineIsRetried`, `SessionsEnd`, `RequestsReturn`), which is
beyond the prover. Every safety property of a run is a theorem. Those that the
further configurations refute are not, of course.

## 5. What is not modelled

- Bytes of packets and short reads; a short read is modelled where the code goes on
  with what it got (18dx, aka).
- The heap: memory does not run out (`realloc` in `OnNotify`, smsstorage.cpp:37, and
  `malloc` in `prepf` succeed), and the handler does not interrupt main within
  `malloc` or `free`.
- Bad word files of 192 to 199 lines: `prepf` takes them, and `hashtable[-1]` is then
  what they left in `pat_len`. A call of `writeSMStoStorage` takes less than
  FILTERINTERVAL.
- The fee table and the table of BBSs (constants), the login check, which is one
  select, and the log table, which nothing reads.
- libbbssms.c beyond what akasmsd sees of it: its functions write a request, read an
  answer and keep no state.
- The php library beyond the packets it writes, which are a script of `AkaSession`.
- CMPP, which is not built; the test programs and stubs.
- In BBSSession and SessionNotify a socket that fails ends the session.

Undefined behaviour is narrowed to what the build can do: readdir(NULL) and an
invalid iterator crash, or the iterator happens to be equal to end(); two statements
on one connection at once fail one of them; what lies behind a message in memory is
any byte of the instance; a pointer that was freed may be used, with any answer, or crash, and so may one that
is freed a second time.

## 6. What could follow

1. BindProtocol: the flags of a bind request and its reply, in libbbssms and in the
   session together.
2. A ledger in BBSSession: money charged against messages written (sendSMS charges
   before `writeSMStoStorage` refuses); today its state space has no room for one.
3. A socket that fails while the session goes on: the write that returns -1 and is
   answered SUCCESS, in BBSSession and in SessionNotify.
4. Refinements: `Send` of `Pipeline` by the two gateways, and an abstract mailbox of
   requests by `ShmQueue`, as far as `sem` is found free by one at a time.
