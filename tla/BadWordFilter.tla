--------------------------- MODULE BadWordFilter ---------------------------
(***************************************************************************)
(* writeSMStoStorage of a session or a provider's daemon refuses messages  *)
(* that contain a word of etc/badword.  The words are read when the        *)
(* process starts, and again by a call that is the first for more than     *)
(* FILTERINTERVAL seconds.                                                 *)
(*                                                                         *)
(* In a BBS session main's call, which is taken in its steps, may be       *)
(* interrupted: the handler of SIGUSR1 stores messages as well (Send,      *)
(* processCommandSMS, sendSMS), and both use the one m_ft, m_filterBuf and *)
(* num_of_matched.  main stands still until the handler has returned.      *)
(*                                                                         *)
(* A message is [memory, num]: what lies in memory where it begins, and    *)
(* how many bytes of that are its own.                                     *)
(***************************************************************************)
EXTENDS WordSearch

CONSTANTS
  Contents,  \* contents etc/badword may have: sequences of lines
  Edited,    \* contents it may be given later, Missing and TooLarge among them
  Missing,   \* it is not there, or cannot be opened
  TooLarge,  \* it has more than MAXPATFILE bytes or more than 199 lines
  Texts,     \* texts the search is tried with
  Messages,  \* messages that are to be stored
  Unread,    \* m_filterBuf before anything was read
  Freed,     \* m_filterBuf points to what free was called for
  Filling,   \* it points to an image that prepf is filling
  Partial,   \* it points to an image that prepf has given up
  MaxEdits   \* bound: changes of the file

Bad == {Missing, TooLarge}
NoImage == {Unread, Freed, Filling, Partial}

ASSUME FilterAssumption ==
  /\ Missing # TooLarge
  /\ \A file \in (Contents \cup Edited) \ Bad : WordFile(file) /\ file \notin NoImage
  /\ Texts \subseteq Seq(Bytes)
  /\ \A msg \in Messages : msg.memory \in Seq(Bytes) /\ msg.num \in 0..Len(msg.memory)

VARIABLES
  process,        \* "start", "run" or "crashed"
  bbs,            \* it is a BBS session
  badword,        \* the file
  m_filterBuf,    \* the words that were read, or one of NoImage
  num_of_matched, \* it is not 0
  silent,         \* initFilter was not called for FILTERINTERVAL seconds
  step,             \* where main is in writeSMStoStorage
  sms,            \* the message it is called with
  reload,         \* main has found it silent
  fp,             \* the file main has opened
  met,            \* history: the handler has refused a message meanwhile
  last,           \* history: the last call that returned, since main's began
  suspect,        \* history: this process has read a bad file
  edits

words == <<m_filterBuf, num_of_matched, silent>>
call == <<step, sms, reload, fp, met>>
filterVars == <<process, bbs, badword, words, call, last, suspect, edits>>

NoCall == [result |-> "none"]
Steps == {"ready", "look", "setting", "free", "open", "prepf", "search"}

(* main is between free and the end of prepf. *)
Reading == step \in {"open", "prepf"}

NotCalled ==
  /\ step = "ready" /\ sms = NoCall /\ reload = FALSE /\ fp = Missing /\ met = FALSE
  /\ last = NoCall

(* Mutant: m_ft(time(NULL)) in the constructor. *)
FilterInitJustRead ==
  /\ process = "start" /\ bbs \in BOOLEAN
  /\ badword \in Contents \cup Bad
  /\ m_filterBuf = Unread
  /\ num_of_matched = FALSE
  /\ silent = FALSE
  /\ NotCalled
  /\ suspect = FALSE /\ edits = 0

FilterInit ==
  /\ process = "start" /\ bbs \in BOOLEAN
  /\ badword \in Contents \cup Bad
  /\ m_filterBuf = Unread
  /\ num_of_matched = FALSE
  /\ silent = TRUE      \* m_ft = 0
  /\ NotCalled
  /\ suspect = FALSE /\ edits = 0

-----------------------------------------------------------------------------
(* free(NULL) does nothing. *)
AfterFree == IF m_filterBuf = Unread THEN Unread ELSE Freed

(* What open and prepf, whose results are not looked at, make of a file.   *)
AfterRead(file) ==
  CASE file = Missing  -> AfterFree
    [] file = TooLarge -> Partial
    [] OTHER           -> file

(* Mutant: default_setting is not called. *)
KeepSetting(again) == num_of_matched

(* num_of_matched after initFilter, which calls default_setting if it      *)
(* reads the words again.                                                  *)
AfterSetting(again) == IF again THEN FALSE ELSE num_of_matched

(* Whether a search that comes to its end finds a word.  Without words it  *)
(* runs into memory that is not there; what free has left, or prepf not    *)
(* yet written, may make it do so, or find anything or nothing.            *)
Search(image, msg) ==
  CASE image \in {Unread, Partial} -> {}
    [] image \in {Freed, Filling}  -> BOOLEAN
    [] OTHER                       -> {mgrep_str(msg.memory, msg.num, Image(image))}

MayCrash(image) == image \in NoImage

(* free has been called for it before: the heap may notice, or not.        *)
DoubleFree == m_filterBuf = Freed

Crashes ==
  /\ process' = "crashed"
  /\ UNCHANGED <<bbs, badword, words, call, last, suspect, edits>>

(* initFilter when nothing comes between its steps. *)
initFilter ==
  /\ m_filterBuf' = IF silent THEN AfterRead(badword) ELSE m_filterBuf
  /\ suspect' = (suspect \/ (silent /\ badword \in Bad))
  /\ silent' = FALSE

(* CSMSStorage::init: the directory is not watched yet. *)
init ==
  /\ process = "start"
  /\ initFilter
  /\ num_of_matched' = AfterSetting(silent)
  /\ process' = "run"
  /\ UNCHANGED <<bbs, badword, call, last, edits>>

-----------------------------------------------------------------------------
(* writeSMStoStorage, called by main. *)

AtStep(label) == process = "run" /\ step = label

(* tm = m_ft ... *)
writeSMStoStorage(msg) ==
  /\ AtStep("ready")
  /\ step' = "look"
  /\ sms' = msg
  /\ reload' = silent
  /\ met' = FALSE
  /\ last' = NoCall
  /\ UNCHANGED <<process, bbs, badword, words, fp, suspect, edits>>

(* ... and m_ft = time(NULL). *)
Look ==
  /\ AtStep("look")
  /\ silent' = FALSE
  /\ step' = IF reload THEN "setting" ELSE "search"
  /\ UNCHANGED <<process, bbs, badword, m_filterBuf, num_of_matched, sms, reload, fp, met, last,
                 suspect, edits>>

default_setting ==
  /\ AtStep("setting")
  /\ num_of_matched' = AfterSetting(TRUE)
  /\ step' = "free"
  /\ UNCHANGED <<process, bbs, badword, m_filterBuf, silent, sms, reload, fp, met, last, suspect,
                 edits>>

(* free(m_filterBuf), which is not set to NULL. *)
Free ==
  /\ AtStep("free")
  /\ m_filterBuf' = AfterFree
  /\ step' = "open"
  /\ UNCHANGED <<process, bbs, badword, num_of_matched, silent, sms, reload, fp, met, last,
                 suspect, edits>>

FreeTwice ==
  /\ AtStep("free")
  /\ DoubleFree
  /\ Crashes

(* open fails, and the search goes on with what m_filterBuf points to, ... *)
OpenFails ==
  /\ AtStep("open")
  /\ badword = Missing
  /\ suspect' = TRUE
  /\ step' = "search"
  /\ UNCHANGED <<process, bbs, badword, words, sms, reload, fp, met, last, edits>>

(* ... or prepf begins with malloc and bzero ... *)
Open ==
  /\ AtStep("open")
  /\ badword # Missing
  /\ fp' = badword
  /\ m_filterBuf' = Filling
  /\ step' = "prepf"
  /\ UNCHANGED <<process, bbs, badword, num_of_matched, silent, sms, reload, met, last, suspect,
                 edits>>

(* ... and fills the image, until it finds the file too large. *)
prepf ==
  /\ AtStep("prepf")
  /\ m_filterBuf' = AfterRead(fp)
  /\ suspect' = (suspect \/ fp = TooLarge)
  /\ fp' = Missing
  /\ step' = "search"
  /\ UNCHANGED <<process, bbs, badword, num_of_matched, silent, sms, reload, met, last, edits>>

(* What the caller gets, and what is noted of the call. *)
Answers(msg, image, found, again, fresh, meanwhile) ==
  /\ num_of_matched' = (again \/ found)
  /\ last' = [ result |-> IF num_of_matched' THEN "ERROR" ELSE "SUCCESS", msg |-> msg,
               words |-> image, fresh |-> fresh, again |-> again,
               met |-> meanwhile, reading |-> Reading ]

(* mgrep_str, which answers with num_of_matched: whatever a handler finds   *)
(* during the search it might have found before it.                         *)
Searched ==
  /\ AtStep("search")
  /\ \E found \in Search(m_filterBuf, sms) :
       Answers(sms, m_filterBuf, found, num_of_matched, reload, met)
  /\ step' = "ready" /\ sms' = NoCall /\ reload' = FALSE /\ met' = FALSE
  /\ UNCHANGED <<process, bbs, badword, m_filterBuf, silent, fp, suspect, edits>>

SearchCrashes ==
  /\ AtStep("search")
  /\ MayCrash(m_filterBuf)
  /\ Crashes

-----------------------------------------------------------------------------
(* writeSMStoStorage, called by the handler wherever main is.  (A call of   *)
(* main's takes less than FILTERINTERVAL seconds.)                          *)

HandlerWrites(msg) ==
  /\ process = "run" /\ bbs
  /\ initFilter
  /\ \E found \in Search(m_filterBuf', msg) :
       Answers(msg, m_filterBuf', found, AfterSetting(silent), silent, FALSE)
  /\ met' = (met \/ (step # "ready" /\ num_of_matched'))
  /\ UNCHANGED <<process, bbs, badword, step, sms, reload, fp, edits>>

HandlerCrashes ==
  /\ process = "run" /\ bbs
  /\ initFilter
  /\ MayCrash(m_filterBuf') \/ (silent /\ DoubleFree)
  /\ process' = "crashed"
  /\ UNCHANGED <<bbs, badword, num_of_matched, call, last, edits>>

-----------------------------------------------------------------------------
(* The surroundings. *)

Silence ==
  /\ AtStep("ready")
  /\ ~silent
  /\ silent' = TRUE
  /\ UNCHANGED <<process, bbs, badword, m_filterBuf, num_of_matched, call, last, suspect, edits>>

Edit(content) ==
  /\ edits < MaxEdits
  /\ edits' = edits + 1
  /\ badword' = content
  /\ UNCHANGED <<process, bbs, words, call, last, suspect>>

(* The process has crashed or exited, and the next one is forked. *)
Restart ==
  /\ process # "start"
  /\ process' = "start"
  /\ m_filterBuf' = Unread /\ num_of_matched' = FALSE /\ silent' = TRUE
  /\ step' = "ready" /\ sms' = NoCall /\ reload' = FALSE /\ fp' = Missing /\ met' = FALSE
  /\ last' = NoCall
  /\ suspect' = FALSE
  /\ UNCHANGED <<bbs, badword, edits>>

Main ==
  \/ \E msg \in Messages : writeSMStoStorage(msg)
  \/ Look \/ default_setting \/ Free \/ FreeTwice \/ OpenFails \/ Open \/ prepf
  \/ Searched \/ SearchCrashes

Handler == (\E msg \in Messages : HandlerWrites(msg)) \/ HandlerCrashes

FilterNext ==
  \/ init \/ Main \/ Handler \/ Silence \/ Restart
  \/ \E content \in Edited : Edit(content)

FilterSpec == FilterInit /\ [][FilterNext]_filterVars

-----------------------------------------------------------------------------
(* Properties. *)

Own(msg) == SubSeq(msg.memory, 1, msg.num)

(* The search finds the words of a file in every text, and nothing else    *)
(* unless a line is empty.  (Looked at once for each file, after it was    *)
(* read.)                                                                  *)
SearchIsRight ==
  AtStep("ready") /\ ~silent /\ last = NoCall /\ m_filterBuf \notin NoImage =>
    LET file == m_filterBuf
        im   == Image(file)
    IN  ~OneByte(file) => \A text \in Texts :
          /\ HasWord(file, text) => mgrep_str(text, Len(text), im)
          /\ mgrep_str(text, Len(text), im) => HasWord(file, text) \/ <<>> \in Lines(file)

(* Why a message may be refused: for a word, which may end in what lies    *)
(* behind the message, for a file with a line of one byte or none, or      *)
(* because one before it was, but the first after a silence only if the    *)
(* handler refused one in the middle of this call.                         *)
RefusedHasCause ==
  last # NoCall /\ last.result = "ERROR" /\ last.words \notin NoImage =>
    \/ HasWord(last.words, last.msg.memory)
    \/ OneByte(last.words) \/ <<>> \in Lines(last.words)
    \/ last.again /\ (~last.fresh \/ last.met)

(* What a stored message is without: the words that were looked for,       *)
(* unless one of them has one byte.                                        *)
AcceptedIsClean ==
  last # NoCall /\ last.result = "SUCCESS" /\ last.words \notin NoImage =>
    OneByte(last.words) \/ ~HasWord(last.words, Own(last.msg))

(* When a message may be judged without the words: a bad file was read, or *)
(* the handler ran while main was reading one.                             *)
BlindHasCause ==
  last # NoCall /\ last.words \in NoImage => suspect \/ last.reading

(* What writeSMStoStorage answers, to main and to the handler in the midst *)
(* of main's call.                                                         *)
VerdictIsRight == RefusedHasCause /\ AcceptedIsClean /\ BlindHasCause

(* The process crashes only if it has read a file that is bad, or in the   *)
(* handler of a BBS session, while main was between free and the end of    *)
(* prepf.                                                                  *)
CrashNeedsCause == process = "crashed" => suspect \/ (bbs /\ Reading)

FilterInvariant ==
  /\ process \in {"start", "run", "crashed"}
  /\ badword \in Contents \cup Edited \cup Bad
  /\ m_filterBuf \in ((Contents \cup Edited) \ Bad) \cup NoImage
  /\ step \in Steps
  /\ reload \in BOOLEAN /\ silent \in BOOLEAN
  /\ edits \in Nat
  /\ step # "ready" => process # "start" /\ sms \in Messages
  /\ step \notin {"ready", "look"} => ~silent
  /\ step = "look" /\ silent => reload
  /\ step = "prepf" => fp \in (Contents \cup Edited \cup {TooLarge}) \ {Missing}
  /\ step = "prepf" /\ edits = 0 => fp = badword
  /\ step \in {"free", "open", "prepf", "search"} /\ reload /\ num_of_matched => met
  /\ process = "run" /\ m_filterBuf \in NoImage => suspect \/ Reading
  /\ process = "run" /\ ~silent /\ edits = 0 /\ badword \notin Bad =>
       m_filterBuf = badword \/ step \in {"setting", "free"} \/ Reading
  /\ CrashNeedsCause

(* smsstorage.cpp:12: what is refused has a bad word.                      *)
RefusedHasWord ==
  last # NoCall /\ last.result = "ERROR" /\ last.words \notin NoImage =>
    HasWord(last.words, Own(last.msg))
=============================================================================
