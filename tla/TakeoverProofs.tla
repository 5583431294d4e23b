--------------------------- MODULE TakeoverProofs ---------------------------
(***************************************************************************)
(* How many sessions of one BBS a login may leave alive, for any pids, of  *)
(* whatever length, and any number of calls that fail.                     *)
(***************************************************************************)
EXTENDS Takeover, FiniteSetTheorems, TLAPS

(* What write leaves is a sequence of digits, and the pid itself where the *)
(* file was not longer.                                                    *)
LEMMA OverwriteIs ==
  ASSUME NEW p \in Seq(0..9), NEW old \in Seq(0..9)
  PROVE  /\ Overwrite(p, old) \in Seq(0..9)
         /\ Len(old) <= Len(p) => Overwrite(p, old) = p
<1>1. Overwrite(p, old) \in Seq(0..9)
  <2> DEFINE n == IF Len(p) > Len(old) THEN Len(p) ELSE Len(old)
  <2>1. n \in Nat /\ Overwrite(p, old) = [i \in 1..n |-> IF i <= Len(p) THEN p[i] ELSE old[i]]
    BY DEF Overwrite
  <2>2. \A i \in 1..n : (IF i <= Len(p) THEN p[i] ELSE old[i]) \in 0..9
    OBVIOUS
  <2> HIDE DEF n
  <2>. QED BY <2>1, <2>2
<1>2. ASSUME Len(old) <= Len(p) PROVE Overwrite(p, old) = p
  <2>1. Overwrite(p, old) = [i \in 1..Len(p) |-> p[i]]
    BY <1>2 DEF Overwrite
  <2>. QED BY <2>1
<1>. QED BY <1>1, <1>2

LEMMA InitInvariant == Init => TakeoverInvariant
  BY TakeoverAssumption DEF Init, TakeoverInvariant, TypeOK, Places, Critical

(* Every step of a login keeps the file, its lock and the places together. *)
LEMMA StepInvariant ==
  ASSUME TakeoverInvariant, [Next]_vars
  PROVE  TakeoverInvariant'
<1> USE TakeoverAssumption DEF TakeoverInvariant, TypeOK, Places, Critical, Move
<1>1. ASSUME NEW p \in Pids, Lock(p) PROVE TakeoverInvariant'
  BY <1>1 DEF Lock
<1>2. ASSUME NEW p \in Pids, Read(p) PROVE TakeoverInvariant'
  BY <1>2 DEF Read
<1>3. ASSUME NEW p \in Pids, Kill(p) PROVE TakeoverInvariant'
  BY <1>3 DEF Kill
<1>4. ASSUME NEW p \in Pids, Write(p) PROVE TakeoverInvariant'
  <2>1. pidfile' \in Seq(0..9)
    BY <1>4, OverwriteIs DEF Write
  <2>2. /\ at[p] = "killed" /\ lock = p
        /\ at' = [at EXCEPT ![p] = "wrote"]
        /\ shorter' \subseteq shorter \cup {p}
        /\ UNCHANGED <<lock, readBuf, faults>>
    BY <1>4 DEF Write
  <2>. QED BY <2>1, <2>2
<1>5. ASSUME NEW p \in Pids, Unlock(p) PROVE TakeoverInvariant'
  BY <1>5 DEF Unlock
<1>6. ASSUME NEW p \in Pids, Come(p) \/ Go(p) PROVE TakeoverInvariant'
  <2>1. PICK to \in {"free", "login", "other"} :
          /\ at[p] \notin Critical
          /\ at' = [at EXCEPT ![p] = to]
          /\ shorter' \subseteq shorter
          /\ to = "login" => p \notin shorter'
          /\ UNCHANGED <<pidfile, lock, readBuf, faults>>
    BY <1>6 DEF Come, Go, Login, Logout, OtherStarts, OtherEnds
  <2>. QED BY <2>1
<1>7. ASSUME NEW p \in Pids, Fail(p) PROVE TakeoverInvariant'
  <2>1. faults' \in 0..MaxFaults
    BY <1>7 DEF Fail, LockFails, ReadFails, WriteFails
  <2>2. CASE LockFails(p)
    BY <2>1, <2>2 DEF LockFails
  <2>3. CASE ReadFails(p)
    BY <2>1, <2>3 DEF ReadFails
  <2>4. CASE WriteFails(p)
    <3>1. PICK n \in 0..(Len(p) - 1) : pidfile' = Overwrite(SubSeq(p, 1, n), pidfile)
      BY <2>4 DEF WriteFails
    <3>2. SubSeq(p, 1, n) \in Seq(0..9)
      <4>1. p \in Seq(0..9)
        OBVIOUS
      <4>. QED BY <4>1
    <3>3. pidfile' \in Seq(0..9)
      BY <3>1, <3>2, OverwriteIs
    <3>4. /\ at[p] = "killed" /\ lock = p
          /\ at' = [at EXCEPT ![p] = "wrote"]
          /\ UNCHANGED <<lock, readBuf, shorter>>
      BY <2>4 DEF WriteFails
    <3>. QED BY <2>1, <3>3, <3>4
  <2>. QED BY <1>7, <2>2, <2>3, <2>4 DEF Fail
<1>8. CASE UNCHANGED vars
  BY <1>8 DEF vars
<1>. QED BY <1>1, <1>2, <1>3, <1>4, <1>5, <1>6, <1>7, <1>8 DEF Next, Proceed

(* The types, who has the lock, and that nobody writes the file between    *)
(* read and kill.                                                          *)
THEOREM InvariantHolds == Spec => []TakeoverInvariant
<1>1. TakeoverInvariant /\ [Next]_vars => TakeoverInvariant'
  BY StepInvariant
<1>. QED BY <1>1, InitInvariant, PTL DEF Spec

-----------------------------------------------------------------------------
LEMMA OneMore ==
  ASSUME NEW S, IsFiniteSet(S), NEW x
  PROVE  IsFiniteSet(S \cup {x}) /\ Cardinality(S \cup {x}) <= Cardinality(S) + 1
<1>1. Cardinality(S) \in Nat
  BY FS_CardinalityType
<1>2. IsFiniteSet(S \cup {x})
  BY FS_AddElement
<1>3. CASE x \in S
  <2>1. Cardinality(S \cup {x}) = Cardinality(S)
    BY <1>3, FS_AddElement
  <2>. QED
    BY <1>1, <1>2, <2>1
<1>4. CASE x \notin S
  <2>1. Cardinality(S \cup {x}) = Cardinality(S) + 1
    BY <1>4, FS_AddElement
  <2>. QED
    BY <1>1, <1>2, <2>1
<1>. QED
  BY <1>3, <1>4

(* One session more is missed with a failure, none without. *)
LEMMA MissedGrows ==
  ASSUME MissedIsBounded, faults \in Nat, NEW p,
         Missed' \subseteq Missed \cup {p}, faults' = faults + 1
  PROVE  MissedIsBounded'
<1>1. /\ IsFiniteSet(Missed \cup {p})
      /\ Cardinality(Missed \cup {p}) <= Cardinality(Missed) + 1
  BY OneMore DEF MissedIsBounded
<1>2. IsFiniteSet(Missed') /\ Cardinality(Missed') <= Cardinality(Missed \cup {p})
  BY <1>1, FS_Subset
<1>3. /\ Cardinality(Missed) \in Nat /\ Cardinality(Missed') \in Nat
      /\ Cardinality(Missed \cup {p}) \in Nat
  BY <1>1, <1>2, FS_CardinalityType DEF MissedIsBounded
<1>. QED
  BY <1>1, <1>2, <1>3 DEF MissedIsBounded

LEMMA MissedStays ==
  ASSUME MissedIsBounded, faults \in Nat, Missed' \subseteq Missed, faults' = faults
  PROVE  MissedIsBounded'
<1>1. IsFiniteSet(Missed') /\ Cardinality(Missed') <= Cardinality(Missed)
  BY FS_Subset DEF MissedIsBounded
<1>2. Cardinality(Missed) \in Nat /\ Cardinality(Missed') \in Nat
  BY <1>1, FS_CardinalityType DEF MissedIsBounded
<1>. QED
  BY <1>1, <1>2 DEF MissedIsBounded

LEMMA StepMissed ==
  ASSUME TakeoverInvariant, MissedIsBounded, [Next]_vars
  PROVE  MissedIsBounded'
<1>0. faults \in Nat
  BY TakeoverAssumption DEF TakeoverInvariant, TypeOK
<1> USE DEF Missed, Move, Critical, TakeoverInvariant, TypeOK
<1>1. ASSUME NEW p \in Pids, Lock(p) PROVE Missed' \subseteq Missed /\ faults' = faults
  BY <1>1 DEF Lock
<1>2. ASSUME NEW p \in Pids, Read(p) PROVE Missed' \subseteq Missed /\ faults' = faults
  BY <1>2 DEF Read
<1>3. ASSUME NEW p \in Pids, Kill(p) PROVE Missed' \subseteq Missed /\ faults' = faults
  BY <1>3 DEF Kill
<1>4. ASSUME NEW p \in Pids, Write(p) PROVE Missed' \subseteq Missed /\ faults' = faults
  <2>1. p \in shorter' \/ pidfile' = p
    BY <1>4, OverwriteIs, TakeoverAssumption DEF Write
  <2>2. /\ at[p] = "killed"
        /\ at' = [at EXCEPT ![p] = "wrote"]
        /\ shorter \subseteq shorter'
        /\ faults' = faults
    BY <1>4 DEF Write
  <2>3. \A r \in Pids : r # p => at[r] # "wrote"
    BY <2>2
  <2>. QED BY <2>1, <2>2, <2>3
<1>5. ASSUME NEW p \in Pids, Unlock(p) PROVE Missed' \subseteq Missed /\ faults' = faults
  BY <1>5 DEF Unlock
<1>6. ASSUME NEW p \in Pids, Come(p) \/ Go(p) PROVE Missed' \subseteq Missed /\ faults' = faults
  BY <1>6 DEF Come, Go, Login, Logout, OtherStarts, OtherEnds
<1>7. ASSUME NEW p \in Pids, Fail(p)
      PROVE  Missed' \subseteq Missed \cup {p} /\ faults' = faults + 1
  <2>1. CASE LockFails(p)
    BY <2>1 DEF LockFails
  <2>2. CASE ReadFails(p)
    BY <2>2 DEF ReadFails
  <2>3. CASE WriteFails(p)
    <3>1. /\ at[p] = "killed" /\ faults' = faults + 1
          /\ at' = [at EXCEPT ![p] = "wrote"]
          /\ shorter' = shorter
      BY <2>3 DEF WriteFails
    <3>2. \A r \in Pids : r # p => at[r] # "wrote"
      BY <3>1
    <3>. QED BY <3>1, <3>2
  <2>. QED BY <1>7, <2>1, <2>2, <2>3 DEF Fail
<1>8. CASE UNCHANGED vars
  <2>1. Missed' \subseteq Missed /\ faults' = faults
    BY <1>8 DEF vars
  <2>. QED
    BY <1>0, <2>1, MissedStays
<1>. QED
  BY <1>0, <1>1, <1>2, <1>3, <1>4, <1>5, <1>6, <1>7, <1>8, MissedGrows, MissedStays
  DEF Next, Proceed

(* A BBS has one session, and one more for each call on the pid file that  *)
(* failed; besides them only sessions that wrote their pid over a longer   *)
(* one (smsbbschildprotocol.h:631-633).                                    *)
THEOREM SurplusHasCause == Spec => []SurplusNeedsCause
<1>1. Init => MissedIsBounded
  <2> SUFFICES ASSUME Init PROVE MissedIsBounded
    OBVIOUS
  <2>1. Missed = {} /\ faults = 0
    BY DEF Init, Missed
  <2>. QED
    BY <2>1, FS_EmptySet DEF MissedIsBounded
<1>2. TakeoverInvariant /\ MissedIsBounded /\ [Next]_vars => MissedIsBounded'
  BY StepMissed
<1>3. TakeoverInvariant /\ MissedIsBounded => SurplusNeedsCause
  <2> SUFFICES ASSUME TakeoverInvariant, MissedIsBounded PROVE SurplusNeedsCause
    OBVIOUS
  <2> DEFINE S == Sessions \ shorter
  <2>1. S \subseteq Missed \cup {pidfile}
    BY DEF Missed, Sessions
  <2>2. /\ IsFiniteSet(Missed \cup {pidfile})
        /\ Cardinality(Missed \cup {pidfile}) <= Cardinality(Missed) + 1
    BY OneMore DEF MissedIsBounded
  <2>3. IsFiniteSet(S) /\ Cardinality(S) <= Cardinality(Missed \cup {pidfile})
    BY <2>1, <2>2, FS_Subset
  <2>4. /\ Cardinality(S) \in Nat /\ Cardinality(Missed) \in Nat /\ faults \in Nat
        /\ Cardinality(Missed \cup {pidfile}) \in Nat
    BY <2>2, <2>3, FS_CardinalityType, TakeoverAssumption
    DEF MissedIsBounded, TakeoverInvariant, TypeOK
  <2>5. Cardinality(S) <= 1 + faults
    BY <2>2, <2>3, <2>4 DEF MissedIsBounded
  <2>. QED
    BY <2>5 DEF SurplusNeedsCause
<1>. QED
  BY <1>1, <1>2, <1>3, InvariantHolds, PTL DEF Spec
=============================================================================
