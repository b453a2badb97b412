--------------------------- MODULE AcmeCertProofs ---------------------------
(***************************************************************************)
(* The certificate at boot, for any number of instances, any timing and    *)
(* any failures: who serves a certificate has its renewal scheduled, and   *)
(* the lock is used as StorageLock describes.  From what is proved there   *)
(* follows that two orders at most go to Let's Encrypt, however long an    *)
(* order takes, and that a survivor takes over in time.                    *)
(***************************************************************************)
EXTENDS AcmeCert, TLAPS

(* What is proved of the storage lock, for the lock of the certificate. *)
LP == INSTANCE StorageLockProofs WITH
        lock <- BareLock,
        phase <- LockPhase, age <- LockAge

USE DEF MaxTries

-----------------------------------------------------------------------------
(* Who has come how far in its loop, and what a check has found by then. *)
CheckInv(p) ==
    /\ pc[p] = "off" => checks[p] = 0
    /\ pc[p] \notin {"off", "gaveUp", "done", "dead"} => checks[p] < MaxChecks
    /\ pc[p] = "decrypt" => fetched[p] # NoCert

(* Only a call that has failed outstays its phase. *)
SlowInv(p) ==
    /\ tries[p] # 0 \/ p \in slow => p \in failed
    /\ L!Timed(p) /\ age[p] > L!Limit(p) => p \in slow

Inv ==
    /\ ServedIsRenewed
    /\ \A p \in Inst : CheckInv(p) /\ SlowInv(p)

(* Every order with Let's Encrypt is counted in the stored lock; whoever is *)
(* about to write a lock, or finds its own when it reads back, has counted  *)
(* all the orders that were placed and the one it will place.               *)
OrderInv ==
    /\ lock = NoLock => letsEncrypt = 0
    /\ lock # NoLock => letsEncrypt <= lock.attempts
    /\ \A p \in Inst : pc[p] = "write" => letsEncrypt < attempts[p]
    /\ \A p \in Inst : pc[p] = "settle" /\ L!IsMine(p) =>
          letsEncrypt < attempts[p] /\ lock.attempts = attempts[p]
    /\ letsEncrypt <= 2

-----------------------------------------------------------------------------
LEMMA InvInit == Init => Inv
<1> SUFFICES ASSUME Init PROVE Inv
  OBVIOUS
<1>1. TypeOK
  BY PollingIsNat, FaultyAreInstances, DurationsAreNat
     DEF Init, TypeOK, Object, PC, Ended, StorageCalls, RemoteCalls
<1> QED
  BY <1>1 DEF Init, Inv, ServedIsRenewed, CheckInv, SlowInv, L!Timed, LockPhase, PhaseOf

(* The numbers of the lock are those of StorageLock. *)
LEMMA LockAssumptions ==
  /\ LP!DurationsAreNat
  /\ LP!NoLockIsNoLock
  BY DurationsAreNat, AbsentIsAbsent DEF LP!Lock, LP!Floor, L!Lock, L!Floor

(* The stored lock without its count is a lock of StorageLock. *)
LEMMA BareLockType ==
  ASSUME TypeOK
  PROVE  /\ BareLock \in L!Lock \cup {NoLock}
         /\ BareLock = NoLock <=> lock = NoLock
         /\ lock # NoLock => /\ BareLock.owner = lock.owner
                             /\ BareLock.serial = lock.serial
                             /\ BareLock.left = lock.left
<1>1. CASE lock = NoLock
  BY <1>1 DEF BareLock
<1>2. CASE lock # NoLock
  <2>1. BareLock = [owner |-> lock.owner, serial |-> lock.serial, left |-> lock.left]
    BY <1>2 DEF BareLock
  <2>2. BareLock \in L!Lock
    BY <1>2, <2>1 DEF TypeOK, Lock, L!Lock
  <2> QED
    BY <1>2, <2>1, <2>2, AbsentIsAbsent
<1> QED
  BY <1>1, <1>2

LEMMA LockTypes == TypeOK => LP!TypeOK
<1> SUFFICES ASSUME TypeOK PROVE LP!TypeOK
  OBVIOUS
<1>1. LockPhase \in [Inst -> LP!Phase]
  BY DEF LockPhase, PhaseOf, LP!Phase
<1>2. LockAge \in [Inst -> Nat]
  BY DEF LockAge, TypeOK
<1>3. BareLock \in LP!Lock \cup {NoLock}
  BY BareLockType DEF LP!Lock, LP!Floor, L!Lock, L!Floor
<1> QED
  BY <1>1, <1>2, <1>3, FaultyAreInstances DEF TypeOK, LP!TypeOK

LEMMA LockOfType ==
  ASSUME TypeOK, NEW p \in Inst
  PROVE  L!LockOf(p) \in L!Lock
<1>1. LP!LockOf(p) \in LP!Lock
  BY LockTypes, LockAssumptions, LP!LockOfType
<1> QED
  BY <1>1 DEF LP!LockOf, LP!Lock, LP!Floor, L!LockOf, L!Lock, L!Floor

LEMMA NewLockType ==
  ASSUME TypeOK, NEW p \in Inst
  PROVE  /\ NewLock(p) \in Lock /\ NewLock(p) # NoLock
         /\ NewLock(p).owner = p /\ NewLock(p).serial = made[p]
         /\ NewLock(p).attempts = attempts[p]
         /\ L!LockOf(p) = [owner |-> NewLock(p).owner, serial |-> NewLock(p).serial,
                           left |-> NewLock(p).left]
<1> DEFINE l == L!LockOf(p)
<1>1. l \in L!Lock /\ l.owner = p /\ l.serial = made[p]
      /\ l = [owner |-> l.owner, serial |-> l.serial, left |-> l.left]
  BY LockOfType DEF L!LockOf, L!Lock
<1>2. NewLock(p) = [owner |-> l.owner, serial |-> l.serial, left |-> l.left,
                    attempts |-> attempts[p]]
  BY DEF NewLock
<1> HIDE DEF l
<1>3. NewLock(p) \in Lock
  BY <1>1, <1>2 DEF Lock, L!Lock, TypeOK
<1>4. NewLock(p).owner = l.owner /\ NewLock(p).serial = l.serial
      /\ NewLock(p).left = l.left /\ NewLock(p).attempts = attempts[p]
  BY <1>2
<1>5. l = [owner |-> NewLock(p).owner, serial |-> NewLock(p).serial, left |-> NewLock(p).left]
  BY <1>1, <1>4
<1> QED
  BY <1>1, <1>3, <1>4, <1>5, AbsentIsAbsent DEF l

(* The stored lock a second later: what ages is its bare part. *)
LEMMA OlderType ==
  ASSUME TypeOK, Tick
  PROVE  /\ lock' \in Lock \cup {NoLock}
         /\ lock' = NoLock <=> lock = NoLock
         /\ lock # NoLock => /\ lock'.owner = lock.owner
                             /\ lock'.serial = lock.serial
                             /\ lock'.attempts = lock.attempts
         /\ BareLock' = L!Older(BareLock)
<1>1. CASE lock = NoLock
  BY <1>1 DEF Tick, BareLock, L!Older
<1>2. CASE lock # NoLock
  <2> DEFINE left == IF lock.left > L!Floor THEN lock.left - 1 ELSE lock.left
  <2>1. L!Older(BareLock) = [owner |-> lock.owner, serial |-> lock.serial, left |-> left]
    BY <1>2, BareLockType DEF L!Older, BareLock
  <2>2. lock' = [lock EXCEPT !.left = left]
    BY <1>2, <2>1 DEF Tick
  <2>3. left \in L!Floor..(Lifetime + MaxSkew)
    BY <1>2, DurationsAreNat DEF TypeOK, Lock, L!Floor
  <2> HIDE DEF left
  <2>4. lock' \in Lock /\ lock'.owner = lock.owner /\ lock'.serial = lock.serial
        /\ lock'.attempts = lock.attempts /\ lock'.left = left
    BY <1>2, <2>2, <2>3 DEF TypeOK, Lock
  <2>5. lock' # NoLock
    BY <2>4, AbsentIsAbsent
  <2>6. BareLock' = [owner |-> lock.owner, serial |-> lock.serial, left |-> left]
    BY <2>4, <2>5 DEF BareLock
  <2> QED
    BY <1>2, <2>1, <2>4, <2>5, <2>6
<1> QED
  BY <1>1, <1>2

-----------------------------------------------------------------------------
(* An instance goes on to its next call. *)
LEMMA GotoType ==
  ASSUME TypeOK, NEW p \in Inst, NEW l \in PC, Goto(p, l)
  PROVE  pc' \in [Inst -> PC] /\ tries' \in [Inst -> 0..(MaxTries - 1)]
  BY DEF TypeOK, Goto

LEMMA ClockType ==
  ASSUME TypeOK, NEW p \in Inst, Clock(p) \/ UNCHANGED age
  PROVE  age' \in [Inst -> Nat]
  BY DEF TypeOK, Clock

LEMMA ScheduleType ==
  ASSUME TypeOK, NEW p \in Inst, Schedule(p) \/ UNCHANGED renewals
  PROVE  renewals' \in [Inst -> Nat]
  BY DEF TypeOK, Schedule

(* How time passes for an instance. *)
LEMMA TickAges ==
  ASSUME TypeOK, Tick, NEW p \in Inst
  PROVE  /\ L!Limit(p) \in Nat
         /\ L!Timed(p) => LockAge[p] = age[p]
         /\ L!Timed(p) /\ age[p] <= L!Limit(p) => age'[p] = age[p] + 1
         /\ age'[p] = age[p] \/ age'[p] = age[p] + 1
         /\ p \in L!Overdue <=> L!Timed(p) /\ age[p] >= L!Limit(p)
<1>1. L!Timed(p) => LockAge[p] = age[p]
  BY DEF L!Timed, LockAge
<1>2. L!Limit(p) \in Nat
  BY DurationsAreNat DEF L!Limit
<1> QED
  BY <1>1, <1>2 DEF Tick, L!Aged, L!Overdue

(* Who is not done at the end of its time waits for its third try. *)
LEMMA OverdueHasFailed ==
  ASSUME TypeOK, Tick, NEW p \in Inst, SlowInv(p), p \in L!Overdue
  PROVE  p \in failed
<1>1. L!Timed(p) /\ age[p] >= L!Limit(p) /\ L!Limit(p) \in Nat /\ age[p] \in Nat
  BY TickAges DEF TypeOK
<1>2. CASE age[p] = L!Limit(p)
  <2>1. tries[p] = 2
    BY <1>1, <1>2 DEF Tick
  <2> QED
    BY <2>1 DEF SlowInv
<1>3. CASE age[p] > L!Limit(p)
  BY <1>1, <1>3 DEF SlowInv
<1> QED
  BY <1>1, <1>2, <1>3

(* The steps of one instance keep the types. *)
LEMMA TypeStep ==
  ASSUME Inv, [Next]_vars PROVE TypeOK'
<1> USE DEF Inv, ServedIsRenewed, TypeOK, PC, StorageCalls, RemoteCalls, Ended
<1>1. CASE Tick
  <2>1. age' \in [Inst -> Nat]
    <3>1. \A p \in Inst : age'[p] \in Nat
      BY <1>1, TickAges
    <3> QED
      BY <1>1, <3>1 DEF Tick
  <2>2. slow' \subseteq Faulty
    <3>1. \A p \in L!Overdue : p \in Inst
      BY DEF L!Overdue
    <3>2. \A p \in L!Overdue : p \in failed
      BY <1>1, <3>1, OverdueHasFailed
    <3> QED
      BY <1>1, <3>2 DEF Tick
  <2> QED
    BY <1>1, <2>1, <2>2, OlderType DEF Tick
<1>2. ASSUME NEW p \in Inst, Boot(p) \/ Wake(p) PROVE TypeOK'
  <2>1. checks[p] + 1 \in 0..MaxChecks
    BY <1>2, PollingIsNat DEF Boot, Wake, CheckInv
  <2>2. Check(p)
    BY <1>2 DEF Boot, Wake
  <2> QED
    BY <2>1, <2>2, GotoType, ClockType DEF Check
<1>3. ASSUME NEW p \in Inst, GetCert(p) PROVE TypeOK'
  BY <1>3, GotoType DEF GetCert
<1>4. ASSUME NEW p \in Inst, DecryptCert(p) PROVE TypeOK'
  <2>1. fetched[p] \in [cipher : Inst]
    BY <1>4 DEF DecryptCert, CheckInv, Object
  <2>2. Decrypted(fetched[p]) \in Inst
    BY <2>1 DEF Decrypted
  <2> QED
    BY <1>4, <2>2, GotoType, ScheduleType DEF DecryptCert
<1>5. ASSUME NEW p \in Inst, ReadLock(p) PROVE TypeOK'
  <2>1. (IF lock = NoLock THEN 0 ELSE lock.attempts) + 1 \in Nat
    BY DEF Lock
  <2> QED
    BY <1>5, <2>1, DurationsAreNat, GotoType, ClockType DEF ReadLock
<1>6. ASSUME NEW p \in Inst, WriteLock(p) PROVE TypeOK'
  BY <1>6, NewLockType, GotoType, ClockType DEF WriteLock
<1>7. ASSUME NEW p \in Inst, CheckPersisted(p) PROVE TypeOK'
  BY <1>7, GotoType, ClockType, ScheduleType DEF CheckPersisted
<1>8. ASSUME NEW p \in Inst, OrderCertificate(p) \/ EncryptCert(p) PROVE TypeOK'
  BY <1>8, GotoType DEF OrderCertificate, EncryptCert
<1>9. ASSUME NEW p \in Inst, PutCert(p) PROVE TypeOK'
  BY <1>9, GotoType, ClockType DEF PutCert, Encrypted, Object
<1>10. ASSUME NEW p \in Inst, DeleteLock(p) PROVE TypeOK'
  BY <1>10, GotoType, ClockType, ScheduleType DEF DeleteLock
<1>11. ASSUME NEW p \in Inst, CallFails(p) PROVE TypeOK'
  <2>1. lock' \in Lock \cup {NoLock} /\ cert' \in Object /\ letsEncrypt' \in Nat
    BY <1>11, NewLockType DEF CallFails, Applied, Encrypted, Object
  <2>2. tries' \in [Inst -> 0..(MaxTries - 1)]
    BY <1>11 DEF CallFails, Goto
  <2> QED
    BY <1>11, <2>1, <2>2, GotoType, ClockType DEF CallFails
<1>12. ASSUME NEW p \in Inst, Die(p) PROVE TypeOK'
  BY <1>12, GotoType, ClockType DEF Die
<1>13. ASSUME NEW p \in Inst, Restart(p) PROVE TypeOK'
  <2>1. restarts' \in 0..MaxRestarts
    BY <1>13, FaultyAreInstances DEF Restart
  <2> QED
    BY <1>13, <2>1, PollingIsNat, GotoType, ClockType DEF Restart, Object
<1>14. CASE UNCHANGED vars
  BY <1>14 DEF vars
<1> QED
  BY <1>1, <1>2, <1>3, <1>4, <1>5, <1>6, <1>7, <1>8, <1>9, <1>10, <1>11, <1>12,
     <1>13, <1>14 DEF Next, Step

(* What a check has found and how many there were is the instance's own. *)
LEMMA CheckStep ==
  ASSUME Inv, [Next]_vars, NEW q \in Inst PROVE CheckInv(q)'
<1> USE DEF Inv, ServedIsRenewed, TypeOK, CheckInv, Goto
<1>1. CASE Tick
  BY <1>1 DEF Tick
<1>2. ASSUME NEW p \in Inst, Boot(p) \/ Wake(p) PROVE CheckInv(q)'
  <2>1. Check(p) /\ checks[p] \in Nat /\ MaxChecks \in Nat
    BY <1>2, PollingIsNat DEF Boot, Wake
  <2> QED
    BY <2>1, PollingIsNat DEF Check
<1>3. ASSUME NEW p \in Inst, GetCert(p) PROVE CheckInv(q)'
  BY <1>3 DEF GetCert
<1>4. ASSUME NEW p \in Inst,
             \/ DecryptCert(p) \/ ReadLock(p) \/ WriteLock(p) \/ CheckPersisted(p)
             \/ OrderCertificate(p) \/ EncryptCert(p) \/ PutCert(p) \/ DeleteLock(p)
      PROVE  CheckInv(q)'
  BY <1>4 DEF DecryptCert, ReadLock, WriteLock, CheckPersisted, OrderCertificate,
              EncryptCert, PutCert, DeleteLock
<1>5. ASSUME NEW p \in Inst, CallFails(p) \/ Die(p) PROVE CheckInv(q)'
  BY <1>5 DEF CallFails, Die
<1>6. ASSUME NEW p \in Inst, Restart(p) PROVE CheckInv(q)'
  BY <1>6 DEF Restart
<1>7. CASE UNCHANGED vars
  BY <1>7 DEF vars
<1> QED
  BY <1>1, <1>2, <1>3, <1>4, <1>5, <1>6, <1>7 DEF Next, Step

(* A certificate is installed only in a step that schedules its renewal. *)
LEMMA RenewedStep ==
  ASSUME Inv, [Next]_vars, NEW q \in Inst
  PROVE  trusted'[q] # NoCert => renewals'[q] > 0
<1> USE DEF Inv, ServedIsRenewed, TypeOK
<1>1. CASE UNCHANGED <<trusted, renewals>>
  BY <1>1
<1>2. ASSUME NEW p \in Inst, Schedule(p),
             trusted' = trusted \/ \E c : trusted' = [trusted EXCEPT ![p] = c]
      PROVE  trusted'[q] # NoCert => renewals'[q] > 0
  BY <1>2 DEF Schedule
<1>3. ASSUME NEW p \in Inst, Restart(p) PROVE trusted'[q] # NoCert => renewals'[q] > 0
  BY <1>3 DEF Restart
<1> QED
  BY <1>1, <1>2, <1>3 DEF Next, Step, vars, Tick, Boot, Wake, Check, GetCert, DecryptCert,
     ReadLock, WriteLock, CheckPersisted, OrderCertificate, EncryptCert, PutCert,
     DeleteLock, CallFails, Die

LEMMA SlowStep ==
  ASSUME Inv, [Next]_vars, NEW q \in Inst PROVE SlowInv(q)'
<1> USE DEF Inv, ServedIsRenewed, TypeOK
<1>1. CASE Tick
  <2>1. UNCHANGED <<pc, tries, failed>> /\ slow' = slow \cup L!Overdue
    BY <1>1 DEF Tick
  <2>2. (L!Timed(q)' <=> L!Timed(q)) /\ L!Limit(q)' = L!Limit(q)
    BY <2>1 DEF L!Timed, L!Limit, LockPhase
  <2>3. q \in L!Overdue => q \in failed
    BY <1>1, OverdueHasFailed
  <2>4. L!Timed(q) /\ age'[q] > L!Limit(q) => q \in slow'
    BY <1>1, <2>1, TickAges DEF SlowInv
  <2> QED
    BY <2>1, <2>2, <2>3, <2>4 DEF SlowInv
<1>2. ASSUME NEW p \in Inst, NEW l \in PC, Goto(p, l), slow' = slow,
             failed \subseteq failed',
             Clock(p) \/ (UNCHANGED age /\ PhaseOf(l) \in {PhaseOf(pc[p]), "idle"})
      PROVE  SlowInv(q)'
  <2>1. CASE q # p
    <3>1. pc'[q] = pc[q] /\ tries'[q] = tries[q] /\ age'[q] = age[q]
      BY <1>2, <2>1 DEF Goto, Clock
    <3>2. (L!Timed(q)' <=> L!Timed(q)) /\ L!Limit(q)' = L!Limit(q)
      BY <3>1 DEF L!Timed, L!Limit, LockPhase
    <3> QED
      BY <1>2, <3>1, <3>2 DEF SlowInv
  <2>2. CASE q = p
    <3>1. tries'[q] = 0 /\ pc'[q] = l
      BY <1>2, <2>2 DEF Goto
    <3>2. L!Limit(q)' \in Nat
      BY DurationsAreNat DEF L!Limit
    <3>3. CASE age'[q] = 0
      BY <1>2, <3>1, <3>2, <3>3 DEF SlowInv
    <3>4. CASE age' = age /\ PhaseOf(l) = PhaseOf(pc[q])
      <4>1. (L!Timed(q)' <=> L!Timed(q)) /\ L!Limit(q)' = L!Limit(q)
        BY <3>1, <3>4 DEF L!Timed, L!Limit, LockPhase
      <4> QED
        BY <1>2, <3>1, <3>4, <4>1 DEF SlowInv
    <3>5. CASE PhaseOf(l) = "idle"
      <4>1. ~L!Timed(q)'
        BY <3>1, <3>5 DEF L!Timed, LockPhase
      <4> QED
        BY <1>2, <3>1, <4>1 DEF SlowInv
    <3> QED
      BY <1>2, <2>2, <3>3, <3>4, <3>5 DEF Clock
  <2> QED
    BY <2>1, <2>2
<1> USE DEF PC, StorageCalls, RemoteCalls, Ended, PhaseOf
<1>3. ASSUME NEW p \in Inst, Boot(p) \/ Wake(p) PROVE SlowInv(q)'
  BY <1>2, <1>3 DEF Boot, Wake, Check
<1>4. ASSUME NEW p \in Inst, GetCert(p) \/ DecryptCert(p)
      PROVE  SlowInv(q)'
  BY <1>2, <1>4 DEF GetCert, DecryptCert
<1>5. ASSUME NEW p \in Inst, ReadLock(p) \/ WriteLock(p) \/ CheckPersisted(p)
      PROVE  SlowInv(q)'
  BY <1>2, <1>5 DEF ReadLock, WriteLock, CheckPersisted
<1>6. ASSUME NEW p \in Inst, OrderCertificate(p) \/ EncryptCert(p) PROVE SlowInv(q)'
  BY <1>2, <1>6 DEF OrderCertificate, EncryptCert
<1>7. ASSUME NEW p \in Inst, PutCert(p) \/ DeleteLock(p) PROVE SlowInv(q)'
  BY <1>2, <1>7 DEF PutCert, DeleteLock
<1>8. ASSUME NEW p \in Inst, Die(p) \/ Restart(p) PROVE SlowInv(q)'
  BY <1>2, <1>8 DEF Die, Restart
<1>9. ASSUME NEW p \in Inst, CallFails(p) PROVE SlowInv(q)'
  <2>1. CASE Goto(p, "dead") /\ Clock(p)
    BY <1>2, <1>9, <2>1 DEF CallFails
  <2>2. CASE UNCHANGED <<pc, age>> /\ tries' = [tries EXCEPT ![p] = @ + 1]
    <3>1. (L!Timed(q)' <=> L!Timed(q)) /\ L!Limit(q)' = L!Limit(q)
      BY <2>2 DEF L!Timed, L!Limit, LockPhase
    <3> QED
      BY <1>9, <2>2, <3>1 DEF CallFails, SlowInv
  <2> QED
    BY <1>9, <2>1, <2>2 DEF CallFails
<1>10. CASE UNCHANGED vars
  BY <1>10 DEF vars, SlowInv, L!Timed, L!Limit, LockPhase
<1> QED
  BY <1>1, <1>3, <1>4, <1>5, <1>6, <1>7, <1>8, <1>9, <1>10 DEF Next, Step

LEMMA InvStep == Inv /\ [Next]_vars => Inv'
  BY TypeStep, CheckStep, RenewedStep, SlowStep DEF Inv, ServedIsRenewed

(* The inductive invariant, whatever the timing and the failures. *)
THEOREM CertInvariant == Spec => []Inv
  BY InvInit, InvStep, PTL DEF Spec

(* Whoever serves a certificate has scheduled its renewal: every path of   *)
(* get_or_create_enclave_certificate that installs one also spawns the task. *)
THEOREM ServedCertsAreRenewed == Spec => []ServedIsRenewed
<1>1. Inv => ServedIsRenewed
  BY DEF Inv
<1> QED
  BY <1>1, CertInvariant, PTL

-----------------------------------------------------------------------------
(* A step of one instance, seen by the lock. *)
LEMMA GotoPhase ==
  ASSUME TypeOK, NEW p \in Inst, NEW l, Goto(p, l)
  PROVE  /\ LockPhase' = [LockPhase EXCEPT ![p] = PhaseOf(l)]
         /\ LockPhase[p] = PhaseOf(pc[p])
  BY DEF TypeOK, Goto, LockPhase

LEMMA GotoAge ==
  ASSUME TypeOK, NEW p \in Inst, NEW l, Goto(p, l), Clock(p)
  PROVE  LockAge' = [LockAge EXCEPT ![p] = 0]
<1>1. \A q \in Inst \ {p} : LockPhase'[q] = LockPhase[q] /\ age'[q] = age[q]
  BY DEF Goto, Clock, TypeOK, LockPhase
<1>2. LockAge'[p] = 0
  BY DEF LockAge, Clock, TypeOK
<1> QED
  BY <1>1, <1>2 DEF LockAge

(* A step within a phase of the lock is none for the lock. *)
LEMMA SamePhase ==
  ASSUME TypeOK, NEW p \in Inst, NEW l, Goto(p, l), PhaseOf(l) = PhaseOf(pc[p]),
         UNCHANGED age \/ (Clock(p) /\ PhaseOf(l) = "idle")
  PROVE  UNCHANGED <<LockPhase, LockAge>>
<1>1. LockPhase' = LockPhase
  BY GotoPhase DEF LockPhase
<1>2. LockAge' = LockAge
  BY <1>1, GotoPhase DEF LockAge, Clock, TypeOK, LockPhase
<1> QED
  BY <1>1, <1>2

(* The phases of the calls. *)
LEMMA Phases ==
  /\ \A l \in {"off", "getCert", "decrypt", "readLock", "nap", "done", "gaveUp"} :
        PhaseOf(l) = "idle"
  /\ \A l \in {"order", "encrypt", "putCert"} : PhaseOf(l) = "holding"
  /\ PhaseOf("write") = "writing" /\ PhaseOf("settle") = "settling"
  /\ PhaseOf("delete") = "deleting" /\ PhaseOf("dead") = "gone"
  BY DEF PhaseOf

(* What the store's lock becomes, seen without its count. *)
LEMMA BareWritten ==
  ASSUME TypeOK, NEW p \in Inst, lock' = NewLock(p) PROVE BareLock' = L!LockOf(p)
  BY NewLockType DEF BareLock

LEMMA BareDeleted ==
  ASSUME lock' = NoLock PROVE BareLock' = NoLock
  BY DEF BareLock

LEMMA BareKept ==
  ASSUME lock' = lock PROVE BareLock' = BareLock
  BY DEF BareLock

(* A call of the lock that is applied but not heard of. *)
LEMMA UnheardIsLockStep ==
  ASSUME TypeOK, NEW p \in Inst, CallFails(p)
  PROVE  L!Next \/ UNCHANGED L!vars
<1>1. \/ UNCHANGED <<LockPhase, LockAge>>
      \/ L!Enter(p, "gone") /\ LockPhase[p] # "gone"
  <2>1. CASE UNCHANGED <<pc, age>>
    BY <2>1 DEF LockPhase, LockAge
  <2>2. CASE Goto(p, "dead") /\ Clock(p)
    <3>1. PhaseOf(pc[p]) # "gone"
      BY Phases DEF CallFails, StorageCalls
    <3> QED
      BY <2>2, <3>1, Phases, GotoPhase, GotoAge DEF L!Enter
  <2> QED
    BY <2>1, <2>2 DEF CallFails
<1>2. UNCHANGED <<made, slow>>
  BY DEF CallFails
<1>3. CASE lock' = lock
  BY <1>1, <1>2, <1>3, BareKept DEF L!Next, L!Abandon, L!vars
<1>4. CASE pc[p] = "write" /\ lock' = NewLock(p)
  <2>1. LockPhase[p] = "writing"
    BY <1>4, Phases DEF LockPhase
  <2> QED
    BY <1>1, <1>2, <1>4, <2>1, BareWritten DEF L!Next, L!WriteLockUnheard
<1>5. CASE pc[p] = "delete" /\ lock' = NoLock
  <2>1. LockPhase[p] = "deleting"
    BY <1>5, Phases DEF LockPhase
  <2> QED
    BY <1>1, <1>2, <1>5, <2>1, BareDeleted DEF L!Next, L!DeleteLockUnheard
<1> QED
  BY <1>3, <1>4, <1>5 DEF CallFails, Applied

LEMMA TickIsLockTick ==
  ASSUME TypeOK, Tick PROVE L!Tick
<1>1. UNCHANGED LockPhase
  BY DEF Tick, LockPhase
<1>2. \A p \in Inst : L!Timed(p) <=> LockPhase[p] \notin {"idle", "gone"}
  BY DEF L!Timed
<1>3. LockAge' = [p \in Inst |-> L!Aged(p)]
  <2>1. ASSUME NEW p \in Inst PROVE LockAge'[p] = L!Aged(p)
    <3>1. CASE L!Timed(p)
      BY <1>1, <1>2, <3>1 DEF LockAge, Tick
    <3>2. CASE ~L!Timed(p)
      BY <1>1, <1>2, <3>2 DEF LockAge, L!Aged
    <3> QED
      BY <3>1, <3>2
  <2> QED
    BY <2>1 DEF LockAge
<1> QED
  BY <1>1, <1>3, OlderType DEF Tick, L!Tick

(* Every step is a step of the lock, or none for it. *)
LEMMA StepIsLockStep ==
  ASSUME TypeOK, [Next]_vars PROVE [L!Next]_(L!vars)
<1>1. CASE Tick
  BY <1>1, TickIsLockTick DEF L!Next
<1>2. ASSUME NEW p \in Inst, NEW l, Goto(p, l), UNCHANGED <<lock, made, slow>>,
             PhaseOf(l) = PhaseOf(pc[p]),
             UNCHANGED age \/ (Clock(p) /\ PhaseOf(l) = "idle")
      PROVE  UNCHANGED L!vars
  BY <1>2, SamePhase, BareKept DEF L!vars
<1>3. ASSUME NEW p \in Inst, Boot(p) \/ Wake(p) PROVE UNCHANGED L!vars
  BY <1>2, <1>3, Phases DEF Boot, Wake, Check
<1>4. ASSUME NEW p \in Inst,
             GetCert(p) \/ DecryptCert(p) \/ OrderCertificate(p) \/ EncryptCert(p)
      PROVE  UNCHANGED L!vars
  BY <1>2, <1>4, Phases DEF GetCert, DecryptCert, OrderCertificate, EncryptCert
<1>5. ASSUME NEW p \in Inst, NEW l, Goto(p, l), Clock(p)
      PROVE  L!Enter(p, PhaseOf(l)) /\ LockPhase[p] = PhaseOf(pc[p])
  BY <1>5, GotoPhase, GotoAge DEF L!Enter
<1>6. ASSUME NEW p \in Inst, ReadLock(p) PROVE L!Next \/ UNCHANGED L!vars
  <2>1. CASE Goto(p, "nap") /\ UNCHANGED made
    BY <1>2, <1>6, <2>1, Phases DEF ReadLock
  <2>2. CASE /\ L!IsFree(p) /\ made[p] < MaxLocks /\ Goto(p, "write")
             /\ made' = [made EXCEPT ![p] = @ + 1]
    <3>1. L!Enter(p, "writing") /\ LockPhase[p] = "idle" /\ UNCHANGED <<BareLock, slow>>
      BY <1>5, <1>6, <2>2, Phases, BareKept DEF ReadLock
    <3> QED
      BY <2>2, <3>1 DEF L!Next, L!ReadFree
  <2> QED
    BY <1>6, <2>1, <2>2 DEF ReadLock
<1>7. ASSUME NEW p \in Inst, WriteLock(p) PROVE L!Next
  <2>1. L!Enter(p, "settling") /\ LockPhase[p] = "writing"
    BY <1>5, <1>7, Phases DEF WriteLock
  <2> QED
    BY <1>7, <2>1, BareWritten DEF WriteLock, L!Next, L!WriteLock
<1>8. ASSUME NEW p \in Inst, CheckPersisted(p) PROVE L!Next
  <2>1. /\ L!Enter(p, IF L!IsMine(p) THEN "holding" ELSE "idle")
        /\ LockPhase[p] = "settling"
    BY <1>5, <1>8, Phases DEF CheckPersisted
  <2>2. LockAge[p] >= Settle
    BY <1>8, <2>1 DEF CheckPersisted, LockAge
  <2> QED
    BY <1>8, <2>1, <2>2, BareKept DEF CheckPersisted, L!Next, L!CheckPersisted
<1>9. ASSUME NEW p \in Inst, PutCert(p) PROVE L!Next
  <2>1. L!Enter(p, "deleting") /\ LockPhase[p] = "holding"
    BY <1>5, <1>9, Phases DEF PutCert
  <2> QED
    BY <1>9, <2>1, BareKept DEF PutCert, L!Next, L!StartDelete
<1>10. ASSUME NEW p \in Inst, DeleteLock(p) PROVE L!Next
  <2>1. L!Enter(p, "idle") /\ LockPhase[p] = "deleting"
    BY <1>5, <1>10, Phases DEF DeleteLock
  <2> QED
    BY <1>10, <2>1, BareDeleted DEF DeleteLock, L!Next, L!DeleteLock
<1>11. ASSUME NEW p \in Inst, Die(p) PROVE L!Next
  <2>1. PhaseOf(pc[p]) # "gone"
    BY <1>11 DEF Die, Ended, PhaseOf
  <2>2. L!Enter(p, "gone") /\ LockPhase[p] # "gone"
    BY <1>5, <1>11, <2>1, Phases DEF Die
  <2> QED
    BY <1>11, <2>2, BareKept DEF Die, L!Next, L!Abandon
<1>12. ASSUME NEW p \in Inst, Restart(p) PROVE L!Next
  <2>1. L!Enter(p, "idle") /\ LockPhase[p] = "gone"
    BY <1>5, <1>12, Phases DEF Restart
  <2> QED
    BY <1>12, <2>1, BareKept DEF Restart, L!Next, L!Return
<1>13. CASE UNCHANGED vars
  BY <1>13, BareKept DEF vars, L!vars, LockPhase, LockAge
<1> QED
  BY <1>1, <1>3, <1>4, <1>6, <1>7, <1>8, <1>9, <1>10, <1>11, <1>12, <1>13,
     UnheardIsLockStep DEF Next, Step

(* The instances that order a certificate use the lock as StorageLock      *)
(* describes, the count in it and the restarts included.                   *)
THEOREM CertImplementsStorageLock == Spec => ImplementsStorageLock
<1>1. Init => L!Init
  BY Phases DEF Init, L!Init, LockPhase, LockAge, BareLock
<1>2. Inv /\ [Next]_vars => [L!Next]_(L!vars)
  BY StepIsLockStep DEF Inv, ServedIsRenewed
<1> QED
  BY <1>1, <1>2, CertInvariant, PTL DEF Spec, ImplementsStorageLock, L!Spec

-----------------------------------------------------------------------------
(* The lock of LP is the lock of the model. *)
LEMMA SameLock ==
  /\ L!Init => LP!Init
  /\ [L!Next]_(L!vars) => [LP!Next]_(LP!vars)
  BY DEF L!Init, LP!Init, L!Next, LP!Next, L!vars, LP!vars,
         L!Tick, LP!Tick, L!Timed, LP!Timed, L!Limit, LP!Limit, L!Older, LP!Older,
         L!Floor, LP!Floor, L!Aged, LP!Aged, L!Outdated, LP!Outdated,
         L!Overdue, LP!Overdue, L!ReadFree, LP!ReadFree, L!IsFree, LP!IsFree,
         L!IsExpired, LP!IsExpired, L!WriteLock, LP!WriteLock, L!LockOf, LP!LockOf,
         L!WriteLockUnheard, LP!WriteLockUnheard, L!CheckPersisted, LP!CheckPersisted,
         L!IsMine, LP!IsMine, L!StartDelete, LP!StartDelete, L!DeleteLock, LP!DeleteLock,
         L!DeleteLockUnheard, LP!DeleteLockUnheard, L!Abandon, LP!Abandon,
         L!Return, LP!Return, L!Enter, LP!Enter

(* What the read-back guarantees when it is done in time. *)
LEMMA LockIsSettled == ASSUME LP!SettlesInTime PROVE Spec => [](slow = {} => LP!SettleInv)
<1>1. LP!Spec => [](slow = {} => LP!SettleInv)
  BY LockAssumptions, LP!SettleInvariant
<1>2. Spec => LP!Spec
  BY CertImplementsStorageLock, SameLock, PTL DEF ImplementsStorageLock, L!Spec, LP!Spec
<1> QED
  BY <1>1, <1>2, PTL

(* Whose lock is stored, in terms of the stored lock. *)
LEMMA MineIs ==
  ASSUME TypeOK, NEW p \in Inst
  PROVE  L!IsMine(p) <=> lock # NoLock /\ lock.owner = p /\ lock.serial = made[p]
  BY BareLockType DEF L!IsMine

(* The owner of an order finds no write under way. *)
LEMMA OrderIsAlone ==
  ASSUME LP!SettlesInTime, LP!SettleInv, NEW p \in Inst, NEW q \in Inst,
         pc[p] = "settle", age[p] >= Settle, L!IsMine(p)
  PROVE  pc[q] # "write"
<1>1. LockPhase[p] = "settling" /\ LockPhase[q] = PhaseOf(pc[q])
  BY Phases DEF LockPhase
<1>2. LockAge[p] >= Settle
  BY <1>1 DEF LockAge
<1>3. LP!IsMine(p)
  BY DEF L!IsMine, LP!IsMine
<1>4. LockPhase[q] # "writing"
  BY <1>1, <1>2, <1>3, LockAssumptions, LP!CheckedIsSettled
<1> QED
  BY <1>1, <1>4, Phases

(* A step that places no order and leaves the count as it was. *)
LEMMA OrderKept ==
  ASSUME OrderInv, TypeOK, NEW p \in Inst, NEW l, Goto(p, l),
         l \notin {"write", "settle"}, UNCHANGED <<lock, made, letsEncrypt>>,
         UNCHANGED attempts \/ \E n : attempts' = [attempts EXCEPT ![p] = n]
  PROVE  OrderInv'
<1>1. TypeOK /\ \A q \in Inst : pc'[q] \in {"write", "settle"} =>
                  pc'[q] = pc[q] /\ attempts'[q] = attempts[q]
  BY DEF TypeOK, Goto
<1>2. \A q \in Inst : L!IsMine(q)' <=> L!IsMine(q)
  BY BareKept DEF L!IsMine
<1> QED
  BY <1>1, <1>2 DEF OrderInv

(* A lock is written: it counts every order so far, and is its writer's. *)
LEMMA OrderWritten ==
  ASSUME OrderInv, TypeOK, TypeOK', NEW p \in Inst, pc[p] = "write", lock' = NewLock(p),
         UNCHANGED <<made, attempts, letsEncrypt>>,
         UNCHANGED pc \/ Goto(p, "settle") \/ Goto(p, "dead")
  PROVE  OrderInv'
<1>1. lock' # NoLock /\ lock'.owner = p /\ lock'.attempts = attempts[p]
  BY NewLockType
<1>2. \A q \in Inst : L!IsMine(q)' => q = p
  BY <1>1, MineIs DEF L!IsMine, BareLock
<1>3. letsEncrypt < attempts[p] /\ letsEncrypt \in Nat /\ attempts[p] \in Nat
  BY DEF OrderInv, TypeOK
<1>4. \A q \in Inst : pc'[q] = "write" => pc[q] = "write"
  BY DEF Goto, TypeOK
<1> QED
  BY <1>1, <1>2, <1>3, <1>4 DEF OrderInv

(* The lock is deleted: whoever is about to write one has counted enough. *)
LEMMA OrderDeleted ==
  ASSUME OrderInv, TypeOK, NEW p \in Inst, pc[p] = "delete", lock' = NoLock,
         letsEncrypt' = 0, UNCHANGED attempts,
         UNCHANGED pc \/ Goto(p, "done") \/ Goto(p, "dead")
  PROVE  OrderInv'
<1>1. \A q \in Inst : ~L!IsMine(q)'
  BY BareDeleted DEF L!IsMine
<1>2. \A q \in Inst : pc'[q] = "write" => pc[q] = "write"
  BY DEF Goto, TypeOK
<1>3. \A q \in Inst : pc[q] = "write" => 0 < attempts[q]
  BY DEF OrderInv, TypeOK
<1> QED
  BY <1>1, <1>2, <1>3 DEF OrderInv

LEMMA OrderStep ==
  ASSUME LP!SettlesInTime, LP!SettleInv, TypeOK, TypeOK', OrderInv, [Next]_vars
  PROVE  OrderInv'
<1>1. CASE Tick
  <2>1. \A q \in Inst : L!IsMine(q)' <=> L!IsMine(q)
    <3> SUFFICES ASSUME NEW q \in Inst PROVE L!IsMine(q)' <=> L!IsMine(q)
      OBVIOUS
    <3>1. L!IsMine(q) <=> lock # NoLock /\ lock.owner = q /\ lock.serial = made[q]
      BY MineIs
    <3>2. (L!IsMine(q) <=> lock # NoLock /\ lock.owner = q /\ lock.serial = made[q])'
      <4>1. lock' # NoLock => BareLock' = [owner |-> lock'.owner, serial |-> lock'.serial,
                                           left |-> lock'.left]
        BY DEF BareLock
      <4>2. lock' # NoLock => BareLock' \in L!Lock
        BY <4>1 DEF TypeOK, Lock, L!Lock
      <4> QED
        BY <4>1, <4>2, AbsentIsAbsent DEF L!IsMine, BareLock
    <3> QED
      BY <1>1, <3>1, <3>2, OlderType DEF Tick
  <2> QED
    BY <1>1, <2>1, OlderType DEF Tick, OrderInv, L!IsMine, BareLock
<1>2. ASSUME NEW p \in Inst,
             \/ Boot(p) \/ Wake(p) \/ GetCert(p) \/ DecryptCert(p) \/ OrderCertificate(p)
             \/ EncryptCert(p) \/ PutCert(p) \/ Die(p) \/ Restart(p)
      PROVE  OrderInv'
  BY <1>2, OrderKept DEF Boot, Wake, Check, GetCert, DecryptCert, OrderCertificate,
     EncryptCert, PutCert, Die, Restart
<1>3. ASSUME NEW p \in Inst, ReadLock(p) PROVE OrderInv'
  <2>1. CASE Goto(p, "nap") /\ UNCHANGED <<made, attempts>>
    BY <1>3, <2>1, OrderKept DEF ReadLock
  <2>2. CASE /\ Goto(p, "write") /\ made' = [made EXCEPT ![p] = @ + 1]
             /\ attempts' = [attempts EXCEPT ![p] =
                               (IF lock = NoLock THEN 0 ELSE lock.attempts) + 1]
    <3>1. letsEncrypt < attempts'[p]
      BY <2>2 DEF OrderInv, TypeOK, Lock
    <3>2. \A q \in Inst : pc'[q] = "settle" => q # p /\ pc[q] = "settle"
      BY <2>2 DEF Goto, TypeOK
    <3>3. \A q \in Inst : q # p => (L!IsMine(q)' <=> L!IsMine(q))
      BY <1>3, <2>2, BareKept DEF ReadLock, L!IsMine, TypeOK
    <3>4. \A q \in Inst : q # p => attempts'[q] = attempts[q] /\ pc'[q] = pc[q]
      BY <2>2 DEF Goto, TypeOK
    <3>5. lock' = lock /\ letsEncrypt' = letsEncrypt
      BY <1>3 DEF ReadLock
    <3> QED
      BY <3>1, <3>2, <3>3, <3>4, <3>5 DEF OrderInv
  <2> QED
    BY <1>3, <2>1, <2>2 DEF ReadLock
<1>4. ASSUME NEW p \in Inst, WriteLock(p) PROVE OrderInv'
  BY <1>4, OrderWritten DEF WriteLock
<1>5. ASSUME NEW p \in Inst, CheckPersisted(p) PROVE OrderInv'
  <2>1. CASE ~L!IsMine(p)
    BY <1>5, <2>1, OrderKept DEF CheckPersisted
  <2>2. CASE L!IsMine(p)
    <3>1. /\ Goto(p, "order") /\ UNCHANGED <<lock, made, attempts>>
          /\ pc[p] = "settle" /\ age[p] >= Settle
      BY <1>5, <2>2 DEF CheckPersisted
    <3>2. /\ letsEncrypt < attempts[p] /\ lock.attempts = attempts[p]
          /\ letsEncrypt \in Nat /\ attempts[p] \in Nat
          /\ lock # NoLock
      BY <2>2, <3>1, MineIs DEF OrderInv, TypeOK
    <3>3. letsEncrypt' <= attempts[p] /\ letsEncrypt' <= 2
      <4>1. letsEncrypt' = letsEncrypt + (IF attempts[p] <= 2 THEN 1 ELSE 0)
        BY <1>5, <2>2 DEF CheckPersisted, Provider
      <4>2. letsEncrypt <= 2
        BY DEF OrderInv
      <4> QED
        BY <3>2, <4>1, <4>2
    <3>4. \A q \in Inst : pc'[q] # "write"
      BY <2>2, <3>1, OrderIsAlone DEF Goto, TypeOK
    <3>5. \A q \in Inst : pc'[q] = "settle" => ~L!IsMine(q)'
      <4>1. \A q \in Inst : pc'[q] = "settle" => q # p
        BY <3>1 DEF Goto, TypeOK
      <4>2. BareLock' = BareLock /\ BareLock.owner = p
        BY <2>2, <3>1, BareKept DEF L!IsMine
      <4> QED
        BY <4>1, <4>2 DEF L!IsMine
    <3> QED
      BY <3>1, <3>2, <3>3, <3>4, <3>5 DEF OrderInv
  <2> QED
    BY <2>1, <2>2
<1>6. ASSUME NEW p \in Inst, DeleteLock(p) PROVE OrderInv'
  BY <1>6, OrderDeleted DEF DeleteLock
<1>7. ASSUME NEW p \in Inst, CallFails(p) PROVE OrderInv'
  <2>1. UNCHANGED <<made, attempts>> /\ (UNCHANGED pc \/ Goto(p, "dead"))
    BY <1>7 DEF CallFails
  <2>2. CASE UNCHANGED <<lock, letsEncrypt>>
    <3>1. CASE UNCHANGED pc
      BY <2>1, <2>2, <3>1, BareKept DEF OrderInv, L!IsMine
    <3>2. CASE Goto(p, "dead")
      BY <2>1, <2>2, <3>2, OrderKept
    <3> QED
      BY <2>1, <3>1, <3>2
  <2>3. CASE pc[p] = "write" /\ lock' = NewLock(p) /\ UNCHANGED letsEncrypt
    BY <2>1, <2>3, OrderWritten
  <2>4. CASE pc[p] = "delete" /\ lock' = NoLock /\ letsEncrypt' = 0
    BY <2>1, <2>4, OrderDeleted
  <2> QED
    BY <1>7, <2>2, <2>3, <2>4 DEF CallFails, Applied
<1>8. CASE UNCHANGED vars
  BY <1>8, BareKept DEF vars, OrderInv, L!IsMine
<1> QED
  BY <1>1, <1>2, <1>3, <1>4, <1>5, <1>6, <1>7, <1>8 DEF Next, Step

(* Who was slow once stays so. *)
LEMMA SlowGrows == [Next]_vars => slow \subseteq slow'
  BY DEF Next, vars, Tick, Step, Boot, Wake, Check, GetCert, DecryptCert, ReadLock,
     WriteLock, CheckPersisted, OrderCertificate, EncryptCert, PutCert, DeleteLock,
     CallFails, Die, Restart

(* Of the orders placed until one is stored, two go to Let's Encrypt: it   *)
(* takes a sleep longer than a storage call and a lock that is valid until *)
(* the read-back, and nothing of how long the orders take.  It holds until *)
(* a put is so slow that its third try lands behind another's lock.        *)
THEOREM LetsEncryptIsTriedTwice ==
  ASSUME LP!SettlesInTime PROVE Spec => []LetsEncryptTwice
<1>1. Init => (slow = {} => OrderInv)
  <2> SUFFICES ASSUME Init PROVE OrderInv
    OBVIOUS
  <2>1. \A p \in Inst : pc[p] = "off"
    BY DEF Init
  <2> QED
    BY <2>1 DEF Init, OrderInv, LetsEncryptTwice
<1>2. /\ Inv /\ Inv' /\ (slow = {} => LP!SettleInv) /\ (slow = {} => OrderInv)
      /\ [Next]_vars
      => (slow = {} => OrderInv)'
  BY SlowGrows, OrderStep DEF Inv, ServedIsRenewed
<1>3. (slow = {} => OrderInv) => LetsEncryptTwice
  BY DEF OrderInv, LetsEncryptTwice
<1> QED
  BY <1>1, <1>2, <1>3, LockIsSettled, CertInvariant, PTL DEF Spec

-----------------------------------------------------------------------------
(* A survivor does not give up.  It sleeps on a lock of its rival, whose    *)
(* creator is at work or dead and will not create another: what the lock is *)
(* still valid for and what the survivor has slept are together no more     *)
(* than its lifetime.  Once it takes over, nothing but the delete of a      *)
(* rival that has stored its certificate can cost it the lock.              *)

(* How long k checks have taken at least: the sleeps before the last one. *)
Naps(k) == IF k = 0 THEN 0 ELSE (k - 1) * Poll

(* How long p has slept, at least. *)
NapTime(p) == Naps(checks[p]) + IF pc[p] = "nap" THEN age[p] ELSE 0

Slept(p) == checks[p] >= 2 \/ pc[p] = "nap"

(* A lock expires, on every clock, before anybody wakes for the last check *)
(* but two.  Then there is one check to take it over, and one more to find *)
(* the certificate of a creator that was late.                             *)
ChecksOutlastLocks ==
    \A p, q \in Inst : Lifetime + Offset[q] - Offset[p] < (MaxChecks - 3) * Poll

Looking == {"nap", "getCert", "readLock"}
Taking == {"write", "settle"}
Creating == {"order", "encrypt", "putCert"}

(* Until a certificate is stored a lock has a creator that is at work, or  *)
(* was when it died, and once there is a lock there is one from then on.   *)
OwnerInv ==
    /\ \A p \in Inst : pc[p] \in Taking \cup Creating \cup {"delete"} => made[p] > 0
    /\ \A p \in Inst : pc[p] = "delete" => cert # NoCert
    /\ lock # NoLock => /\ lock.left <= Lifetime + Offset[lock.owner]
                        /\ made[lock.owner] > 0
    /\ restarts = 0 /\ cert = NoCert /\ lock # NoLock =>
          /\ lock.serial = made[lock.owner]
          /\ pc[lock.owner] \in Taking \cup Creating \cup {"dead"}
    /\ restarts = 0 /\ cert = NoCert /\ lock = NoLock =>
          \A p \in Inst : ~Slept(p) /\ pc[p] \notin {"settle"} \cup Creating

(* A write that is under way was begun before p fell asleep. *)
WritesAreOld(p) == \A q \in Inst \ {p} : pc[q] = "write" => NapTime(p) <= age[q]

(* The lock p waits for has been valid for at least as long as p has slept. *)
WaitsForLock(p) ==
    /\ lock # NoLock /\ lock.owner # p
    /\ \/ NapTime(p) + lock.left <= Lifetime + Offset[lock.owner]
       \/ lock.left < Offset[p]

(* p takes an expired lock over, and nobody else does. *)
TakesOver(p) ==
    /\ lock # NoLock
    /\ pc[p] = "write" => lock.owner # p /\ lock.left < Offset[p]
    /\ pc[p] = "settle" => lock.owner = p
    /\ \A q \in Inst \ {p} : pc[q] \notin Taking

WaitInv(p) ==
    /\ pc[p] \in Looking \cup Taking => WritesAreOld(p)
    /\ pc[p] \in Looking /\ Slept(p) => WaitsForLock(p)
    /\ pc[p] \in Taking /\ Slept(p) => TakesOver(p)

(* How many checks p has left. *)
LeftInv(p) ==
    /\ pc[p] # "gaveUp"
    /\ pc[p] \in Looking \cup Taking => checks[p] > 0
    /\ pc[p] \in {"nap", "readLock"} \cup Taking => checks[p] <= MaxChecks - 2
    /\ cert = NoCert /\ pc[p] = "getCert" => checks[p] <= MaxChecks - 2
    /\ cert = NoCert /\ pc[p] = "nap" => checks[p] <= MaxChecks - 3

SurvivorInv(p) == LeftInv(p) /\ (cert = NoCert => WaitInv(p))

PatienceInv ==
    restarts = 0 /\ slow = {} =>
        \A p \in Inst \ failed : HasOneRival(p) => SurvivorInv(p)

LEMMA NapsGrow ==
  ASSUME NEW k \in Nat
  PROVE  Naps(k) \in Nat /\ Naps(k + 1) = Naps(k) + (IF k = 0 THEN 0 ELSE Poll)
<1>1. k * Poll = (k - 1) * Poll + Poll /\ Poll \in Nat
  BY PollingIsNat
<1>2. k # 0 => (k - 1) * Poll \in Nat
  BY PollingIsNat
<1>3. (k + 1) - 1 = k /\ k + 1 # 0
  OBVIOUS
<1> QED
  BY <1>1, <1>2, <1>3 DEF Naps

(* Whoever has slept for less than a lock's lifetime has checks left. *)
LEMMA ChecksAreLeft ==
  ASSUME ChecksOutlastLocks, NEW k \in Nat \ {0}, NEW p \in Inst, NEW q \in Inst,
         Naps(k) <= Lifetime + Offset[q] - Offset[p]
  PROVE  k <= MaxChecks - 3
<1>1. Naps(k) = (k - 1) * Poll
  BY DEF Naps
<1>2. Offset[p] \in Int /\ Offset[q] \in Int /\ Lifetime \in Int /\ Poll \in Nat
      /\ MaxChecks \in Int
  BY DurationsAreNat, PollingIsNat
<1>3. Lifetime + Offset[q] - Offset[p] < (MaxChecks - 3) * Poll
  BY DEF ChecksOutlastLocks
<1>4. ASSUME k > MaxChecks - 3 PROVE (MaxChecks - 3) * Poll <= (k - 1) * Poll
  <2>1. PICK d \in Nat : k - 1 = (MaxChecks - 3) + d
    <3>1. (k - 1) - (MaxChecks - 3) \in Nat
      BY <1>2, <1>4
    <3> QED
      BY <1>2, <3>1
  <2>2. d * Poll \in Nat
    BY <1>2
  <2>3. ((MaxChecks - 3) + d) * Poll = (MaxChecks - 3) * Poll + d * Poll
    BY <1>2
  <2>4. (MaxChecks - 3) * Poll \in Int
    BY <1>2
  <2> QED
    BY <2>1, <2>2, <2>3, <2>4
<1>5. (k - 1) * Poll \in Int /\ (MaxChecks - 3) * Poll \in Int
  BY <1>2
<1> QED
  BY <1>1, <1>2, <1>3, <1>4, <1>5

LEMMA Numbers ==
  ASSUME TypeOK
  PROVE  /\ \A p \in Inst : /\ Offset[p] \in Int /\ age[p] \in Nat /\ made[p] \in Nat
                            /\ checks[p] \in Nat /\ NapTime(p) \in Nat
                            /\ -MaxSkew <= Offset[p]
         /\ lock # NoLock => lock.left \in Int /\ lock.owner \in Inst
         /\ Lifetime \in Nat /\ MaxChecks \in Nat /\ Poll \in Nat /\ MaxSkew \in Nat
<1>1. \A p \in Inst : checks[p] \in Nat /\ age[p] \in Nat
  BY DEF TypeOK
<1>2. ASSUME NEW p \in Inst PROVE NapTime(p) \in Nat
  <2>1. checks[p] \in Nat /\ age[p] \in Nat
    BY <1>1
  <2>2. Naps(checks[p]) \in Nat
    BY <2>1, NapsGrow
  <2> QED
    BY <2>1, <2>2 DEF NapTime
<1> QED
  BY <1>1, <1>2, DurationsAreNat, PollingIsNat DEF TypeOK, Lock, L!Floor

(* Whoever has not slept has not slept for long. *)
LEMMA NotSlept ==
  ASSUME TypeOK, NEW p \in Inst, ~Slept(p) PROVE NapTime(p) = 0
<1>1. checks[p] \in {0, 1} /\ pc[p] # "nap"
  BY DEF TypeOK, Slept
<1>2. Naps(0) = 0 /\ Naps(1) = 0
  BY PollingIsNat DEF Naps
<1> QED
  BY <1>1, <1>2 DEF NapTime

(* IsFree in terms of the stored lock. *)
LEMMA FreeIs ==
  ASSUME TypeOK, NEW p \in Inst
  PROVE  L!IsFree(p) <=> (lock # NoLock => lock.left < Offset[p])
  BY BareLockType DEF L!IsFree, L!IsExpired

(* The lock that is written dates from its creation. *)
LEMMA NewLockLeft ==
  ASSUME TypeOK, NEW p \in Inst, pc[p] = "write"
  PROVE  /\ NewLock(p).left <= Lifetime + Offset[p]
         /\ \/ NewLock(p).left = Lifetime + Offset[p] - age[p]
            \/ \A q \in Inst : NewLock(p).left < Offset[q]
<1>1. LockAge[p] = age[p]
  BY Phases DEF LockAge, LockPhase
<1> DEFINE left == Lifetime + Offset[p] - age[p]
<1>2. NewLock(p).left = IF left < L!Floor THEN L!Floor ELSE left
  BY <1>1 DEF NewLock, L!LockOf
<1>3. L!Floor = -MaxSkew - 1
  BY DEF L!Floor
<1> QED
  BY <1>2, <1>3, Numbers

(* A second passes: a lock is valid for one less, or has expired for all. *)
LEMMA TickLeft ==
  ASSUME TypeOK, Tick, lock # NoLock
  PROVE  /\ lock' # NoLock /\ lock'.owner = lock.owner /\ lock'.serial = lock.serial
         /\ lock'.left <= lock.left
         /\ \/ lock'.left = lock.left - 1
            \/ \A q \in Inst : lock'.left < Offset[q]
<1>1. lock' # NoLock /\ lock'.owner = lock.owner /\ lock'.serial = lock.serial
  BY OlderType
<1>2. lock'.left = IF lock.left > L!Floor THEN lock.left - 1 ELSE lock.left
  <2>1. L!Older(BareLock).left = IF lock.left > L!Floor THEN lock.left - 1 ELSE lock.left
    BY BareLockType DEF L!Older, L!Lock
  <2>2. lock' = [lock EXCEPT !.left = L!Older(BareLock).left]
    BY DEF Tick
  <2> QED
    BY <2>1, <2>2 DEF TypeOK, Lock
<1>3. L!Floor = -MaxSkew - 1 /\ lock.left \in Int
  BY Numbers DEF L!Floor
<1> QED
  BY <1>1, <1>2, <1>3, Numbers

(* The lock of somebody who takes it is valid. *)
LEMMA TakenIsValid ==
  ASSUME LP!SettlesInTime, LP!SettleInv, TypeOK, NEW p \in Inst, NEW q \in Inst,
         lock # NoLock, lock.owner = p, lock.serial = made[p], pc[p] \in Taking
  PROVE  Offset[q] <= lock.left
<1>1. LP!IsMine(p)
  BY MineIs DEF L!IsMine, LP!IsMine
<1>2. LockPhase[p] \in {"writing", "settling"}
  BY Phases DEF LockPhase, Taking
<1>3. LP!AgeInv
  BY DEF LP!SettleInv
<1>4. ~LP!IsExpired(q, BareLock)
  BY <1>1, <1>2, <1>3, LockAssumptions, LP!SettlingIsValid
<1> QED
  BY <1>4, BareLockType, Numbers DEF LP!IsExpired

-----------------------------------------------------------------------------
(* What only grows. *)
LEMMA OnlyGrows ==
  ASSUME TypeOK, TypeOK', [Next]_vars
  PROVE  /\ failed \subseteq failed' /\ restarts <= restarts'
         /\ \A q \in Inst : made[q] <= made'[q]
         /\ cert' = NoCert => cert = NoCert
<1>1. failed \subseteq failed' /\ restarts <= restarts'
  BY DEF Next, Step, vars, Tick, Boot, Wake, Check, GetCert, DecryptCert, ReadLock,
         WriteLock, CheckPersisted, OrderCertificate, EncryptCert, PutCert, DeleteLock,
         CallFails, Die, Restart, TypeOK
<1>2. made' = made \/ \E p \in Inst : made' = [made EXCEPT ![p] = @ + 1]
  BY DEF Next, Step, vars, Tick, Boot, Wake, Check, GetCert, DecryptCert, ReadLock,
         WriteLock, CheckPersisted, OrderCertificate, EncryptCert, PutCert, DeleteLock,
         CallFails, Die, Restart
<1>3. cert' = cert \/ \E p \in Inst : cert' = Encrypted(p)
  BY DEF Next, Step, vars, Tick, Boot, Wake, Check, GetCert, DecryptCert, ReadLock,
         WriteLock, CheckPersisted, OrderCertificate, EncryptCert, PutCert, DeleteLock,
         CallFails, Applied, Die, Restart
<1>4. \A p \in Inst : Encrypted(p) # NoCert
  BY AbsentIsAbsent DEF Encrypted
<1>5. \A q \in Inst : made[q] \in Nat
  BY Numbers
<1> QED
  BY <1>1, <1>2, <1>3, <1>4, <1>5 DEF TypeOK

(* An instance's step to a call that is not about the lock. *)
LEMMA OwnerKept ==
  ASSUME OwnerInv, TypeOK, TypeOK', NEW p \in Inst, NEW l, Goto(p, l),
         UNCHANGED <<lock, made>>, restarts <= restarts', cert' = NoCert => cert = NoCert,
         l \in Taking \cup Creating \cup {"delete"} =>
            pc[p] \in Taking \cup Creating \cup {"delete"},
         l = "delete" => cert' # NoCert,
         cert' = NoCert /\ restarts' = 0 /\ lock # NoLock /\ lock.owner = p =>
            l \in Taking \cup Creating \cup {"dead"},
         cert' = NoCert /\ restarts' = 0 /\ lock = NoLock =>
            l # "nap" /\ l # "settle" /\ l \notin Creating /\ checks'[p] < 2,
         \A q \in Inst \ {p} : checks'[q] = checks[q]
  PROVE  OwnerInv'
<1>1. pc'[p] = l /\ \A q \in Inst \ {p} : pc'[q] = pc[q]
  BY DEF Goto, TypeOK
<1>2. restarts' = 0 => restarts = 0
  BY DEF TypeOK
<1>3. \A q \in Inst : pc'[q] \in Taking \cup Creating \cup {"delete"} => made'[q] > 0
  BY <1>1 DEF OwnerInv
<1>4. \A q \in Inst : pc'[q] = "delete" => cert' # NoCert
  BY <1>1 DEF OwnerInv
<1>5. restarts' = 0 /\ cert' = NoCert /\ lock' # NoLock =>
          /\ lock'.serial = made'[lock'.owner]
          /\ pc'[lock'.owner] \in Taking \cup Creating \cup {"dead"}
  BY <1>1, <1>2, Numbers DEF OwnerInv
<1>6. restarts' = 0 /\ cert' = NoCert /\ lock' = NoLock =>
          \A q \in Inst : (checks'[q] < 2 /\ pc'[q] # "nap")
                          /\ pc'[q] \notin {"settle"} \cup Creating
  BY <1>1, <1>2, Numbers DEF OwnerInv, Slept
<1>7. \A q \in Inst : checks'[q] \in Nat
  BY DEF TypeOK
<1> QED
  BY <1>3, <1>4, <1>5, <1>6, <1>7 DEF OwnerInv, Slept

(* A lock is written. *)
LEMMA OwnerWritten ==
  ASSUME OwnerInv, TypeOK, NEW p \in Inst, pc[p] = "write", lock' = NewLock(p),
         UNCHANGED <<made, restarts, cert>>,
         UNCHANGED pc \/ Goto(p, "settle") \/ Goto(p, "dead")
  PROVE  OwnerInv'
<1>1. lock' # NoLock /\ lock'.owner = p /\ lock'.serial = made[p]
      /\ lock'.left <= Lifetime + Offset[p]
  BY NewLockType, NewLockLeft
<1>2. pc'[p] \in {"write", "settle", "dead"} /\ \A q \in Inst \ {p} : pc'[q] = pc[q]
  BY DEF Goto, TypeOK
<1>3. made[p] > 0
  BY DEF OwnerInv, Taking
<1> QED
  BY <1>1, <1>2, <1>3 DEF OwnerInv, Taking, Creating

(* A lock is deleted. *)
LEMMA OwnerDeleted ==
  ASSUME OwnerInv, TypeOK, NEW p \in Inst, pc[p] = "delete", lock' = NoLock,
         UNCHANGED <<made, cert>>,
         UNCHANGED pc \/ Goto(p, "done") \/ Goto(p, "dead")
  PROVE  OwnerInv'
<1>1. cert' # NoCert
  BY DEF OwnerInv
<1>2. \A q \in Inst : pc'[q] \in Taking \cup Creating \cup {"delete"} => pc[q] = pc'[q]
  BY DEF Goto, TypeOK, Taking, Creating
<1> QED
  BY <1>1, <1>2 DEF OwnerInv

LEMMA OwnerStep ==
  ASSUME OwnerInv, Inv, TypeOK', [Next]_vars PROVE OwnerInv'
<1> USE DEF Taking, Creating
<1>0. /\ TypeOK /\ restarts <= restarts' /\ (cert' = NoCert => cert = NoCert)
      /\ \A p \in Inst : checks[p] \in Nat
  BY OnlyGrows, Numbers DEF Inv, ServedIsRenewed
<1>1. CASE Tick
  <2>1. UNCHANGED <<cert, made, pc, checks, restarts>>
    BY <1>1 DEF Tick
  <2>2. CASE lock = NoLock
    <3>1. lock' = NoLock
      BY <1>1, <2>2 DEF Tick
    <3> QED
      BY <2>1, <2>2, <3>1 DEF OwnerInv, Slept
  <2>3. CASE lock # NoLock
    <3>1. /\ lock' # NoLock /\ lock'.owner = lock.owner /\ lock'.serial = lock.serial
          /\ lock'.left <= Lifetime + Offset[lock.owner]
      <4>1. lock'.left <= lock.left /\ lock'.left \in Int /\ lock.left \in Int
            /\ Offset[lock.owner] \in Int /\ Lifetime \in Int
        BY <1>0, <1>1, <2>3, TickLeft, OlderType, Numbers DEF TypeOK, Lock, L!Floor
      <4>2. lock.left <= Lifetime + Offset[lock.owner]
        BY <2>3 DEF OwnerInv
      <4> QED
        BY <1>0, <1>1, <2>3, <4>1, <4>2, TickLeft
    <3> QED
      BY <2>1, <2>3, <3>1 DEF OwnerInv
  <2> QED
    BY <2>2, <2>3
<1>2. ASSUME NEW p \in Inst, Boot(p) PROVE OwnerInv'
  <2>1. /\ checks[p] = 0
    BY <1>2 DEF Boot, Inv, CheckInv
  <2>2. PICK l : Goto(p, l) /\ l \in {"gaveUp", "getCert"}
    BY <1>2 DEF Boot, Check
  <2>3. checks'[p] < 2 /\ \A q \in Inst \ {p} : checks'[q] = checks[q]
    BY <1>0, <1>2, <2>1 DEF Boot, Check, TypeOK
  <2>4. pc[p] = "off" /\ UNCHANGED <<lock, made, cert, restarts>>
    BY <1>2 DEF Boot, Check
  <2>5. ~(cert' = NoCert /\ restarts' = 0 /\ lock # NoLock /\ lock.owner = p)
    BY <2>4 DEF OwnerInv
  <2> QED
    BY <1>0, <2>2, <2>3, <2>4, <2>5, OwnerKept
<1>3. ASSUME NEW p \in Inst, Wake(p) PROVE OwnerInv'
  <2>1. PICK l : Goto(p, l) /\ l \in {"gaveUp", "getCert"}
    BY <1>3 DEF Wake, Check
  <2>2. \A q \in Inst \ {p} : checks'[q] = checks[q]
    BY <1>0, <1>3 DEF Wake, Check, TypeOK
  <2>3. pc[p] = "nap" /\ UNCHANGED <<lock, made, cert, restarts>>
    BY <1>3 DEF Wake, Check
  <2>4. ~(cert' = NoCert /\ restarts' = 0 /\ lock # NoLock /\ lock.owner = p)
    BY <2>3 DEF OwnerInv
  <2>5. ~(cert' = NoCert /\ restarts' = 0 /\ lock = NoLock)
    BY <2>3 DEF OwnerInv, Slept
  <2> QED
    BY <1>0, <2>1, <2>2, <2>3, <2>4, <2>5, OwnerKept
<1>4. ASSUME NEW p \in Inst, GetCert(p) \/ DecryptCert(p) PROVE OwnerInv'
  <2>1. PICK l : Goto(p, l) /\ l \in {"decrypt", "readLock", "done"}
    BY <1>4 DEF GetCert, DecryptCert
  <2>2. pc[p] \in {"getCert", "decrypt"} /\ UNCHANGED <<lock, made, cert, restarts, checks>>
    BY <1>4 DEF GetCert, DecryptCert
  <2>3. ~(cert' = NoCert /\ restarts' = 0 /\ lock # NoLock /\ lock.owner = p)
    BY <2>2 DEF OwnerInv
  <2>4. cert' = NoCert /\ restarts' = 0 /\ lock = NoLock => checks'[p] < 2
    BY <1>0, <2>2 DEF OwnerInv, Slept
  <2> QED
    BY <1>0, <2>1, <2>2, <2>3, <2>4, OwnerKept
<1>5. ASSUME NEW p \in Inst, ReadLock(p) PROVE OwnerInv'
  <2>1. pc[p] = "readLock" /\ UNCHANGED <<lock, cert, restarts, checks>>
    BY <1>5 DEF ReadLock
  <2>2. ~(cert' = NoCert /\ restarts' = 0 /\ lock # NoLock /\ lock.owner = p)
    BY <2>1 DEF OwnerInv
  <2>3. cert' = NoCert /\ restarts' = 0 /\ lock = NoLock => checks'[p] < 2
    BY <1>0, <2>1 DEF OwnerInv, Slept
  <2>4. CASE Goto(p, "nap") /\ UNCHANGED made /\ ~L!IsFree(p)
    <3>1. lock # NoLock
      BY <1>0, <2>4, FreeIs
    <3> QED
      BY <1>0, <2>1, <2>2, <2>4, <3>1, OwnerKept
  <2>5. CASE Goto(p, "write") /\ made' = [made EXCEPT ![p] = @ + 1]
    <3>1. pc'[p] = "write" /\ \A q \in Inst \ {p} : pc'[q] = pc[q] /\ made'[q] = made[q]
      BY <1>0, <2>5 DEF Goto, TypeOK
    <3>2. made'[p] > 0
      BY <1>0, <2>5, Numbers DEF TypeOK
    <3>3. lock # NoLock => lock.owner \in Inst
      BY <1>0, Numbers
    <3>4. \A q \in Inst : pc'[q] \in Taking \cup Creating \cup {"delete"} => made'[q] > 0
      BY <3>1, <3>2 DEF OwnerInv
    <3>5. \A q \in Inst : pc'[q] = "delete" => cert' # NoCert
      BY <2>1, <3>1 DEF OwnerInv
    <3>6. lock' # NoLock => /\ lock'.left <= Lifetime + Offset[lock'.owner]
                            /\ made'[lock'.owner] > 0
      BY <2>1, <3>1, <3>2, <3>3 DEF OwnerInv
    <3>7. restarts' = 0 /\ cert' = NoCert /\ lock' # NoLock =>
          /\ lock'.serial = made'[lock'.owner]
          /\ pc'[lock'.owner] \in Taking \cup Creating \cup {"dead"}
      BY <2>1, <2>2, <3>1, <3>3 DEF OwnerInv
    <3>8. restarts' = 0 /\ cert' = NoCert /\ lock' = NoLock =>
          \A q \in Inst : ~Slept(q)' /\ pc'[q] \notin {"settle"} \cup Creating
      BY <2>1, <3>1 DEF OwnerInv, Slept
    <3> QED
      BY <3>4, <3>5, <3>6, <3>7, <3>8 DEF OwnerInv
  <2> QED
    BY <1>5, <2>4, <2>5 DEF ReadLock
<1>6. ASSUME NEW p \in Inst, WriteLock(p) PROVE OwnerInv'
  BY <1>0, <1>6, OwnerWritten DEF WriteLock
<1>7. ASSUME NEW p \in Inst, CheckPersisted(p) PROVE OwnerInv'
  <2>1. pc[p] = "settle" /\ UNCHANGED <<lock, cert, restarts, checks, made>>
    BY <1>7 DEF CheckPersisted
  <2>2. ~(cert' = NoCert /\ restarts' = 0 /\ lock = NoLock)
    BY <2>1 DEF OwnerInv
  <2>3. CASE Goto(p, "order")
    BY <1>0, <2>1, <2>2, <2>3, OwnerKept
  <2>4. CASE Goto(p, "nap") /\ ~L!IsMine(p)
    <3>1. ~(cert' = NoCert /\ restarts' = 0 /\ lock # NoLock /\ lock.owner = p)
      BY <1>0, <2>1, <2>4, MineIs DEF OwnerInv
    <3> QED
      BY <1>0, <2>1, <2>2, <2>4, <3>1, OwnerKept
  <2> QED
    BY <1>7, <2>3, <2>4 DEF CheckPersisted
<1>8. ASSUME NEW p \in Inst, OrderCertificate(p) \/ EncryptCert(p) PROVE OwnerInv'
  <2>1. PICK l : Goto(p, l) /\ l \in {"encrypt", "putCert"}
    BY <1>8 DEF OrderCertificate, EncryptCert
  <2>2. pc[p] \in {"order", "encrypt"} /\ UNCHANGED <<lock, made, cert, restarts, checks>>
    BY <1>8 DEF OrderCertificate, EncryptCert
  <2>3. ~(cert' = NoCert /\ restarts' = 0 /\ lock = NoLock)
    BY <2>2 DEF OwnerInv
  <2> QED
    BY <1>0, <2>1, <2>2, <2>3, OwnerKept
<1>9. \A p \in Inst : Encrypted(p) # NoCert
  BY AbsentIsAbsent DEF Encrypted
<1>10. ASSUME NEW p \in Inst, PutCert(p) PROVE OwnerInv'
  <2>1. /\ Goto(p, "delete") /\ cert' # NoCert /\ pc[p] = "putCert"
        /\ UNCHANGED <<lock, made, checks>>
    BY <1>9, <1>10 DEF PutCert
  <2> QED
    BY <1>0, <2>1, OwnerKept
<1>11. ASSUME NEW p \in Inst, DeleteLock(p) PROVE OwnerInv'
  BY <1>0, <1>11, OwnerDeleted DEF DeleteLock
<1>12. ASSUME NEW p \in Inst, pc[p] # "off", Goto(p, "dead"), UNCHANGED <<lock, made, checks>>
       PROVE  OwnerInv'
  <2>1. cert' = NoCert /\ restarts' = 0 /\ lock = NoLock => checks'[p] < 2
    BY <1>0, <1>12 DEF OwnerInv, Slept, TypeOK
  <2> QED
    BY <1>0, <1>12, <2>1, OwnerKept
<1>13. ASSUME NEW p \in Inst, Die(p) PROVE OwnerInv'
  BY <1>12, <1>13 DEF Die
<1>14. ASSUME NEW p \in Inst, CallFails(p) PROVE OwnerInv'
  <2>1. /\ UNCHANGED <<made, checks, restarts>> /\ (UNCHANGED pc \/ Goto(p, "dead"))
        /\ pc[p] # "off"
    BY <1>14 DEF CallFails, StorageCalls
  <2>2. CASE UNCHANGED lock
    <3>1. CASE UNCHANGED pc
      BY <1>0, <2>1, <2>2, <3>1 DEF OwnerInv, Slept
    <3>2. CASE Goto(p, "dead")
      BY <1>12, <2>1, <2>2, <3>2
    <3> QED
      BY <2>1, <3>1, <3>2
  <2>3. CASE pc[p] = "write" /\ lock' = NewLock(p) /\ UNCHANGED cert
    BY <1>0, <2>1, <2>3, OwnerWritten
  <2>4. CASE pc[p] = "delete" /\ lock' = NoLock /\ UNCHANGED cert
    BY <1>0, <2>1, <2>4, OwnerDeleted
  <2> QED
    BY <1>14, <2>2, <2>3, <2>4 DEF CallFails, Applied
<1>15. ASSUME NEW p \in Inst, Restart(p) PROVE OwnerInv'
  <2>1. /\ Goto(p, "off") /\ UNCHANGED <<lock, made, cert>> /\ restarts' # 0
        /\ \A q \in Inst \ {p} : checks'[q] = checks[q]
    BY <1>0, <1>15 DEF Restart, TypeOK
  <2> QED
    BY <1>0, <2>1, OwnerKept
<1>16. CASE UNCHANGED vars
  BY <1>16 DEF vars, OwnerInv, Slept
<1> QED
  BY <1>1, <1>2, <1>3, <1>4, <1>5, <1>6, <1>7, <1>8, <1>10, <1>11, <1>13, <1>14,
     <1>15, <1>16 DEF Next, Step

-----------------------------------------------------------------------------
(* Somebody else moves and leaves the lock alone. *)
LEMMA WaitKept ==
  ASSUME NEW p \in Inst, WaitInv(p), TypeOK, UNCHANGED lock,
         pc'[p] = pc[p], age'[p] = age[p], checks'[p] = checks[p],
         \A q \in Inst \ {p} : pc'[q] \in Taking => pc[q] = pc'[q] /\ age'[q] = age[q]
  PROVE  WaitInv(p)'
<1>1. NapTime(p)' = NapTime(p) /\ (Slept(p)' <=> Slept(p))
  BY DEF NapTime, Slept
<1>2. pc[p] \in Looking \cup Taking => WritesAreOld(p)'
  BY <1>1 DEF WaitInv, WritesAreOld, Taking
<1>3. pc[p] \in Looking /\ Slept(p) => WaitsForLock(p)'
  BY <1>1 DEF WaitInv, WaitsForLock
<1>4. pc[p] \in Taking /\ Slept(p) => TakesOver(p)'
  BY <1>1 DEF WaitInv, TakesOver
<1> QED
  BY <1>1, <1>2, <1>3, <1>4 DEF WaitInv

(* A step of one instance leaves the others where they are. *)
LEMMA OthersAlone ==
  ASSUME TypeOK, NEW q \in Inst,
         \/ Boot(q) \/ Step(q) \/ CallFails(q) \/ Die(q) \/ Restart(q)
  PROVE  \A r \in Inst \ {q} : /\ pc'[r] = pc[r] /\ age'[r] = age[r]
                               /\ checks'[r] = checks[r] /\ made'[r] = made[r]
<1>1. /\ UNCHANGED pc \/ \E l : Goto(q, l)
      /\ UNCHANGED age \/ Clock(q)
      /\ UNCHANGED checks \/ \E n : checks' = [checks EXCEPT ![q] = n]
      /\ UNCHANGED made \/ \E n : made' = [made EXCEPT ![q] = n]
  BY DEF Step, Boot, Wake, Check, GetCert, DecryptCert, ReadLock, WriteLock,
         CheckPersisted, OrderCertificate, EncryptCert, PutCert, DeleteLock,
         CallFails, Die, Restart
<1> QED
  BY <1>1 DEF Goto, Clock, TypeOK

(* A second passes for one who waits. *)
LEMMA WaitTick ==
  ASSUME NEW p \in Inst, WaitInv(p), OwnerInv, Inv, slow = {}, TypeOK', Tick
  PROVE  WaitInv(p)'
<1> USE DEF Inv, ServedIsRenewed
<1>0. /\ UNCHANGED <<pc, checks, made>> /\ age[p] \in Nat /\ checks[p] \in Nat
      /\ NapTime(p) \in Nat
  BY Numbers DEF Tick
<1>1. NapTime(p)' \in Nat /\ NapTime(p)' <= NapTime(p) + 1 /\ (Slept(p)' <=> Slept(p))
  <2>1. age'[p] \in Nat /\ age'[p] <= age[p] + 1 /\ Naps(checks[p]) \in Nat
    BY <1>0, NapsGrow, TickAges
  <2>2. NapTime(p)' = Naps(checks[p]) + IF pc[p] = "nap" THEN age'[p] ELSE 0
    BY <1>0 DEF NapTime
  <2> QED
    BY <1>0, <2>1, <2>2 DEF NapTime, Slept
<1>2. \A q \in Inst : pc[q] = "write" => age'[q] = age[q] + 1 /\ age[q] \in Nat
  <2> SUFFICES ASSUME NEW q \in Inst, pc[q] = "write"
               PROVE  age'[q] = age[q] + 1 /\ age[q] \in Nat
    OBVIOUS
  <2>1. L!Timed(q) /\ L!Limit(q) \in Nat /\ age[q] \in Nat
    BY Phases, TickAges, Numbers DEF L!Timed, LockPhase
  <2>2. ~(age[q] > L!Limit(q))
    BY <2>1 DEF SlowInv
  <2> QED
    BY <2>1, <2>2, TickAges
<1>3. WritesAreOld(p) => WritesAreOld(p)'
  BY <1>0, <1>1, <1>2 DEF WritesAreOld
<1>4. ASSUME lock # NoLock
      PROVE  /\ lock' # NoLock /\ lock'.owner = lock.owner
             /\ lock.left \in Int /\ lock'.left \in Int /\ lock'.left <= lock.left
             /\ lock'.left = lock.left - 1 \/ lock'.left < Offset[p]
  <2>1. lock'.left \in Int
    BY <1>4, OlderType DEF Lock, L!Floor
  <2> QED
    BY <1>4, <2>1, TickLeft, Numbers
<1>5. Offset[p] \in Int /\ Lifetime \in Int
      /\ (lock # NoLock => Offset[lock.owner] \in Int)
  BY Numbers
<1>6. WaitsForLock(p) => WaitsForLock(p)'
  <2> SUFFICES ASSUME WaitsForLock(p) PROVE WaitsForLock(p)'
    OBVIOUS
  <2>1. lock # NoLock /\ lock.owner # p
    BY DEF WaitsForLock
  <2>2. \/ NapTime(p)' + lock'.left <= Lifetime + Offset[lock.owner]
        \/ lock'.left < Offset[p]
    BY <1>0, <1>1, <1>4, <1>5, <2>1 DEF WaitsForLock
  <2> QED
    BY <1>4, <2>1, <2>2 DEF WaitsForLock
<1>7. TakesOver(p) => TakesOver(p)'
  <2> SUFFICES ASSUME TakesOver(p) PROVE TakesOver(p)'
    OBVIOUS
  <2>1. lock # NoLock
    BY DEF TakesOver
  <2>2. pc[p] = "write" => lock'.left < Offset[p]
    BY <1>4, <1>5, <2>1 DEF TakesOver
  <2> QED
    BY <1>0, <1>4, <2>1, <2>2 DEF TakesOver
<1> QED
  BY <1>0, <1>1, <1>3, <1>6, <1>7 DEF WaitInv

(* Another instance finds the lock free: p has not slept, for the lock that *)
(* it would sleep on is of a rival that is at work or dead.                 *)
LEMMA WaitRead ==
  ASSUME NEW p \in Inst, NEW q \in Inst \ {p}, LP!SettlesInTime, LP!SettleInv,
         WaitInv(p), OwnerInv, TypeOK, TypeOK',
         restarts = 0, cert = NoCert,
         HasOneRival(p)', ReadLock(q), Goto(q, "write"), L!IsFree(q),
         made' = [made EXCEPT ![q] = @ + 1]
  PROVE  WaitInv(p)'
<1>1. /\ pc[q] = "readLock" /\ UNCHANGED <<lock, checks>>
      /\ \A r \in Inst \ {q} : pc'[r] = pc[r] /\ age'[r] = age[r] /\ made'[r] = made[r]
      /\ made'[q] > 0
  BY Numbers DEF ReadLock, Goto, Clock, TypeOK
<1>2. ASSUME lock # NoLock, lock.owner # p PROVE FALSE
  <2>1. lock.owner \in Inst /\ made[lock.owner] > 0
    BY <1>2, Numbers DEF OwnerInv
  <2>2. lock.owner # q
    BY <1>1, <1>2 DEF OwnerInv, Taking, Creating
  <2>3. made'[lock.owner] > 0
    BY <1>1, <2>1, <2>2
  <2> QED
    BY <1>1, <1>2, <2>1, <2>2, <2>3 DEF HasOneRival
<1>3. ASSUME pc[p] \in Looking \cup Taking PROVE ~Slept(p)
  <2> SUFFICES ASSUME Slept(p) PROVE FALSE
    OBVIOUS
  <2>1. CASE pc[p] \in Looking
    BY <1>2, <2>1 DEF WaitInv, WaitsForLock
  <2>2. CASE pc[p] = "write"
    BY <1>2, <2>2 DEF WaitInv, TakesOver, Taking
  <2>3. CASE pc[p] = "settle"
    <3>1. lock # NoLock /\ lock.owner = p
      BY <2>3 DEF WaitInv, TakesOver, Taking
    <3>2. lock.serial = made[p] /\ pc[p] \in Taking
      BY <2>3, <3>1 DEF OwnerInv, Taking
    <3>3. Offset[q] <= lock.left
      BY <3>1, <3>2, TakenIsValid
    <3> QED
      BY <3>1, <3>3, FreeIs, Numbers
  <2> QED
    BY <1>3, <2>1, <2>2, <2>3 DEF Taking
<1>4. /\ Slept(p)' <=> Slept(p)
      /\ NapTime(p)' = NapTime(p)
  BY <1>1 DEF Slept, NapTime
<1>5. pc[p] \in Looking \cup Taking => NapTime(p)' = 0
  BY <1>3, <1>4, NotSlept
<1>6. \A r \in Inst : age'[r] >= 0
  BY DEF TypeOK
<1> QED
  BY <1>1, <1>3, <1>4, <1>5, <1>6 DEF WaitInv, WritesAreOld

(* Another instance's lock lands in the store. *)
LEMMA WaitWritten ==
  ASSUME NEW p \in Inst, NEW q \in Inst \ {p}, WaitInv(p), OwnerInv, TypeOK, TypeOK',
         pc[q] = "write", lock' = NewLock(q),
         pc'[p] = pc[p], age'[p] = age[p], checks'[p] = checks[p],
         \A r \in Inst \ {p} : pc'[r] = "write" => pc[r] = "write" /\ age'[r] = age[r]
  PROVE  WaitInv(p)'
<1>1. NapTime(p)' = NapTime(p) /\ (Slept(p)' <=> Slept(p)) /\ NapTime(p) \in Nat
  BY Numbers DEF NapTime, Slept
<1>2. pc[p] \in Looking \cup Taking => WritesAreOld(p)'
  BY <1>1 DEF WaitInv, WritesAreOld
<1>3. ~(pc[p] \in Taking /\ Slept(p))
  BY DEF WaitInv, TakesOver, Taking
<1>4. pc[p] \in Looking => WaitsForLock(p)'
  <2> SUFFICES ASSUME pc[p] \in Looking PROVE WaitsForLock(p)'
    OBVIOUS
  <2>1. NapTime(p) <= age[q]
    BY DEF WaitInv, WritesAreOld
  <2>2. lock' # NoLock /\ lock'.owner = q
    BY NewLockType
  <2>3. lock'.left = Lifetime + Offset[q] - age[q] \/ lock'.left < Offset[p]
    BY NewLockLeft
  <2>4. age[q] \in Nat /\ Offset[q] \in Int /\ Lifetime \in Int
    BY Numbers
  <2>5. lock'.left = Lifetime + Offset[q] - age[q] =>
            NapTime(p) + lock'.left <= Lifetime + Offset[q]
    BY <1>1, <2>1, <2>4
  <2> QED
    BY <1>1, <2>2, <2>3, <2>5 DEF WaitsForLock
<1> QED
  BY <1>1, <1>2, <1>3, <1>4 DEF WaitInv

(* p falls asleep on a lock of another that is valid on its clock, or that *)
(* was written over its own.                                               *)
LEMMA FallAsleep ==
  ASSUME NEW p \in Inst, ChecksOutlastLocks, LP!SettlesInTime,
         WaitInv(p), OwnerInv, TypeOK, TypeOK',
         cert = NoCert, restarts = 0, Goto(p, "nap"), Clock(p),
         UNCHANGED <<lock, checks, cert>>, checks[p] > 0,
         lock # NoLock, lock.owner # p,
         \/ pc[p] = "readLock" /\ Offset[p] <= lock.left
         \/ pc[p] = "settle" /\ ~Slept(p)
  PROVE  WaitInv(p)' /\ checks'[p] <= MaxChecks - 3
<1>1. /\ pc'[p] = "nap" /\ age'[p] = 0 /\ checks'[p] = checks[p] /\ pc[p] # "nap"
      /\ \A q \in Inst \ {p} : pc'[q] = pc[q] /\ age'[q] = age[q]
  BY DEF Goto, Clock, TypeOK
<1>2. NapTime(p)' = Naps(checks[p]) /\ NapTime(p) = Naps(checks[p])
  BY <1>1, Numbers, NapsGrow DEF NapTime
<1>3. NapTime(p) \in Nat /\ Offset[p] \in Int /\ Lifetime \in Nat /\ lock.left \in Int
      /\ lock.owner \in Inst /\ Offset[lock.owner] \in Int /\ checks[p] \in Nat \ {0}
  BY Numbers
<1>4. lock.left <= Lifetime + Offset[lock.owner]
  BY DEF OwnerInv
<1>5. /\ NapTime(p) + lock.left <= Lifetime + Offset[lock.owner] \/ lock.left < Offset[p]
      /\ NapTime(p) <= Lifetime + Offset[lock.owner] - Offset[p]
  <2>1. CASE Slept(p)
    <3>1. Offset[p] <= lock.left /\ WaitsForLock(p)
      BY <2>1 DEF WaitInv, Looking
    <3> QED
      BY <1>3, <3>1 DEF WaitsForLock
  <2>2. CASE ~Slept(p)
    <3>1. NapTime(p) = 0
      BY <2>2, NotSlept
    <3>2. 0 <= Lifetime + Offset[lock.owner] - Offset[p]
      <4>1. 2 * Lag + Settle + Offset[p] - Offset[lock.owner] <= Lifetime
        BY <1>3 DEF LP!SettlesInTime
      <4>2. Lag \in Nat /\ Settle \in Nat
        BY DurationsAreNat
      <4> QED
        BY <1>3, <4>1, <4>2
    <3> QED
      BY <1>3, <1>4, <3>1, <3>2
  <2> QED
    BY <2>1, <2>2
<1>6. checks[p] <= MaxChecks - 3
  BY <1>2, <1>3, <1>5, ChecksAreLeft
<1>7. WritesAreOld(p)'
  BY <1>1, <1>2 DEF WaitInv, WritesAreOld, Looking, Taking
<1>8. WaitsForLock(p)'
  BY <1>2, <1>5 DEF WaitsForLock
<1> QED
  BY <1>1, <1>6, <1>7, <1>8 DEF WaitInv, Looking, Taking

(* The steps of the others. *)
LEMMA SurvivorWaits ==
  ASSUME NEW p \in Inst, NEW q \in Inst \ {p}, LP!SettlesInTime, LP!SettleInv,
         SurvivorInv(p), OwnerInv, TypeOK, TypeOK', restarts = 0, HasOneRival(p)',
         cert' = NoCert => cert = NoCert, restarts' = 0,
         \/ Boot(q) \/ Step(q) \/ CallFails(q) \/ Die(q) \/ Restart(q)
  PROVE  SurvivorInv(p)'
<1>1. \A r \in Inst \ {q} : /\ pc'[r] = pc[r] /\ age'[r] = age[r]
                            /\ checks'[r] = checks[r] /\ made'[r] = made[r]
  BY OthersAlone
<1>2. LeftInv(p)'
  BY <1>1 DEF SurvivorInv, LeftInv
<1> SUFFICES ASSUME cert' = NoCert PROVE WaitInv(p)'
  BY <1>2 DEF SurvivorInv
<1>3. cert = NoCert /\ WaitInv(p)
  BY DEF SurvivorInv
<1>4. ASSUME UNCHANGED lock, pc'[q] \in Taking => pc[q] = pc'[q] /\ age'[q] = age[q]
      PROVE  WaitInv(p)'
  BY <1>1, <1>3, <1>4, WaitKept
<1>5. ASSUME NEW l, Goto(q, l), l \notin Taking, UNCHANGED lock PROVE WaitInv(p)'
  BY <1>4, <1>5 DEF Goto, TypeOK
<1>6. CASE \/ Boot(q) \/ Wake(q) \/ GetCert(q) \/ DecryptCert(q) \/ CheckPersisted(q)
           \/ OrderCertificate(q) \/ EncryptCert(q) \/ PutCert(q) \/ Die(q) \/ Restart(q)
  BY <1>5, <1>6 DEF Boot, Wake, Check, GetCert, DecryptCert, CheckPersisted,
     OrderCertificate, EncryptCert, PutCert, Die, Restart, Taking
<1>7. CASE ReadLock(q)
  <2>1. CASE Goto(q, "nap")
    BY <1>5, <1>7, <2>1 DEF ReadLock, Taking
  <2>2. CASE /\ Goto(q, "write") /\ L!IsFree(q)
             /\ made' = [made EXCEPT ![q] = @ + 1]
    BY <1>3, <1>7, <2>2, WaitRead
  <2> QED
    BY <1>7, <2>1, <2>2 DEF ReadLock
<1>8. pc[q] # "delete"
  BY <1>3 DEF OwnerInv
<1>9. ASSUME pc[q] = "write", lock' = NewLock(q),
             pc'[q] = "write" => age'[q] = age[q]
      PROVE  WaitInv(p)'
  BY <1>1, <1>3, <1>9, WaitWritten
<1>10. CASE WriteLock(q)
  BY <1>9, <1>10 DEF WriteLock, Goto, TypeOK
<1>11. CASE CallFails(q)
  <2>1. UNCHANGED <<pc, age>> \/ Goto(q, "dead")
    BY <1>11 DEF CallFails
  <2>2. CASE UNCHANGED lock
    BY <1>4, <1>5, <2>1, <2>2 DEF Taking
  <2>3. CASE pc[q] = "write" /\ lock' = NewLock(q)
    BY <1>9, <2>1, <2>3 DEF Goto, TypeOK
  <2> QED
    BY <1>8, <1>11, <2>2, <2>3 DEF CallFails, Applied
<1> QED
  BY <1>6, <1>7, <1>8, <1>10, <1>11 DEF Step, DeleteLock

(* The steps of a survivor itself. *)
LEMMA SurvivorMoves ==
  ASSUME NEW p \in Inst, ChecksOutlastLocks, LP!SettlesInTime, LP!SettleInv,
         SurvivorInv(p), Inv, OwnerInv, TypeOK', restarts = 0, HasOneRival(p),
         Boot(p) \/ Step(p)
  PROVE  SurvivorInv(p)'
<1> USE DEF Looking, Taking, Creating
<1>0. /\ TypeOK /\ checks[p] \in Nat /\ MaxChecks \in Nat /\ Poll \in Nat
      /\ age[p] \in Nat /\ NapTime(p) \in Nat
  BY Numbers DEF Inv, ServedIsRenewed
<1>1. \A q \in Inst \ {p} : pc'[q] = pc[q] /\ age'[q] = age[q] /\ checks'[q] = checks[q]
  BY <1>0, OthersAlone
<1>2. MaxChecks > 3
  <2>1. Offset[p] \in Int /\ Lifetime \in Nat
    BY <1>0, Numbers
  <2>2. 0 < (MaxChecks - 3) * Poll
    <3> DEFINE x == (MaxChecks - 3) * Poll
    <3>1. Lifetime + Offset[p] - Offset[p] < x
      BY DEF ChecksOutlastLocks
    <3>2. x \in Int
      BY <1>0
    <3> HIDE DEF x
    <3>3. 0 < x
      BY <2>1, <3>1, <3>2
    <3> QED
      BY <3>3 DEF x
  <2>3. ASSUME MaxChecks <= 3 PROVE FALSE
    <3>1. MaxChecks \in {0, 1, 2, 3}
      BY <1>0, <2>3
    <3>2. CASE MaxChecks = 0
      BY <1>0, <2>2, <3>2
    <3>3. CASE MaxChecks = 1
      BY <1>0, <2>2, <3>3
    <3>4. CASE MaxChecks = 2
      BY <1>0, <2>2, <3>4
    <3>5. CASE MaxChecks = 3
      BY <1>0, <2>2, <3>5
    <3> QED
      BY <3>1, <3>2, <3>3, <3>4, <3>5
  <2> QED
    BY <1>0, <2>3
<1>3. ASSUME NEW l, Goto(p, l), l \notin {"gaveUp"} \cup Looking \cup Taking
      PROVE  SurvivorInv(p)'
  <2>1. pc'[p] = l
    BY <1>0, <1>3 DEF Goto, TypeOK
  <2> QED
    BY <1>3, <2>1 DEF SurvivorInv, LeftInv, WaitInv
<1>4. CASE \/ DecryptCert(p) \/ OrderCertificate(p) \/ EncryptCert(p) \/ PutCert(p)
           \/ DeleteLock(p)
  BY <1>3, <1>4 DEF DecryptCert, OrderCertificate, EncryptCert, PutCert, DeleteLock
<1>5. CASE Boot(p)
  <2>1. checks[p] = 0
    BY <1>5 DEF Boot, Inv, CheckInv
  <2>2. checks'[p] = 1 /\ pc'[p] = "getCert"
    BY <1>0, <1>2, <1>5, <2>1 DEF Boot, Check, Goto, TypeOK
  <2>3. NapTime(p)' = 0 /\ ~Slept(p)'
    <3>1. Naps(1) = 0
      BY PollingIsNat DEF Naps
    <3> QED
      BY <2>2, <3>1 DEF NapTime, Slept
  <2>4. \A q \in Inst : age'[q] >= 0
    BY DEF TypeOK
  <2> QED
    BY <1>0, <1>2, <2>2, <2>3, <2>4 DEF SurvivorInv, LeftInv, WaitInv, WritesAreOld
<1>6. CASE Wake(p)
  <2>1. pc[p] = "nap" /\ age[p] >= Poll /\ checks[p] > 0 /\ checks[p] <= MaxChecks - 2
    BY <1>6 DEF Wake, SurvivorInv, LeftInv
  <2>2. checks'[p] = checks[p] + 1 /\ pc'[p] = "getCert" /\ UNCHANGED <<lock, cert>>
    BY <1>0, <1>6, <2>1 DEF Wake, Check, Goto, TypeOK
  <2>3. LeftInv(p)'
    BY <1>0, <2>1, <2>2 DEF SurvivorInv, LeftInv
  <2>4. NapTime(p)' <= NapTime(p) /\ NapTime(p)' \in Nat /\ Slept(p) /\ Slept(p)'
    <3>1. Naps(checks[p] + 1) = Naps(checks[p]) + Poll /\ Naps(checks[p]) \in Nat
      BY <1>0, <2>1, NapsGrow
    <3> QED
      BY <1>0, <2>1, <2>2, <3>1 DEF NapTime, Slept
  <2>5. ASSUME cert = NoCert PROVE WritesAreOld(p)' /\ WaitsForLock(p)'
    <3>1. WritesAreOld(p) /\ WaitsForLock(p)
      BY <2>1, <2>4, <2>5 DEF SurvivorInv, WaitInv
    <3>2. WritesAreOld(p)'
      <4>1. \A q \in Inst : age[q] \in Nat
        BY <1>0, Numbers
      <4> QED
        BY <1>0, <1>1, <2>4, <3>1, <4>1 DEF WritesAreOld
    <3>3. lock.left \in Int /\ Lifetime + Offset[lock.owner] \in Int
      BY <1>0, <3>1, Numbers DEF WaitsForLock
    <3> QED
      BY <1>0, <2>2, <2>4, <3>1, <3>2, <3>3 DEF WaitsForLock
  <2> QED
    BY <2>2, <2>3, <2>5 DEF SurvivorInv, WaitInv
<1>7. CASE GetCert(p)
  <2>1. CASE cert # NoCert
    BY <1>3, <1>7, <2>1 DEF GetCert
  <2>2. CASE cert = NoCert
    <3>1. /\ pc[p] = "getCert" /\ pc'[p] = "readLock" /\ UNCHANGED <<lock, cert, checks>>
      BY <1>0, <1>7, <2>2 DEF GetCert, Goto, TypeOK
    <3>2. NapTime(p)' = NapTime(p) /\ (Slept(p)' <=> Slept(p))
      BY <3>1 DEF NapTime, Slept
    <3>3. WritesAreOld(p) /\ (Slept(p) => WaitsForLock(p))
      BY <2>2, <3>1 DEF SurvivorInv, WaitInv
    <3>4. WritesAreOld(p)' /\ (Slept(p)' => WaitsForLock(p)')
      BY <1>1, <3>1, <3>2, <3>3 DEF WritesAreOld, WaitsForLock
    <3> QED
      BY <2>2, <3>1, <3>4 DEF SurvivorInv, LeftInv, WaitInv
  <2> QED
    BY <2>1, <2>2
<1>8. CASE ReadLock(p)
  <2>1. /\ pc[p] = "readLock" /\ UNCHANGED <<lock, cert, checks>> /\ Clock(p)
        /\ checks[p] > 0 /\ checks[p] <= MaxChecks - 2
    BY <1>8 DEF ReadLock, SurvivorInv, LeftInv
  <2>2. cert = NoCert /\ lock # NoLock => lock.owner # p
    BY <2>1 DEF OwnerInv
  <2>3. CASE Goto(p, "nap") /\ ~L!IsFree(p)
    <3>1. pc'[p] = "nap"
      BY <1>0, <2>3 DEF Goto, TypeOK
    <3>2. lock # NoLock /\ Offset[p] <= lock.left
      BY <1>0, <2>3, FreeIs, Numbers
    <3>3. cert = NoCert => WaitInv(p)' /\ checks'[p] <= MaxChecks - 3
      BY <1>0, <2>1, <2>2, <2>3, <3>2, FallAsleep DEF SurvivorInv
    <3> QED
      BY <2>1, <3>1, <3>3 DEF SurvivorInv, LeftInv
  <2>4. CASE Goto(p, "write") /\ L!IsFree(p)
    <3>1. pc'[p] = "write"
      BY <1>0, <2>4 DEF Goto, TypeOK
    <3>2. LeftInv(p)'
      BY <2>1, <3>1 DEF LeftInv
    <3>3. NapTime(p)' = NapTime(p) /\ (Slept(p)' <=> Slept(p))
      BY <2>1, <3>1 DEF NapTime, Slept
    <3>4. ASSUME cert = NoCert PROVE WritesAreOld(p)'
      BY <1>1, <2>1, <3>3, <3>4 DEF SurvivorInv, WaitInv, WritesAreOld
    <3>5. ASSUME cert = NoCert, Slept(p) PROVE TakesOver(p)'
      <4>1. lock # NoLock /\ lock.owner # p /\ lock.owner \in Inst
        BY <1>0, <2>1, <3>5, Numbers DEF SurvivorInv, WaitInv, WaitsForLock
      <4>2. lock.left < Offset[p]
        BY <1>0, <2>4, <4>1, FreeIs
      <4>3. pc[lock.owner] \notin Taking
        <5>1. lock.serial = made[lock.owner]
          BY <3>5, <4>1 DEF OwnerInv
        <5>2. pc[lock.owner] \in Taking => Offset[p] <= lock.left
          BY <1>0, <4>1, <5>1, TakenIsValid
        <5> QED
          BY <1>0, <4>1, <4>2, <5>2, Numbers
      <4>4. \A q \in Inst \ {p} : pc[q] \in Taking => q = lock.owner
        BY <4>1 DEF OwnerInv, HasOneRival
      <4> QED
        BY <1>1, <2>1, <3>1, <4>1, <4>2, <4>3, <4>4 DEF TakesOver
    <3> QED
      BY <2>1, <3>1, <3>2, <3>3, <3>4, <3>5 DEF SurvivorInv, WaitInv
  <2> QED
    BY <1>8, <2>3, <2>4 DEF ReadLock
<1>9. CASE WriteLock(p)
  <2>1. /\ pc[p] = "write" /\ pc'[p] = "settle" /\ UNCHANGED <<cert, checks>>
        /\ lock' = NewLock(p)
    BY <1>0, <1>9 DEF WriteLock, Goto, TypeOK
  <2>2. LeftInv(p)'
    BY <2>1 DEF SurvivorInv, LeftInv
  <2>3. NapTime(p)' = NapTime(p) /\ (Slept(p)' <=> Slept(p))
    BY <2>1 DEF NapTime, Slept
  <2>4. lock' # NoLock /\ lock'.owner = p
    BY <1>0, <2>1, NewLockType
  <2>5. ASSUME cert = NoCert PROVE WritesAreOld(p)'
    BY <1>1, <2>1, <2>3, <2>5 DEF SurvivorInv, WaitInv, WritesAreOld
  <2>6. ASSUME cert = NoCert, Slept(p) PROVE TakesOver(p)'
    BY <1>1, <2>1, <2>4, <2>6 DEF SurvivorInv, WaitInv, TakesOver
  <2> QED
    BY <2>1, <2>2, <2>3, <2>5, <2>6 DEF SurvivorInv, WaitInv
<1>10. CASE CheckPersisted(p)
  <2>1. /\ pc[p] = "settle" /\ UNCHANGED <<lock, cert, checks>> /\ Clock(p)
        /\ checks[p] > 0 /\ checks[p] <= MaxChecks - 2
    BY <1>10 DEF CheckPersisted, SurvivorInv, LeftInv
  <2>2. CASE Goto(p, "order")
    BY <1>3, <2>2
  <2>3. CASE Goto(p, "nap") /\ ~L!IsMine(p)
    <3>1. pc'[p] = "nap"
      BY <1>0, <2>3 DEF Goto, TypeOK
    <3>2. ASSUME cert = NoCert PROVE WaitInv(p)' /\ checks'[p] <= MaxChecks - 3
      <4>1. lock # NoLock /\ lock.owner # p
        BY <1>0, <2>1, <2>3, <3>2, MineIs DEF OwnerInv
      <4>2. ~Slept(p)
        BY <2>1, <3>2, <4>1 DEF SurvivorInv, WaitInv, TakesOver
      <4> QED
        BY <1>0, <2>1, <2>3, <3>2, <4>1, <4>2, FallAsleep DEF SurvivorInv
    <3> QED
      BY <2>1, <3>1, <3>2 DEF SurvivorInv, LeftInv
  <2> QED
    BY <1>10, <2>2, <2>3 DEF CheckPersisted
<1> QED
  BY <1>4, <1>5, <1>6, <1>7, <1>8, <1>9, <1>10 DEF Step

LEMMA PatienceStep ==
  ASSUME ChecksOutlastLocks, LP!SettlesInTime, slow = {} => LP!SettleInv, Inv, TypeOK',
         OwnerInv, PatienceInv, [Next]_vars
  PROVE  PatienceInv'
<1> SUFFICES ASSUME restarts' = 0, slow' = {}, NEW p \in Inst, p \notin failed', HasOneRival(p)'
             PROVE  SurvivorInv(p)'
  BY DEF PatienceInv
<1>1. TypeOK /\ slow = {} /\ LP!SettleInv
  BY SlowGrows DEF Inv, ServedIsRenewed
<1>2. /\ p \notin failed /\ restarts = 0 /\ (cert' = NoCert => cert = NoCert)
      /\ \A q \in Inst : made[q] <= made'[q]
  BY <1>1, OnlyGrows DEF TypeOK
<1>3. HasOneRival(p)
  <2>1. \A q \in Inst : made[q] \in Nat /\ made'[q] \in Nat
    BY <1>1 DEF TypeOK
  <2> QED
    BY <1>2, <2>1 DEF HasOneRival
<1>4. SurvivorInv(p)
  BY <1>1, <1>2, <1>3 DEF PatienceInv
<1>5. CASE Tick
  <2>1. LeftInv(p)' /\ UNCHANGED cert
    BY <1>4, <1>5 DEF Tick, SurvivorInv, LeftInv
  <2> QED
    BY <1>1, <1>4, <1>5, <2>1, WaitTick DEF SurvivorInv
<1>6. ASSUME NEW q \in Inst, q # p,
             \/ Boot(q) \/ Step(q) \/ CallFails(q) \/ Die(q) \/ Restart(q)
      PROVE  SurvivorInv(p)'
  BY <1>1, <1>2, <1>4, <1>6, SurvivorWaits
<1>7. CASE Boot(p) \/ Step(p)
  BY <1>1, <1>2, <1>3, <1>4, <1>7, SurvivorMoves
<1>8. ~CallFails(p) /\ ~Die(p) /\ ~Restart(p)
  BY <1>1, <1>2 DEF CallFails, Die, Restart, TypeOK
<1>9. CASE UNCHANGED vars
  BY <1>4, <1>9 DEF vars, SurvivorInv, LeftInv, WaitInv, WritesAreOld, WaitsForLock,
     TakesOver, NapTime, Slept
<1> QED
  BY <1>5, <1>6, <1>7, <1>8, <1>9 DEF Next

(* An instance that keeps running and has one rival gets a certificate     *)
(* before its checks are used up, however long the rival's order takes and *)
(* wherever the rival dies, if a lock expires before the last check but    *)
(* two.                                                                    *)
THEOREM SurvivorsDoNotGiveUp ==
  ASSUME LP!SettlesInTime, ChecksOutlastLocks PROVE Spec => []SurvivorNeverGivesUp
<1>1. Init => OwnerInv /\ PatienceInv
  <2> SUFFICES ASSUME Init PROVE OwnerInv /\ PatienceInv
    OBVIOUS
  <2>1. \A p \in Inst : pc[p] = "off" /\ checks[p] = 0
    BY DEF Init
  <2> QED
    BY <2>1 DEF Init, OwnerInv, PatienceInv, SurvivorInv, LeftInv, WaitInv, Slept,
       Looking, Taking, Creating
<1>2. /\ Inv /\ Inv' /\ (slow = {} => LP!SettleInv) /\ OwnerInv /\ PatienceInv
      /\ [Next]_vars
      => OwnerInv' /\ PatienceInv'
  BY OwnerStep, PatienceStep DEF Inv, ServedIsRenewed
<1>3. PatienceInv => SurvivorNeverGivesUp
  BY DEF PatienceInv, SurvivorNeverGivesUp, SurvivorInv, LeftInv
<1> QED
  BY <1>1, <1>2, <1>3, LockIsSettled, CertInvariant, PTL DEF Spec
=============================================================================
