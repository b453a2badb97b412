-------------------------- MODULE AcmeKeyPairProofs --------------------------
(***************************************************************************)
(* The key pair's invariants hold for any number of instances, any timing  *)
(* and any failures; its use of the lock is that of StorageLock, so what   *)
(* is proved there makes the two puts of a creator one step to the others  *)
(* as long as the lock is used in time.  And while nothing fails, nobody   *)
(* who waits for the pair runs out of checks.                              *)
(***************************************************************************)
EXTENDS AcmeKeyPair, TLAPS

(* What is proved of the storage lock, for the lock of the key pair. *)
LP == INSTANCE StorageLockProofs WITH phase <- LockPhase, age <- LockAge

USE DEF MaxTries

-----------------------------------------------------------------------------
(* Who has come how far in its loop, and what a check has found by then. *)
CheckInv(p) ==
    /\ pc[p] = "off" => checks[p] = 0
    /\ pc[p] \notin {"off", "gaveUp", "done", "dead"} => checks[p] < MaxChecks
    /\ pc[p] = "decrypt" => fetched[p].private # NoKey

(* Whoever deletes a lock has stored a private half, and the halves are      *)
(* never deleted: a creator finds its lock, or a later one, until then.      *)
CreatorInv(p) ==
    /\ pc[p] = "delete" => private # NoKey
    /\ pc[p] \in {"encrypt", "putPublic", "putPrivate"} => lock # NoLock \/ private # NoKey

(* A check that began with a whole pair finds its public half first. *)
LateInv(p) ==
    late[p] => /\ PairIsStored
               /\ pc[p] = "getPrivate" => fetched[p].public # NoKey
               /\ pc[p] \notin {"off", "readLock", "write", "settle"}

(* Only a call that has failed outstays its phase. *)
SlowInv(p) ==
    /\ tries[p] # 0 \/ p \in slow => p \in failed
    /\ L!Timed(p) /\ age[p] > L!Limit(p) => p \in slow

Inv ==
    /\ HalfPairIsLocked
    /\ \A p \in Inst : CheckInv(p) /\ CreatorInv(p) /\ LateInv(p) /\ SlowInv(p)

LEMMA PairIsKey ==
  ASSUME TypeOK, NEW p \in Inst
  PROVE  Pair(p) \in Pairs /\ Encrypted(Pair(p)) \in Object /\ Encrypted(Pair(p)) # NoKey
  BY AbsentIsAbsent DEF TypeOK, Pair, Pairs, Encrypted, Object

(* The numbers of the lock are those of StorageLock. *)
LEMMA LockAssumptions ==
  /\ LP!DurationsAreNat
  /\ LP!NoLockIsNoLock
  BY DurationsAreNat, AbsentIsAbsent DEF LP!Lock, LP!Floor, L!Lock, L!Floor

LEMMA LockTypes == TypeOK => LP!TypeOK
<1> SUFFICES ASSUME TypeOK PROVE LP!TypeOK
  OBVIOUS
<1>1. LockPhase \in [Inst -> LP!Phase]
  BY DEF LockPhase, PhaseOf, LP!Phase
<1>2. LockAge \in [Inst -> Nat]
  BY DEF LockAge, TypeOK
<1> QED
  BY <1>1, <1>2, FaultyAreInstances
  DEF TypeOK, LP!TypeOK, LP!Lock, LP!Floor, L!Lock, L!Floor

LEMMA LockOfIsLock ==
  ASSUME TypeOK, NEW p \in Inst
  PROVE  L!LockOf(p) \in L!Lock /\ L!LockOf(p) # NoLock
<1>1. LP!LockOf(p) \in LP!Lock
  BY LockTypes, LockAssumptions, LP!LockOfType
<1>2. L!LockOf(p) \in L!Lock
  BY <1>1 DEF LP!LockOf, LP!Lock, LP!Floor, L!LockOf, L!Lock, L!Floor
<1> QED
  BY <1>2, AbsentIsAbsent

LEMMA OlderIsLock ==
  ASSUME TypeOK
  PROVE  /\ L!Older(lock) \in L!Lock \cup {NoLock}
         /\ L!Older(lock) = NoLock <=> lock = NoLock
<1>1. CASE lock # NoLock /\ lock.left > L!Floor
  <2>1. [lock EXCEPT !.left = @ - 1] \in L!Lock
    BY <1>1, DurationsAreNat DEF TypeOK, L!Lock, L!Floor
  <2> QED
    BY <1>1, <2>1, AbsentIsAbsent DEF L!Older
<1>2. CASE ~(lock # NoLock /\ lock.left > L!Floor)
  BY <1>2 DEF L!Older, TypeOK
<1> QED
  BY <1>1, <1>2

-----------------------------------------------------------------------------
LEMMA InvInit == Init => Inv
<1> SUFFICES ASSUME Init PROVE Inv
  OBVIOUS
<1>1. TypeOK
  BY PollingIsNat, FaultyAreInstances, DurationsAreNat
     DEF Init, TypeOK, Object, PC, Nothing, L!Lock
<1> QED
  BY <1>1 DEF Init, Inv, HalfPairIsLocked, CheckInv, CreatorInv, LateInv, SlowInv,
              L!Timed, LockPhase, PhaseOf

(* An instance goes on to its next call. *)
LEMMA GotoType ==
  ASSUME TypeOK, NEW p \in Inst, NEW l \in PC, Goto(p, l)
  PROVE  pc' \in [Inst -> PC] /\ tries' \in [Inst -> 0..(MaxTries - 1)]
  BY DEF TypeOK, Goto

LEMMA ClockType ==
  ASSUME TypeOK, NEW p \in Inst, Clock(p) \/ UNCHANGED age
  PROVE  age' \in [Inst -> Nat]
  BY DEF TypeOK, Clock

(* How time passes for an instance. *)
LEMMA TickAges ==
  ASSUME TypeOK, Tick, NEW p \in Inst
  PROVE  /\ L!Limit(p) \in Nat
         /\ L!Timed(p) => LockAge[p] = age[p]
         /\ L!Timed(p) /\ age[p] <= L!Limit(p) => age'[p] = age[p] + 1
         /\ age'[p] = age[p] \/ age'[p] = age[p] + 1
         /\ p \in L!Overdue <=> L!Timed(p) /\ age[p] >= L!Limit(p)
<1>1. L!Timed(p) => LockAge[p] = age[p]
  BY DEF L!Timed, LockAge
<1>2. L!Limit(p) \in Nat
  BY DurationsAreNat DEF L!Limit
<1> QED
  BY <1>1, <1>2 DEF Tick, L!Aged, L!Overdue

(* Who is not done at the end of its time waits for its third try. *)
LEMMA OverdueHasFailed ==
  ASSUME TypeOK, Tick, NEW p \in Inst, SlowInv(p), p \in L!Overdue
  PROVE  p \in failed
<1>1. L!Timed(p) /\ age[p] >= L!Limit(p) /\ L!Limit(p) \in Nat /\ age[p] \in Nat
  BY TickAges DEF TypeOK
<1>2. CASE age[p] = L!Limit(p)
  <2>1. tries[p] = 2
    BY <1>1, <1>2 DEF Tick
  <2> QED
    BY <2>1 DEF SlowInv
<1>3. CASE age[p] > L!Limit(p)
  BY <1>1, <1>3 DEF SlowInv
<1> QED
  BY <1>1, <1>2, <1>3

(* The steps of one instance keep the types. *)
LEMMA TypeStep ==
  ASSUME Inv, [Next]_vars PROVE TypeOK'
<1> USE DEF Inv, HalfPairIsLocked, TypeOK, PC, Calls, Ended
<1>1. CASE Tick
  <2>1. age' \in [Inst -> Nat]
    <3>1. \A p \in Inst : age'[p] \in Nat
      BY <1>1, TickAges
    <3> QED
      BY <1>1, <3>1 DEF Tick
  <2>2. slow' \subseteq Faulty
    <3>1. \A p \in L!Overdue : p \in Inst
      BY DEF L!Overdue
    <3>2. \A p \in L!Overdue : p \in failed
      BY <1>1, <3>1, OverdueHasFailed
    <3> QED
      BY <1>1, <3>2 DEF Tick
  <2> QED
    BY <1>1, <2>1, <2>2, OlderIsLock DEF Tick
<1>2. ASSUME NEW p \in Inst, Boot(p) \/ Wake(p) PROVE TypeOK'
  <2>1. checks[p] + 1 \in 0..MaxChecks
    BY <1>2, PollingIsNat DEF Boot, Wake, CheckInv
  <2>2. Nothing \in [public : Object, private : Object]
    BY DEF Nothing, Object
  <2>3. PairIsStored \in BOOLEAN
    BY DEF PairIsStored
  <2>4. Check(p)
    BY <1>2 DEF Boot, Wake
  <2> QED
    BY <2>1, <2>2, <2>3, <2>4, GotoType, ClockType DEF Check
<1>3. ASSUME NEW p \in Inst, GetPublic(p) \/ GetPrivate(p) PROVE TypeOK'
  <2>1. fetched' \in [Inst -> [public : Object, private : Object]]
    BY <1>3 DEF GetPublic, GetPrivate
  <2> QED
    BY <1>3, <2>1, GotoType, ClockType DEF GetPublic, GetPrivate
<1>4. ASSUME NEW p \in Inst, DecryptKeyPair(p) PROVE TypeOK'
  <2>1. fetched[p].private \in [cipher : Pairs]
    BY <1>4 DEF DecryptKeyPair, CheckInv, Object
  <2>2. Decrypted(fetched[p].private) \in Pairs
    BY <2>1 DEF Decrypted
  <2> QED
    BY <1>4, <2>2, GotoType, ClockType DEF DecryptKeyPair
<1>5. ASSUME NEW p \in Inst, ReadLock(p) PROVE TypeOK'
  <2>1. made' \in [Inst -> 0..MaxLocks]
    BY <1>5, DurationsAreNat DEF ReadLock
  <2>2. pc' \in [Inst -> PC] /\ tries' \in [Inst -> 0..(MaxTries - 1)]
    BY <1>5, GotoType DEF ReadLock
  <2> QED
    BY <1>5, <2>1, <2>2, ClockType DEF ReadLock
<1>6. ASSUME NEW p \in Inst, WriteLock(p) PROVE TypeOK'
  BY <1>6, LockOfIsLock, GotoType, ClockType DEF WriteLock
<1>7. ASSUME NEW p \in Inst, CheckPersisted(p) \/ EncryptKeyPair(p) PROVE TypeOK'
  BY <1>7, GotoType, ClockType DEF CheckPersisted, EncryptKeyPair
<1>8. ASSUME NEW p \in Inst, PutPublic(p) \/ PutPrivate(p) PROVE TypeOK'
  BY <1>8, PairIsKey, GotoType, ClockType DEF PutPublic, PutPrivate
<1>9. ASSUME NEW p \in Inst, DeleteLock(p) PROVE TypeOK'
  BY <1>9, PairIsKey, GotoType, ClockType DEF DeleteLock
<1>10. ASSUME NEW p \in Inst, CallFails(p) PROVE TypeOK'
  <2>1. /\ lock' \in L!Lock \cup {NoLock}
        /\ public' \in Object /\ private' \in Object
    BY <1>10, PairIsKey, LockOfIsLock DEF CallFails, Applied
  <2>2. tries' \in [Inst -> 0..(MaxTries - 1)]
    BY <1>10 DEF CallFails, Goto
  <2> QED
    BY <1>10, <2>1, <2>2, GotoType, ClockType DEF CallFails
<1>11. ASSUME NEW p \in Inst, Die(p) PROVE TypeOK'
  BY <1>11, GotoType, ClockType DEF Die
<1>12. ASSUME NEW p \in Inst, Restart(p) PROVE TypeOK'
  <2>1. Nothing \in [public : Object, private : Object]
    BY DEF Nothing, Object
  <2>2. restarts' \in 0..MaxRestarts
    BY <1>12, FaultyAreInstances DEF Restart
  <2> QED
    BY <1>12, <2>1, <2>2, PollingIsNat, GotoType, ClockType DEF Restart
<1>13. CASE UNCHANGED vars
  BY <1>13 DEF vars
<1> QED
  BY <1>1, <1>2, <1>3, <1>4, <1>5, <1>6, <1>7, <1>8, <1>9, <1>10, <1>11, <1>12,
     <1>13 DEF Next, Step

(* A stored half is never taken away, and a lock only by a creator. *)
LEMMA StoreStep ==
  ASSUME Inv, [Next]_vars
  PROVE  /\ public # NoKey => public' # NoKey
         /\ private # NoKey => private' # NoKey
         /\ lock # NoLock => lock' # NoLock \/ private' # NoKey
         /\ public' # public => lock' # NoLock \/ private' # NoKey
<1> USE DEF Inv, HalfPairIsLocked
<1>1. CASE Tick
  BY <1>1, OlderIsLock DEF Tick
<1>2. ASSUME NEW p \in Inst, WriteLock(p) PROVE lock' # NoLock
  BY <1>2, LockOfIsLock DEF WriteLock
<1>3. ASSUME NEW p \in Inst, PutPublic(p)
      PROVE  public' # NoKey /\ (lock' # NoLock \/ private' # NoKey)
  BY <1>3, PairIsKey DEF PutPublic, CreatorInv
<1>4. ASSUME NEW p \in Inst, PutPrivate(p) PROVE private' # NoKey
  BY <1>4, PairIsKey DEF PutPrivate
<1>5. ASSUME NEW p \in Inst, DeleteLock(p) PROVE private' # NoKey
  BY <1>5 DEF DeleteLock, CreatorInv
<1>6. ASSUME NEW p \in Inst, CallFails(p)
      PROVE  /\ public # NoKey => public' # NoKey
             /\ private # NoKey => private' # NoKey
             /\ lock # NoLock => lock' # NoLock \/ private' # NoKey
             /\ public' # public => lock' # NoLock \/ private' # NoKey
  BY <1>6, PairIsKey, LockOfIsLock DEF CallFails, Applied, CreatorInv
<1>7. ASSUME NEW p \in Inst,
             \/ Boot(p) \/ Wake(p) \/ GetPublic(p) \/ GetPrivate(p) \/ DecryptKeyPair(p)
             \/ ReadLock(p) \/ CheckPersisted(p) \/ EncryptKeyPair(p) \/ Die(p) \/ Restart(p)
      PROVE  UNCHANGED <<public, private, lock>>
  BY <1>7 DEF Boot, Wake, Check, GetPublic, GetPrivate, DecryptKeyPair, ReadLock,
              CheckPersisted, EncryptKeyPair, Die, Restart
<1>8. CASE UNCHANGED vars
  BY <1>8 DEF vars
<1> QED
  BY <1>1, <1>2, <1>3, <1>4, <1>5, <1>6, <1>7, <1>8 DEF Next, Step, WriteLock, PutPublic,
     PutPrivate, DeleteLock

(* What a check has found and how many there were is the instance's own. *)
LEMMA CheckStep ==
  ASSUME Inv, [Next]_vars, NEW q \in Inst PROVE CheckInv(q)'
<1> USE DEF Inv, HalfPairIsLocked, TypeOK, CheckInv, Goto
<1>1. CASE Tick
  BY <1>1 DEF Tick
<1>2. ASSUME NEW p \in Inst, Boot(p) \/ Wake(p) PROVE CheckInv(q)'
  <2>1. Check(p) /\ checks[p] \in Nat /\ MaxChecks \in Nat
    BY <1>2, PollingIsNat DEF Boot, Wake
  <2> QED
    BY <2>1, PollingIsNat DEF Check, Nothing
<1>3. ASSUME NEW p \in Inst, GetPublic(p) \/ GetPrivate(p) PROVE CheckInv(q)'
  BY <1>3 DEF GetPublic, GetPrivate
<1>4. ASSUME NEW p \in Inst,
             \/ DecryptKeyPair(p) \/ ReadLock(p) \/ WriteLock(p) \/ CheckPersisted(p)
             \/ EncryptKeyPair(p) \/ PutPublic(p) \/ PutPrivate(p) \/ DeleteLock(p)
      PROVE  CheckInv(q)'
  BY <1>4 DEF DecryptKeyPair, ReadLock, WriteLock, CheckPersisted, EncryptKeyPair,
              PutPublic, PutPrivate, DeleteLock
<1>5. ASSUME NEW p \in Inst, CallFails(p) \/ Die(p) PROVE CheckInv(q)'
  BY <1>5 DEF CallFails, Die
<1>6. ASSUME NEW p \in Inst, Restart(p) PROVE CheckInv(q)'
  BY <1>6 DEF Restart
<1>7. CASE UNCHANGED vars
  BY <1>7 DEF vars
<1> QED
  BY <1>1, <1>2, <1>3, <1>4, <1>5, <1>6, <1>7 DEF Next, Step

LEMMA CreatorStep ==
  ASSUME Inv, [Next]_vars, NEW q \in Inst PROVE CreatorInv(q)'
<1> USE DEF Inv, HalfPairIsLocked, TypeOK, CreatorInv, Goto
<1>1. CASE Tick
  BY <1>1, StoreStep DEF Tick
<1>2. ASSUME NEW p \in Inst, CheckPersisted(p) PROVE CreatorInv(q)'
  BY <1>2 DEF CheckPersisted, L!IsMine
<1>3. ASSUME NEW p \in Inst, PutPrivate(p) PROVE CreatorInv(q)'
  BY <1>3, PairIsKey DEF PutPrivate
<1>4. ASSUME NEW p \in Inst,
             \/ Boot(p) \/ Wake(p) \/ GetPublic(p) \/ GetPrivate(p) \/ DecryptKeyPair(p)
             \/ ReadLock(p) \/ WriteLock(p) \/ EncryptKeyPair(p) \/ PutPublic(p)
             \/ DeleteLock(p) \/ CallFails(p) \/ Die(p) \/ Restart(p)
      PROVE  CreatorInv(q)'
  <2> DEFINE Moves ==
        \/ pc'[q] = pc[q]
        \/ pc'[q] \notin {"encrypt", "putPublic", "putPrivate", "delete"}
        \/ pc[q] \in {"encrypt", "putPublic"} /\ pc'[q] \in {"putPublic", "putPrivate"}
  <2>1. Moves
    <3>1. ASSUME NEW l, Goto(p, l),
                 \/ l \notin {"encrypt", "putPublic", "putPrivate", "delete"}
                 \/ pc[p] \in {"encrypt", "putPublic"} /\ l \in {"putPublic", "putPrivate"}
          PROVE  Moves
      BY <3>1
    <3>2. CASE Boot(p) \/ Wake(p)
      BY <3>1, <3>2 DEF Boot, Wake, Check
    <3>3. CASE GetPublic(p) \/ GetPrivate(p) \/ DecryptKeyPair(p) \/ ReadLock(p)
      BY <3>1, <3>3 DEF GetPublic, GetPrivate, DecryptKeyPair, ReadLock
    <3>4. CASE WriteLock(p) \/ DeleteLock(p) \/ EncryptKeyPair(p) \/ PutPublic(p)
      BY <3>1, <3>4 DEF WriteLock, DeleteLock, EncryptKeyPair, PutPublic
    <3>5. CASE CallFails(p) \/ Die(p) \/ Restart(p)
      BY <3>1, <3>5 DEF CallFails, Die, Restart
    <3> QED
      BY <1>4, <3>2, <3>3, <3>4, <3>5
  <2> QED
    BY <2>1, StoreStep
<1>5. CASE UNCHANGED vars
  BY <1>5 DEF vars
<1> QED
  BY <1>1, <1>2, <1>3, <1>4, <1>5 DEF Next, Step

LEMMA LateStep ==
  ASSUME Inv, [Next]_vars, NEW q \in Inst PROVE LateInv(q)'
<1> USE DEF Inv, HalfPairIsLocked, TypeOK, LateInv, Goto
<1>1. PairIsStored => PairIsStored'
  BY StoreStep DEF PairIsStored
<1>2. CASE Tick
  BY <1>1, <1>2 DEF Tick
<1>3. ASSUME NEW p \in Inst, Boot(p) \/ Wake(p) PROVE LateInv(q)'
  <2>1. Check(p)
    BY <1>3 DEF Boot, Wake
  <2> QED
    BY <1>1, <2>1 DEF Check
<1>4. ASSUME NEW p \in Inst, GetPublic(p) PROVE LateInv(q)'
  BY <1>1, <1>4 DEF GetPublic, PairIsStored
<1>5. ASSUME NEW p \in Inst, GetPrivate(p) PROVE LateInv(q)'
  BY <1>1, <1>5 DEF GetPrivate, PairIsStored
<1>6. ASSUME NEW p \in Inst,
             \/ DecryptKeyPair(p) \/ ReadLock(p) \/ WriteLock(p) \/ CheckPersisted(p)
             \/ EncryptKeyPair(p) \/ PutPublic(p) \/ PutPrivate(p) \/ DeleteLock(p)
      PROVE  LateInv(q)'
  BY <1>1, <1>6 DEF DecryptKeyPair, ReadLock, WriteLock, CheckPersisted, EncryptKeyPair,
              PutPublic, PutPrivate, DeleteLock
<1>7. ASSUME NEW p \in Inst, CallFails(p) \/ Die(p) PROVE LateInv(q)'
  BY <1>1, <1>7 DEF CallFails, Die
<1>8. ASSUME NEW p \in Inst, Restart(p) PROVE LateInv(q)'
  BY <1>1, <1>8 DEF Restart
<1>9. CASE UNCHANGED vars
  BY <1>1, <1>9 DEF vars
<1> QED
  BY <1>2, <1>3, <1>4, <1>5, <1>6, <1>7, <1>8, <1>9 DEF Next, Step

LEMMA SlowStep ==
  ASSUME Inv, [Next]_vars, NEW q \in Inst PROVE SlowInv(q)'
<1> USE DEF Inv, HalfPairIsLocked, TypeOK
<1>1. CASE Tick
  <2>1. UNCHANGED <<pc, tries, failed>> /\ slow' = slow \cup L!Overdue
    BY <1>1 DEF Tick
  <2>2. (L!Timed(q)' <=> L!Timed(q)) /\ L!Limit(q)' = L!Limit(q)
    BY <2>1 DEF L!Timed, L!Limit, LockPhase
  <2>3. q \in L!Overdue => q \in failed
    BY <1>1, OverdueHasFailed
  <2>4. L!Timed(q) /\ age'[q] > L!Limit(q) => q \in slow'
    BY <1>1, <2>1, TickAges DEF SlowInv
  <2> QED
    BY <2>1, <2>2, <2>3, <2>4 DEF SlowInv
<1>2. ASSUME NEW p \in Inst, NEW l \in PC, Goto(p, l), slow' = slow,
             failed \subseteq failed',
             Clock(p) \/ (UNCHANGED age /\ PhaseOf(l) \in {PhaseOf(pc[p]), "idle"})
      PROVE  SlowInv(q)'
  <2>1. CASE q # p
    <3>1. pc'[q] = pc[q] /\ tries'[q] = tries[q] /\ age'[q] = age[q]
      BY <1>2, <2>1 DEF Goto, Clock
    <3>2. (L!Timed(q)' <=> L!Timed(q)) /\ L!Limit(q)' = L!Limit(q)
      BY <3>1 DEF L!Timed, L!Limit, LockPhase
    <3> QED
      BY <1>2, <3>1, <3>2 DEF SlowInv
  <2>2. CASE q = p
    <3>1. tries'[q] = 0 /\ pc'[q] = l
      BY <1>2, <2>2 DEF Goto
    <3>2. L!Limit(q)' \in Nat
      BY DurationsAreNat DEF L!Limit
    <3>3. CASE age'[q] = 0
      BY <1>2, <3>1, <3>2, <3>3 DEF SlowInv
    <3>4. CASE age' = age /\ PhaseOf(l) = PhaseOf(pc[q])
      <4>1. (L!Timed(q)' <=> L!Timed(q)) /\ L!Limit(q)' = L!Limit(q)
        BY <3>1, <3>4 DEF L!Timed, L!Limit, LockPhase
      <4> QED
        BY <1>2, <3>1, <3>4, <4>1 DEF SlowInv
    <3>5. CASE PhaseOf(l) = "idle"
      <4>1. ~L!Timed(q)'
        BY <3>1, <3>5 DEF L!Timed, LockPhase
      <4> QED
        BY <1>2, <3>1, <4>1 DEF SlowInv
    <3> QED
      BY <1>2, <2>2, <3>3, <3>4, <3>5 DEF Clock
  <2> QED
    BY <2>1, <2>2
<1> USE DEF PC, Calls, Ended, PhaseOf
<1>3. ASSUME NEW p \in Inst, Boot(p) \/ Wake(p) PROVE SlowInv(q)'
  BY <1>2, <1>3 DEF Boot, Wake, Check
<1>4. ASSUME NEW p \in Inst, GetPublic(p) \/ GetPrivate(p) \/ DecryptKeyPair(p)
      PROVE  SlowInv(q)'
  BY <1>2, <1>4 DEF GetPublic, GetPrivate, DecryptKeyPair
<1>5. ASSUME NEW p \in Inst, ReadLock(p) \/ WriteLock(p) \/ CheckPersisted(p)
      PROVE  SlowInv(q)'
  BY <1>2, <1>5 DEF ReadLock, WriteLock, CheckPersisted
<1>6. ASSUME NEW p \in Inst, EncryptKeyPair(p) \/ PutPublic(p) PROVE SlowInv(q)'
  BY <1>2, <1>6 DEF EncryptKeyPair, PutPublic
<1>7. ASSUME NEW p \in Inst, PutPrivate(p) \/ DeleteLock(p) PROVE SlowInv(q)'
  BY <1>2, <1>7 DEF PutPrivate, DeleteLock
<1>8. ASSUME NEW p \in Inst, Die(p) \/ Restart(p) PROVE SlowInv(q)'
  BY <1>2, <1>8 DEF Die, Restart
<1>9. ASSUME NEW p \in Inst, CallFails(p) PROVE SlowInv(q)'
  <2>1. CASE Goto(p, "dead") /\ Clock(p)
    BY <1>2, <1>9, <2>1 DEF CallFails
  <2>2. CASE UNCHANGED <<pc, age>> /\ tries' = [tries EXCEPT ![p] = @ + 1]
    <3>1. (L!Timed(q)' <=> L!Timed(q)) /\ L!Limit(q)' = L!Limit(q)
      BY <2>2 DEF L!Timed, L!Limit, LockPhase
    <3> QED
      BY <1>9, <2>2, <3>1 DEF CallFails, SlowInv
  <2> QED
    BY <1>9, <2>1, <2>2 DEF CallFails
<1>10. CASE UNCHANGED vars
  BY <1>10 DEF vars, SlowInv, L!Timed, L!Limit, LockPhase
<1> QED
  BY <1>1, <1>3, <1>4, <1>5, <1>6, <1>7, <1>8, <1>9, <1>10 DEF Next, Step

(* As long as no call has failed nobody was slow. *)
LEMMA PromptUnlessFailed == ASSUME Inv, failed = {} PROVE slow = {}
  BY FaultyAreInstances DEF Inv, HalfPairIsLocked, TypeOK, SlowInv

LEMMA InvStep == Inv /\ [Next]_vars => Inv'
<1> SUFFICES ASSUME Inv, [Next]_vars PROVE Inv'
  OBVIOUS
<1>1. TypeOK'
  BY TypeStep
<1>2. (public' # NoKey /\ private' = NoKey) => lock' # NoLock
  BY StoreStep DEF Inv, HalfPairIsLocked
<1> QED
  BY <1>1, <1>2, CheckStep, CreatorStep, LateStep, SlowStep
  DEF Inv, HalfPairIsLocked

(* The inductive invariant, whatever the timing and the failures. *)
THEOREM KeyPairInvariant == Spec => []Inv
  BY InvInit, InvStep, PTL DEF Spec

(* Half a pair in the store has a lock beside it. *)
THEOREM HalfPairsAreLocked == Spec => []HalfPairIsLocked
<1>1. Inv => HalfPairIsLocked
  BY DEF Inv
<1> QED
  BY <1>1, KeyPairInvariant, PTL

(* Whose check began with a whole pair in the store does not go on to the *)
(* lock, and creates no other.                                            *)
THEOREM LatecomersCreateNoPair == Spec => []LatecomersCreateNoKey
<1>1. Inv => LatecomersCreateNoKey
  BY DEF Inv, LateInv, LatecomersCreateNoKey
<1> QED
  BY <1>1, KeyPairInvariant, PTL

-----------------------------------------------------------------------------
(* A step of one instance, seen by the lock. *)
LEMMA GotoPhase ==
  ASSUME TypeOK, NEW p \in Inst, NEW l, Goto(p, l)
  PROVE  /\ LockPhase' = [LockPhase EXCEPT ![p] = PhaseOf(l)]
         /\ LockPhase[p] = PhaseOf(pc[p])
  BY DEF TypeOK, Goto, LockPhase

LEMMA GotoAge ==
  ASSUME TypeOK, NEW p \in Inst, NEW l, Goto(p, l),
         Clock(p) \/ PhaseOf(l) \in {"idle", "gone"}, Clock(p) \/ UNCHANGED age
  PROVE  LockAge' = [LockAge EXCEPT ![p] = 0]
<1>1. \A q \in Inst \ {p} : LockPhase'[q] = LockPhase[q] /\ age'[q] = age[q]
  BY DEF Goto, Clock, TypeOK, LockPhase
<1>2. LockPhase'[p] = PhaseOf(l)
  BY GotoPhase DEF LockPhase
<1>3. LockAge'[p] = 0
  BY <1>2 DEF LockAge, Clock, TypeOK
<1> QED
  BY <1>1, <1>3 DEF LockAge

(* A step within a phase of the lock is none for the lock. *)
LEMMA SamePhase ==
  ASSUME TypeOK, NEW p \in Inst, NEW l, Goto(p, l), PhaseOf(l) = PhaseOf(pc[p]),
         UNCHANGED age \/ (Clock(p) /\ PhaseOf(l) = "idle")
  PROVE  UNCHANGED <<LockPhase, LockAge>>
<1>1. LockPhase' = LockPhase
  BY GotoPhase DEF LockPhase
<1>2. LockAge' = LockAge
  BY <1>1, GotoPhase DEF LockAge, Clock, TypeOK, LockPhase
<1> QED
  BY <1>1, <1>2

(* The phases of the calls. *)
LEMMA Phases ==
  /\ \A l \in {"off", "getPublic", "getPrivate", "decrypt", "readLock", "nap", "done",
               "gaveUp"} : PhaseOf(l) = "idle"
  /\ \A l \in {"encrypt", "putPublic", "putPrivate"} : PhaseOf(l) = "holding"
  /\ PhaseOf("write") = "writing" /\ PhaseOf("settle") = "settling"
  /\ PhaseOf("delete") = "deleting" /\ PhaseOf("dead") = "gone"
  BY DEF PhaseOf

(* A call of the lock that is applied but not heard of. *)
LEMMA UnheardIsLockStep ==
  ASSUME TypeOK, NEW p \in Inst, CallFails(p)
  PROVE  L!Next \/ UNCHANGED L!vars
<1>1. \/ UNCHANGED <<LockPhase, LockAge>>
      \/ L!Enter(p, "gone") /\ LockPhase[p] # "gone"
  <2>1. CASE UNCHANGED <<pc, age>>
    BY <2>1 DEF LockPhase, LockAge
  <2>2. CASE Goto(p, "dead") /\ Clock(p)
    <3>1. PhaseOf(pc[p]) # "gone"
      BY Phases DEF CallFails, Calls
    <3> QED
      BY <2>2, <3>1, Phases, GotoPhase, GotoAge DEF L!Enter
  <2> QED
    BY <2>1, <2>2 DEF CallFails
<1>2. UNCHANGED <<made, slow>>
  BY DEF CallFails
<1>3. CASE lock' = lock
  BY <1>1, <1>2, <1>3 DEF L!Next, L!Abandon, L!vars
<1>4. CASE pc[p] = "write" /\ lock' = L!LockOf(p)
  <2>1. LockPhase[p] = "writing"
    BY <1>4, Phases DEF LockPhase
  <2> QED
    BY <1>1, <1>2, <1>4, <2>1 DEF L!Next, L!WriteLockUnheard
<1>5. CASE pc[p] = "delete" /\ lock' = NoLock
  <2>1. LockPhase[p] = "deleting"
    BY <1>5, Phases DEF LockPhase
  <2> QED
    BY <1>1, <1>2, <1>5, <2>1 DEF L!Next, L!DeleteLockUnheard
<1> QED
  BY <1>3, <1>4, <1>5 DEF CallFails, Applied

LEMMA TickIsLockTick ==
  ASSUME TypeOK, Tick PROVE L!Tick
<1>1. UNCHANGED LockPhase
  BY DEF Tick, LockPhase
<1>2. \A p \in Inst : L!Timed(p) <=> LockPhase[p] \notin {"idle", "gone"}
  BY DEF L!Timed
<1>3. LockAge' = [p \in Inst |-> L!Aged(p)]
  <2>1. ASSUME NEW p \in Inst PROVE LockAge'[p] = L!Aged(p)
    <3>1. CASE L!Timed(p)
      BY <1>1, <1>2, <3>1 DEF LockAge, Tick
    <3>2. CASE ~L!Timed(p)
      BY <1>1, <1>2, <3>2 DEF LockAge, L!Aged
    <3> QED
      BY <3>1, <3>2
  <2> QED
    BY <2>1 DEF LockAge
<1> QED
  BY <1>1, <1>3 DEF Tick, L!Tick

(* Every step is a step of the lock, or none for it. *)
LEMMA StepIsLockStep ==
  ASSUME TypeOK, [Next]_vars PROVE [L!Next]_(L!vars)
<1>1. CASE Tick
  BY <1>1, TickIsLockTick DEF L!Next
<1>2. ASSUME NEW p \in Inst, NEW l, Goto(p, l), UNCHANGED <<lock, made, slow>>,
             PhaseOf(l) = PhaseOf(pc[p]),
             UNCHANGED age \/ (Clock(p) /\ PhaseOf(l) = "idle")
      PROVE  UNCHANGED L!vars
  BY <1>2, SamePhase DEF L!vars
<1>3. ASSUME NEW p \in Inst, Boot(p) \/ Wake(p) PROVE UNCHANGED L!vars
  BY <1>2, <1>3, Phases DEF Boot, Wake, Check
<1>4. ASSUME NEW p \in Inst,
             \/ GetPublic(p) \/ GetPrivate(p) \/ DecryptKeyPair(p)
             \/ EncryptKeyPair(p) \/ PutPublic(p)
      PROVE  UNCHANGED L!vars
  BY <1>2, <1>4, Phases DEF GetPublic, GetPrivate, DecryptKeyPair, EncryptKeyPair, PutPublic
<1>5. ASSUME NEW p \in Inst, NEW l, Goto(p, l), Clock(p)
      PROVE  L!Enter(p, PhaseOf(l)) /\ LockPhase[p] = PhaseOf(pc[p])
  BY <1>5, GotoPhase, GotoAge DEF L!Enter
<1>6. ASSUME NEW p \in Inst, ReadLock(p) PROVE L!Next \/ UNCHANGED L!vars
  <2>1. CASE Goto(p, "nap") /\ UNCHANGED made
    BY <1>2, <1>6, <2>1, Phases DEF ReadLock
  <2>2. CASE /\ L!IsFree(p) /\ made[p] < MaxLocks /\ Goto(p, "write")
             /\ made' = [made EXCEPT ![p] = @ + 1]
    <3>1. L!Enter(p, "writing") /\ LockPhase[p] = "idle" /\ UNCHANGED <<lock, slow>>
      BY <1>5, <1>6, <2>2, Phases DEF ReadLock
    <3> QED
      BY <2>2, <3>1 DEF L!Next, L!ReadFree
  <2> QED
    BY <1>6, <2>1, <2>2 DEF ReadLock
<1>7. ASSUME NEW p \in Inst, WriteLock(p) PROVE L!Next
  <2>1. L!Enter(p, "settling") /\ LockPhase[p] = "writing"
    BY <1>5, <1>7, Phases DEF WriteLock
  <2> QED
    BY <1>7, <2>1 DEF WriteLock, L!Next, L!WriteLock
<1>8. ASSUME NEW p \in Inst, CheckPersisted(p) PROVE L!Next
  <2>1. /\ L!Enter(p, IF L!IsMine(p) THEN "holding" ELSE "idle")
        /\ LockPhase[p] = "settling"
    BY <1>5, <1>8, Phases DEF CheckPersisted
  <2>2. LockAge[p] >= Settle
    BY <1>8, <2>1 DEF CheckPersisted, LockAge
  <2> QED
    BY <1>8, <2>1, <2>2 DEF CheckPersisted, L!Next, L!CheckPersisted
<1>9. ASSUME NEW p \in Inst, PutPrivate(p) PROVE L!Next
  <2>1. L!Enter(p, "deleting") /\ LockPhase[p] = "holding"
    BY <1>5, <1>9, Phases DEF PutPrivate
  <2> QED
    BY <1>9, <2>1 DEF PutPrivate, L!Next, L!StartDelete
<1>10. ASSUME NEW p \in Inst, DeleteLock(p) PROVE L!Next
  <2>1. L!Enter(p, "idle") /\ LockPhase[p] = "deleting"
    BY <1>5, <1>10, Phases DEF DeleteLock
  <2> QED
    BY <1>10, <2>1 DEF DeleteLock, L!Next, L!DeleteLock
<1>11. ASSUME NEW p \in Inst, Die(p) PROVE L!Next
  <2>1. PhaseOf(pc[p]) # "gone"
    BY <1>11 DEF Die, Ended, PhaseOf
  <2>2. L!Enter(p, "gone") /\ LockPhase[p] # "gone"
    BY <1>5, <1>11, <2>1, Phases DEF Die
  <2> QED
    BY <1>11, <2>2 DEF Die, L!Next, L!Abandon
<1>12. ASSUME NEW p \in Inst, Restart(p) PROVE L!Next
  <2>1. L!Enter(p, "idle") /\ LockPhase[p] = "gone"
    BY <1>5, <1>12, Phases DEF Restart
  <2> QED
    BY <1>12, <2>1 DEF Restart, L!Next, L!Return
<1>13. CASE UNCHANGED vars
  BY <1>13 DEF vars, L!vars, LockPhase, LockAge
<1> QED
  BY <1>1, <1>3, <1>4, <1>6, <1>7, <1>8, <1>9, <1>10, <1>11, <1>12, <1>13,
     UnheardIsLockStep DEF Next, Step

(* The creators of a key pair use the lock as StorageLock describes. *)
THEOREM KeyPairImplementsStorageLock == Spec => ImplementsStorageLock
<1>1. Init => L!Init
  BY Phases DEF Init, L!Init, LockPhase, LockAge
<1>2. Inv /\ [Next]_vars => [L!Next]_(L!vars)
  BY StepIsLockStep DEF Inv, HalfPairIsLocked
<1> QED
  BY <1>1, <1>2, KeyPairInvariant, PTL DEF Spec, ImplementsStorageLock, L!Spec

-----------------------------------------------------------------------------
(* The lock of LP is the lock of the model. *)
LEMMA SameLock ==
  /\ L!Init => LP!Init
  /\ [L!Next]_(L!vars) => [LP!Next]_(LP!vars)
  /\ L!Timely => LP!Timely
  BY DEF L!Init, LP!Init, L!Next, LP!Next, L!vars, LP!vars, L!Timely, LP!Timely,
         L!Tick, LP!Tick, L!Timed, LP!Timed, L!Limit, LP!Limit, L!Older, LP!Older,
         L!Floor, LP!Floor, L!Aged, LP!Aged, L!Outdated, LP!Outdated,
         L!Overdue, LP!Overdue, L!ReadFree, LP!ReadFree, L!IsFree, LP!IsFree,
         L!IsExpired, LP!IsExpired, L!WriteLock, LP!WriteLock, L!LockOf, LP!LockOf,
         L!WriteLockUnheard, LP!WriteLockUnheard, L!CheckPersisted, LP!CheckPersisted,
         L!IsMine, LP!IsMine, L!StartDelete, LP!StartDelete, L!DeleteLock, LP!DeleteLock,
         L!DeleteLockUnheard, LP!DeleteLockUnheard, L!Abandon, LP!Abandon,
         L!Return, LP!Return, L!Enter, LP!Enter

LEMMA KeyPairUsesLock == Spec => LP!Spec
  BY KeyPairImplementsStorageLock, SameLock, PTL DEF ImplementsStorageLock, L!Spec, LP!Spec

(* What the lock guarantees when it is used in time. *)
LEMMA LockIsKept == ASSUME L!Timely PROVE Spec => []LP!LockInv
<1>1. LP!Timely
  BY SameLock
<1>2. LP!Spec => []LP!LockInv
  BY <1>1, LockAssumptions, LP!LockInvariant
<1> QED
  BY <1>2, KeyPairUsesLock, PTL

(* The creation of the pair is exclusive: whatever the calls, failures,     *)
(* deaths and restarts of the instances, they own the lock of the key pair  *)
(* from the read-back to the delete as a Mutex is owned, if the lock is     *)
(* used in time.                                                            *)
THEOREM CreationIsExclusive == ASSUME L!Timely PROVE Spec => LP!ImplementsMutex
<1>1. LP!Timely
  BY SameLock
<1>2. LP!Spec => LP!ImplementsMutex
  BY <1>1, LockAssumptions, LP!LockImplementsMutex
<1> QED
  BY <1>2, KeyPairUsesLock, PTL

(* One creator at a time is between the read-back and its delete. *)
LEMMA OneCreator ==
  ASSUME LP!LockInv, slow = {}, NEW p \in Inst, NEW q \in Inst,
         pc[p] \in {"encrypt", "putPublic", "putPrivate"},
         pc[q] \in {"encrypt", "putPublic", "putPrivate"}
  PROVE  p = q
<1>1. LockPhase[p] = "holding" /\ LockPhase[q] = "holding"
  BY Phases DEF LockPhase
<1> QED
  BY <1>1 DEF LP!LockInv, LP!OwnerIsAlone, LP!IsMine

(* While no call has failed: what is stored is one pair, or a creator has *)
(* stored its public half and is about to store the private one.          *)
HalvesInv ==
    failed = {} =>
        /\ (\A p \in Inst : pc[p] # "putPrivate") => public = private
        /\ \A p \in Inst : pc[p] = "putPrivate" => public = Encrypted(Pair(p))

LEMMA HalvesStep ==
  ASSUME Inv, LP!LockInv, HalvesInv, [Next]_vars PROVE HalvesInv'
<1>0. TypeOK /\ (failed = {} => slow = {})
  BY PromptUnlessFailed DEF Inv, HalfPairIsLocked
<1> USE DEF HalvesInv, TypeOK, Goto, Pair
<1>1. CASE Tick \/ UNCHANGED vars
  BY <1>0, <1>1 DEF Tick, vars
<1>2. ASSUME NEW p \in Inst, Boot(p) \/ Wake(p) PROVE HalvesInv'
  <2>1. Check(p) /\ pc[p] # "putPrivate"
    BY <1>2 DEF Boot, Wake
  <2> QED
    BY <1>0, <2>1 DEF Check
<1>3. ASSUME NEW p \in Inst,
             GetPublic(p) \/ GetPrivate(p) \/ DecryptKeyPair(p)
      PROVE  HalvesInv'
  BY <1>0, <1>3 DEF GetPublic, GetPrivate, DecryptKeyPair
<1>4. ASSUME NEW p \in Inst,
             WriteLock(p) \/ CheckPersisted(p) \/ EncryptKeyPair(p) \/ DeleteLock(p)
      PROVE  HalvesInv'
  BY <1>0, <1>4 DEF WriteLock, CheckPersisted, EncryptKeyPair, DeleteLock
<1>5. ASSUME NEW p \in Inst, ReadLock(p) PROVE HalvesInv'
  BY <1>0, <1>5 DEF ReadLock
<1>6. ASSUME NEW p \in Inst, PutPublic(p) PROVE HalvesInv'
  <2>1. failed = {} => \A q \in Inst : pc'[q] = "putPrivate" => q = p
    BY <1>0, <1>6, OneCreator DEF PutPublic
  <2> QED
    BY <1>0, <1>6, <2>1 DEF PutPublic
<1>7. ASSUME NEW p \in Inst, PutPrivate(p) PROVE HalvesInv'
  <2>1. failed = {} => \A q \in Inst : pc'[q] # "putPrivate"
    BY <1>0, <1>7, OneCreator DEF PutPrivate
  <2>2. failed = {} => public' = private'
    BY <1>0, <1>7 DEF PutPrivate
  <2> QED
    BY <1>7, <2>1, <2>2 DEF PutPrivate
<1>8. ASSUME NEW p \in Inst, CallFails(p) \/ Die(p) PROVE HalvesInv'
  BY <1>0, <1>8 DEF CallFails, Die
<1>9. ASSUME NEW p \in Inst, Restart(p) PROVE HalvesInv'
  BY <1>0, <1>9 DEF Restart
<1> QED
  BY <1>1, <1>2, <1>3, <1>4, <1>5, <1>6, <1>7, <1>8, <1>9 DEF Next, Step

(* As long as no call fails the stored halves are of one pair, if the lock *)
(* is used in time.                                                        *)
THEOREM StoredHalvesAreOfOnePair ==
  ASSUME L!Timely PROVE Spec => []StoredHalvesMatch
<1>1. Init => HalvesInv
  BY DEF Init, HalvesInv
<1>2. Inv /\ LP!LockInv /\ HalvesInv /\ [Next]_vars => HalvesInv'
  BY HalvesStep
<1>3. HalvesInv => StoredHalvesMatch
  BY DEF HalvesInv, StoredHalvesMatch
<1> QED
  BY <1>1, <1>2, <1>3, LockIsKept, KeyPairInvariant, PTL DEF Spec

-----------------------------------------------------------------------------
(* Nobody runs out of checks.  Whoever sleeps between two checks has met a  *)
(* lock.  As long as no call fails its maker, or one who wrote over it, is  *)
(* on the way to a pair, and has been for as long as anybody has slept: the *)
(* times of the sleepers are bounded by those of the maker.                 *)

(* How long k checks have taken at least: the sleeps before the last one. *)
Naps(k) == IF k = 0 THEN 0 ELSE (k - 1) * Poll

(* How long p has slept, at least. *)
NapTime(p) == Naps(checks[p]) + IF pc[p] = "nap" THEN age[p] ELSE 0

Waited(d) == \A p \in Inst : NapTime(p) <= d

Creating(p) == pc[p] \in {"encrypt", "putPublic", "putPrivate"}

(* The pair is stored before anybody wakes for the last check but one. *)
CreationIsShort == 2 * Lag + Settle + Work < (MaxChecks - 2) * Poll

(* Where the creation of the pair has come to. *)
MakerInv ==
    IF lock = NoLock
    THEN \A p \in Inst : NapTime(p) = 0 /\ pc[p] \notin {"nap", "settle"}
    ELSE \E c \in Inst :
            /\ L!IsMine(c)
            /\ \/ pc[c] = "settle" /\ Waited(Lag + age[c])
               \/ Creating(c) /\ Waited(2 * Lag + Settle + age[c])

(* A pending write is of somebody who has found no lock. *)
WriterInv == \A q \in Inst : pc[q] = "write" => Waited(age[q])

TimeInv == ~PairIsStored => MakerInv /\ WriterInv

WaiterInv(p) ==
    /\ pc[p] \notin {"dead", "gaveUp"}
    /\ pc[p] # "off" => checks[p] >= 1
    /\ pc[p] = "putPrivate" => public # NoKey
    /\ pc[p] = "delete" => PairIsStored
    /\ late[p] => pc[p] # "nap"
    /\ checks[p] >= MaxChecks - 1 => late[p]

WaitInv == failed = {} => TimeInv /\ \A p \in Inst : WaiterInv(p)

LEMMA NapsGrow ==
  ASSUME NEW k \in Nat
  PROVE  Naps(k) \in Nat /\ Naps(k + 1) = Naps(k) + (IF k = 0 THEN 0 ELSE Poll)
<1>1. k * Poll = (k - 1) * Poll + Poll /\ Poll \in Nat
  BY PollingIsNat
<1>2. k # 0 => (k - 1) * Poll \in Nat
  BY PollingIsNat
<1>3. (k + 1) - 1 = k /\ k + 1 # 0
  OBVIOUS
<1> QED
  BY <1>1, <1>2, <1>3 DEF Naps

LEMMA NapTimeIsNat == ASSUME TypeOK, NEW p \in Inst PROVE NapTime(p) \in Nat
<1>1. checks[p] \in Nat /\ age[p] \in Nat
  BY DEF TypeOK
<1> QED
  BY <1>1, NapsGrow DEF NapTime

LEMMA ChecksSuffice ==
  ASSUME CreationIsShort
  PROVE  MaxChecks \in Nat /\ MaxChecks >= 3
         /\ 2 * Lag + Settle + Work < Naps(MaxChecks - 1)
<1>1. MaxChecks \in Nat /\ MaxChecks >= 3
  <2>1. MaxChecks = 1 => (MaxChecks - 2) * Poll <= 0
    BY PollingIsNat
  <2>2. MaxChecks = 2 => (MaxChecks - 2) * Poll = 0
    BY PollingIsNat
  <2>3. 2 * Lag + Settle + Work >= 0
    BY DurationsAreNat
  <2> QED
    BY <2>1, <2>2, <2>3, PollingIsNat, DurationsAreNat DEF CreationIsShort
<1>2. Naps(MaxChecks - 1) = (MaxChecks - 2) * Poll
  <2>1. MaxChecks - 1 # 0 /\ (MaxChecks - 1) - 1 = MaxChecks - 2
    BY <1>1
  <2> QED
    BY <2>1 DEF Naps
<1> QED
  BY <1>1, <1>2 DEF CreationIsShort

(* The lock bounds how long its calls take. *)
LEMMA CallsAreShort ==
  ASSUME TypeOK, LP!LockInv, slow = {}, NEW p \in Inst
  PROVE  /\ pc[p] = "write" => age[p] <= Lag
         /\ pc[p] = "settle" => age[p] <= Settle + Lag
         /\ Creating(p) => age[p] <= Work
<1>1. LP!OnTime
  BY DEF LP!LockInv
<1>2. LockPhase[p] = PhaseOf(pc[p])
  BY DEF LockPhase
<1>3. /\ LockPhase[p] = "writing" => LP!Limit(p) = Lag
      /\ LockPhase[p] = "settling" => LP!Limit(p) = Settle + Lag
      /\ LockPhase[p] = "holding" => LP!Limit(p) = Work
  BY DEF LP!Limit
<1>4. LockPhase[p] \in {"writing", "settling", "holding"} => age[p] <= LP!Limit(p)
  BY <1>1 DEF LP!OnTime, LP!Timed, LockAge
<1> QED
  BY <1>2, <1>3, <1>4, Phases DEF Creating

(* The lock of somebody on the way to a pair is not free. *)
LEMMA MakersLockIsTaken ==
  ASSUME L!Timely, LP!LockInv, slow = {}, NEW c \in Inst, NEW q \in Inst, L!IsMine(c),
         pc[c] = "settle" \/ Creating(c)
  PROVE  ~L!IsFree(q)
<1>1. LP!IsMine(c) /\ LP!Timely
  BY SameLock DEF LP!IsMine, L!IsMine
<1>2. LockPhase[c] \in {"settling", "holding"}
  BY Phases DEF LockPhase, Creating
<1>3. ~LP!IsExpired(q, lock)
  BY <1>1, <1>2, LockAssumptions, LP!PromptLockInv, LP!StoredLockIsValid
<1> QED
  BY <1>1, <1>3 DEF LP!IsExpired, L!IsExpired, L!IsFree, LP!IsMine

(* Nobody but p moves. *)
OthersStay(p) ==
    \A q \in Inst \ {p} :
        pc'[q] = pc[q] /\ age'[q] = age[q] /\ checks'[q] = checks[q]

LEMMA OthersNap ==
  ASSUME NEW p \in Inst, OthersStay(p), NEW q \in Inst \ {p}
  PROVE  NapTime(q)' = NapTime(q)
  BY DEF OthersStay, NapTime

(* A step that leaves the lock alone and is not the maker's. *)
LEMMA QuietStep ==
  ASSUME TypeOK, TypeOK', TimeInv, NEW p \in Inst, OthersStay(p),
         UNCHANGED <<lock, made>>, PairIsStored => PairIsStored',
         NapTime(p)' <= NapTime(p),
         \/ ~L!IsMine(p)
         \/ pc[p] # "settle" /\ ~Creating(p)
         \/ Creating(p) /\ Creating(p)' /\ age'[p] = age[p],
         pc'[p] # "write",
         ~PairIsStored /\ pc'[p] \in {"nap", "settle"} => lock # NoLock
  PROVE  TimeInv'
<1> SUFFICES ASSUME ~PairIsStored' PROVE MakerInv' /\ WriterInv'
  BY DEF TimeInv
<1>1. MakerInv /\ WriterInv /\ ~PairIsStored
  BY DEF TimeInv
<1>2. \A q \in Inst : /\ NapTime(q)' <= NapTime(q)
                      /\ NapTime(q) \in Nat /\ NapTime(q)' \in Nat
  <2>1. \A q \in Inst : NapTime(q)' \in Nat
    BY NapsGrow DEF NapTime, TypeOK
  <2> QED
    BY <2>1, OthersNap, NapTimeIsNat
<1>3. ASSUME NEW d \in Nat, Waited(d) PROVE \A q \in Inst : NapTime(q)' <= d
  BY <1>2, <1>3 DEF Waited
<1>4. WriterInv'
  <2> SUFFICES ASSUME NEW q \in Inst, pc'[q] = "write"
               PROVE  \A r \in Inst : NapTime(r)' <= age'[q]
    BY DEF WriterInv, Waited
  <2>1. q # p /\ pc[q] = "write" /\ age'[q] = age[q] /\ age[q] \in Nat
    BY DEF OthersStay, TypeOK
  <2> QED
    BY <1>1, <1>3, <2>1 DEF WriterInv
<1>5. MakerInv'
  <2>1. CASE lock = NoLock
    <3>1. \A q \in Inst : NapTime(q)' = 0
      BY <1>1, <1>2, <2>1 DEF MakerInv
    <3>2. \A q \in Inst : pc'[q] \notin {"nap", "settle"}
      BY <1>1, <2>1 DEF MakerInv, OthersStay
    <3> QED
      BY <2>1, <3>1, <3>2 DEF MakerInv
  <2>2. CASE lock # NoLock
    <3>1. PICK c \in Inst :
            /\ L!IsMine(c)
            /\ \/ pc[c] = "settle" /\ Waited(Lag + age[c])
               \/ Creating(c) /\ Waited(2 * Lag + Settle + age[c])
      BY <1>1, <2>2 DEF MakerInv
    <3>2. L!IsMine(c)' /\ age'[c] = age[c] /\ age[c] \in Nat
      BY <3>1 DEF L!IsMine, OthersStay, TypeOK, Creating
    <3>3. \/ pc[c] = "settle" /\ pc'[c] = "settle"
          \/ Creating(c) /\ Creating(c)'
      BY <3>1 DEF OthersStay, Creating
    <3>4. Lag + age[c] \in Nat /\ 2 * Lag + Settle + age[c] \in Nat
      BY <3>2, DurationsAreNat
    <3>5. \/ pc'[c] = "settle" /\ \A q \in Inst : NapTime(q)' <= Lag + age[c]
          \/ Creating(c)' /\ \A q \in Inst : NapTime(q)' <= 2 * Lag + Settle + age[c]
      BY <1>3, <3>1, <3>3, <3>4 DEF Creating
    <3>6. \/ pc'[c] = "settle" /\ Waited(Lag + age[c])'
          \/ Creating(c)' /\ Waited(2 * Lag + Settle + age[c])'
      BY <3>2, <3>5 DEF Waited
    <3> QED
      BY <2>2, <3>2, <3>6 DEF MakerInv
  <2> QED
    BY <2>1, <2>2
<1> QED
  BY <1>4, <1>5

(* Somebody finds no lock and starts a write: nobody has slept. *)
LEMMA NewWriterStep ==
  ASSUME L!Timely, TypeOK, LP!LockInv, slow = {}, TimeInv, NEW p \in Inst, ReadLock(p),
         L!IsFree(p), pc' = [pc EXCEPT ![p] = "write"]
  PROVE  TimeInv'
<1> SUFFICES ASSUME ~PairIsStored PROVE MakerInv' /\ WriterInv'
  BY DEF TimeInv, ReadLock, PairIsStored
<1>1. lock = NoLock
  <2> SUFFICES ASSUME lock # NoLock PROVE FALSE
    OBVIOUS
  <2>1. PICK c \in Inst : L!IsMine(c) /\ (pc[c] = "settle" \/ Creating(c))
    BY DEF TimeInv, MakerInv
  <2> QED
    BY <2>1, MakersLockIsTaken
<1>2. \A q \in Inst : NapTime(q) = 0 /\ pc[q] \notin {"nap", "settle"}
  BY <1>1 DEF TimeInv, MakerInv
<1>3. \A q \in Inst : NapTime(q)' = 0 /\ pc'[q] \notin {"nap", "settle"}
  BY <1>2 DEF ReadLock, NapTime, TypeOK
<1>4. lock' = NoLock /\ \A q \in Inst : age'[q] \in Nat
  BY <1>1 DEF ReadLock, Clock, TypeOK
<1> QED
  BY <1>3, <1>4 DEF MakerInv, WriterInv, Waited

(* A lock is written: its writer is the new maker, and has been writing for *)
(* as long as anybody has slept.                                            *)
LEMMA WriteStep ==
  ASSUME TypeOK, LP!LockInv, slow = {}, TimeInv, NEW p \in Inst, WriteLock(p)
  PROVE  TimeInv'
<1> SUFFICES ASSUME ~PairIsStored PROVE MakerInv' /\ WriterInv'
  BY DEF TimeInv, WriteLock, PairIsStored
<1>1. /\ pc[p] = "write" /\ pc' = [pc EXCEPT ![p] = "settle"]
      /\ age' = [age EXCEPT ![p] = 0] /\ checks' = checks /\ made' = made
      /\ lock' = L!LockOf(p)
  BY DEF WriteLock, Goto, Clock
<1>2. \A q \in Inst : NapTime(q)' = NapTime(q) /\ NapTime(q) \in Nat
  BY <1>1, NapTimeIsNat DEF NapTime, TypeOK
<1>3. lock' # NoLock /\ L!IsMine(p)'
  <2>1. lock' # NoLock
    BY <1>1, LockOfIsLock
  <2> QED
    BY <1>1, <2>1 DEF L!IsMine, L!LockOf
<1>4. pc'[p] = "settle" /\ age'[p] = 0 /\ age[p] \in Nat
  BY <1>1 DEF TypeOK
<1>5. \A q \in Inst : NapTime(q) <= age[p] /\ age[p] <= Lag
  BY <1>1, CallsAreShort DEF TimeInv, WriterInv, Waited
<1>6. Waited(Lag + age[p])'
  BY <1>2, <1>4, <1>5, DurationsAreNat DEF Waited
<1>7. WriterInv'
  <2> SUFFICES ASSUME NEW q \in Inst, pc'[q] = "write" PROVE Waited(age[q])'
    BY DEF WriterInv
  <2>1. pc[q] = "write" /\ age'[q] = age[q]
    BY <1>1 DEF TypeOK
  <2> QED
    BY <1>2, <2>1 DEF TimeInv, WriterInv, Waited
<1> QED
  BY <1>3, <1>4, <1>6, <1>7 DEF MakerInv

(* The lock has settled, and its maker creates a pair. *)
LEMMA SettledStep ==
  ASSUME TypeOK, LP!LockInv, slow = {}, TimeInv, NEW p \in Inst,
         CheckPersisted(p), L!IsMine(p)
  PROVE  TimeInv'
<1> SUFFICES ASSUME ~PairIsStored PROVE MakerInv' /\ WriterInv'
  BY DEF TimeInv, CheckPersisted, PairIsStored
<1>1. /\ pc[p] = "settle" /\ pc' = [pc EXCEPT ![p] = "encrypt"]
      /\ age' = [age EXCEPT ![p] = 0] /\ UNCHANGED <<checks, made, lock>>
  BY DEF CheckPersisted, Goto, Clock
<1>2. \A q \in Inst : NapTime(q)' = NapTime(q) /\ NapTime(q) \in Nat
  BY <1>1, NapTimeIsNat DEF NapTime, TypeOK
<1>3. lock # NoLock /\ L!IsMine(p)' /\ Creating(p)' /\ age'[p] = 0
  BY <1>1 DEF L!IsMine, Creating, TypeOK
<1>4. PICK c \in Inst :
        /\ L!IsMine(c)
        /\ \/ pc[c] = "settle" /\ Waited(Lag + age[c])
           \/ Creating(c) /\ Waited(2 * Lag + Settle + age[c])
  BY <1>3 DEF TimeInv, MakerInv
<1>5. c = p
  BY <1>4 DEF L!IsMine
<1>6. Waited(Lag + age[p]) /\ age[p] <= Settle + Lag /\ age[p] \in Nat
  BY <1>1, <1>4, <1>5, CallsAreShort DEF Creating, TypeOK
<1>7. Waited(2 * Lag + Settle + age[p])'
  BY <1>2, <1>3, <1>6, DurationsAreNat DEF Waited
<1>8. WriterInv'
  <2> SUFFICES ASSUME NEW q \in Inst, pc'[q] = "write" PROVE Waited(age[q])'
    BY DEF WriterInv
  <2>1. pc[q] = "write" /\ age'[q] = age[q]
    BY <1>1 DEF TypeOK
  <2> QED
    BY <1>2, <2>1 DEF TimeInv, WriterInv, Waited
<1>9. lock' # NoLock
  BY <1>1, <1>3
<1> QED
  BY <1>3, <1>7, <1>8, <1>9 DEF MakerInv

(* Time passes for the sleepers and for the maker alike. *)
LEMMA TickKeepsTime ==
  ASSUME TypeOK, LP!LockInv, slow = {}, TimeInv, Tick PROVE TimeInv'
<1> SUFFICES ASSUME ~PairIsStored PROVE MakerInv' /\ WriterInv'
  BY DEF TimeInv, Tick, PairIsStored
<1>1. UNCHANGED <<pc, checks, made>> /\ lock' = L!Older(lock)
  BY DEF Tick
<1>2. \A q \in Inst : /\ NapTime(q) \in Nat
                      /\ age'[q] = age[q] \/ age'[q] = age[q] + 1
                      /\ age[q] \in Nat
  BY NapTimeIsNat, TickAges DEF TypeOK
<1>3. \A q \in Inst : /\ NapTime(q)' <= NapTime(q) + 1
                      /\ pc[q] # "nap" => NapTime(q)' = NapTime(q)
  <2> TAKE q \in Inst
  <2>1. Naps(checks[q]) \in Nat /\ checks'[q] = checks[q] /\ pc'[q] = pc[q]
    BY <1>1, NapsGrow DEF TypeOK
  <2> QED
    BY <1>2, <2>1 DEF NapTime
<1>4. \A q \in Inst : pc[q] \in {"write", "settle"} \/ Creating(q) =>
                        age'[q] = age[q] + 1
  <2> SUFFICES ASSUME NEW q \in Inst, pc[q] \in {"write", "settle"} \/ Creating(q)
               PROVE  age'[q] = age[q] + 1
    OBVIOUS
  <2>1. /\ LockPhase[q] = "writing" => L!Limit(q) = Lag
        /\ LockPhase[q] = "settling" => L!Limit(q) = Settle + Lag
        /\ LockPhase[q] = "holding" => L!Limit(q) = Work
    BY DEF L!Limit
  <2>2. L!Timed(q) /\ age[q] <= L!Limit(q)
    BY <2>1, Phases, CallsAreShort DEF L!Timed, LockPhase, Creating
  <2> QED
    BY <2>2, TickAges
<1>5. ASSUME NEW d \in Nat, Waited(d) PROVE \A q \in Inst : NapTime(q)' <= d + 1
  <2> TAKE q \in Inst
  <2>1. NapTime(q) <= d
    BY <1>5 DEF Waited
  <2>2. NapTime(q)' \in Nat
    BY <1>1, <1>2, NapsGrow DEF NapTime, TypeOK
  <2> QED
    BY <1>2, <1>3, <2>1, <2>2
<1>6. WriterInv'
  <2> SUFFICES ASSUME NEW q \in Inst, pc[q] = "write"
               PROVE  \A r \in Inst : NapTime(r)' <= age'[q]
    BY <1>1 DEF WriterInv, Waited
  <2> QED
    BY <1>2, <1>4, <1>5 DEF TimeInv, WriterInv
<1>7. CASE lock = NoLock
  <2>1. lock' = NoLock
    BY <1>1, <1>7, OlderIsLock
  <2> QED
    BY <1>1, <1>3, <1>6, <1>7, <2>1 DEF TimeInv, MakerInv
<1>8. CASE lock # NoLock
  <2>1. PICK c \in Inst :
          /\ L!IsMine(c)
          /\ \/ pc[c] = "settle" /\ Waited(Lag + age[c])
             \/ Creating(c) /\ Waited(2 * Lag + Settle + age[c])
    BY <1>8 DEF TimeInv, MakerInv
  <2>2. L!IsMine(c)' /\ lock' # NoLock
    <3>1. lock' # NoLock /\ lock'.owner = lock.owner /\ lock'.serial = lock.serial
      BY <1>1, <1>8, OlderIsLock DEF L!Older, TypeOK, L!Lock
    <3> QED
      BY <1>1, <2>1, <3>1 DEF L!IsMine
  <2>3. /\ Lag + age[c] \in Nat /\ 2 * Lag + Settle + age[c] \in Nat
        /\ age'[c] = age[c] + 1 /\ age[c] \in Nat
    BY <1>2, <1>4, <2>1, DurationsAreNat
  <2>4. CASE pc[c] = "settle" /\ Waited(Lag + age[c])
    <3>1. \A q \in Inst : NapTime(q)' <= (Lag + age[c]) + 1
      BY <1>5, <2>3, <2>4
    <3>2. (Lag + age[c]) + 1 = Lag + age'[c]
      BY <2>3, DurationsAreNat
    <3>3. pc'[c] = "settle" /\ Waited(Lag + age[c])'
      BY <1>1, <2>4, <3>1, <3>2 DEF Waited
    <3> QED
      BY <1>6, <2>2, <3>3 DEF MakerInv
  <2>5. CASE Creating(c) /\ Waited(2 * Lag + Settle + age[c])
    <3>1. \A q \in Inst : NapTime(q)' <= (2 * Lag + Settle + age[c]) + 1
      BY <1>5, <2>3, <2>5
    <3>2. (2 * Lag + Settle + age[c]) + 1 = 2 * Lag + Settle + age'[c]
      BY <2>3, DurationsAreNat
    <3>3. Creating(c)' /\ Waited(2 * Lag + Settle + age[c])'
      BY <1>1, <2>5, <3>1, <3>2 DEF Waited, Creating
    <3> QED
      BY <1>6, <2>2, <3>3 DEF MakerInv
  <2> QED
    BY <2>1, <2>4, <2>5
<1> QED
  BY <1>7, <1>8

(* The check that is the last but one begins with the pair in the store. *)
LEMMA WakeStep ==
  ASSUME CreationIsShort, Inv, TypeOK', LP!LockInv, slow = {}, TimeInv, NEW p \in Inst,
         Boot(p) \/ Wake(p), \A q \in Inst : WaiterInv(q)
  PROVE  TimeInv' /\ WaiterInv(p)'
<1>1. /\ Check(p) /\ pc[p] \in {"off", "nap"} /\ TypeOK
      /\ pc[p] = "off" => checks[p] = 0
      /\ pc[p] = "nap" => age[p] >= Poll /\ checks[p] >= 1
  BY DEF Boot, Wake, Inv, CheckInv, HalfPairIsLocked, WaiterInv
<1>2. /\ checks[p] \in Nat /\ checks'[p] = checks[p] + 1 /\ age[p] \in Nat
      /\ pc'[p] = IF checks[p] + 1 >= MaxChecks THEN "gaveUp" ELSE "getPublic"
      /\ late'[p] = PairIsStored
      /\ UNCHANGED <<public, private, lock, made>>
  BY <1>1 DEF Check, Goto, TypeOK
<1>3. NapTime(p)' <= NapTime(p) /\ (pc[p] = "nap" => Naps(checks[p] + 1) <= NapTime(p))
  <2>1. NapTime(p)' = Naps(checks[p] + 1)
    BY <1>2, NapsGrow DEF NapTime
  <2>2. /\ Naps(checks[p]) \in Nat
        /\ Naps(checks[p] + 1) = Naps(checks[p]) + (IF checks[p] = 0 THEN 0 ELSE Poll)
    BY <1>2, NapsGrow
  <2>3. NapTime(p) = Naps(checks[p]) + (IF pc[p] = "nap" THEN age[p] ELSE 0)
    BY DEF NapTime
  <2> QED
    BY <1>1, <1>2, <2>1, <2>2, <2>3, PollingIsNat
<1>4. TimeInv'
  <2>1. OthersStay(p)
    BY <1>1 DEF OthersStay, Check, Goto, Clock, TypeOK
  <2>2. pc'[p] \notin {"write", "nap", "settle"} /\ (PairIsStored => PairIsStored')
    BY <1>2 DEF PairIsStored
  <2> QED
    BY <1>1, <1>2, <1>3, <2>1, <2>2, QuietStep DEF Creating
<1>5. checks[p] + 1 >= MaxChecks - 1 => PairIsStored /\ checks[p] + 1 < MaxChecks
  <2> SUFFICES ASSUME checks[p] + 1 >= MaxChecks - 1
               PROVE  PairIsStored /\ checks[p] + 1 < MaxChecks
    OBVIOUS
  <2>1. pc[p] = "nap"
    BY <1>1, ChecksSuffice
  <2>2. checks[p] < MaxChecks - 1
    <3>1. ~late[p]
      BY <2>1 DEF WaiterInv
    <3> QED
      BY <1>2, <3>1, ChecksSuffice DEF WaiterInv
  <2>3. checks[p] + 1 = MaxChecks - 1
    BY <1>2, <2>2, ChecksSuffice
  <2>4. 2 * Lag + Settle + Work < NapTime(p) /\ NapTime(p) \in Nat
    BY <1>1, <1>2, <1>3, <2>1, <2>3, ChecksSuffice, NapTimeIsNat, DurationsAreNat,
       NapsGrow
  <2>5. PairIsStored
    <3> SUFFICES ASSUME ~PairIsStored PROVE FALSE
      OBVIOUS
    <3>1. MakerInv /\ lock # NoLock
      BY <2>1 DEF TimeInv, MakerInv
    <3>2. PICK c \in Inst :
            /\ L!IsMine(c)
            /\ \/ pc[c] = "settle" /\ Waited(Lag + age[c])
               \/ Creating(c) /\ Waited(2 * Lag + Settle + age[c])
      BY <3>1 DEF MakerInv
    <3>3. age[c] \in Nat
      BY <1>1 DEF TypeOK
    <3>4. CASE pc[c] = "settle" /\ Waited(Lag + age[c])
      <4>1. NapTime(p) <= Lag + age[c] /\ age[c] <= Settle + Lag
        BY <1>1, <3>4, CallsAreShort DEF Waited
      <4> QED
        BY <2>4, <3>3, <4>1, DurationsAreNat
    <3>5. CASE Creating(c) /\ Waited(2 * Lag + Settle + age[c])
      <4>1. NapTime(p) <= 2 * Lag + Settle + age[c] /\ age[c] <= Work
        BY <1>1, <3>5, CallsAreShort DEF Waited
      <4> QED
        BY <2>4, <3>3, <4>1, DurationsAreNat
    <3> QED
      BY <3>2, <3>4, <3>5
  <2> QED
    BY <1>2, <2>2, <2>5, ChecksSuffice
<1>6. WaiterInv(p)'
  <2>1. pc'[p] = "getPublic"
    BY <1>2, <1>5, ChecksSuffice
  <2> QED
    BY <1>2, <1>5, <2>1 DEF WaiterInv
<1> QED
  BY <1>4, <1>6

(* An instance that does not move keeps what is known of it. *)
LEMMA WaitersStay ==
  ASSUME NEW q \in Inst, WaiterInv(q), pc'[q] = pc[q], checks'[q] = checks[q],
         late'[q] = late[q], PairIsStored => PairIsStored', public # NoKey => public' # NoKey
  PROVE  WaiterInv(q)'
  BY DEF WaiterInv

LEMMA WaitStep ==
  ASSUME L!Timely, CreationIsShort, Inv, LP!LockInv, WaitInv, [Next]_vars
  PROVE  WaitInv'
<1> SUFFICES ASSUME failed' = {}
             PROVE  TimeInv' /\ \A q \in Inst : WaiterInv(q)'
  BY DEF WaitInv
<1>1. TypeOK /\ TypeOK'
  BY TypeStep DEF Inv, HalfPairIsLocked
<1>2. PairIsStored => PairIsStored'
  BY StoreStep DEF PairIsStored
<1>3. public # NoKey => public' # NoKey
  BY StoreStep
<1>4. failed = {} /\ \A p \in Inst : ~CallFails(p) /\ ~Die(p)
  BY <1>1 DEF Next, vars, Tick, Step, Boot, Wake, Check, GetPublic, GetPrivate,
     DecryptKeyPair, ReadLock, WriteLock, CheckPersisted, EncryptKeyPair, PutPublic,
     PutPrivate, DeleteLock, CallFails, Die, Restart
<1>5. slow = {} /\ TimeInv /\ \A q \in Inst : WaiterInv(q)
  BY <1>4, PromptUnlessFailed DEF WaitInv
<1>6. ASSUME NEW p \in Inst, OthersStay(p), late' = late, WaiterInv(p)'
      PROVE  \A q \in Inst : WaiterInv(q)'
  BY <1>2, <1>3, <1>5, <1>6, WaitersStay DEF OthersStay
<1>7. CASE UNCHANGED vars
  BY <1>5, <1>7 DEF vars, TimeInv, MakerInv, WriterInv, Waited, NapTime, Creating,
                    WaiterInv, PairIsStored, L!IsMine
<1>8. CASE Tick
  <2>1. UNCHANGED <<pc, checks, late, public, private>>
    BY <1>8 DEF Tick
  <2> QED
    BY <1>1, <1>5, <1>8, <2>1, TickKeepsTime DEF WaiterInv, PairIsStored
<1>9. ASSUME NEW p \in Inst, Boot(p) \/ Wake(p)
      PROVE  TimeInv' /\ \A q \in Inst : WaiterInv(q)'
  <2>1. \A q \in Inst \ {p} : pc'[q] = pc[q] /\ checks'[q] = checks[q] /\ late'[q] = late[q]
    BY <1>1, <1>9 DEF Boot, Wake, Check, Goto, TypeOK
  <2> QED
    BY <1>1, <1>2, <1>3, <1>5, <1>9, <2>1, WakeStep, WaitersStay
<1>10. ASSUME NEW p \in Inst, GetPublic(p) \/ GetPrivate(p) \/ DecryptKeyPair(p)
       PROVE  TimeInv' /\ \A q \in Inst : WaiterInv(q)'
  <2>1. /\ OthersStay(p) /\ late' = late /\ UNCHANGED <<lock, made, checks>>
        /\ pc[p] \in {"getPublic", "getPrivate", "decrypt"}
        /\ pc'[p] \in {"getPrivate", "decrypt", "readLock", "done"}
    BY <1>1, <1>10 DEF GetPublic, GetPrivate, DecryptKeyPair, Goto, OthersStay, TypeOK
  <2>2. NapTime(p)' = NapTime(p) /\ NapTime(p) \in Nat
    BY <1>1, <2>1, NapTimeIsNat DEF NapTime
  <2>3. TimeInv'
    BY <1>1, <1>2, <1>5, <2>1, <2>2, QuietStep DEF Creating
  <2>4. WaiterInv(p)'
    BY <1>5, <2>1 DEF WaiterInv
  <2> QED
    BY <1>6, <2>1, <2>3, <2>4
<1>11. ASSUME NEW p \in Inst, ReadLock(p)
       PROVE  TimeInv' /\ \A q \in Inst : WaiterInv(q)'
  <2>1. /\ OthersStay(p) /\ late' = late /\ UNCHANGED <<lock, checks>>
        /\ pc[p] = "readLock" /\ ~late[p]
    BY <1>1, <1>11 DEF ReadLock, Goto, Clock, OthersStay, TypeOK, Inv, LateInv
  <2>2. \/ L!IsFree(p) /\ pc' = [pc EXCEPT ![p] = "write"] /\ pc'[p] = "write"
        \/ ~L!IsFree(p) /\ pc'[p] = "nap" /\ age'[p] = 0 /\ made' = made
    BY <1>1, <1>11 DEF ReadLock, Goto, Clock, TypeOK
  <2>3. WaiterInv(p)'
    BY <1>5, <2>1, <2>2 DEF WaiterInv
  <2>4. TimeInv'
    <3>1. CASE L!IsFree(p)
      BY <1>1, <1>5, <1>11, <2>2, <3>1, NewWriterStep
    <3>2. CASE ~L!IsFree(p)
      <4>1. NapTime(p)' = NapTime(p) /\ NapTime(p) \in Nat
        BY <1>1, <2>1, <2>2, <3>2, NapTimeIsNat DEF NapTime
      <4>2. lock # NoLock
        BY <3>2 DEF L!IsFree
      <4> QED
        BY <1>1, <1>2, <1>5, <2>1, <2>2, <3>2, <4>1, <4>2, QuietStep DEF Creating
    <3> QED
      BY <3>1, <3>2
  <2> QED
    BY <1>6, <2>1, <2>3, <2>4
<1>12. ASSUME NEW p \in Inst, WriteLock(p)
       PROVE  TimeInv' /\ \A q \in Inst : WaiterInv(q)'
  <2>1. OthersStay(p) /\ late' = late /\ checks' = checks /\ pc'[p] = "settle" /\ pc[p] = "write"
    BY <1>1, <1>12 DEF WriteLock, Goto, Clock, OthersStay, TypeOK
  <2>2. WaiterInv(p)'
    BY <1>5, <2>1 DEF WaiterInv
  <2> QED
    BY <1>1, <1>5, <1>6, <1>12, <2>1, <2>2, WriteStep
<1>13. ASSUME NEW p \in Inst, CheckPersisted(p)
       PROVE  TimeInv' /\ \A q \in Inst : WaiterInv(q)'
  <2>1. /\ OthersStay(p) /\ late' = late /\ UNCHANGED <<lock, made, checks>>
        /\ pc[p] = "settle" /\ ~late[p] /\ age'[p] = 0
        /\ pc'[p] = IF L!IsMine(p) THEN "encrypt" ELSE "nap"
    BY <1>1, <1>13 DEF CheckPersisted, Goto, Clock, OthersStay, TypeOK, Inv, LateInv
  <2>2. WaiterInv(p)'
    BY <1>5, <2>1 DEF WaiterInv
  <2>3. TimeInv'
    <3>1. CASE L!IsMine(p)
      BY <1>1, <1>5, <1>13, <3>1, SettledStep
    <3>2. CASE ~L!IsMine(p)
      <4>1. NapTime(p)' = NapTime(p) /\ NapTime(p) \in Nat
        BY <1>1, <2>1, <3>2, NapTimeIsNat DEF NapTime
      <4>2. ~PairIsStored => lock # NoLock
        BY <1>5, <2>1 DEF TimeInv, MakerInv
      <4> QED
        BY <1>1, <1>2, <1>5, <2>1, <3>2, <4>1, <4>2, QuietStep
    <3> QED
      BY <3>1, <3>2
  <2> QED
    BY <1>6, <2>1, <2>2, <2>3
<1>14. ASSUME NEW p \in Inst, EncryptKeyPair(p) \/ PutPublic(p)
       PROVE  TimeInv' /\ \A q \in Inst : WaiterInv(q)'
  <2>1. /\ OthersStay(p) /\ late' = late /\ UNCHANGED <<lock, made, checks, age>>
        /\ Creating(p) /\ Creating(p)'
        /\ pc[p] # "nap" /\ pc'[p] \notin {"nap", "write", "settle"}
        /\ pc'[p] = "putPrivate" => public' # NoKey
    BY <1>1, <1>14, PairIsKey
    DEF EncryptKeyPair, PutPublic, Goto, OthersStay, TypeOK, Creating
  <2>2. NapTime(p)' = NapTime(p) /\ NapTime(p) \in Nat
    BY <1>1, <2>1, NapTimeIsNat DEF NapTime
  <2>3. WaiterInv(p)'
    BY <1>5, <2>1 DEF WaiterInv, Creating
  <2>4. TimeInv'
    BY <1>1, <1>2, <1>5, <2>1, <2>2, QuietStep
  <2> QED
    BY <1>6, <2>1, <2>3, <2>4
<1>15. ASSUME NEW p \in Inst, PutPrivate(p) \/ DeleteLock(p)
       PROVE  TimeInv' /\ \A q \in Inst : WaiterInv(q)'
  <2>1. /\ OthersStay(p) /\ late' = late /\ checks' = checks
        /\ pc[p] \in {"putPrivate", "delete"} /\ pc'[p] \in {"delete", "done"}
    BY <1>1, <1>15 DEF PutPrivate, DeleteLock, Goto, Clock, OthersStay, TypeOK
  <2>2. PairIsStored'
    BY <1>1, <1>5, <1>15, PairIsKey DEF PutPrivate, DeleteLock, WaiterInv, PairIsStored
  <2>3. WaiterInv(p)'
    BY <1>5, <2>1, <2>2 DEF WaiterInv
  <2> QED
    BY <1>6, <2>1, <2>2, <2>3 DEF TimeInv
<1>16. \A p \in Inst : ~Restart(p)
  BY <1>5 DEF Restart, WaiterInv
<1> QED
  BY <1>4, <1>7, <1>8, <1>9, <1>10, <1>11, <1>12, <1>13, <1>14, <1>15, <1>16
  DEF Next, Step

LEMMA WaitInit == ASSUME CreationIsShort, Init PROVE WaitInv
<1>1. ASSUME NEW p \in Inst
      PROVE  NapTime(p) = 0 /\ pc[p] = "off" /\ checks[p] = 0 /\ ~late[p]
  <2>1. pc[p] = "off" /\ checks[p] = 0 /\ ~late[p]
    BY DEF Init
  <2> QED
    BY <2>1 DEF NapTime, Naps
<1>2. TimeInv
  BY <1>1 DEF Init, TimeInv, MakerInv, WriterInv
<1>3. ASSUME NEW p \in Inst PROVE WaiterInv(p)
  <2>1. ~(0 >= MaxChecks - 1)
    BY ChecksSuffice
  <2> QED
    BY <1>1, <2>1 DEF WaiterInv
<1> QED
  BY <1>2, <1>3 DEF WaitInv

LEMMA NoWaiterGivesUp == WaitInv => NobodyGivesUp
<1> SUFFICES ASSUME WaitInv, failed = {}, NEW p \in Inst PROVE pc[p] # "gaveUp"
  BY Zenon DEF NobodyGivesUp
<1>1. WaiterInv(p)
  BY DEF WaitInv
<1> QED
  BY <1>1 DEF WaiterInv

(* As long as no call fails nobody runs out of checks, if the lock is used *)
(* in time and the checks outlast a creation.                              *)
THEOREM NobodyRunsOutOfChecks ==
  ASSUME L!Timely, CreationIsShort PROVE Spec => []NobodyGivesUp
<1>1. Init => WaitInv
  BY WaitInit
<1>2. Inv /\ LP!LockInv /\ WaitInv /\ [Next]_vars => WaitInv'
  BY WaitStep
<1> QED
  BY <1>1, <1>2, NoWaiterGivesUp, LockIsKept, KeyPairInvariant, PTL DEF Spec

=============================================================================
