-------------------------- MODULE StorageLockProofs --------------------------
(***************************************************************************)
(* StorageLock is a mutex for any number of instances, any durations and   *)
(* any clock errors that satisfy Timely.  Its read-back is sound under the *)
(* weaker SettlesInTime, which does not bound the work of an owner.        *)
(***************************************************************************)
EXTENDS StorageLock, TLAPS

USE DurationsAreNat, NoLockIsNoLock

(* A clock error is an integer within the bound. *)
LEMMA OffsetIsInt ==
  \A p \in Inst :
     Offset[p] \in Int /\ Offset[p] >= -MaxSkew /\ Offset[p] <= MaxSkew
  OBVIOUS

(* The object an instance writes is a lock of its own. *)
LEMMA LockOfType ==
  ASSUME TypeOK, NEW p \in Inst
  PROVE  /\ LockOf(p) \in Lock
         /\ LockOf(p) # NoLock
         /\ LockOf(p).owner = p
         /\ LockOf(p).serial = made[p]
         /\ LockOf(p).left >= Lifetime + Offset[p] - age[p]
<1>1. made[p] \in 0..MaxLocks /\ age[p] \in Nat
  BY DEF TypeOK
<1> DEFINE left == Lifetime + Offset[p] - age[p]
<1>2. left \in Int /\ left <= Lifetime + MaxSkew
  BY <1>1, OffsetIsInt
<1>3. Floor \in Int /\ Floor <= Lifetime + MaxSkew
  BY DEF Floor
<1>4. (IF left < Floor THEN Floor ELSE left) \in Floor..(Lifetime + MaxSkew)
  BY <1>2, <1>3
<1>5. LockOf(p) = [owner |-> p, serial |-> made[p],
                   left |-> IF left < Floor THEN Floor ELSE left]
  BY DEF LockOf
<1>6. LockOf(p) \in Lock
  BY <1>1, <1>4, <1>5 DEF Lock
<1>7. LockOf(p).left >= left
  BY <1>2, <1>3, <1>5
<1> QED
  BY <1>5, <1>6, <1>7

(* Every step keeps the variables in their types. *)
LEMMA TypeStep == TypeOK /\ [Next]_vars => TypeOK'
<1> SUFFICES ASSUME TypeOK, [Next]_vars PROVE TypeOK'
  OBVIOUS
<1>1. CASE Tick
  <2>1. age' \in [Inst -> Nat] /\ slow' \subseteq Inst
    BY <1>1 DEF Tick, Aged, Overdue, TypeOK
  <2>2. lock' \in Lock \cup {NoLock}
    <3>1. CASE lock # NoLock /\ lock.left > Floor
      BY <1>1, <3>1 DEF Tick, Older, TypeOK, Lock, Floor
    <3>2. CASE ~(lock # NoLock /\ lock.left > Floor)
      BY <1>1, <3>2 DEF Tick, Older, TypeOK
    <3> QED BY <3>1, <3>2
  <2> QED
    BY <1>1, <2>1, <2>2 DEF Tick, TypeOK
<1>2. ASSUME NEW p \in Inst, ReadFree(p) PROVE TypeOK'
  BY <1>2 DEF ReadFree, Enter, TypeOK, Phase
<1>3. ASSUME NEW p \in Inst, WriteLock(p) \/ WriteLockUnheard(p) PROVE TypeOK'
  BY <1>3, LockOfType DEF WriteLock, WriteLockUnheard, Enter, TypeOK, Phase
<1>4. ASSUME NEW p \in Inst, CheckPersisted(p) PROVE TypeOK'
  BY <1>4 DEF CheckPersisted, Enter, TypeOK, Phase
<1>5. ASSUME NEW p \in Inst,
             \/ StartDelete(p) \/ DeleteLock(p) \/ DeleteLockUnheard(p)
             \/ Abandon(p) \/ Return(p)
      PROVE TypeOK'
  BY <1>5 DEF StartDelete, DeleteLock, DeleteLockUnheard, Abandon, Return,
              Enter, TypeOK, Phase
<1>6. CASE UNCHANGED vars
  BY <1>6 DEF vars, TypeOK
<1> QED
  BY <1>1, <1>2, <1>3, <1>4, <1>5, <1>6 DEF Next

(* The type invariant, whatever the timing. *)
THEOREM TypeCorrect == Spec => []TypeOK
<1>1. Init => TypeOK
  BY DEF Init, TypeOK, Phase
<1> QED
  BY <1>1, TypeStep, PTL DEF Spec

----------------------------------------------------------------------------
(* What slow = {} gives whatever the numbers: nobody outstays a phase, and *)
(* the age of a stored lock is known to its creator.                       *)
AgeInv == TypeOK /\ OnTime /\ SerialsAreOld /\ LeftOver

(* Who was slow once stays so. *)
LEMMA SlowGrows == [Next]_vars => slow \subseteq slow'
  BY DEF Next, vars, Tick, ReadFree, WriteLock, WriteLockUnheard, CheckPersisted,
     StartDelete, DeleteLock, DeleteLockUnheard, Abandon, Return

(* The limits are numbers. *)
LEMMA LimitType == \A p \in Inst : Limit(p) \in Nat
  BY DEF Limit

(* The clock of who is on time runs. *)
LEMMA TickAge ==
  ASSUME TypeOK, OnTime, Tick, NEW p \in Inst
  PROVE  age'[p] = IF Timed(p) THEN age[p] + 1 ELSE age[p]
  BY LimitType DEF Tick, Aged, OnTime, Timed, TypeOK

(* A new uuid is really new. *)
LEMMA NewIsNew ==
  ASSUME TypeOK, SerialsAreOld, NEW r \in Inst, ReadFree(r) PROVE ~IsMine(r)'
<1>1. made[r] \in Nat /\ made' = [made EXCEPT ![r] = made[r] + 1] /\ lock' = lock
  BY DEF ReadFree, TypeOK
<1> QED
  BY <1>1 DEF IsMine, SerialsAreOld, TypeOK

(* Time passes for a stored lock, which stays whose it is. *)
LEMMA TickLock ==
  ASSUME TypeOK, Tick
  PROVE  /\ lock = NoLock <=> lock' = NoLock
         /\ lock # NoLock => /\ lock'.owner = lock.owner /\ lock'.serial = lock.serial
                             /\ lock.left \in Int /\ lock'.left \in Int
                             /\ lock'.left >= lock.left - 1
         /\ \A p \in Inst : IsMine(p)' <=> IsMine(p)
<1>1. lock = NoLock <=> lock' = NoLock
  <2>1. CASE lock # NoLock /\ lock.left > Floor
    <3>1. [lock EXCEPT !.left = @ - 1] \in Lock
      BY <2>1 DEF TypeOK, Lock, Floor
    <3> QED
      BY <2>1, <3>1 DEF Tick, Older
  <2>2. CASE ~(lock # NoLock /\ lock.left > Floor)
    BY <2>2 DEF Tick, Older
  <2> QED
    BY <2>1, <2>2
<1>2. lock # NoLock => /\ lock'.owner = lock.owner /\ lock'.serial = lock.serial
                       /\ lock.left \in Int /\ lock'.left \in Int
                       /\ lock'.left >= lock.left - 1
  BY DEF Tick, Older, TypeOK, Lock, Floor
<1>3. \A p \in Inst : IsMine(p)' <=> IsMine(p)
  BY <1>1, <1>2 DEF IsMine, Tick
<1> QED
  BY <1>1, <1>2, <1>3

(* A phase begins at age zero, and who passes its limit is slow. *)
LEMMA OnTimeStep ==
  ASSUME TypeOK, OnTime, slow' = {}, [Next]_vars PROVE OnTime'
<1> USE DEF TypeOK, OnTime, Timed, Limit
<1>1. ASSUME NEW p \in Inst, NEW ph, Enter(p, ph) PROVE OnTime'
  BY <1>1 DEF Enter
<1>2. CASE Tick
  <2> SUFFICES ASSUME NEW p \in Inst, Timed(p) PROVE age'[p] <= Limit(p)
    BY <1>2 DEF Tick
  <2>1. Limit(p) \in Nat /\ age[p] \in Nat
    OBVIOUS
  <2>2. p \notin Overdue
    BY <1>2 DEF Tick
  <2> QED
    BY <1>2, <2>1, <2>2, TickAge DEF Overdue
<1>3. CASE UNCHANGED <<phase, age>>
  BY <1>3
<1> QED
  BY <1>1, <1>2, <1>3 DEF Next, vars, ReadFree, WriteLock, WriteLockUnheard,
     CheckPersisted, StartDelete, DeleteLock, DeleteLockUnheard, Abandon, Return

LEMMA SerialsStep ==
  ASSUME TypeOK, SerialsAreOld, [Next]_vars PROVE SerialsAreOld'
<1>1. CASE Tick
  BY <1>1, TickLock DEF SerialsAreOld, Tick
<1>2. ASSUME NEW p \in Inst, ReadFree(p) PROVE SerialsAreOld'
  BY <1>2 DEF ReadFree, SerialsAreOld, TypeOK, Lock
<1>3. ASSUME NEW p \in Inst, lock' = LockOf(p), made' = made PROVE SerialsAreOld'
  BY <1>3, LockOfType DEF SerialsAreOld, TypeOK
<1>4. CASE lock' \in {lock, NoLock} /\ made' = made
  BY <1>4 DEF SerialsAreOld
<1> QED
  BY <1>1, <1>2, <1>3, <1>4 DEF Next, vars, WriteLock, WriteLockUnheard,
     CheckPersisted, StartDelete, DeleteLock, DeleteLockUnheard, Abandon, Return

(* LeftOver for one instance. *)
LeftOverOf(p) ==
    IsMine(p) =>
        /\ phase[p] = "writing" => lock.left >= Lifetime + Offset[p] - age[p]
        /\ phase[p] = "settling" => lock.left >= Lifetime + Offset[p] - Lag - age[p]
        /\ phase[p] = "holding" =>
              lock.left >= Lifetime + Offset[p] - 2 * Lag - Settle - age[p]

LEMMA LeftOverStep ==
  ASSUME AgeInv, [Next]_vars, NEW q \in Inst PROVE LeftOverOf(q)'
<1> USE DEF AgeInv
<1>0. LeftOverOf(q)
  BY DEF LeftOver, LeftOverOf
<1>1. CASE Tick
  <2>1. IsMine(q)' <=> IsMine(q)
    BY <1>1, TickLock
  <2>2. IsMine(q) => /\ lock'.left >= lock.left - 1
                     /\ lock.left \in Int /\ lock'.left \in Int
    BY <1>1, TickLock DEF IsMine
  <2>3. age[q] \in Nat /\ Offset[q] \in Int
    BY OffsetIsInt DEF TypeOK
  <2>4. phase' = phase /\ (phase[q] \in {"writing", "settling", "holding"} =>
                              age'[q] = age[q] + 1)
    BY <1>1, TickAge DEF Tick, Timed
  <2> QED
    BY <1>0, <2>1, <2>2, <2>3, <2>4 DEF LeftOverOf
<1>2. ASSUME NEW p \in Inst, ReadFree(p) PROVE LeftOverOf(q)'
  <2>1. CASE p = q
    BY <1>2, <2>1, NewIsNew DEF LeftOverOf
  <2>2. CASE p # q
    BY <1>0, <1>2, <2>2 DEF LeftOverOf, ReadFree, Enter, TypeOK, IsMine
  <2> QED
    BY <2>1, <2>2
<1>3. ASSUME NEW p \in Inst, WriteLock(p) \/ WriteLockUnheard(p) PROVE LeftOverOf(q)'
  <2>1. CASE p # q
    BY <1>3, <2>1, LockOfType DEF WriteLock, WriteLockUnheard, LeftOverOf, IsMine
  <2>2. CASE p = q
    <3>1. lock'.left \in Int /\ lock'.left >= Lifetime + Offset[q] - age[q]
      BY <1>3, <2>2, LockOfType DEF WriteLock, WriteLockUnheard, Lock, Floor
    <3>2. age[q] \in Nat /\ age[q] <= Lag /\ Offset[q] \in Int
      BY <1>3, <2>2, OffsetIsInt DEF WriteLock, WriteLockUnheard, TypeOK, OnTime, Timed, Limit
    <3>3. \/ phase'[q] \in {"settling", "gone"} /\ age'[q] = 0
          \/ phase'[q] = "writing" /\ age'[q] = age[q]
      BY <1>3, <2>2 DEF WriteLock, WriteLockUnheard, Enter, TypeOK
    <3> QED
      BY <3>1, <3>2, <3>3 DEF LeftOverOf
  <2> QED
    BY <2>1, <2>2
<1>4. ASSUME NEW p \in Inst, CheckPersisted(p) PROVE LeftOverOf(q)'
  <2>1. CASE p # q
    BY <1>0, <1>4, <2>1 DEF CheckPersisted, Enter, TypeOK, LeftOverOf, IsMine
  <2>2. CASE p = q
    <3>1. IsMine(q) => /\ lock.left >= Lifetime + Offset[q] - Lag - age[q]
                       /\ lock.left \in Int
      BY <1>0, <1>4, <2>2 DEF CheckPersisted, LeftOverOf, TypeOK, IsMine, Lock, Floor
    <3>2. age[q] \in Nat /\ age[q] <= Settle + Lag /\ Offset[q] \in Int
      BY <1>4, <2>2, OffsetIsInt DEF CheckPersisted, TypeOK, OnTime, Timed, Limit
    <3>3. /\ phase'[q] \in {"holding", "idle"} /\ age'[q] = 0
          /\ lock' = lock /\ (IsMine(q)' <=> IsMine(q))
      BY <1>4, <2>2 DEF CheckPersisted, Enter, TypeOK, IsMine
    <3> QED
      BY <3>1, <3>2, <3>3 DEF LeftOverOf
  <2> QED
    BY <2>1, <2>2
<1>5. ASSUME NEW p \in Inst, DeleteLock(p) \/ DeleteLockUnheard(p) PROVE LeftOverOf(q)'
  BY <1>5 DEF DeleteLock, DeleteLockUnheard, LeftOverOf, IsMine
<1>6. ASSUME NEW p \in Inst, StartDelete(p) \/ Abandon(p) \/ Return(p)
      PROVE  LeftOverOf(q)'
  BY <1>0, <1>6 DEF StartDelete, Abandon, Return, Enter, TypeOK, LeftOverOf, IsMine
<1>7. CASE UNCHANGED vars
  BY <1>0, <1>7 DEF vars, LeftOverOf, IsMine
<1> QED
  BY <1>1, <1>2, <1>3, <1>4, <1>5, <1>6, <1>7 DEF Next

LEMMA AgeStep == ASSUME AgeInv, slow' = {}, [Next]_vars PROVE AgeInv'
<1>1. LeftOver'
  BY LeftOverStep DEF LeftOver, LeftOverOf
<1> QED
  BY <1>1, TypeStep, OnTimeStep, SerialsStep DEF AgeInv

----------------------------------------------------------------------------
(* The part of Timely that the read-back needs: the sleep outlasts every   *)
(* storage call, and the lock is valid on every clock until the read-back. *)
(* Nothing is said of the work that follows.                               *)
SettlesInTime ==
    /\ Lag < Settle
    /\ \A p, q \in Inst : 2 * Lag + Settle + Offset[q] - Offset[p] <= Lifetime

LEMMA TimelySettles == Timely => SettlesInTime
<1> SUFFICES ASSUME Timely, NEW p \in Inst, NEW q \in Inst
             PROVE  Lag < Settle /\ 2 * Lag + Settle + Offset[q] - Offset[p] <= Lifetime
  BY DEF Timely, SettlesInTime
<1>1. 2 * Lag + Settle + Work + Offset[q] - Offset[p] <= Lifetime
  BY DEF Timely
<1> QED
  BY <1>1, OffsetIsInt DEF Timely

(* A lock that is written or settles looks valid on every clock. *)
LEMMA SettlingIsValid ==
  ASSUME SettlesInTime, AgeInv, NEW p \in Inst, NEW q \in Inst,
         IsMine(p), phase[p] \in {"writing", "settling"}
  PROVE  ~IsExpired(q, lock)
<1>1. lock.left \in Int /\ age[p] \in Nat
  BY DEF AgeInv, TypeOK, Lock, IsMine, Floor
<1>2. Offset[p] \in Int /\ Offset[q] \in Int
  BY OffsetIsInt
<1>3. lock.left >= Lifetime + Offset[p] - 2 * Lag - Settle
  <2>1. CASE phase[p] = "writing"
    <3>1. lock.left >= Lifetime + Offset[p] - age[p] /\ age[p] <= Lag
      BY <2>1 DEF AgeInv, LeftOver, OnTime, Timed, Limit
    <3> QED
      BY <1>1, <1>2, <3>1
  <2>2. CASE phase[p] = "settling"
    <3>1. lock.left >= Lifetime + Offset[p] - Lag - age[p] /\ age[p] <= Settle + Lag
      BY <2>2 DEF AgeInv, LeftOver, OnTime, Timed, Limit
    <3> QED
      BY <1>1, <1>2, <3>1
  <2> QED
    BY <2>1, <2>2
<1>4. 2 * Lag + Settle + Offset[q] - Offset[p] <= Lifetime
  BY DEF SettlesInTime
<1> QED
  BY <1>1, <1>2, <1>3, <1>4 DEF IsExpired

(* While a written lock settles, every pending write is older than it. *)
WritesAreOlder ==
    \A p, q \in Inst :
        (phase[p] = "settling" /\ IsMine(p) /\ phase[q] = "writing") => age[q] >= age[p]

SettleInv == AgeInv /\ WritesAreOlder

LEMMA SettleStep ==
  ASSUME SettlesInTime, SettleInv, slow' = {}, [Next]_vars PROVE SettleInv'
<1> USE DEF SettleInv
<1>1. AgeInv'
  BY AgeStep
<1>2. WritesAreOlder'
  <2> USE DEF WritesAreOlder, AgeInv, TypeOK
  <2>1. CASE Tick
    <3>1. \A p \in Inst : phase[p] \in {"settling", "writing"} =>
                              age'[p] = age[p] + 1
      BY <2>1, TickAge DEF Timed
    <3> QED
      BY <2>1, <3>1, TickLock DEF Tick
  <2>2. ASSUME NEW r \in Inst, ReadFree(r) PROVE WritesAreOlder'
    <3>1. \A p \in Inst : ~(IsMine(p) /\ phase[p] = "settling")
      BY <2>2, SettlingIsValid DEF ReadFree, IsFree, IsMine
    <3>2. \A p \in Inst : ~(IsMine(p)' /\ phase'[p] = "settling")
      BY <2>2, <3>1 DEF ReadFree, Enter, IsMine
    <3> QED
      BY <3>2
  <2>3. ASSUME NEW r \in Inst, WriteLock(r) \/ WriteLockUnheard(r)
        PROVE  WritesAreOlder'
    <3>1. \A p \in Inst : IsMine(p)' => p = r
      BY <2>3, LockOfType DEF WriteLock, WriteLockUnheard, IsMine
    <3>2. phase'[r] = "settling" => age'[r] = 0
      BY <2>3 DEF WriteLock, WriteLockUnheard, Enter
    <3>3. \A p \in Inst : age'[p] \in Nat
      BY <1>1
    <3> QED
      BY <3>1, <3>2, <3>3
  <2>4. ASSUME NEW r \in Inst, NEW ph \in {"idle", "holding", "deleting", "gone"},
               Enter(r, ph), made' = made, lock' \in {lock, NoLock}
        PROVE  WritesAreOlder'
    BY <2>4 DEF Enter, IsMine
  <2>5. CASE UNCHANGED <<phase, age, made>> /\ lock' \in {lock, NoLock}
    BY <2>5 DEF IsMine
  <2> QED
    BY <2>1, <2>2, <2>3, <2>4, <2>5 DEF Next, vars, CheckPersisted, StartDelete,
       DeleteLock, DeleteLockUnheard, Abandon, Return
<1> QED
  BY <1>1, <1>2

(* The read-back settles whose lock it is: once it has found its own lock, *)
(* no write is under way that could replace it.                            *)
LEMMA CheckedIsSettled ==
  ASSUME SettlesInTime, SettleInv, NEW p \in Inst, NEW q \in Inst,
         phase[p] = "settling", age[p] >= Settle, IsMine(p)
  PROVE  phase[q] # "writing"
<1> SUFFICES ASSUME phase[q] = "writing" PROVE FALSE
  OBVIOUS
<1>1. age[q] >= age[p]
  BY DEF SettleInv, WritesAreOlder
<1>2. age[p] \in Nat /\ age[q] \in Nat /\ age[q] <= Lag
  BY DEF SettleInv, AgeInv, TypeOK, OnTime, Timed, Limit
<1> QED
  BY <1>1, <1>2 DEF SettlesInTime

(* However long the owners work, a lock that settles is overwritten only by *)
(* what was on its way before it, as long as no call was slow.              *)
THEOREM SettleInvariant ==
  ASSUME SettlesInTime PROVE Spec => [](slow = {} => SettleInv)
<1>1. Init => (slow = {} => SettleInv)
  BY DEF Init, SettleInv, AgeInv, TypeOK, Phase, OnTime, Timed, SerialsAreOld,
         LeftOver, IsMine, WritesAreOlder
<1>2. (slow = {} => SettleInv) /\ [Next]_vars => (slow = {} => SettleInv)'
  BY SettleStep, SlowGrows
<1> QED
  BY <1>1, <1>2, PTL DEF Spec

----------------------------------------------------------------------------
(* LockInv as long as nobody was slow. *)
PromptInv == AgeInv /\ PendingIsOlder /\ OwnerIsAlone

LEMMA PromptLockInv == LockInv <=> TypeOK /\ (slow = {} => PromptInv)
  BY DEF LockInv, PromptInv, AgeInv

(* A lock that settles or is owned looks valid on every clock, so nobody   *)
(* who reads the store starts to write a lock of its own.                  *)
LEMMA StoredLockIsValid ==
  ASSUME Timely, PromptInv, NEW p \in Inst, NEW q \in Inst,
         IsMine(p), phase[p] \in {"settling", "holding"}
  PROVE  ~IsExpired(q, lock)
<1>1. lock.left \in Int /\ age[p] \in Nat
  BY DEF PromptInv, AgeInv, TypeOK, Lock, IsMine, Floor
<1>2. Offset[p] \in Int /\ Offset[q] \in Int
  BY OffsetIsInt
<1>3. CASE phase[p] = "settling"
  BY <1>3, TimelySettles, SettlingIsValid DEF PromptInv
<1>4. CASE phase[p] = "holding"
  <2>1. lock.left >= Lifetime + Offset[p] - 2 * Lag - Settle - age[p]
    BY <1>4 DEF PromptInv, AgeInv, LeftOver
  <2>2. age[p] <= Work
    BY <1>4 DEF PromptInv, AgeInv, OnTime, Timed, Limit
  <2>3. 2 * Lag + Settle + Work + Offset[q] - Offset[p] <= Lifetime
    BY DEF Timely
  <2> QED
    BY <1>1, <1>2, <2>1, <2>2, <2>3 DEF IsExpired
<1> QED
  BY <1>3, <1>4

(* Nobody starts to write while a lock settles undisturbed or is owned. *)
LEMMA ReadFreeStep ==
  ASSUME Timely, PromptInv, NEW r \in Inst, ReadFree(r)
  PROVE  PendingIsOlder' /\ OwnerIsAlone'
<1>1. \A p \in Inst : ~(IsMine(p) /\ phase[p] \in {"settling", "holding"})
  BY StoredLockIsValid DEF ReadFree, IsFree, IsMine
<1>2. \A p \in Inst : phase'[p] \in {"settling", "holding"} =>
                      p # r /\ phase[p] = phase'[p]
  BY DEF ReadFree, Enter, PromptInv, AgeInv, TypeOK
<1>3. \A p \in Inst : p # r => (IsMine(p)' <=> IsMine(p))
  BY DEF ReadFree, IsMine, PromptInv, AgeInv, TypeOK
<1>4. \A p \in Inst : phase'[p] # "holding"
  BY <1>1, <1>2 DEF PromptInv, AgeInv, OwnerIsAlone
<1> QED
  BY <1>1, <1>2, <1>3, <1>4 DEF PendingIsOlder, OwnerIsAlone

(* A write replaces the stored lock; there is no owner to lose it. *)
LEMMA WriteStep ==
  ASSUME PromptInv, AgeInv', NEW r \in Inst, WriteLock(r) \/ WriteLockUnheard(r)
  PROVE  PendingIsOlder' /\ OwnerIsAlone'
<1>1. \A p \in Inst : IsMine(p)' => p = r
  BY LockOfType DEF WriteLock, WriteLockUnheard, IsMine, PromptInv, AgeInv
<1>2. \A p \in Inst : phase'[p] # "holding"
  BY DEF WriteLock, WriteLockUnheard, Enter, PromptInv, AgeInv, OwnerIsAlone, TypeOK
<1>3. phase'[r] = "settling" => age'[r] = 0
  BY DEF WriteLock, WriteLockUnheard, Enter, PromptInv, AgeInv, TypeOK
<1>4. \A p \in Inst : age'[p] \in Nat
  BY DEF AgeInv, TypeOK
<1> QED
  BY <1>1, <1>2, <1>3, <1>4 DEF PendingIsOlder, OwnerIsAlone

(* The read-back: Lag < Settle, so by now every older write and delete has *)
(* landed, and if the lock is still there nothing can remove it.           *)
LEMMA CheckStep ==
  ASSUME Timely, PromptInv, NEW r \in Inst, CheckPersisted(r)
  PROVE  PendingIsOlder' /\ OwnerIsAlone'
<1>1. \A p \in Inst : IsMine(p)' <=> IsMine(p)
  BY DEF CheckPersisted, IsMine
<1>2. IsMine(r) => \A q \in Inst : phase[q] \notin {"writing", "deleting"}
  <2> SUFFICES ASSUME IsMine(r), NEW q \in Inst,
                      phase[q] \in {"writing", "deleting"}
               PROVE  FALSE
    OBVIOUS
  <2>1. age[q] >= age[r] /\ age[r] >= Settle
    BY DEF CheckPersisted, PromptInv, AgeInv, PendingIsOlder
  <2>2. age[r] \in Nat /\ age[q] \in Nat /\ age[q] <= Lag
    BY DEF PromptInv, AgeInv, TypeOK, OnTime, Timed, Limit
  <2> QED
    BY <2>1, <2>2 DEF Timely
<1>3. PendingIsOlder'
  BY <1>1 DEF CheckPersisted, Enter, PendingIsOlder, PromptInv, AgeInv, TypeOK
<1>4. OwnerIsAlone'
  BY <1>1, <1>2 DEF CheckPersisted, Enter, OwnerIsAlone, PromptInv, AgeInv, TypeOK
<1> QED
  BY <1>3, <1>4

(* An owner that starts its delete is the only one: two would each have    *)
(* their own lock in the store.                                            *)
LEMMA StartDeleteStep ==
  ASSUME PromptInv, NEW r \in Inst, StartDelete(r)
  PROVE  PendingIsOlder' /\ OwnerIsAlone'
<1>1. \A p \in Inst : (IsMine(p)' <=> IsMine(p)) /\ (IsMine(p) => p = r)
  BY DEF StartDelete, IsMine, PromptInv, AgeInv, OwnerIsAlone
<1>2. \A p \in Inst : phase'[p] # "holding" /\ (phase'[p] = "settling" => ~IsMine(p))
  BY <1>1 DEF StartDelete, Enter, PromptInv, AgeInv, OwnerIsAlone, TypeOK
<1> QED
  BY <1>1, <1>2 DEF PendingIsOlder, OwnerIsAlone

(* A delete empties the store while nobody owns the lock. *)
LEMMA DeleteStep ==
  ASSUME PromptInv, NEW r \in Inst, DeleteLock(r) \/ DeleteLockUnheard(r)
  PROVE  PendingIsOlder' /\ OwnerIsAlone'
<1>1. \A p \in Inst : ~IsMine(p)' /\ phase'[p] # "holding"
  BY DEF DeleteLock, DeleteLockUnheard, Enter, IsMine, PromptInv, AgeInv, OwnerIsAlone, TypeOK
<1> QED
  BY <1>1 DEF PendingIsOlder, OwnerIsAlone

(* An instance that is gone leaves its lock behind and no promise broken;  *)
(* when it is back, the lock it left is no lock it owns.                   *)
LEMMA AbandonStep ==
  ASSUME PromptInv, NEW r \in Inst, Abandon(r) \/ Return(r)
  PROVE  PendingIsOlder' /\ OwnerIsAlone'
  BY DEF Abandon, Return, Enter, IsMine, PendingIsOlder, OwnerIsAlone, PromptInv, AgeInv, TypeOK

(* Time passes for every lock and every instance alike. *)
LEMMA TickStep ==
  ASSUME PromptInv, Tick PROVE PendingIsOlder' /\ OwnerIsAlone'
<1>1. \A p \in Inst : IsMine(p)' <=> IsMine(p)
  BY TickLock DEF PromptInv, AgeInv
<1>2. PendingIsOlder'
  <2>1. \A p \in Inst : phase[p] \in {"settling", "writing", "deleting"} =>
                            age'[p] = age[p] + 1
    BY TickAge DEF Timed, PromptInv, AgeInv
  <2> QED
    BY <1>1, <2>1 DEF Tick, PendingIsOlder, PromptInv, AgeInv, TypeOK
<1>3. OwnerIsAlone'
  BY <1>1 DEF Tick, OwnerIsAlone, PromptInv, AgeInv
<1> QED
  BY <1>2, <1>3

(* Together they are kept by every step that leaves nobody slow. *)
LEMMA PromptStep ==
  ASSUME Timely, PromptInv, slow' = {}, [Next]_vars PROVE PromptInv'
<1>1. AgeInv'
  BY AgeStep DEF PromptInv
<1>2. ASSUME UNCHANGED vars PROVE PendingIsOlder' /\ OwnerIsAlone'
  BY <1>2 DEF vars, PromptInv, IsMine, PendingIsOlder, OwnerIsAlone
<1>3. PendingIsOlder' /\ OwnerIsAlone'
  BY <1>1, <1>2, TickStep, ReadFreeStep, WriteStep, CheckStep, StartDeleteStep,
     DeleteStep, AbandonStep DEF Next
<1> QED
  BY <1>1, <1>3 DEF PromptInv

(* LockInv is inductive when the timing assumption holds. *)
LEMMA LockInvStep ==
  ASSUME Timely PROVE LockInv /\ [Next]_vars => LockInv'
<1> SUFFICES ASSUME LockInv, [Next]_vars PROVE LockInv'
  OBVIOUS
<1>1. TypeOK'
  BY TypeStep DEF LockInv
<1>2. ASSUME slow' = {} PROVE PromptInv'
  BY <1>2, SlowGrows, PromptStep, PromptLockInv
<1> QED
  BY <1>1, <1>2 DEF LockInv, PromptInv, AgeInv

(* LockInv holds initially: no lock is stored and everybody is idle. *)
LEMMA LockInvInit == Init => LockInv
  BY DEF Init, LockInv, TypeOK, Phase, OnTime, Timed, SerialsAreOld, LeftOver,
         IsMine, PendingIsOlder, OwnerIsAlone

(* The inductive invariant holds throughout. *)
THEOREM LockInvariant == ASSUME Timely PROVE Spec => []LockInv
  BY LockInvInit, LockInvStep, PTL DEF Spec

(* At most one owner, and its lock is in the store and valid on every      *)
(* clock: write_and_check_persisted answers true to one caller at a time   *)
(* as long as a storage call is shorter than the two-second sleep, which   *)
(* no call is that has to wait for its third try, and the owner's work     *)
(* ends before the lock does.                                              *)
THEOREM MutualExclusion ==
  ASSUME Timely PROVE Spec => [](OneOwner /\ OwnerIsProtected)
<1>1. LockInv => OneOwner
  BY DEF LockInv, OwnerIsAlone, OneOwner, Owners, IsMine
<1>2. LockInv => OwnerIsProtected
  BY PromptLockInv, StoredLockIsValid
     DEF PromptInv, OwnerIsAlone, OwnerIsProtected, Owners
<1> QED
  BY <1>1, <1>2, LockInvariant, PTL

(* A step changes the set of owners as a mutex may. *)
LEMMA MutexStep ==
  ASSUME LockInv, LockInv', [Next]_vars PROVE [M!Next]_Owners
<1>0. LockInv => OneOwner
  BY DEF LockInv, OwnerIsAlone, OneOwner, Owners, IsMine
<1>1. OneOwner /\ OneOwner'
  <2>1. LockInv' => OneOwner'
    BY DEF LockInv, OwnerIsAlone, OneOwner, Owners, IsMine
  <2> QED BY <1>0, <2>1
<1>2. CASE Tick \/ UNCHANGED vars
  <2>1. Owners' = Owners \/ Owners' = {}
    BY <1>2 DEF Tick, vars, Owners
  <2>2. Owners # {} => \E p \in Inst : Owners = {p}
    BY <1>1 DEF OneOwner, Owners
  <2> QED
    BY <2>1, <2>2 DEF M!Next, M!Release
<1>3. ASSUME NEW p \in Inst,
             \/ ReadFree(p) \/ WriteLock(p) \/ WriteLockUnheard(p)
             \/ DeleteLock(p) \/ DeleteLockUnheard(p) \/ Return(p)
      PROVE  Owners' = Owners
  BY <1>3 DEF ReadFree, WriteLock, WriteLockUnheard, DeleteLock, DeleteLockUnheard,
              Return, Enter, Owners, LockInv, TypeOK
<1>4. ASSUME NEW p \in Inst, StartDelete(p) \/ Abandon(p)
      PROVE  Owners' = Owners \ {p}
  BY <1>4 DEF StartDelete, Abandon, Enter, Owners, LockInv, TypeOK
<1>5. ASSUME NEW p \in Inst, CheckPersisted(p)
      PROVE  Owners' = Owners \/ Owners' = Owners \cup {p}
  BY <1>5 DEF CheckPersisted, Enter, Owners, LockInv, TypeOK
<1>6. \A p \in Owners : Owners = {p}
  BY <1>1 DEF OneOwner
<1>7. \A p \in Inst : Owners' = Owners \ {p} => Owners' = Owners \/ M!Release(p)
  BY <1>6 DEF M!Release
<1>8. \A p \in Inst : Owners' = Owners \cup {p} => Owners' = Owners \/ M!Acquire(p)
  <2> SUFFICES ASSUME NEW p \in Inst, Owners' = Owners \cup {p}, p \notin Owners
               PROVE  M!Acquire(p)
    OBVIOUS
  <2>1. Owners' = {p}
    BY <1>1 DEF OneOwner
  <2> QED
    BY <2>1 DEF M!Acquire
<1> QED
  BY <1>2, <1>3, <1>4, <1>5, <1>7, <1>8 DEF Next, M!Next

(* StorageLock implements Mutex. *)
THEOREM LockImplementsMutex == ASSUME Timely PROVE Spec => ImplementsMutex
<1>1. Init => M!Init
  BY DEF Init, M!Init, Owners
<1>2. LockInv /\ LockInv' /\ [Next]_vars => [M!Next]_Owners
  BY MutexStep
<1> QED
  BY <1>1, <1>2, LockInvariant, PTL DEF Spec, ImplementsMutex, M!Spec
=============================================================================
