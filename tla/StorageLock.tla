---------------------------- MODULE StorageLock ----------------------------
(***************************************************************************)
(* The lock that enclave instances take through the host's object store    *)
(* before they create a shared object (data-plane/src/acme/lock.rs), as    *)
(* its callers use it: read the lock, find it absent or expired, write a   *)
(* fresh one over it, sleep, read it back and own it if the uuid survived, *)
(* do the work, delete the object.                                         *)
(*                                                                         *)
(* The store has no compare-and-swap: a write overwrites whatever is       *)
(* there and a delete removes whatever is there.  What makes this a lock   *)
(* is timing, so time is modelled: one Tick is one second of true time.    *)
(* Durations are kept as ages that Tick increments, which keeps the state  *)
(* space finite without bounding the length of a behaviour.                *)
(*                                                                         *)
(* Nothing in the code stops a call that outlasts its limit: the third try *)
(* of a storage call comes up to 250 seconds after the second              *)
(* (config_client.rs:308-330).  So time is never stopped here; who has     *)
(* been overtaken by it is remembered in slow.                             *)
(***************************************************************************)
EXTENDS Integers

CONSTANTS
    Inst,       \* the enclave instances; a restarted enclave is a new one
    NoLock,     \* the store holds no lock object (a 404)
    Lifetime,   \* seconds a lock is valid for: 30 in StorageLock::new
    Settle,     \* seconds slept before the read-back: 2
    Lag,        \* longest a storage call takes when its third try is not
                \*   needed: 500 ms of backoff at most
    Work,       \* longest an owner works before it deletes the lock
    MaxSkew,    \* bound on the error of an instance's clock, in seconds
    Offset,     \* Offset[p]: clock of p minus true time
    MaxLocks    \* bound: locks one instance creates

ASSUME DurationsAreNat ==
    /\ Lifetime \in Nat
    /\ Settle \in Nat
    /\ Lag \in Nat
    /\ Work \in Nat
    /\ MaxSkew \in Nat
    /\ MaxLocks \in Nat
    /\ Offset \in [Inst -> (-MaxSkew)..MaxSkew]

VARIABLES
    lock,       \* the lock object in the store
    phase,      \* phase[p]: what p is doing with the lock
    made,       \* made[p]: locks p has created; <<p, made[p]>> is the uuid
    age,        \* age[p]: seconds p has spent in a timed phase
    slow        \* the instances that have outstayed a phase (history)

vars == <<lock, phase, made, age, slow>>

Phase == {"idle", "writing", "settling", "holding", "deleting", "gone"}

\* Once a lock is this far past its expiry every clock agrees that it is.
Floor == -MaxSkew - 1

\* left is the expiry, as its writer's clock stated it, minus true time.
Lock == [owner: Inst, serial: 0..MaxLocks, left: Floor..(Lifetime + MaxSkew)]

ASSUME NoLockIsNoLock == NoLock \notin Lock

TypeOK ==
    /\ lock \in Lock \cup {NoLock}
    /\ phase \in [Inst -> Phase]
    /\ made \in [Inst -> 0..MaxLocks]
    /\ age \in [Inst -> Nat]
    /\ slow \subseteq Inst

Init ==
    /\ lock = NoLock
    /\ phase = [p \in Inst |-> "idle"]
    /\ made = [p \in Inst |-> 0]
    /\ age = [p \in Inst |-> 0]
    /\ slow = {}

----------------------------------------------------------------------------
\* is_expired, on the clock of p: Utc::now() > expiry_time.
IsExpired(p, l) == l.left < Offset[p]

\* Variant: the lock is created without a look at the stored one.
IsFreeUnread(p) == phase[p] = "idle"

\* The callers' test before they create a lock of their own.
IsFree(p) == lock # NoLock => IsExpired(p, lock)

\* has_uuid: the stored lock is the one p created last.
IsMine(p) == lock # NoLock /\ lock.owner = p /\ lock.serial = made[p]

\* The object p writes: its expiry was fixed when p created the lock.
LockOf(p) ==
    LET left == Lifetime + Offset[p] - age[p]
    IN  [owner |-> p, serial |-> made[p],
         left |-> IF left < Floor THEN Floor ELSE left]

Enter(p, ph) ==
    /\ phase' = [phase EXCEPT ![p] = ph]
    /\ age' = [age EXCEPT ![p] = 0]

\* read_from_storage finds no valid lock; StorageLock::new follows without
\* an await, so the new uuid and expiry date from the same instant.
ReadFree(p) ==
    /\ phase[p] = "idle"
    /\ made[p] < MaxLocks
    /\ IsFree(p)
    /\ made' = [made EXCEPT ![p] = @ + 1]
    /\ Enter(p, "writing")
    /\ UNCHANGED <<lock, slow>>

\* write_lock: the put overwrites whatever is stored; then the sleep starts.
WriteLock(p) ==
    /\ phase[p] = "writing"
    /\ lock' = LockOf(p)
    /\ Enter(p, "settling")
    /\ UNCHANGED <<made, slow>>

\* The put was applied but its answer was lost: put_object tries again, or
\* it was the last try and the error ends p.
WriteLockUnheard(p) ==
    /\ phase[p] = "writing"
    /\ lock' = LockOf(p)
    /\ UNCHANGED <<phase, age>> \/ Enter(p, "gone")
    /\ UNCHANGED <<made, slow>>

\* Variant: the read-back follows the write without the sleep.
CheckPersistedAtOnce(p) ==
    /\ phase[p] = "settling"
    /\ Enter(p, IF IsMine(p) THEN "holding" ELSE "idle")
    /\ UNCHANGED <<lock, made, slow>>

\* is_persisted after the sleep: own the lock, or go back to polling.
CheckPersisted(p) ==
    /\ phase[p] = "settling"
    /\ age[p] >= Settle
    /\ Enter(p, IF IsMine(p) THEN "holding" ELSE "idle")
    /\ UNCHANGED <<lock, made, slow>>

\* The owner's work is done and it calls delete.
StartDelete(p) ==
    /\ phase[p] = "holding"
    /\ Enter(p, "deleting")
    /\ UNCHANGED <<lock, made, slow>>

\* delete_object removes whatever lock is stored, whoever wrote it.
DeleteLock(p) ==
    /\ phase[p] = "deleting"
    /\ lock' = NoLock
    /\ Enter(p, "idle")
    /\ UNCHANGED <<made, slow>>

\* The delete was applied but its answer was lost, likewise.
DeleteLockUnheard(p) ==
    /\ phase[p] = "deleting"
    /\ lock' = NoLock
    /\ UNCHANGED <<phase, age>> \/ Enter(p, "gone")
    /\ UNCHANGED <<made, slow>>

\* The instance crashes, or a call of its fails for good and `?` returns
\* early: the stored lock stays behind.
Abandon(p) ==
    /\ phase[p] # "gone"
    /\ Enter(p, "gone")
    /\ UNCHANGED <<lock, made, slow>>

\* The instance is started again and polls; its uuids are still new.
Return(p) ==
    /\ phase[p] = "gone"
    /\ Enter(p, "idle")
    /\ UNCHANGED <<lock, made, slow>>

\* How long p stays in its phase unless it is slow.
Limit(p) ==
    CASE phase[p] = "writing"  -> Lag
      [] phase[p] = "settling" -> Settle + Lag
      [] phase[p] = "holding"  -> Work
      [] phase[p] = "deleting" -> Lag
      [] OTHER -> 0

Timed(p) == phase[p] \notin {"idle", "gone"}

\* A stored lock one second later.
Older(l) ==
    IF l # NoLock /\ l.left > Floor THEN [l EXCEPT !.left = @ - 1] ELSE l

\* At this age whatever p writes has expired on every clock.
Outdated == Lifetime + 2 * MaxSkew + 1

\* The age of p one second later.  Past the limit it only matters to what a
\* late write says; beyond that it is not counted (a bound).
Aged(p) ==
    IF \/ Timed(p) /\ age[p] <= Limit(p)
       \/ phase[p] = "writing" /\ age[p] < Outdated
    THEN age[p] + 1 ELSE age[p]

\* Who is not done at the end of its time.
Overdue == {p \in Inst : Timed(p) /\ age[p] >= Limit(p)}

Tick ==
    /\ age' = [p \in Inst |-> Aged(p)]
    /\ slow' = slow \cup Overdue
    /\ lock' = Older(lock)
    /\ UNCHANGED <<phase, made>>

Next ==
    \/ Tick
    \/ \E p \in Inst :
          \/ ReadFree(p) \/ WriteLock(p) \/ WriteLockUnheard(p)
          \/ CheckPersisted(p) \/ StartDelete(p)
          \/ DeleteLock(p) \/ DeleteLockUnheard(p) \/ Abandon(p) \/ Return(p)

Spec == Init /\ [][Next]_vars

----------------------------------------------------------------------------
(***************************************************************************)
(* What the callers rely on.  It needs the sleep to outlast every storage  *)
(* call, and the lock to outlive the work on every clock.  These are       *)
(* numbers; that everybody keeps to them is slow = {}.  Once a call has    *)
(* been slow nothing below is claimed: a put that lands minutes after the  *)
(* lock was read overwrites whatever is stored by then.                    *)
(***************************************************************************)
Timely ==
    /\ Lag < Settle
    /\ \A p, q \in Inst :
          2 * Lag + Settle + Work + Offset[q] - Offset[p] <= Lifetime

\* Who believes it owns the lock, as long as nobody has been slow.
Owners == {p \in Inst : phase[p] = "holding" /\ slow = {}}

(***************************************************************************)
(* At most one instance believes it owns the lock.  Two can both have read *)
(* "no lock" and both have written: the read-back must let only one by.    *)
(***************************************************************************)
OneOwner == \A p, q \in Owners : p = q

(***************************************************************************)
(* An owner's lock is in the store and no reader's clock finds it expired: *)
(* neither a late write nor another instance's blind delete removed it.    *)
(***************************************************************************)
OwnerIsProtected ==
    \A p \in Owners : IsMine(p) /\ \A q \in Inst : ~IsExpired(q, lock)

(***************************************************************************)
(* The refinement: seen through Owners, the store behaves as a mutex.  In  *)
(* particular ownership never passes from one instance to another without *)
(* a moment at which nobody owns the lock.                                 *)
(***************************************************************************)
M == INSTANCE Mutex WITH owners <- Owners

ImplementsMutex == M!Spec

----------------------------------------------------------------------------
(***************************************************************************)
(* The inductive invariant behind these properties.                        *)
(***************************************************************************)

\* Nobody outstays a phase: this is what slow = {} gives.
OnTime == \A p \in Inst : Timed(p) => age[p] <= Limit(p)

\* A stored lock was created by its owner, so a new uuid is really new.
SerialsAreOld == lock # NoLock => lock.serial <= made[lock.owner]

\* What is left of a stored lock, from where its creator stands.
LeftOver ==
    \A p \in Inst : IsMine(p) =>
        /\ phase[p] = "writing" =>
              lock.left >= Lifetime + Offset[p] - age[p]
        /\ phase[p] = "settling" =>
              lock.left >= Lifetime + Offset[p] - Lag - age[p]
        /\ phase[p] = "holding" =>
              lock.left >= Lifetime + Offset[p] - 2 * Lag - Settle - age[p]

\* While a written lock settles, every pending write and every pending
\* delete is older than it: Lag < Settle then lands them before the check.
PendingIsOlder ==
    \A p, q \in Inst :
        (/\ phase[p] = "settling" /\ IsMine(p)
         /\ phase[q] \in {"writing", "deleting"}) => age[q] >= age[p]

\* An owner's lock is stored and nothing is on its way to change that.
OwnerIsAlone ==
    \A p \in Inst : phase[p] = "holding" =>
        /\ IsMine(p)
        /\ \A q \in Inst : phase[q] \notin {"writing", "deleting"}

LockInv ==
    /\ TypeOK
    /\ slow = {} =>
          OnTime /\ SerialsAreOld /\ LeftOver /\ PendingIsOlder /\ OwnerIsAlone
=============================================================================
