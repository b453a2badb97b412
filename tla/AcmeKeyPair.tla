---------------------------- MODULE AcmeKeyPair ----------------------------
(***************************************************************************)
(* get_or_create_enclave_key_pair (data-plane/src/acme/key.rs): every      *)
(* instance of an enclave needs the one key pair behind its public         *)
(* certificate.  An instance polls the store for the pair and, when there  *)
(* is none and nobody holds the "keypair" lock, takes the lock, generates  *)
(* a pair, has it encrypted by E3, stores the public and then the private  *)
(* half and deletes the lock.                                              *)
(*                                                                         *)
(* Every storage call is a step of its own, made up to three times         *)
(* (config_client.rs); a failed try may still have been applied.  A pair   *)
(* is named after its creator and the lock it was created under.  A        *)
(* process that dies is started again; the store is all that it left.      *)
(***************************************************************************)
EXTENDS Integers

CONSTANTS
    Inst, NoLock, Lifetime, Settle, Lag, Work, MaxSkew, Offset, MaxLocks,
    NoKey,      \* an absent object, or no key yet
    Poll,       \* seconds slept between two checks: 3
    MaxChecks,  \* max_checks: 5
    Faulty,     \* the instances whose calls may fail and that may crash
    MaxRestarts \* bound: how many of them are started again

ASSUME PollingIsNat == Poll \in Nat /\ MaxChecks \in Nat \ {0}
ASSUME FaultyAreInstances == Faulty \subseteq Inst /\ MaxRestarts \in Nat
ASSUME NoKeyIsNoPair == NoKey \notin Inst \X (0..MaxLocks)

\* The numbers are what StorageLock takes them to be.
ASSUME DurationsAreNat ==
    /\ Lifetime \in Nat /\ Settle \in Nat /\ Lag \in Nat /\ Work \in Nat
    /\ MaxSkew \in Nat /\ MaxLocks \in Nat
    /\ Offset \in [Inst -> (-MaxSkew)..MaxSkew]

VARIABLES
    public, private,    \* the two stored objects, encrypted
    lock, made, age,    \* as in StorageLock; age also times the poll sleep
    pc,                 \* pc[p]: the call p is making
    checks,             \* checks[p]: i of the polling loop
    tries,              \* tries[p]: failed tries of the current call
    fetched,            \* fetched[p]: the halves read by this check
    key,                \* key[p]: the key pair p was given
    late,               \* late[p]: a whole pair was stored when the current
                        \*   check of p began
    failed,             \* the instances a call of which has failed, or that
                        \*   died
    slow,               \* as in StorageLock: who has outstayed a phase
    restarts            \* how many were started again
                        \*   (the last four are not program state)

vars == <<public, private, lock, made, age, pc, checks, tries, fetched, key,
          late, failed, slow, restarts>>

MaxTries == 3

Calls == {"getPublic", "getPrivate", "readLock", "write", "settle",
          "putPublic", "putPrivate", "delete"}
Ended == {"done", "gaveUp", "dead"}
PC == Calls \cup Ended \cup {"off", "decrypt", "encrypt", "nap"}

\* What a call is to the lock.
PhaseOf(l) ==
    CASE l = "write"  -> "writing"
      [] l = "settle" -> "settling"
      [] l \in {"encrypt", "putPublic", "putPrivate"} -> "holding"
      [] l = "delete" -> "deleting"
      [] l = "dead"   -> "gone"
      [] OTHER        -> "idle"

LockPhase == [p \in Inst |-> PhaseOf(pc[p])]

\* The lock's clock runs in its timed phases only.
LockAge == [p \in Inst |-> IF LockPhase[p] \in {"idle", "gone"} THEN 0 ELSE age[p]]

L == INSTANCE StorageLock WITH
        phase <- LockPhase, age <- LockAge

\* E3 wraps the object (external); what is stored is never the key itself.
Encrypted(k) == [cipher |-> k]
Decrypted(c) == c.cipher

Pairs == Inst \X (0..MaxLocks)
Object == [cipher : Pairs] \cup {NoKey}

ASSUME AbsentIsAbsent == NoKey \notin [cipher : Pairs] /\ NoLock \notin L!Lock

TypeOK ==
    /\ public \in Object /\ private \in Object
    /\ lock \in L!Lock \cup {NoLock}
    /\ made \in [Inst -> 0..MaxLocks]
    /\ age \in [Inst -> Nat]
    /\ pc \in [Inst -> PC]
    /\ checks \in [Inst -> 0..MaxChecks]
    /\ tries \in [Inst -> 0..(MaxTries - 1)]
    /\ fetched \in [Inst -> [public : Object, private : Object]]
    /\ key \in [Inst -> Pairs \cup {NoKey}]
    /\ late \in [Inst -> BOOLEAN]
    /\ failed \subseteq Faulty
    /\ slow \subseteq Faulty
    /\ restarts \in 0..MaxRestarts

Nothing == [public |-> NoKey, private |-> NoKey]

Init ==
    /\ public = NoKey /\ private = NoKey
    /\ lock = NoLock
    /\ made = [p \in Inst |-> 0]
    /\ age = [p \in Inst |-> 0]
    /\ pc = [p \in Inst |-> "off"]
    /\ checks = [p \in Inst |-> 0]
    /\ tries = [p \in Inst |-> 0]
    /\ fetched = [p \in Inst |-> Nothing]
    /\ key = [p \in Inst |-> NoKey]
    /\ late = [p \in Inst |-> FALSE]
    /\ failed = {}
    /\ slow = {}
    /\ restarts = 0

----------------------------------------------------------------------------
\* The pair p generates.
Pair(p) == <<p, made[p]>>

PairIsStored == public # NoKey /\ private # NoKey

Goto(p, l) ==
    /\ pc' = [pc EXCEPT ![p] = l]
    /\ tries' = [tries EXCEPT ![p] = 0]

Clock(p) == age' = [age EXCEPT ![p] = 0]

\* The head of the while loop, entered at the start and after each sleep.
Check(p) ==
    /\ checks' = [checks EXCEPT ![p] = @ + 1]
    /\ Goto(p, IF checks[p] + 1 >= MaxChecks THEN "gaveUp" ELSE "getPublic")
    /\ late' = [late EXCEPT ![p] = PairIsStored]
    /\ fetched' = [fetched EXCEPT ![p] = Nothing]
    /\ Clock(p)
    /\ UNCHANGED <<public, private, lock, made, key, failed, slow, restarts>>

Boot(p) == pc[p] = "off" /\ Check(p)

\* Variant: the sleep between two checks is missing.
WakeAtOnce(p) == pc[p] = "nap" /\ Check(p)

Wake(p) == pc[p] = "nap" /\ age[p] >= Poll /\ Check(p)

GetPublic(p) ==
    /\ pc[p] = "getPublic"
    /\ fetched' = [fetched EXCEPT ![p].public = public]
    /\ Goto(p, "getPrivate")
    /\ UNCHANGED <<public, private, lock, made, age, checks, key, late,
                   failed, slow, restarts>>

\* from_storage answers Some only when both halves were there.
GetPrivate(p) ==
    /\ pc[p] = "getPrivate"
    /\ fetched' = [fetched EXCEPT ![p].private = private]
    /\ Goto(p, IF fetched[p].public # NoKey /\ private # NoKey
               THEN "decrypt" ELSE "readLock")
    /\ UNCHANGED <<public, private, lock, made, age, checks, key, late,
                   failed, slow, restarts>>

\* decrypt_key_pair, then key_pair(): only the private half is used.
DecryptKeyPair(p) ==
    /\ pc[p] = "decrypt"
    /\ key' = [key EXCEPT ![p] = Decrypted(fetched[p].private)]
    /\ Goto(p, "done")
    /\ UNCHANGED <<public, private, lock, made, age, checks, fetched, late,
                   failed, slow, restarts>>

\* Variant: a lock is created whatever is stored.
ReadLockUnread(p) ==
    /\ pc[p] = "readLock"
    /\ made[p] < MaxLocks
    /\ made' = [made EXCEPT ![p] = @ + 1]
    /\ Goto(p, "write")
    /\ Clock(p)
    /\ UNCHANGED <<public, private, lock, checks, fetched, key, late, failed,
                   slow, restarts>>

\* No lock or an expired one: create a lock of our own.  Else sleep.
ReadLock(p) ==
    /\ pc[p] = "readLock"
    /\ \/ /\ L!IsFree(p)
          /\ made[p] < MaxLocks
          /\ made' = [made EXCEPT ![p] = @ + 1]
          /\ Goto(p, "write")
       \/ /\ ~L!IsFree(p)
          /\ Goto(p, "nap")
          /\ UNCHANGED made
    /\ Clock(p)
    /\ UNCHANGED <<public, private, lock, checks, fetched, key, late, failed,
                   slow, restarts>>

WriteLock(p) ==
    /\ pc[p] = "write"
    /\ lock' = L!LockOf(p)
    /\ Goto(p, "settle")
    /\ Clock(p)
    /\ UNCHANGED <<public, private, made, checks, fetched, key, late, failed,
                   slow, restarts>>

\* Variant: whoever wrote a lock generates a pair.
CheckPersistedAnyUuid(p) ==
    /\ pc[p] = "settle"
    /\ age[p] >= Settle
    /\ Goto(p, "encrypt")
    /\ Clock(p)
    /\ UNCHANGED <<public, private, lock, made, checks, fetched, key, late,
                   failed, slow, restarts>>

\* After the two-second sleep: generate a pair, or sleep before a new check.
CheckPersisted(p) ==
    /\ pc[p] = "settle"
    /\ age[p] >= Settle
    /\ Goto(p, IF L!IsMine(p) THEN "encrypt" ELSE "nap")
    /\ Clock(p)
    /\ UNCHANGED <<public, private, lock, made, checks, fetched, key, late,
                   failed, slow, restarts>>

EncryptKeyPair(p) ==
    /\ pc[p] = "encrypt"
    /\ Goto(p, "putPublic")
    /\ UNCHANGED <<public, private, lock, made, age, checks, fetched, key,
                   late, failed, slow, restarts>>

PutPublic(p) ==
    /\ pc[p] = "putPublic"
    /\ public' = Encrypted(Pair(p))
    /\ Goto(p, "putPrivate")
    /\ UNCHANGED <<private, lock, made, age, checks, fetched, key, late,
                   failed, slow, restarts>>

PutPrivate(p) ==
    /\ pc[p] = "putPrivate"
    /\ private' = Encrypted(Pair(p))
    /\ Goto(p, "delete")
    /\ Clock(p)
    /\ UNCHANGED <<public, lock, made, checks, fetched, key, late, failed,
                   slow, restarts>>

DeleteLock(p) ==
    /\ pc[p] = "delete"
    /\ lock' = NoLock
    /\ key' = [key EXCEPT ![p] = Pair(p)]
    /\ Goto(p, "done")
    /\ Clock(p)
    /\ UNCHANGED <<public, private, made, checks, fetched, late, failed, slow,
                   restarts>>

\* What the store looks like when a call of p was applied.
Applied(p) ==
    /\ lock' = CASE pc[p] = "write" -> L!LockOf(p)
                 [] pc[p] = "delete" -> NoLock
                 [] OTHER -> lock
    /\ public' = IF pc[p] = "putPublic" THEN Encrypted(Pair(p)) ELSE public
    /\ private' = IF pc[p] = "putPrivate" THEN Encrypted(Pair(p)) ELSE private

\* Variant: a put that has failed for good is undone.
CallFailsUndoing(p) ==
    /\ p \in Faulty
    /\ pc[p] \in {"putPublic", "putPrivate"}
    /\ \/ /\ tries[p] + 1 < MaxTries
          /\ tries' = [tries EXCEPT ![p] = @ + 1]
          /\ Applied(p)
          /\ UNCHANGED <<pc, age>>
       \/ /\ tries[p] + 1 = MaxTries
          /\ Goto(p, "dead")
          /\ Clock(p)
          /\ public' = NoKey /\ private' = NoKey
          /\ UNCHANGED lock
    /\ failed' = failed \cup {p}
    /\ UNCHANGED <<made, checks, fetched, key, late, slow, restarts>>

\* One try of a storage call fails, applied or not; the third failure is
\* returned to the caller, which panics on it.  When the next try is made is
\* Tick's concern.
CallFails(p) ==
    /\ p \in Faulty
    /\ pc[p] \in Calls
    /\ pc[p] = "settle" => age[p] >= Settle
    /\ Applied(p) \/ UNCHANGED <<lock, public, private>>
    /\ \/ /\ tries[p] + 1 < MaxTries
          /\ tries' = [tries EXCEPT ![p] = @ + 1]
          /\ UNCHANGED <<pc, age>>
       \/ /\ tries[p] + 1 = MaxTries
          /\ Goto(p, "dead")
          /\ Clock(p)
    /\ failed' = failed \cup {p}
    /\ UNCHANGED <<made, checks, fetched, key, late, slow, restarts>>

\* Variant: an instance that fails releases its lock on the way out.
DieReleasing(p) ==
    /\ p \in Faulty
    /\ pc[p] \notin Ended \cup {"off"}
    /\ lock' = IF LockPhase[p] = "holding" THEN NoLock ELSE lock
    /\ Goto(p, "dead")
    /\ Clock(p)
    /\ failed' = failed \cup {p}
    /\ UNCHANGED <<public, private, made, checks, fetched, key, late, slow,
                   restarts>>

\* E3 refuses, or the enclave is terminated.
Die(p) ==
    /\ p \in Faulty
    /\ pc[p] \notin Ended \cup {"off"}
    /\ Goto(p, "dead")
    /\ Clock(p)
    /\ failed' = failed \cup {p}
    /\ UNCHANGED <<public, private, lock, made, checks, fetched, key, late,
                   slow, restarts>>

\* The process that died is started again and knows nothing.
Restart(p) ==
    /\ pc[p] = "dead" /\ restarts < MaxRestarts
    /\ restarts' = restarts + 1
    /\ Goto(p, "off")
    /\ checks' = [checks EXCEPT ![p] = 0]
    /\ fetched' = [fetched EXCEPT ![p] = Nothing]
    /\ key' = [key EXCEPT ![p] = NoKey]
    /\ late' = [late EXCEPT ![p] = FALSE]
    /\ Clock(p)
    /\ UNCHANGED <<public, private, lock, made, failed, slow>>

\* The first retry follows within the 500 ms that Lag allows for; the second
\* may wait for minutes.  Nothing else outstays its phase.
Tick ==
    /\ \A p \in Inst :
          L!Timed(p) /\ age[p] = L!Limit(p) => tries[p] = MaxTries - 1
    /\ age' = [p \in Inst |->
                 IF L!Timed(p) THEN L!Aged(p)
                 ELSE IF pc[p] = "nap" /\ age[p] < Poll THEN age[p] + 1
                 ELSE age[p]]
    /\ slow' = slow \cup L!Overdue
    /\ lock' = L!Older(lock)
    /\ UNCHANGED <<public, private, made, pc, checks, tries, fetched, key,
                   late, failed, restarts>>

Step(p) ==
    \/ Wake(p) \/ GetPublic(p) \/ GetPrivate(p) \/ DecryptKeyPair(p)
    \/ ReadLock(p) \/ WriteLock(p) \/ CheckPersisted(p) \/ EncryptKeyPair(p)
    \/ PutPublic(p) \/ PutPrivate(p) \/ DeleteLock(p)

Next ==
    \/ Tick
    \/ \E p \in Inst : Boot(p) \/ Step(p) \/ CallFails(p) \/ Die(p) \/ Restart(p)

Spec == Init /\ [][Next]_vars

----------------------------------------------------------------------------
(***************************************************************************)
(* The lock protocol of key.rs is the one StorageLock describes; what is   *)
(* proved of StorageLock holds of the key pair's creators.                 *)
(***************************************************************************)
ImplementsStorageLock == L!Spec

(***************************************************************************)
(* As long as no call fails the two stored halves belong to one pair       *)
(* whenever no creator is between its two puts: the two unprotected puts   *)
(* of persist never interleave with another creator's.                     *)
(***************************************************************************)
StoredHalvesMatch ==
    (failed = {} /\ \A p \in Inst : pc[p] # "putPrivate") => public = private

(***************************************************************************)
(* A creator that dies between its two puts leaves half a pair, which      *)
(* from_storage treats as none.  Whatever the timing and the failures, the *)
(* store then still holds a lock, so other instances wait for its expiry   *)
(* and one of them creates a pair anew. Every variable keeps its type.     *)
(***************************************************************************)
HalfPairIsLocked ==
    /\ TypeOK
    /\ (public # NoKey /\ private = NoKey) => lock # NoLock

(***************************************************************************)
(* An instance whose check began with a whole pair in the store never goes *)
(* on to the lock to create another one, whatever the timing and the       *)
(* failures: the order of the two puts against the order of the two gets,  *)
(* and the fact that the halves are never deleted, let it find both.  This *)
(* does not say which pair it is given: an instance that looked before the *)
(* pair was stored, and read the lock after it was released, still creates *)
(* a pair of its own and overwrites the stored one.                        *)
(***************************************************************************)
LatecomersCreateNoKey ==
    \A p \in Inst : late[p] => pc[p] \notin {"readLock", "write", "settle"}

(***************************************************************************)
(* As long as no call fails nobody runs out of checks: the pair is stored  *)
(* before the fourth check of anyone who waits for it.                     *)
(***************************************************************************)
NobodyGivesUp == failed = {} => \A p \in Inst : pc[p] # "gaveUp"

=============================================================================
