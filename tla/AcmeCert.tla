------------------------------ MODULE AcmeCert ------------------------------
(***************************************************************************)
(* get_or_create_enclave_certificate (data-plane/src/acme/cert.rs): at     *)
(* boot every instance polls the store for the enclave's certificate and,  *)
(* when there is none and nobody holds a valid "certificate-v1" lock,      *)
(* takes the lock, orders a certificate from an ACME provider, stores it   *)
(* and deletes the lock.                                                   *)
(*                                                                         *)
(* Two things differ from the key pair.  An order takes far longer than a  *)
(* storage call and may outlast the lock.  And the lock carries a count of *)
(* attempts that survives its owner: it selects the provider.  An          *)
(* instance that has died is started again and finds what it left.         *)
(***************************************************************************)
EXTENDS Integers

CONSTANTS
    Inst, NoLock, Lifetime, Settle, Lag, Work, MaxSkew, Offset, MaxLocks,
    NoCert,     \* no certificate stored, or none served
    Poll,       \* seconds slept between two checks: 5
    MaxChecks,  \* max_checks: 10
    Faulty,     \* the instances whose calls may fail and that may crash
    MaxRestarts \* bound: how many of them are started again

ASSUME PollingIsNat == Poll \in Nat /\ MaxChecks \in Nat \ {0}
ASSUME FaultyAreInstances == Faulty \subseteq Inst /\ MaxRestarts \in Nat
ASSUME NoCertIsNoInstance == NoCert \notin Inst

\* The numbers are what StorageLock takes them to be.
ASSUME DurationsAreNat ==
    /\ Lifetime \in Nat /\ Settle \in Nat /\ Lag \in Nat /\ Work \in Nat
    /\ MaxSkew \in Nat /\ MaxLocks \in Nat
    /\ Offset \in [Inst -> (-MaxSkew)..MaxSkew]

VARIABLES
    cert,       \* the stored certificate, named after who ordered it
    lock,       \* the stored lock: as in StorageLock, and attempts
    made, age,  \* as in StorageLock; age also times the poll sleep
    pc,         \* pc[p]: the call p is making
    checks,     \* checks[p]: i of the polling loop
    tries,      \* tries[p]: failed tries of the current storage call
    attempts,   \* attempts[p]: the count in the lock p creates
    fetched,    \* fetched[p]: the certificate read by this check
    trusted,    \* trusted[p]: TRUSTED_CERT_STORE of p
    renewals,   \* renewals[p]: renewal tasks p has spawned
    letsEncrypt,\* orders placed with Let's Encrypt since the store last
                \*   held no lock
    failed,     \* the instances a call of which has failed, or that died
    slow,       \* as in StorageLock: who has outstayed a phase
    restarts    \* how many were started again
                \*   (the last four are not program state)

vars == <<cert, lock, made, age, pc, checks, tries, attempts, fetched,
          trusted, renewals, letsEncrypt, failed, slow, restarts>>

MaxTries == 3

StorageCalls == {"getCert", "readLock", "write", "settle", "putCert", "delete"}
RemoteCalls == {"decrypt", "order", "encrypt"}
Ended == {"done", "gaveUp", "dead"}
PC == StorageCalls \cup RemoteCalls \cup Ended \cup {"off", "nap"}

BareLock ==
    IF lock = NoLock THEN NoLock
    ELSE [owner |-> lock.owner, serial |-> lock.serial, left |-> lock.left]

\* What a call is to the lock.
PhaseOf(l) ==
    CASE l = "write"  -> "writing"
      [] l = "settle" -> "settling"
      [] l \in {"order", "encrypt", "putCert"} -> "holding"
      [] l = "delete" -> "deleting"
      [] l = "dead"   -> "gone"
      [] OTHER        -> "idle"

LockPhase == [p \in Inst |-> PhaseOf(pc[p])]

\* The lock's clock runs in its timed phases only.
LockAge == [p \in Inst |-> IF LockPhase[p] \in {"idle", "gone"} THEN 0 ELSE age[p]]

L == INSTANCE StorageLock WITH
        lock <- BareLock,
        phase <- LockPhase, age <- LockAge

\* Two attempts with Let's Encrypt, then ZeroSSL.
Provider(n) == IF n <= 2 THEN "LetsEncrypt" ELSE "ZeroSSL"

Object == [cipher : Inst] \cup {NoCert}

\* The stored lock: that of StorageLock and a count.
Lock == [owner : Inst, serial : 0..MaxLocks, left : L!Floor..(Lifetime + MaxSkew),
         attempts : Nat]

ASSUME AbsentIsAbsent == NoCert \notin [cipher : Inst] /\ NoLock \notin Lock \cup L!Lock

Encrypted(c) == [cipher |-> c]
Decrypted(o) == o.cipher

TypeOK ==
    /\ cert \in Object
    /\ lock \in Lock \cup {NoLock}
    /\ made \in [Inst -> 0..MaxLocks]
    /\ age \in [Inst -> Nat]
    /\ pc \in [Inst -> PC]
    /\ checks \in [Inst -> 0..MaxChecks]
    /\ tries \in [Inst -> 0..(MaxTries - 1)]
    /\ attempts \in [Inst -> Nat]
    /\ fetched \in [Inst -> Object]
    /\ trusted \in [Inst -> Inst \cup {NoCert}]
    /\ renewals \in [Inst -> Nat]
    /\ letsEncrypt \in Nat
    /\ failed \subseteq Faulty
    /\ slow \subseteq Faulty
    /\ restarts \in 0..MaxRestarts

Init ==
    /\ cert = NoCert
    /\ lock = NoLock
    /\ made = [p \in Inst |-> 0]
    /\ age = [p \in Inst |-> 0]
    /\ pc = [p \in Inst |-> "off"]
    /\ checks = [p \in Inst |-> 0]
    /\ tries = [p \in Inst |-> 0]
    /\ attempts = [p \in Inst |-> 0]
    /\ fetched = [p \in Inst |-> NoCert]
    /\ trusted = [p \in Inst |-> NoCert]
    /\ renewals = [p \in Inst |-> 0]
    /\ letsEncrypt = 0
    /\ failed = {}
    /\ slow = {}
    /\ restarts = 0

----------------------------------------------------------------------------
Goto(p, l) ==
    /\ pc' = [pc EXCEPT ![p] = l]
    /\ tries' = [tries EXCEPT ![p] = 0]

Clock(p) == age' = [age EXCEPT ![p] = 0]

\* schedule_certificate_renewal spawns a task; what it does is CertRenewal.
Schedule(p) == renewals' = [renewals EXCEPT ![p] = @ + 1]

NewLock(p) ==
    LET l == L!LockOf(p)
    IN  [owner |-> l.owner, serial |-> l.serial, left |-> l.left,
         attempts |-> attempts[p]]

\* The head of the while loop, entered at the start and after each sleep.
Check(p) ==
    /\ checks' = [checks EXCEPT ![p] = @ + 1]
    /\ Goto(p, IF checks[p] + 1 >= MaxChecks THEN "gaveUp" ELSE "getCert")
    /\ Clock(p)
    /\ UNCHANGED <<cert, lock, made, attempts, fetched, trusted, renewals,
                   letsEncrypt, failed, slow, restarts>>

Boot(p) == pc[p] = "off" /\ Check(p)

\* Variant: the sleep between two checks is missing.
WakeAtOnce(p) == pc[p] = "nap" /\ Check(p)

Wake(p) == pc[p] = "nap" /\ age[p] >= Poll /\ Check(p)

GetCert(p) ==
    /\ pc[p] = "getCert"
    /\ fetched' = [fetched EXCEPT ![p] = cert]
    /\ Goto(p, IF cert # NoCert THEN "decrypt" ELSE "readLock")
    /\ UNCHANGED <<cert, lock, made, age, checks, attempts, trusted, renewals,
                   letsEncrypt, failed, slow, restarts>>

\* fetch_and_decrypt_certificate: schedule the renewal, serve the certificate.
DecryptCert(p) ==
    /\ pc[p] = "decrypt"
    /\ Schedule(p)
    /\ trusted' = [trusted EXCEPT ![p] = Decrypted(fetched[p])]
    /\ Goto(p, "done")
    /\ UNCHANGED <<cert, lock, made, age, checks, attempts, fetched,
                   letsEncrypt, failed, slow, restarts>>

\* Variant: a lock is created whatever is stored.
ReadLockUnread(p) ==
    /\ pc[p] = "readLock"
    /\ made[p] < MaxLocks
    /\ made' = [made EXCEPT ![p] = @ + 1]
    /\ attempts' = [attempts EXCEPT ![p] =
                      (IF lock = NoLock THEN 0 ELSE lock.attempts) + 1]
    /\ Goto(p, "write")
    /\ Clock(p)
    /\ UNCHANGED <<cert, lock, checks, fetched, trusted, renewals,
                   letsEncrypt, failed, slow, restarts>>

\* Variant: the count of an expired lock is not carried over.
ReadLockForgetful(p) ==
    /\ pc[p] = "readLock"
    /\ \/ /\ L!IsFree(p)
          /\ made[p] < MaxLocks
          /\ made' = [made EXCEPT ![p] = @ + 1]
          /\ attempts' = [attempts EXCEPT ![p] = 1]
          /\ Goto(p, "write")
       \/ /\ ~L!IsFree(p)
          /\ Goto(p, "nap")
          /\ UNCHANGED <<made, attempts>>
    /\ Clock(p)
    /\ UNCHANGED <<cert, lock, checks, fetched, trusted, renewals,
                   letsEncrypt, failed, slow, restarts>>

\* get_order_lock: sleep on a valid lock, else create the next one.
ReadLock(p) ==
    /\ pc[p] = "readLock"
    /\ \/ /\ L!IsFree(p)
          /\ made[p] < MaxLocks
          /\ made' = [made EXCEPT ![p] = @ + 1]
          /\ attempts' = [attempts EXCEPT ![p] =
                            (IF lock = NoLock THEN 0 ELSE lock.attempts) + 1]
          /\ Goto(p, "write")
       \/ /\ ~L!IsFree(p)
          /\ Goto(p, "nap")
          /\ UNCHANGED <<made, attempts>>
    /\ Clock(p)
    /\ UNCHANGED <<cert, lock, checks, fetched, trusted, renewals,
                   letsEncrypt, failed, slow, restarts>>

WriteLock(p) ==
    /\ pc[p] = "write"
    /\ lock' = NewLock(p)
    /\ Goto(p, "settle")
    /\ Clock(p)
    /\ UNCHANGED <<cert, made, checks, attempts, fetched, trusted, renewals,
                   letsEncrypt, failed, slow, restarts>>

\* The owner places its order.  Who lost the race gets None, but schedules a
\* renewal all the same and goes back to polling.
CheckPersisted(p) ==
    /\ pc[p] = "settle"
    /\ age[p] >= Settle
    /\ \/ /\ L!IsMine(p)
          /\ Goto(p, "order")
          /\ letsEncrypt' = letsEncrypt +
                (IF Provider(attempts[p]) = "LetsEncrypt" THEN 1 ELSE 0)
          /\ UNCHANGED renewals
       \/ /\ ~L!IsMine(p)
          /\ Goto(p, "nap")
          /\ Schedule(p)
          /\ UNCHANGED letsEncrypt
    /\ Clock(p)
    /\ UNCHANGED <<cert, lock, made, checks, attempts, fetched, trusted,
                   failed, slow, restarts>>

OrderCertificate(p) ==
    /\ pc[p] = "order"
    /\ Goto(p, "encrypt")
    /\ UNCHANGED <<cert, lock, made, age, checks, attempts, fetched, trusted,
                   renewals, letsEncrypt, failed, slow, restarts>>

EncryptCert(p) ==
    /\ pc[p] = "encrypt"
    /\ Goto(p, "putCert")
    /\ UNCHANGED <<cert, lock, made, age, checks, attempts, fetched, trusted,
                   renewals, letsEncrypt, failed, slow, restarts>>

PutCert(p) ==
    /\ pc[p] = "putCert"
    /\ cert' = Encrypted(p)
    /\ Goto(p, "delete")
    /\ Clock(p)
    /\ UNCHANGED <<lock, made, checks, attempts, fetched, trusted, renewals,
                   letsEncrypt, failed, slow, restarts>>

\* Variant: only who fetched its certificate schedules a renewal.
DeleteLockUnscheduled(p) ==
    /\ pc[p] = "delete"
    /\ lock' = NoLock
    /\ letsEncrypt' = 0
    /\ trusted' = [trusted EXCEPT ![p] = p]
    /\ Goto(p, "done")
    /\ Clock(p)
    /\ UNCHANGED <<cert, made, checks, attempts, fetched, renewals, failed,
                   slow, restarts>>

\* The order is stored: release, schedule the renewal, serve.
DeleteLock(p) ==
    /\ pc[p] = "delete"
    /\ lock' = NoLock
    /\ letsEncrypt' = 0
    /\ Schedule(p)
    /\ trusted' = [trusted EXCEPT ![p] = p]
    /\ Goto(p, "done")
    /\ Clock(p)
    /\ UNCHANGED <<cert, made, checks, attempts, fetched, failed, slow,
                   restarts>>

\* What the store looks like when a call of p was applied.
Applied(p) ==
    /\ lock' = CASE pc[p] = "write" -> NewLock(p)
                 [] pc[p] = "delete" -> NoLock
                 [] OTHER -> lock
    /\ cert' = IF pc[p] = "putCert" THEN Encrypted(p) ELSE cert
    /\ letsEncrypt' = IF pc[p] = "delete" THEN 0 ELSE letsEncrypt

\* One try of a storage call fails, applied or not; the third failure is
\* returned to the caller, which exits the process on it.  When the next try
\* is made is Tick's concern.
CallFails(p) ==
    /\ p \in Faulty
    /\ pc[p] \in StorageCalls
    /\ pc[p] = "settle" => age[p] >= Settle
    /\ Applied(p) \/ UNCHANGED <<lock, cert, letsEncrypt>>
    /\ \/ /\ tries[p] + 1 < MaxTries
          /\ tries' = [tries EXCEPT ![p] = @ + 1]
          /\ UNCHANGED <<pc, age>>
       \/ /\ tries[p] + 1 = MaxTries
          /\ Goto(p, "dead")
          /\ Clock(p)
    /\ failed' = failed \cup {p}
    /\ UNCHANGED <<made, checks, attempts, fetched, trusted, renewals, slow,
                   restarts>>

\* The order is refused, E3 fails, or the enclave is terminated.
Die(p) ==
    /\ p \in Faulty
    /\ pc[p] \notin Ended \cup {"off"}
    /\ Goto(p, "dead")
    /\ Clock(p)
    /\ failed' = failed \cup {p}
    /\ UNCHANGED <<cert, lock, made, checks, attempts, fetched, trusted,
                   renewals, letsEncrypt, slow, restarts>>

\* The process that exited is started again and knows nothing.
Restart(p) ==
    /\ pc[p] = "dead" /\ restarts < MaxRestarts
    /\ restarts' = restarts + 1
    /\ Goto(p, "off")
    /\ checks' = [checks EXCEPT ![p] = 0]
    /\ attempts' = [attempts EXCEPT ![p] = 0]
    /\ fetched' = [fetched EXCEPT ![p] = NoCert]
    /\ trusted' = [trusted EXCEPT ![p] = NoCert]
    /\ renewals' = [renewals EXCEPT ![p] = 0]
    /\ Clock(p)
    /\ UNCHANGED <<cert, lock, made, letsEncrypt, failed, slow>>

\* The first retry follows within the 500 ms that Lag allows for; the second
\* may wait for minutes.  Nothing else outstays its phase.
Tick ==
    /\ \A p \in Inst :
          L!Timed(p) /\ age[p] = L!Limit(p) => tries[p] = MaxTries - 1
    /\ age' = [p \in Inst |->
                 IF L!Timed(p) THEN L!Aged(p)
                 ELSE IF pc[p] = "nap" /\ age[p] < Poll THEN age[p] + 1
                 ELSE age[p]]
    /\ slow' = slow \cup L!Overdue
    /\ lock' = IF lock = NoLock THEN NoLock
               ELSE [lock EXCEPT !.left = L!Older(BareLock).left]
    /\ UNCHANGED <<cert, made, pc, checks, tries, attempts, fetched, trusted,
                   renewals, letsEncrypt, failed, restarts>>

Step(p) ==
    \/ Wake(p) \/ GetCert(p) \/ DecryptCert(p) \/ ReadLock(p) \/ WriteLock(p)
    \/ CheckPersisted(p) \/ OrderCertificate(p) \/ EncryptCert(p)
    \/ PutCert(p) \/ DeleteLock(p)

Next ==
    \/ Tick
    \/ \E p \in Inst : Boot(p) \/ Step(p) \/ CallFails(p) \/ Die(p) \/ Restart(p)

Spec == Init /\ [][Next]_vars

----------------------------------------------------------------------------
(***************************************************************************)
(* The lock protocol of cert.rs is the one StorageLock describes.          *)
(***************************************************************************)
ImplementsStorageLock == L!Spec

(***************************************************************************)
(* cert.rs:316: "Try twice with LetsEncrypt, then try with ZeroSSL".  Of   *)
(* all the orders that instances place until one of them succeeds and      *)
(* deletes the lock, two go to Let's Encrypt, although orders may overlap  *)
(* once the first has outlasted its lock: the count in the lock only grows *)
(* because Lag < Settle lets no stale count overwrite a later one.  It may *)
(* once a put has waited for its third try: a lock that lands minutes late *)
(* takes the count back, and its owner places a third order.               *)
(***************************************************************************)
LetsEncryptTwice == slow = {} => letsEncrypt <= 2

\* No two other instances have created a lock.
HasOneRival(p) ==
    \A q, r \in Inst \ {p} : made[q] > 0 /\ made[r] > 0 => q = r

(***************************************************************************)
(* When one instance dies or stalls with the lock, an instance that keeps  *)
(* running outlives the lock, takes it over and gets a certificate: nine   *)
(* checks five seconds apart are longer than the lock is valid.  They are  *)
(* not longer than two locks, of two others, or of one that was started    *)
(* again and died.  Nothing is claimed once a storage call was slow.       *)
(***************************************************************************)
SurvivorNeverGivesUp ==
    restarts = 0 /\ slow = {} =>
        \A p \in Inst \ failed : HasOneRival(p) => pc[p] # "gaveUp"

(***************************************************************************)
(* An instance that serves a trusted certificate has a renewal scheduled,  *)
(* whichever way it came by the certificate. Every variable keeps its      *)
(* type.                                                                   *)
(***************************************************************************)
ServedIsRenewed ==
    /\ TypeOK
    /\ \A p \in Inst : trusted[p] # NoCert => renewals[p] > 0
=============================================================================
