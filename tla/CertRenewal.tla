---------------------------- MODULE CertRenewal ----------------------------
(***************************************************************************)
(* schedule_certificate_renewal and renew_certificate_and_update_store     *)
(* (data-plane/src/acme/cert.rs): the background tasks that keep the       *)
(* enclave's stored certificate, and each instance's copy of it, fresh.    *)
(*                                                                         *)
(* A task sleeps for days and then acts for seconds, so there are two      *)
(* clocks.  DayPasses moves the certificates' ages and the tasks' sleeps   *)
(* while no task is awake; Tick moves the lock and the retry delays, ten   *)
(* seconds at a time, while one is.  Jitter is less than a day, so a sleep *)
(* of n days ends n or n + 1 days later.                                   *)
(***************************************************************************)
EXTENDS Integers

CONSTANTS
    Inst,       \* the instances of the enclave
    Task,       \* renewal tasks; an instance may have spawned several
    Owner,      \* Owner[t]: the instance t belongs to
    NoLock,
    Validity,   \* days a certificate is valid for (90)
    Sixty,      \* SIXTY_DAYS_IN_SECONDS, in days
    Thirty,     \* THIRTY_DAYS_IN_SECONDS, in days
    LockSpan,   \* a lock's lifetime, in tens of seconds: 3
    CallsFail,  \* may storage, E3 and ACME calls fail?
    Restarts    \* may instances be replaced?

ASSUME DaysAreNat ==
    /\ Validity \in Nat /\ Sixty \in Nat /\ Thirty \in Nat
    /\ LockSpan \in Nat
\* Thirty days before it expires a certificate is no more than sixty days old,
\* and jitter fits into what is left.
ASSUME DaysFit ==
    /\ Sixty >= 2 /\ Sixty + 1 < Validity
    /\ Thirty >= 2 /\ Thirty < Validity
    /\ Validity <= Sixty + Thirty
ASSUME TasksHaveOwners == Owner \in [Task -> Inst] /\ Task # {}
ASSUME SwitchesAreBoolean == CallsFail \in BOOLEAN /\ Restarts \in BOOLEAN
ASSUME NoLockIsNoLock == NoLock \notin [owner : Task, left : Int]

VARIABLES
    certAge,    \* age in days of the stored certificate
    trusted,    \* trusted[p]: age in days of the certificate p serves
    lock,       \* the stored "certificate-v1" lock
    pc,         \* pc[t]: what task t is doing
    wait,       \* wait[t]: what is left of its sleep, in days or in Ticks
    round,      \* round[t]: i of the retry loop
    clean       \* no call has failed, nobody was replaced while renewing
                \*   (not program state)

renewalVars == <<certAge, trusted, lock, pc, wait, round, clean>>

OneDay == 1
Retries == 3

Awake == {"fetch", "readLock", "write", "check", "order", "put", "delete",
          "backoff"}
Lock == [owner : Task, left : -1..LockSpan]

RenewalTypeOK ==
    /\ certAge \in 0..Validity
    /\ trusted \in [Inst -> 0..Validity]
    /\ lock \in Lock \cup {NoLock}
    /\ pc \in [Task -> Awake \cup {"sleep", "ended"}]
    /\ wait \in [Task -> 0..(Sixty + 1)]
    /\ round \in [Task -> 1..(Retries - 1)]
    /\ clean \in BOOLEAN

\* A certificate was ordered today; every task was scheduled for sixty days
\* on, by an instance that had or had not ordered it.
RenewalInit ==
    /\ certAge = 0
    /\ trusted = [p \in Inst |-> 0]
    /\ lock = NoLock
    /\ pc = [t \in Task |-> "sleep"]
    /\ wait \in [Task -> Sixty..(Sixty + 1)]
    /\ round = [t \in Task |-> 1]
    /\ clean = TRUE

----------------------------------------------------------------------------
LockIsValid == lock # NoLock /\ lock.left >= 0

Goto(t, l) == pc' = [pc EXCEPT ![t] = l]

\* seconds_with_jitter_to_time and the recursive schedule at the end.
SleepFor(t, days) ==
    /\ Goto(t, "sleep")
    /\ \E jitter \in 0..1 : wait' = [wait EXCEPT ![t] = days + jitter]
    /\ round' = [round EXCEPT ![t] = 1]

\* A try failed: sleep ten seconds after the first, twenty after the second.
TryFails(t) ==
    /\ Goto(t, "backoff")
    /\ wait' = [wait EXCEPT ![t] = round[t]]
    /\ UNCHANGED round

Wake(t) ==
    /\ pc[t] = "sleep" /\ wait[t] = 0
    /\ Goto(t, "fetch")
    /\ UNCHANGED <<certAge, trusted, lock, wait, round, clean>>

\* Variant: any certificate in the store counts as renewed.
FindAnyRenewed(t) ==
    /\ pc[t] = "fetch"
    /\ trusted' = [trusted EXCEPT ![Owner[t]] = certAge]
    /\ Goto(t, "ended")
    /\ UNCHANGED <<certAge, lock, wait, round, clean>>

\* Renewed by another instance if more than sixty days remain before the
\* next renewal is due.  Only the jitter drawn for this test can make it so,
\* and only on the certificate's first day.  The task then ends.
FindRenewed(t) ==
    /\ pc[t] = "fetch"
    /\ certAge + Sixty + Thirty <= Validity
    /\ trusted' = [trusted EXCEPT ![Owner[t]] = certAge]
    /\ Goto(t, "ended")
    /\ UNCHANGED <<certAge, lock, wait, round, clean>>

\* Not renewed, too little jitter, or the fetch failed: enter the retry loop.
FindNotRenewed(t) ==
    /\ pc[t] = "fetch"
    /\ Goto(t, "readLock")
    /\ UNCHANGED <<certAge, trusted, lock, wait, round, clean>>

\* Variant: a valid lock ends the task.
LeaveToOtherAndEnd(t) ==
    /\ pc[t] = "readLock"
    /\ LockIsValid
    /\ Goto(t, "ended")
    /\ UNCHANGED <<certAge, trusted, lock, wait, round, clean>>

\* A valid lock: return Ok, which the loop takes for a renewal.
LeaveToOther(t) ==
    /\ pc[t] = "readLock"
    /\ LockIsValid
    /\ SleepFor(t, Sixty)
    /\ UNCHANGED <<certAge, trusted, lock, clean>>

ReadFree(t) ==
    /\ pc[t] = "readLock"
    /\ ~LockIsValid
    /\ Goto(t, "write")
    /\ UNCHANGED <<certAge, trusted, lock, wait, round, clean>>

NewLock(t) == [owner |-> t, left |-> LockSpan]

WriteLock(t) ==
    /\ pc[t] = "write"
    /\ lock' = NewLock(t)
    /\ Goto(t, "check")
    /\ UNCHANGED <<certAge, trusted, wait, round, clean>>

IsMine(t) == lock # NoLock /\ lock.owner = t

\* The lock is persisted: order.  The account is the cached one, if any.
StartOrder(t) ==
    /\ pc[t] = "check"
    /\ IsMine(t)
    /\ Goto(t, "order")
    /\ UNCHANGED <<certAge, trusted, lock, wait, round, clean>>

\* Another instance's lock was persisted: Ok(None), an error to the caller.
LoseRace(t) ==
    /\ pc[t] = "check"
    /\ ~IsMine(t)
    /\ TryFails(t)
    /\ UNCHANGED <<certAge, trusted, lock, clean>>

OrderDone(t) ==
    /\ pc[t] = "order"
    /\ Goto(t, "put")
    /\ UNCHANGED <<certAge, trusted, lock, wait, round, clean>>

PutCert(t) ==
    /\ pc[t] = "put"
    /\ certAge' = 0
    /\ Goto(t, "delete")
    /\ UNCHANGED <<trusted, lock, wait, round, clean>>

\* Release, update the store of this instance, sleep for sixty days.
DeleteLock(t) ==
    /\ pc[t] = "delete"
    /\ lock' = NoLock
    /\ trusted' = [trusted EXCEPT ![Owner[t]] = 0]
    /\ SleepFor(t, Sixty)
    /\ UNCHANGED <<certAge, clean>>

\* What the store looks like when the call of t was applied.
Applied(t) ==
    /\ lock' = CASE pc[t] = "write" -> NewLock(t)
                 [] pc[t] = "delete" -> NoLock
                 [] OTHER -> lock
    /\ certAge' = IF pc[t] = "put" THEN 0 ELSE certAge

\* A call of a try fails for good, applied or not; otherwise a lock that the
\* try wrote stays behind.
CallFails(t) ==
    /\ CallsFail
    /\ pc[t] \in {"readLock", "write", "check", "order", "put", "delete"}
    /\ Applied(t) \/ UNCHANGED <<lock, certAge>>
    /\ TryFails(t)
    /\ clean' = FALSE
    /\ UNCHANGED <<trusted>>

\* After the delay: the next try, or after the last one a sleep of a day.
BackoffEnds(t) ==
    /\ pc[t] = "backoff" /\ wait[t] = 0
    /\ \/ /\ round[t] + 1 < Retries
          /\ round' = [round EXCEPT ![t] = @ + 1]
          /\ Goto(t, "readLock")
          /\ UNCHANGED wait
       \/ /\ round[t] + 1 = Retries
          /\ SleepFor(t, OneDay)
    /\ UNCHANGED <<certAge, trusted, lock, clean>>

\* An instance is replaced.  The new one finds the stored certificate,
\* serves it and schedules a single renewal: time_till_renewal_required.
Restart(p) ==
    /\ Restarts
    /\ \E t \in Task :
          /\ Owner[t] = p
          /\ pc' = [u \in Task |-> IF u = t THEN "sleep"
                                   ELSE IF Owner[u] = p THEN "ended" ELSE pc[u]]
          /\ \E jitter \in 0..1 :
                wait' = [wait EXCEPT ![t] =
                           IF certAge + Thirty > Validity THEN 0
                           ELSE Validity - Thirty - certAge + jitter]
          /\ round' = [round EXCEPT ![t] = 1]
    /\ trusted' = [trusted EXCEPT ![p] = certAge]
    /\ clean' = (clean /\ \A t \in Task : Owner[t] = p => pc[t] \notin Awake)
    /\ UNCHANGED <<certAge, lock>>

\* A round of renewal takes minutes: none runs into the next day.
DayPasses ==
    /\ \A t \in Task : pc[t] \notin Awake /\ (pc[t] = "sleep" => wait[t] > 0)
    /\ certAge' = IF certAge < Validity THEN certAge + 1 ELSE certAge
    /\ trusted' = [p \in Inst |-> IF trusted[p] < Validity
                                  THEN trusted[p] + 1 ELSE trusted[p]]
    /\ wait' = [t \in Task |-> IF pc[t] = "sleep" THEN wait[t] - 1 ELSE wait[t]]
    /\ lock' = IF lock = NoLock THEN NoLock ELSE [lock EXCEPT !.left = -1]
    /\ UNCHANGED <<pc, round, clean>>

Tick ==
    /\ \E t \in Task : pc[t] \in Awake
    /\ lock' = IF LockIsValid THEN [lock EXCEPT !.left = @ - 1] ELSE lock
    /\ wait' = [t \in Task |-> IF pc[t] = "backoff" /\ wait[t] > 0
                               THEN wait[t] - 1 ELSE wait[t]]
    /\ UNCHANGED <<certAge, trusted, pc, round, clean>>

RenewalNext ==
    \/ DayPasses
    \/ Tick
    \/ \E t \in Task :
          \/ Wake(t) \/ FindRenewed(t) \/ FindNotRenewed(t) \/ LeaveToOther(t)
          \/ ReadFree(t) \/ WriteLock(t) \/ StartOrder(t) \/ LoseRace(t)
          \/ OrderDone(t) \/ PutCert(t) \/ DeleteLock(t)
          \/ CallFails(t) \/ BackoffEnds(t)
    \/ \E p \in Inst : Restart(p)

RenewalSpec == RenewalInit /\ [][RenewalNext]_renewalVars

----------------------------------------------------------------------------
(***************************************************************************)
(* As long as no call fails and no instance is replaced while it renews,   *)
(* the stored certificate is renewed before it expires, however the tasks  *)
(* of several instances interleave, lose the race for the lock, leave the  *)
(* renewal to its holder, or end because another instance was faster.      *)
(***************************************************************************)
StoredCertNeverExpires == clean => certAge < Validity

(***************************************************************************)
(* A task ends for good when it finds that another instance has renewed.   *)
(* Some task always remains to renew next time, failures or not. Every     *)
(* variable keeps its type.                                                *)
(***************************************************************************)
SomebodyRenews == RenewalTypeOK /\ \E t \in Task : pc[t] # "ended"

(***************************************************************************)
(* cert.rs:267 "do nothing and wait for the certificate to be renewed by   *)
(* another instance or for the lock to expire": while no call fails, the   *)
(* instance that waits does not go on serving the old certificate until    *)
(* that expires while its own task is still there to fetch the new one.    *)
(***************************************************************************)
WaiterServesTheNewCert ==
    clean => \A t \in Task : pc[t] # "ended" => trusted[Owner[t]] < Validity
=============================================================================
