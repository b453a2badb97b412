---------------------------- MODULE UpkeepProofs ----------------------------
(***************************************************************************)
(* Proofs about what keeps a running enclave going: the renewal of its     *)
(* certificate, the health checks of it, and the DNS proxies and caches    *)
(* that decide what it may reach.  The three share no state, and each      *)
(* theorem is about the specification of one of them.                      *)
(***************************************************************************)
EXTENDS CertRenewal, HealthCheck, Egress, SequenceTheorems, FiniteSetTheorems, TLAPS

-----------------------------------------------------------------------------
(***************************************************************************)
(* The renewal.  That the certificate is renewed in time is not inductive: *)
(* the tasks must be known not to leave the renewal to each other.  A      *)
(* valid lock has an owner that is at work; a task that lost the race lost *)
(* it to one that is, or that has renewed today; and of a certificate of   *)
(* today somebody will be there to renew it.                               *)
(***************************************************************************)

\* Has written a lock, and will renew if that lock is still there.
Winning == {"check", "order", "put", "delete"}

\* A task that has put a certificate has done so today.
PutToday == \A t \in Task : pc[t] = "delete" => certAge = 0

\* Will not find that another task has renewed today.
StandsBy(t) ==
    \/ pc[t] \in Awake \ {"fetch"}
    \/ pc[t] = "sleep" /\ wait[t] > 0

SomebodyStandsBy == certAge = 0 => \E t \in Task : StandsBy(t)
SomebodyIsThere == \E t \in Task : pc[t] # "ended"

LockIsHeld == lock # NoLock => pc[lock.owner] \in Winning
LockIsThere == \A t \in Task : pc[t] = "check" => lock # NoLock \/ certAge = 0
LostToAnother ==
    \A t \in Task : pc[t] = "backoff" =>
        certAge = 0 \/ \E u \in Task : pc[u] \in Winning

\* Is at it, or will be before the certificate expires.
InTime(t) == pc[t] \in Awake \/ (pc[t] = "sleep" /\ certAge + wait[t] < Validity)

SomebodyIsInTime == certAge < Validity /\ \E t \in Task : InTime(t)

(***************************************************************************)
(* The inductive invariant of CertRenewal.                                 *)
(***************************************************************************)
RenewalInv ==
    /\ RenewalTypeOK
    /\ PutToday
    /\ SomebodyStandsBy
    /\ SomebodyIsThere
    /\ clean => LockIsHeld /\ LockIsThere /\ LostToAnother /\ SomebodyIsInTime

(***************************************************************************)
(* The assumptions, as numbers.                                            *)
(***************************************************************************)
LEMMA RenewalNumbers ==
    /\ Validity \in Nat /\ Sixty \in Nat /\ Thirty \in Nat /\ LockSpan \in Nat
    /\ Sixty >= 2 /\ Thirty >= 2 /\ Sixty + 1 < Validity
    /\ Thirty < Validity /\ Validity <= Sixty + Thirty
    /\ Owner \in [Task -> Inst] /\ Task # {}
    /\ NoLock \notin Lock
    /\ Retries = 3 /\ OneDay = 1
BY DaysAreNat, DaysFit, TasksHaveOwners, NoLockIsNoLock
   DEF Lock, Retries, OneDay

\* A step of task t.
RenewalStep(t) ==
    \/ Wake(t) \/ FindRenewed(t) \/ FindNotRenewed(t) \/ LeaveToOther(t)
    \/ ReadFree(t) \/ WriteLock(t) \/ StartOrder(t) \/ LoseRace(t)
    \/ OrderDone(t) \/ PutCert(t) \/ DeleteLock(t)
    \/ CallFails(t) \/ BackoffEnds(t)

(***************************************************************************)
(* What the sleeps set, for any number of days up to sixty.                *)
(***************************************************************************)
LEMMA SleepTypes ==
    ASSUME RenewalTypeOK, NEW t \in Task, NEW days \in {OneDay, Sixty},
           SleepFor(t, days)
    PROVE  /\ pc' = [pc EXCEPT ![t] = "sleep"] /\ pc'[t] = "sleep"
           /\ wait' \in [Task -> 0..(Sixty + 1)]
           /\ wait'[t] \in days..(days + 1)
           /\ \A u \in Task \ {t} : pc'[u] = pc[u] /\ wait'[u] = wait[u]
           /\ round' \in [Task -> 1..(Retries - 1)]
BY RenewalNumbers DEF SleepFor, Goto, RenewalTypeOK

(***************************************************************************)
(* What a failed try sets.                                                 *)
(***************************************************************************)
LEMMA TryTypes ==
    ASSUME RenewalTypeOK, NEW t \in Task, TryFails(t)
    PROVE  /\ pc' = [pc EXCEPT ![t] = "backoff"] /\ pc'[t] = "backoff"
           /\ wait' \in [Task -> 0..(Sixty + 1)]
           /\ \A u \in Task \ {t} : pc'[u] = pc[u] /\ wait'[u] = wait[u]
           /\ round' = round
BY RenewalNumbers DEF TryFails, Goto, RenewalTypeOK

(***************************************************************************)
(* A step of a task moves that task, and only that one.                    *)
(***************************************************************************)
LEMMA OneTaskMoves ==
    ASSUME RenewalTypeOK, NEW t \in Task, RenewalStep(t)
    PROVE  /\ \E l \in Awake \cup {"sleep", "ended"} : pc' = [pc EXCEPT ![t] = l]
           /\ wait' \in [Task -> 0..(Sixty + 1)]
           /\ \A u \in Task \ {t} : pc'[u] = pc[u] /\ wait'[u] = wait[u]
           /\ round' \in [Task -> 1..(Retries - 1)]
<1> USE RenewalNumbers DEF RenewalStep
<1>1. CASE Wake(t) \/ FindRenewed(t) \/ FindNotRenewed(t) \/ ReadFree(t)
           \/ WriteLock(t) \/ StartOrder(t) \/ OrderDone(t) \/ PutCert(t)
    BY <1>1 DEF RenewalTypeOK, Wake, FindRenewed, FindNotRenewed, ReadFree,
                WriteLock, StartOrder, OrderDone, PutCert, Goto, Awake
<1>2. CASE LeaveToOther(t) \/ DeleteLock(t)
    BY <1>2, SleepTypes DEF LeaveToOther, DeleteLock
<1>3. CASE LoseRace(t) \/ CallFails(t)
    BY <1>3, TryTypes DEF LoseRace, CallFails, RenewalTypeOK, Awake
<1>4. CASE BackoffEnds(t)
    <2>1. CASE SleepFor(t, OneDay)
        BY <2>1, SleepTypes
    <2>2. CASE /\ round[t] + 1 < Retries /\ round' = [round EXCEPT ![t] = @ + 1]
               /\ Goto(t, "readLock") /\ wait' = wait
        BY <2>2 DEF RenewalTypeOK, Goto, Awake
    <2> QED
        BY <1>4, <2>1, <2>2 DEF BackoffEnds
<1> QED
    BY <1>1, <1>2, <1>3, <1>4

(***************************************************************************)
(* Every variable keeps its type.                                          *)
(***************************************************************************)
LEMMA RenewalTypes ==
    ASSUME RenewalTypeOK, [RenewalNext]_renewalVars
    PROVE  RenewalTypeOK'
<1> USE RenewalNumbers
<1>1. ASSUME NEW t \in Task, RenewalStep(t) PROVE RenewalTypeOK'
    <2>1. /\ pc' \in [Task -> Awake \cup {"sleep", "ended"}]
          /\ wait' \in [Task -> 0..(Sixty + 1)] /\ round' \in [Task -> 1..(Retries - 1)]
        BY <1>1, OneTaskMoves DEF RenewalTypeOK
    <2>2. lock' \in Lock \cup {NoLock}
        BY <1>1 DEF RenewalStep, RenewalTypeOK, Wake, FindRenewed, FindNotRenewed,
                    LeaveToOther, ReadFree, WriteLock, StartOrder, LoseRace,
                    OrderDone, PutCert, DeleteLock, CallFails, BackoffEnds,
                    Applied, NewLock, Lock
    <2>3. certAge' \in 0..Validity
        BY <1>1 DEF RenewalStep, RenewalTypeOK, Wake, FindRenewed, FindNotRenewed,
                    LeaveToOther, ReadFree, WriteLock, StartOrder, LoseRace,
                    OrderDone, PutCert, DeleteLock, CallFails, BackoffEnds,
                    Applied
    <2>4. trusted' \in [Inst -> 0..Validity]
        BY <1>1 DEF RenewalStep, RenewalTypeOK, Wake, FindRenewed, FindNotRenewed,
                    LeaveToOther, ReadFree, WriteLock, StartOrder, LoseRace,
                    OrderDone, PutCert, DeleteLock, CallFails, BackoffEnds
    <2>5. clean' \in BOOLEAN
        BY <1>1 DEF RenewalStep, RenewalTypeOK, Wake, FindRenewed, FindNotRenewed,
                    LeaveToOther, ReadFree, WriteLock, StartOrder, LoseRace,
                    OrderDone, PutCert, DeleteLock, CallFails, BackoffEnds
    <2> QED
        BY <2>1, <2>2, <2>3, <2>4, <2>5 DEF RenewalTypeOK
<1>2. ASSUME NEW p \in Inst, Restart(p) PROVE RenewalTypeOK'
    <2>1. PICK t \in Task :
            /\ Owner[t] = p
            /\ pc' = [u \in Task |-> IF u = t THEN "sleep"
                                     ELSE IF Owner[u] = p THEN "ended" ELSE pc[u]]
            /\ \E jitter \in 0..1 :
                  wait' = [wait EXCEPT ![t] =
                             IF certAge + Thirty > Validity THEN 0
                             ELSE Validity - Thirty - certAge + jitter]
            /\ round' = [round EXCEPT ![t] = 1]
        BY <1>2 DEF Restart
    <2>2. pc' \in [Task -> Awake \cup {"sleep", "ended"}]
        BY <2>1 DEF RenewalTypeOK
    <2>3. wait' \in [Task -> 0..(Sixty + 1)] /\ round' \in [Task -> 1..(Retries - 1)]
        BY <2>1 DEF RenewalTypeOK
    <2>4. /\ trusted' \in [Inst -> 0..Validity] /\ certAge' = certAge /\ lock' = lock
          /\ clean' \in BOOLEAN
        BY <1>2 DEF RenewalTypeOK, Restart
    <2> QED
        BY <2>2, <2>3, <2>4 DEF RenewalTypeOK
<1>3. CASE DayPasses
    <2>1. lock' \in Lock \cup {NoLock}
        BY <1>3 DEF RenewalTypeOK, DayPasses, Lock
    <2> QED
        BY <1>3, <2>1 DEF RenewalTypeOK, DayPasses
<1>4. CASE Tick
    <2>1. lock' \in Lock \cup {NoLock}
        BY <1>4 DEF RenewalTypeOK, Tick, Lock, LockIsValid
    <2> QED
        BY <1>4, <2>1 DEF RenewalTypeOK, Tick
<1>5. CASE UNCHANGED renewalVars
    BY <1>5 DEF RenewalTypeOK, renewalVars
<1> QED
    BY <1>1, <1>2, <1>3, <1>4, <1>5 DEF RenewalNext, RenewalStep

(***************************************************************************)
(* Where a task's step takes it, and what it does to the certificate.      *)
(***************************************************************************)
LEMMA WhereTasksGo ==
    ASSUME RenewalTypeOK, NEW t \in Task, RenewalStep(t)
    PROVE  /\ certAge' \in {0, certAge}
           /\ pc'[t] = "delete" => certAge' = 0
           /\ pc[t] = "delete" => (pc'[t] = "sleep" /\ lock' = NoLock) \/ ~clean'
           /\ pc'[t] = "sleep" => wait'[t] > 0
           /\ pc'[t] = "fetch" => Wake(t)
           /\ pc'[t] = "ended" => FindRenewed(t)
           /\ clean' => clean
           /\ certAge' # certAge => pc'[t] \in {"delete", "backoff"}
<1> USE RenewalNumbers DEF RenewalStep
<1>1. CASE Wake(t) \/ FindRenewed(t) \/ FindNotRenewed(t) \/ ReadFree(t)
           \/ WriteLock(t) \/ StartOrder(t) \/ OrderDone(t) \/ PutCert(t)
    BY <1>1 DEF RenewalTypeOK, Wake, FindRenewed, FindNotRenewed, ReadFree,
                WriteLock, StartOrder, OrderDone, PutCert, Goto
<1>2. CASE LeaveToOther(t) \/ DeleteLock(t)
    BY <1>2, SleepTypes DEF LeaveToOther, DeleteLock
<1>3. CASE LoseRace(t) \/ CallFails(t)
    BY <1>3, TryTypes DEF LoseRace, CallFails, Applied, RenewalTypeOK
<1>4. CASE BackoffEnds(t)
    <2>1. CASE SleepFor(t, OneDay)
        BY <1>4, <2>1, SleepTypes DEF BackoffEnds
    <2>2. CASE Goto(t, "readLock") /\ wait' = wait
        BY <1>4, <2>2 DEF BackoffEnds, RenewalTypeOK, Goto
    <2> QED
        BY <1>4, <2>1, <2>2 DEF BackoffEnds
<1> QED
    BY <1>1, <1>2, <1>3, <1>4

(***************************************************************************)
(* What a restart of p sets: one task of p sleeps, its others are gone.    *)
(***************************************************************************)
LEMMA WhereRestartsGo ==
    ASSUME RenewalTypeOK, NEW p \in Inst, Restart(p)
    PROVE  \E t \in Task :
              /\ Owner[t] = p /\ pc'[t] = "sleep" /\ wait'[t] \in Nat
              /\ certAge + Thirty > Validity => wait'[t] = 0
              /\ certAge + Thirty <= Validity =>
                    wait'[t] \in (Validity - Thirty - certAge)..
                                 (Validity - Thirty - certAge + 1)
              /\ \A u \in Task \ {t} : Owner[u] = p => pc'[u] = "ended"
              /\ \A u \in Task \ {t} : Owner[u] # p =>
                    pc'[u] = pc[u] /\ wait'[u] = wait[u]
              /\ certAge' = certAge /\ lock' = lock
              /\ clean' => clean /\ \A u \in Task : Owner[u] = p => pc[u] \notin Awake
<1>1. PICK t \in Task :
        /\ Owner[t] = p
        /\ pc' = [u \in Task |-> IF u = t THEN "sleep"
                                 ELSE IF Owner[u] = p THEN "ended" ELSE pc[u]]
        /\ \E jitter \in 0..1 :
              wait' = [wait EXCEPT ![t] =
                         IF certAge + Thirty > Validity THEN 0
                         ELSE Validity - Thirty - certAge + jitter]
    BY DEF Restart
<1>2. /\ certAge' = certAge /\ lock' = lock
      /\ clean' => clean /\ \A u \in Task : Owner[u] = p => pc[u] \notin Awake
    BY DEF Restart
<1>3. PICK jitter \in 0..1 :
        wait' = [wait EXCEPT ![t] = IF certAge + Thirty > Validity THEN 0
                                    ELSE Validity - Thirty - certAge + jitter]
    BY <1>1
<1>4. /\ wait'[t] = IF certAge + Thirty > Validity THEN 0
                    ELSE Validity - Thirty - certAge + jitter
      /\ \A u \in Task \ {t} : wait'[u] = wait[u]
    BY <1>3 DEF RenewalTypeOK
<1>5. /\ wait'[t] \in Nat
      /\ certAge + Thirty > Validity => wait'[t] = 0
      /\ certAge + Thirty <= Validity =>
            wait'[t] \in (Validity - Thirty - certAge)..
                         (Validity - Thirty - certAge + 1)
    BY <1>4, RenewalNumbers DEF RenewalTypeOK
<1> QED
    BY <1>1, <1>2, <1>4, <1>5

(***************************************************************************)
(* Somebody stands by, and somebody is there.                              *)
(***************************************************************************)
LEMMA SomebodyStays ==
    ASSUME RenewalTypeOK, PutToday, SomebodyStandsBy, SomebodyIsThere,
           [RenewalNext]_renewalVars
    PROVE  PutToday' /\ SomebodyStandsBy' /\ SomebodyIsThere'
<1> USE RenewalNumbers
<1>1. ASSUME NEW t \in Task, RenewalStep(t)
      PROVE  PutToday' /\ SomebodyStandsBy' /\ SomebodyIsThere'
    <2>1. /\ \A u \in Task \ {t} : pc'[u] = pc[u] /\ wait'[u] = wait[u]
          /\ pc'[t] \in Awake \cup {"sleep", "ended"}
        BY <1>1, OneTaskMoves DEF RenewalTypeOK
    <2>2. PutToday'
        BY <1>1, <2>1, WhereTasksGo DEF PutToday
    <2>3. ASSUME certAge' = 0 PROVE \E u \in Task : StandsBy(u)'
        <3>1. CASE certAge # 0
            BY <1>1, <2>3, <3>1, WhereTasksGo DEF StandsBy, Awake
        <3>2. CASE certAge = 0
            <4>1. PICK u \in Task : StandsBy(u)
                BY <3>2 DEF SomebodyStandsBy
            <4>2. CASE u # t
                BY <2>1, <4>1, <4>2 DEF StandsBy
            <4>3. CASE u = t
                <5>1. pc'[t] \notin {"fetch", "ended"}
                    BY <1>1, <4>1, <4>3, WhereTasksGo
                    DEF StandsBy, Wake, FindRenewed, Awake
                <5> QED
                    BY <1>1, <2>1, <5>1, WhereTasksGo DEF StandsBy, Awake
            <4> QED
                BY <4>2, <4>3
        <3> QED
            BY <3>1, <3>2
    <2>4. SomebodyIsThere'
        <3>1. CASE pc'[t] # "ended"
            BY <3>1 DEF SomebodyIsThere
        <3>2. CASE pc'[t] = "ended"
            <4>1. FindRenewed(t)
                BY <1>1, <3>2, WhereTasksGo
            <4>2. certAge = 0 /\ pc[t] = "fetch"
                BY <4>1 DEF FindRenewed, RenewalTypeOK
            <4>3. PICK u \in Task : StandsBy(u)
                BY <4>2 DEF SomebodyStandsBy
            <4>4. u # t /\ pc[u] # "ended"
                BY <4>2, <4>3 DEF StandsBy, Awake
            <4> QED
                BY <2>1, <4>4 DEF SomebodyIsThere
        <3> QED
            BY <3>1, <3>2
    <2> QED
        BY <2>2, <2>3, <2>4 DEF SomebodyStandsBy
<1>2. ASSUME NEW p \in Inst, Restart(p)
      PROVE  PutToday' /\ SomebodyStandsBy' /\ SomebodyIsThere'
    <2>1. PICK t \in Task :
              /\ Owner[t] = p /\ pc'[t] = "sleep" /\ wait'[t] \in Nat
              /\ certAge + Thirty > Validity => wait'[t] = 0
              /\ certAge + Thirty <= Validity =>
                    wait'[t] \in (Validity - Thirty - certAge)..
                                 (Validity - Thirty - certAge + 1)
              /\ \A u \in Task \ {t} : Owner[u] = p => pc'[u] = "ended"
              /\ \A u \in Task \ {t} : Owner[u] # p =>
                    pc'[u] = pc[u] /\ wait'[u] = wait[u]
              /\ certAge' = certAge
        BY <1>2, WhereRestartsGo
    <2>2. PutToday'
        BY <2>1 DEF PutToday
    <2>3. certAge = 0 => wait'[t] > 0
        <3>1. certAge = 0 => wait'[t] \in (Validity - Thirty)..(Validity - Thirty + 1)
            BY <2>1
        <3> QED
            BY <3>1
    <2>4. SomebodyStandsBy'
        BY <2>1, <2>3 DEF SomebodyStandsBy, StandsBy
    <2>5. SomebodyIsThere'
        BY <2>1 DEF SomebodyIsThere
    <2> QED
        BY <2>2, <2>4, <2>5
<1>3. CASE DayPasses
    <2>1. certAge' # 0 /\ pc' = pc
        BY <1>3 DEF DayPasses, RenewalTypeOK
    <2>2. \A t \in Task : pc[t] # "delete"
        BY <1>3 DEF DayPasses, Awake
    <2> QED
        BY <2>1, <2>2 DEF PutToday, SomebodyStandsBy, SomebodyIsThere
<1>4. CASE Tick
    <2>1. /\ pc' = pc /\ certAge' = certAge
          /\ \A t \in Task : pc[t] = "sleep" => wait'[t] = wait[t]
        BY <1>4 DEF Tick, RenewalTypeOK
    <2> QED
        BY <2>1 DEF PutToday, SomebodyStandsBy, SomebodyIsThere, StandsBy
<1>5. CASE UNCHANGED renewalVars
    BY <1>5 DEF renewalVars, PutToday, SomebodyStandsBy, SomebodyIsThere, StandsBy
<1> QED
    BY <1>1, <1>2, <1>3, <1>4, <1>5 DEF RenewalNext, RenewalStep

(***************************************************************************)
(* While no call fails, the lock's owner is at work, and a task that loses *)
(* the race has lost it to one that is, or was today.                      *)
(***************************************************************************)
LEMMA LocksAreHeld ==
    ASSUME RenewalTypeOK, RenewalTypeOK', PutToday, LockIsHeld, LockIsThere,
           LostToAnother, [RenewalNext]_renewalVars, clean'
    PROVE  LockIsHeld' /\ LockIsThere' /\ LostToAnother'
<1> USE RenewalNumbers
<1>1. ASSUME NEW t \in Task, RenewalStep(t)
      PROVE  LockIsHeld' /\ LockIsThere' /\ LostToAnother'
    <2>1. /\ \A u \in Task \ {t} : pc'[u] = pc[u]
          /\ certAge' \in {0, certAge}
          /\ pc[t] = "delete" => pc'[t] = "sleep" /\ lock' = NoLock /\ certAge' = 0
        BY <1>1, OneTaskMoves, WhereTasksGo DEF PutToday
    <2>2. CASE WriteLock(t)
        <3>1. lock' = NewLock(t) /\ lock'.owner = t /\ lock' # NoLock
              /\ pc'[t] = "check" /\ pc[t] = "write"
            BY <2>2 DEF WriteLock, NewLock, Goto, RenewalTypeOK, Lock
        <3> QED
            BY <2>1, <3>1 DEF LockIsHeld, LockIsThere, LostToAnother, Winning
    <2>3. CASE LoseRace(t)
        <3>1. /\ lock' = lock /\ certAge' = certAge /\ pc[t] = "check"
              /\ pc'[t] = "backoff" /\ (lock # NoLock => lock.owner # t)
            BY <2>3, TryTypes DEF LoseRace, IsMine
        <3>2. lock # NoLock => lock.owner \in Task
            BY DEF RenewalTypeOK, Lock
        <3>3. LockIsHeld' /\ LockIsThere'
            BY <2>1, <3>1, <3>2 DEF LockIsHeld, LockIsThere
        <3>4. certAge = 0 \/ \E u \in Task : pc'[u] \in Winning
            BY <2>1, <3>1, <3>2 DEF LockIsHeld, LockIsThere
        <3> QED
            BY <3>1, <3>3, <3>4 DEF LostToAnother
    <2>4. CASE DeleteLock(t)
        <3>1. lock' = NoLock /\ certAge' = 0
            BY <2>1, <2>4 DEF DeleteLock
        <3> QED
            BY <3>1 DEF LockIsHeld, LockIsThere, LostToAnother
    <2>5. CASE StartOrder(t) \/ OrderDone(t) \/ PutCert(t)
        <3>1. lock' = lock /\ pc[t] \in Winning /\ pc'[t] \in Winning \ {"check"}
            BY <2>5 DEF StartOrder, OrderDone, PutCert, Goto, RenewalTypeOK, Winning
        <3>2. LockIsHeld' /\ LockIsThere'
            BY <2>1, <3>1 DEF LockIsHeld, LockIsThere, RenewalTypeOK, Lock
        <3> QED
            BY <2>1, <3>1, <3>2 DEF LostToAnother
    <2>6. CASE Wake(t) \/ FindRenewed(t) \/ FindNotRenewed(t) \/ ReadFree(t)
               \/ LeaveToOther(t) \/ BackoffEnds(t)
        <3>1. /\ lock' = lock /\ certAge' = certAge /\ pc[t] \notin Winning
              /\ pc'[t] \notin Winning \cup {"backoff"}
            BY <2>6, SleepTypes
            DEF Wake, FindRenewed, FindNotRenewed, ReadFree, LeaveToOther,
                BackoffEnds, Goto, RenewalTypeOK, Winning
        <3>2. LockIsHeld' /\ LockIsThere'
            BY <2>1, <3>1 DEF LockIsHeld, LockIsThere, RenewalTypeOK, Lock, Winning
        <3> QED
            BY <2>1, <3>1, <3>2 DEF LostToAnother
    <2>7. CASE CallFails(t)
        BY <2>7 DEF CallFails
    <2> QED
        BY <1>1, <2>2, <2>3, <2>4, <2>5, <2>6, <2>7 DEF RenewalStep
<1>2. ASSUME NEW p \in Inst, Restart(p)
      PROVE  LockIsHeld' /\ LockIsThere' /\ LostToAnother'
    <2>1. PICK t \in Task :
              /\ pc'[t] = "sleep"
              /\ \A u \in Task \ {t} : Owner[u] = p => pc'[u] = "ended"
              /\ \A u \in Task \ {t} : Owner[u] # p => pc'[u] = pc[u]
              /\ Owner[t] = p
              /\ certAge' = certAge /\ lock' = lock
              /\ \A u \in Task : Owner[u] = p => pc[u] \notin Awake
        BY <1>2, WhereRestartsGo
    <2>2. \A u \in Task : pc[u] \in Awake => pc'[u] = pc[u]
        BY <2>1
    <2>3. Winning \subseteq Awake /\ "backoff" \in Awake
        BY DEF Winning, Awake
    <2>4. \A u \in Task : pc'[u] \in Awake => pc'[u] = pc[u]
        BY <2>1 DEF Awake
    <2>5. lock # NoLock => lock.owner \in Task
        BY DEF RenewalTypeOK, Lock
    <2>6. LockIsHeld'
        BY <2>1, <2>2, <2>3, <2>5 DEF LockIsHeld
    <2>7. LockIsThere'
        BY <2>1, <2>3, <2>4 DEF LockIsThere, Winning
    <2>8. LostToAnother'
        BY <2>1, <2>2, <2>3, <2>4 DEF LostToAnother
    <2> QED
        BY <2>6, <2>7, <2>8
<1>3. CASE DayPasses
    <2>1. /\ \A t \in Task : pc[t] \notin Awake
          /\ pc' = pc /\ (lock = NoLock => lock' = NoLock)
        BY <1>3 DEF DayPasses
    <2>2. lock # NoLock => lock.owner \in Task
        BY DEF RenewalTypeOK, Lock
    <2>3. lock = NoLock
        BY <2>1, <2>2 DEF LockIsHeld, Winning, Awake
    <2> QED
        BY <2>1, <2>3 DEF LockIsHeld, LockIsThere, LostToAnother, Awake
<1>4. CASE Tick
    <2>1. pc' = pc /\ certAge' = certAge
        BY <1>4 DEF Tick
    <2>2. (lock' = NoLock <=> lock = NoLock) /\ (lock # NoLock => lock'.owner = lock.owner)
        <3>1. CASE LockIsValid
            <4>1. lock # NoLock /\ lock \in Lock /\ lock' = [lock EXCEPT !.left = @ - 1]
                BY <1>4, <3>1 DEF Tick, LockIsValid, RenewalTypeOK
            <4>2. lock'.owner = lock.owner /\ lock' \in [owner : Task, left : Int]
                BY <4>1 DEF Lock
            <4> QED
                BY <4>1, <4>2, NoLockIsNoLock
        <3>2. CASE ~LockIsValid
            BY <1>4, <3>2 DEF Tick
        <3> QED
            BY <3>1, <3>2
    <2> QED
        BY <2>1, <2>2 DEF LockIsHeld, LockIsThere, LostToAnother
<1>5. CASE UNCHANGED renewalVars
    BY <1>5 DEF renewalVars, LockIsHeld, LockIsThere, LostToAnother
<1> QED
    BY <1>1, <1>2, <1>3, <1>4, <1>5 DEF RenewalNext, RenewalStep

(***************************************************************************)
(* While no call fails, somebody is in time: whoever leaves the renewal    *)
(* leaves it to one that is.                                               *)
(***************************************************************************)
LEMMA SomebodyStaysInTime ==
    ASSUME RenewalTypeOK, RenewalTypeOK', PutToday, SomebodyStandsBy, LockIsHeld,
           LostToAnother, SomebodyIsInTime, [RenewalNext]_renewalVars, clean'
    PROVE  SomebodyIsInTime'
<1> USE RenewalNumbers
<1>0. Winning \subseteq Awake
    BY DEF Winning, Awake
<1>1. ASSUME NEW t \in Task, RenewalStep(t) PROVE SomebodyIsInTime'
    <2>1. /\ \A u \in Task \ {t} : pc'[u] = pc[u] /\ wait'[u] = wait[u]
          /\ certAge' \in {0, certAge} /\ certAge \in Nat /\ wait \in [Task -> Nat]
          /\ wait' \in [Task -> 0..(Sixty + 1)]
        BY <1>1, OneTaskMoves, WhereTasksGo DEF RenewalTypeOK
    <2>2. certAge' < Validity
        BY <2>1 DEF SomebodyIsInTime
    <2>3. \A u \in Task \ {t} : InTime(u) => InTime(u)'
        BY <2>1 DEF InTime
    <2>4. CASE pc'[t] \in Awake
        BY <2>2, <2>4 DEF SomebodyIsInTime, InTime
    <2>5. CASE certAge' = 0 /\ pc'[t] = "sleep"
        <3>1. certAge' + wait'[t] < Validity
            BY <2>1, <2>5
        <3> QED
            BY <2>2, <2>5, <3>1 DEF SomebodyIsInTime, InTime
    <2>6. CASE FindRenewed(t)
        <3>1. certAge = 0 /\ certAge' = 0 /\ pc[t] = "fetch"
            BY <2>6 DEF FindRenewed, RenewalTypeOK
        <3>2. PICK u \in Task : StandsBy(u)
            BY <3>1 DEF SomebodyStandsBy
        <3>3. u # t /\ (pc[u] \in Awake \/ pc[u] = "sleep")
            BY <3>1, <3>2 DEF StandsBy, Awake
        <3>4. certAge' + wait'[u] < Validity
            BY <2>1, <3>1
        <3>5. InTime(u)'
            BY <2>1, <3>3, <3>4 DEF InTime
        <3> QED
            BY <2>2, <3>5 DEF SomebodyIsInTime
    <2>7. CASE LeaveToOther(t)
        <3>1. lock # NoLock /\ pc[t] = "readLock"
            BY <2>7 DEF LeaveToOther, LockIsValid
        <3>2. lock.owner \in Task /\ pc[lock.owner] \in Winning
            BY <3>1 DEF LockIsHeld, RenewalTypeOK, Lock
        <3>3. lock.owner # t
            BY <3>1, <3>2 DEF Winning
        <3> QED
            BY <1>0, <2>2, <2>3, <3>2, <3>3 DEF SomebodyIsInTime, InTime
    <2>8. CASE BackoffEnds(t) /\ certAge' # 0
        <3>1. pc[t] = "backoff" /\ certAge' = certAge
            BY <2>8 DEF BackoffEnds
        <3>2. PICK u \in Task : pc[u] \in Winning
            BY <2>8, <3>1 DEF LostToAnother
        <3>3. u # t
            BY <3>1, <3>2 DEF Winning
        <3> QED
            BY <1>0, <2>2, <2>3, <3>2, <3>3 DEF SomebodyIsInTime, InTime
    <2>9. pc'[t] \in Awake \/ (certAge' = 0 /\ pc'[t] = "sleep")
          \/ FindRenewed(t) \/ LeaveToOther(t)
          \/ (BackoffEnds(t) /\ certAge' # 0)
        <3>1. pc'[t] \in Awake \cup {"sleep", "ended"}
            BY DEF RenewalTypeOK
        <3>2. pc'[t] = "ended" => FindRenewed(t)
            BY <1>1, WhereTasksGo
        <3>3. pc[t] = "delete" => certAge' = 0
            BY <2>1 DEF PutToday
        <3>4. pc'[t] = "sleep" =>
                 LeaveToOther(t) \/ BackoffEnds(t) \/ pc[t] = "delete"
            BY <1>1, TryTypes
            DEF RenewalStep, RenewalTypeOK, Wake, FindRenewed, FindNotRenewed,
                ReadFree, WriteLock, StartOrder, LoseRace, OrderDone,
                PutCert, DeleteLock, CallFails, Goto
        <3> QED
            BY <3>1, <3>2, <3>3, <3>4
    <2> QED
        BY <2>4, <2>5, <2>6, <2>7, <2>8, <2>9
<1>2. ASSUME NEW p \in Inst, Restart(p) PROVE SomebodyIsInTime'
    <2>1. PICK t \in Task :
              /\ pc'[t] = "sleep" /\ wait'[t] \in Nat
              /\ certAge + Thirty > Validity => wait'[t] = 0
              /\ certAge + Thirty <= Validity =>
                    wait'[t] \in (Validity - Thirty - certAge)..
                                 (Validity - Thirty - certAge + 1)
              /\ certAge' = certAge
        BY <1>2, WhereRestartsGo
    <2>2. certAge \in Nat /\ certAge < Validity
        BY DEF SomebodyIsInTime, RenewalTypeOK
    <2>3. CASE certAge + Thirty > Validity
        <3>1. certAge + wait'[t] < Validity
            BY <2>1, <2>2, <2>3
        <3> QED
            BY <2>1, <2>2, <3>1 DEF SomebodyIsInTime, InTime
    <2>4. CASE certAge + Thirty <= Validity
        <3>1. certAge + wait'[t] < Validity
            <4>1. wait'[t] <= Validity - Thirty - certAge + 1
                BY <2>1, <2>4
            <4> QED
                BY <2>1, <2>2, <4>1
        <3> QED
            BY <2>1, <2>2, <3>1 DEF SomebodyIsInTime, InTime
    <2> QED
        BY <2>2, <2>3, <2>4
<1>3. CASE DayPasses
    <2>1. PICK t \in Task : InTime(t)
        BY DEF SomebodyIsInTime
    <2>2. pc[t] = "sleep" /\ certAge + wait[t] < Validity /\ wait[t] > 0
        BY <1>3, <2>1 DEF InTime, DayPasses
    <2>3. certAge \in Nat /\ wait[t] \in Nat
        BY DEF RenewalTypeOK
    <2>4. certAge' = certAge + 1 /\ wait'[t] = wait[t] - 1 /\ pc' = pc
        BY <1>3, <2>2, <2>3 DEF DayPasses
    <2>5. certAge' < Validity /\ certAge' + wait'[t] < Validity
        BY <2>2, <2>3, <2>4
    <2> QED
        BY <2>2, <2>4, <2>5 DEF SomebodyIsInTime, InTime
<1>4. CASE Tick
    <2>1. /\ pc' = pc /\ certAge' = certAge
          /\ \A t \in Task : pc[t] = "sleep" => wait'[t] = wait[t]
        BY <1>4 DEF Tick, RenewalTypeOK
    <2> QED
        BY <2>1 DEF SomebodyIsInTime, InTime
<1>5. CASE UNCHANGED renewalVars
    BY <1>5 DEF renewalVars, SomebodyIsInTime, InTime
<1> QED
    BY <1>1, <1>2, <1>3, <1>4, <1>5 DEF RenewalNext, RenewalStep

(***************************************************************************)
(* The invariant holds of every behaviour of the renewal tasks, however    *)
(* many there are.                                                         *)
(***************************************************************************)
THEOREM RenewalInvariant == RenewalSpec => []RenewalInv
<1> USE RenewalNumbers
<1>1. RenewalInit => RenewalInv
    <2> SUFFICES ASSUME RenewalInit PROVE RenewalInv
        OBVIOUS
    <2>1. RenewalTypeOK
        BY DEF RenewalInit, RenewalTypeOK
    <2>2. PICK t \in Task : TRUE
        OBVIOUS
    <2>3. /\ pc[t] = "sleep" /\ wait[t] \in Sixty..(Sixty + 1) /\ certAge = 0
          /\ lock = NoLock
        BY DEF RenewalInit
    <2>4. wait[t] > 0 /\ certAge + wait[t] < Validity /\ certAge < Validity
        BY <2>3
    <2>5. PutToday /\ LockIsHeld /\ LockIsThere /\ LostToAnother
        BY <2>3 DEF PutToday, LockIsHeld, LockIsThere, LostToAnother
    <2>6. SomebodyStandsBy /\ SomebodyIsThere /\ SomebodyIsInTime
        BY <2>3, <2>4 DEF SomebodyStandsBy, StandsBy, SomebodyIsThere,
                          SomebodyIsInTime, InTime
    <2> QED
        BY <2>1, <2>5, <2>6 DEF RenewalInv
<1>2. RenewalInv /\ [RenewalNext]_renewalVars => RenewalInv'
    <2> SUFFICES ASSUME RenewalInv, [RenewalNext]_renewalVars PROVE RenewalInv'
        OBVIOUS
    <2>1. RenewalTypeOK'
        BY RenewalTypes DEF RenewalInv
    <2>2. PutToday' /\ SomebodyStandsBy' /\ SomebodyIsThere'
        BY SomebodyStays DEF RenewalInv
    <2>3. clean' => clean
        BY WhereTasksGo, WhereRestartsGo
        DEF RenewalInv, RenewalNext, RenewalStep, DayPasses, Tick, renewalVars
    <2>4. clean' => LockIsHeld' /\ LockIsThere' /\ LostToAnother'
        BY <2>1, <2>3, LocksAreHeld DEF RenewalInv
    <2>5. clean' => SomebodyIsInTime'
        BY <2>1, <2>3, SomebodyStaysInTime DEF RenewalInv
    <2> QED
        BY <2>1, <2>2, <2>4, <2>5 DEF RenewalInv
<1> QED
    BY <1>1, <1>2, PTL DEF RenewalSpec

(***************************************************************************)
(* The stored certificate does not expire while no call fails and nobody   *)
(* is replaced while renewing, although tasks of all instances lose races, *)
(* leave the renewal to others or end.                                     *)
(***************************************************************************)
THEOREM StoredCertsDoNotExpire == RenewalSpec => []StoredCertNeverExpires
<1>1. RenewalInv => StoredCertNeverExpires
    BY DEF RenewalInv, StoredCertNeverExpires, SomebodyIsInTime
<1> QED
    BY <1>1, RenewalInvariant, PTL

(***************************************************************************)
(* Whatever fails, the tasks never all end: one remains to renew.          *)
(***************************************************************************)
THEOREM SomebodyAlwaysRenews == RenewalSpec => []SomebodyRenews
<1>1. RenewalInv => SomebodyRenews
    BY DEF RenewalInv, SomebodyRenews, SomebodyIsThere
<1> QED
    BY <1>1, RenewalInvariant, PTL

-----------------------------------------------------------------------------
(***************************************************************************)
(* The health checks.  What the agent answers depends on the worst result  *)
(* it has; that is inductive with the place in its buffer of the last one  *)
(* that was unhealthy.                                                     *)
(***************************************************************************)

\* The last calm results are healthy, the one before them, if it is still in
\* the buffer, is not.
CalmIsCounted(buf, n) ==
    /\ \A i \in 1..Len(buf) : i > Len(buf) - n => IsHealthy(buf[i])
    /\ n < Limit - 1 => Len(buf) - n >= 1 /\ ~IsHealthy(buf[Len(buf) - n])

\* A check under way while draining began before, and none of them is over.
SlipsAreCounted ==
    /\ slips <= 1
    /\ ~draining => slips = 0
    /\ check # "none" => slips = 0

(***************************************************************************)
(* The inductive invariant of HealthCheck.                                 *)
(***************************************************************************)
HealthInv == HealthTypeOK /\ CalmIsCounted(buffer, calm) /\ SlipsAreCounted

(***************************************************************************)
(* record_result keeps the count, whether or not it pops a result.         *)
(***************************************************************************)
LEMMA RecordedResult ==
    ASSUME HealthTypeOK, CalmIsCounted(buffer, calm), NEW r \in Result,
           RecordResult(r)
    PROVE  /\ buffer' \in Seq(Result) /\ Len(buffer') < Limit
           /\ calm' \in 0..Limit
           /\ CalmIsCounted(buffer', calm')
<1> DEFINE pushed == Append(buffer, r)
           n == Len(buffer)
<1>1. /\ Limit \in Nat /\ Limit >= 2 /\ n \in Nat /\ n < Limit
      /\ calm \in Nat /\ calm <= Limit /\ buffer \in Seq(Result)
    BY LimitIsPositive DEF HealthTypeOK
<1>2. /\ pushed \in Seq(Result) /\ Len(pushed) = n + 1
      /\ \A i \in 1..n : pushed[i] = buffer[i]
      /\ pushed[n + 1] = r
    BY <1>1, AppendProperties
<1>3. /\ calm' = IF ~IsHealthy(r) THEN 0 ELSE IF calm < Limit THEN calm + 1 ELSE calm
      /\ buffer' = IF n + 1 >= Limit THEN Tail(pushed) ELSE pushed
    BY <1>2 DEF RecordResult
<1> HIDE DEF pushed
<1>4. calm' \in 0..Limit
    BY <1>1, <1>3
<1>5. CASE n + 1 < Limit
    <2>1. buffer' = pushed
        BY <1>1, <1>3, <1>5
    <2>2. CASE ~IsHealthy(r)
        <3>1. calm' = 0
            BY <1>3, <2>2
        <3> QED
            BY <1>1, <1>2, <1>4, <1>5, <2>1, <2>2, <3>1 DEF CalmIsCounted
    <2>3. CASE IsHealthy(r)
        <3>1. calm' = IF calm < Limit THEN calm + 1 ELSE calm
            BY <1>3, <2>3
        <3>2. ASSUME NEW i \in 1..(n + 1), i > n + 1 - calm'
              PROVE  IsHealthy(pushed[i])
            BY <1>1, <1>2, <2>3, <3>1, <3>2 DEF CalmIsCounted
        <3>3. calm' < Limit - 1 =>
                 n + 1 - calm' >= 1 /\ ~IsHealthy(pushed[n + 1 - calm'])
            BY <1>1, <1>2, <3>1 DEF CalmIsCounted
        <3> QED
            BY <1>2, <1>4, <1>5, <2>1, <3>2, <3>3 DEF CalmIsCounted
    <2> QED
        BY <2>2, <2>3
<1>6. CASE n + 1 >= Limit
    <2>1. buffer' = Tail(pushed) /\ n = Limit - 1
        BY <1>1, <1>3, <1>6
    <2>2. pushed # <<>>
        BY <1>1, <1>2
    <2>3. /\ buffer' \in Seq(Result) /\ Len(buffer') = n
          /\ \A i \in 1..n : buffer'[i] = pushed[i + 1]
        BY <1>1, <1>2, <2>1, <2>2, HeadTailProperties
    <2>4. CASE ~IsHealthy(r)
        <3>1. calm' = 0
            BY <1>3, <2>4
        <3>2. buffer'[n] = r /\ n >= 1
            BY <1>1, <1>2, <2>1, <2>3
        <3> QED
            BY <1>1, <1>4, <2>1, <2>3, <2>4, <3>1, <3>2 DEF CalmIsCounted
    <2>5. CASE IsHealthy(r)
        <3>1. calm' = IF calm < Limit THEN calm + 1 ELSE calm
            BY <1>3, <2>5
        <3>2. ASSUME NEW i \in 1..n, i > n - calm'
              PROVE  IsHealthy(buffer'[i])
            <4>1. buffer'[i] = pushed[i + 1]
                BY <2>3
            <4>2. CASE i = n
                BY <1>2, <2>5, <4>1, <4>2
            <4>3. CASE i < n
                <5>1. i + 1 \in 1..n /\ i + 1 > n - calm
                    BY <1>1, <2>1, <3>1, <3>2, <4>3
                <5> QED
                    BY <1>2, <4>1, <5>1 DEF CalmIsCounted
            <4> QED
                BY <1>1, <4>2, <4>3
        <3>3. ASSUME calm' < Limit - 1
              PROVE  n - calm' >= 1 /\ ~IsHealthy(buffer'[n - calm'])
            <4>1. calm' = calm + 1 /\ calm < Limit - 1 /\ n - calm' \in 1..n
                  /\ n - calm' + 1 = n - calm /\ n - calm \in 1..n
                BY <1>1, <2>1, <3>1, <3>3
            <4>2. buffer'[n - calm'] = buffer[n - calm]
                BY <1>2, <2>3, <4>1
            <4> QED
                BY <4>1, <4>2 DEF CalmIsCounted
        <3> QED
            BY <1>1, <1>4, <2>1, <2>3, <3>2, <3>3 DEF CalmIsCounted
    <2> QED
        BY <2>4, <2>5
<1> QED
    BY <1>1, <1>5, <1>6

(***************************************************************************)
(* The worst result is one of the buffer's, and none of them is worse.     *)
(***************************************************************************)
LEMMA WorstIsWorst ==
    ASSUME HealthTypeOK, buffer # <<>>
    PROVE  /\ Worst \in ToSet(buffer)
           /\ \A s \in ToSet(buffer) : Rank(s) <= Rank(Worst)
<1> DEFINE S == ToSet(buffer)
<1>1. S \subseteq Result /\ S # {}
    <2>1. buffer \in Seq(Result) /\ Len(buffer) >= 1 /\ DOMAIN buffer = 1..Len(buffer)
        BY EmptySeq DEF HealthTypeOK
    <2>2. \A i \in DOMAIN buffer : buffer[i] \in Result
        BY <2>1
    <2>3. 1 \in DOMAIN buffer
        BY <2>1
    <2> QED
        BY <2>2, <2>3 DEF ToSet
<1> HIDE DEF S
<1>2. \E r \in S : \A s \in S : Rank(s) <= Rank(r)
    <2>1. CASE "bad" \in S
        BY <1>1, <2>1 DEF Rank, Result
    <2>2. CASE "bad" \notin S /\ "error" \in S
        BY <1>1, <2>2 DEF Rank, Result
    <2>3. CASE "bad" \notin S /\ "error" \notin S /\ "ok" \in S
        BY <1>1, <2>3 DEF Rank, Result
    <2>4. CASE "bad" \notin S /\ "error" \notin S /\ "ok" \notin S
        <3>1. S = {"unknown"}
            BY <1>1, <2>4 DEF Result
        <3> QED
            BY <3>1 DEF Rank
    <2> QED
        BY <2>1, <2>2, <2>3, <2>4
<1>3. Worst = CHOOSE r \in S : \A s \in S : Rank(s) <= Rank(r)
    BY DEF Worst, S
<1> QED
    BY <1>2, <1>3 DEF S

(***************************************************************************)
(* The agent's steps.                                                      *)
(***************************************************************************)
LEMMA AgentStep ==
    ASSUME HealthInv, Agent
    PROVE  HealthInv'
<1> USE DEF HealthInv
<1>1. CASE PerformHealthcheck
    <2>1. /\ ready' \in BOOLEAN
          /\ UNCHANGED <<hasPath, user, env, orphans, check, answer, draining,
                         alive, slips>>
        BY <1>1 DEF PerformHealthcheck, NowReady, HealthTypeOK
    <2>2. CASE agent' = "probing" /\ UNCHANGED <<buffer, calm>>
        BY <2>1, <2>2 DEF HealthTypeOK, SlipsAreCounted
    <2>3. CASE agent' = agent /\ \E r \in {"unknown", "error"} : RecordResult(r)
        <3>1. PICK r \in Result : RecordResult(r)
            BY <2>3 DEF Result
        <3>2. /\ buffer' \in Seq(Result) /\ Len(buffer') < Limit
              /\ calm' \in 0..Limit /\ CalmIsCounted(buffer', calm')
            BY <3>1, RecordedResult
        <3> QED
            BY <2>1, <2>3, <3>2 DEF HealthTypeOK, SlipsAreCounted
    <2> QED
        BY <1>1, <2>2, <2>3 DEF PerformHealthcheck
<1>2. CASE ProbeUserProcess \/ ProbeReleased
    <2>1. ResultOf(user) \in Result /\ "error" \in Result
        BY DEF ResultOf, Result
    <2>2. PICK r \in Result : RecordResult(r)
        BY <1>2, <2>1 DEF ProbeUserProcess, ProbeReleased
    <2>3. /\ buffer' \in Seq(Result) /\ Len(buffer') < Limit
          /\ calm' \in 0..Limit /\ CalmIsCounted(buffer', calm')
        BY <2>2, RecordedResult
    <2> QED
        BY <1>2, <2>3 DEF ProbeUserProcess, ProbeReleased, HealthTypeOK, SlipsAreCounted
<1>3. CASE ServeOrphan
    BY <1>3, LimitIsPositive DEF ServeOrphan, HealthTypeOK, SlipsAreCounted
<1>4. CASE ServeRequest
    <2>1. answer' \in {200, 500}
        BY <1>4 DEF ServeRequest, StatusCode
    <2>2. check' = "none" /\ slips' \in 0..1 /\ (~draining => slips' = 0)
        BY <1>4 DEF ServeRequest, SlipsAreCounted
    <2> QED
        BY <1>4, <2>1, <2>2 DEF ServeRequest, HealthTypeOK, SlipsAreCounted
<1>5. CASE ProbeHangs
    BY <1>5 DEF ProbeHangs, HealthTypeOK, SlipsAreCounted
<1> QED
    BY <1>1, <1>2, <1>3, <1>4, <1>5 DEF Agent

(***************************************************************************)
(* The steps of the control plane and of the environment.                  *)
(***************************************************************************)
LEMMA OtherHealthStep ==
    ASSUME HealthInv,
           Control \/ EnvChanges \/ UserChanges \/ UNCHANGED healthVars
    PROVE  HealthInv'
<1> USE DEF HealthInv
<1>1. CalmIsCounted(buffer', calm') /\ buffer' = buffer /\ calm' = calm
    BY DEF Control, BeginCheck, Unsupported, AskDataPlane,
           DataPlaneUnreachable, CheckTimesOut, Sigterm, TerminateEnclave,
           EnvChanges, UserChanges, healthVars
<1>2. HealthTypeOK'
    <2>1. CASE BeginCheck \/ Unsupported \/ AskDataPlane
        BY <2>1 DEF BeginCheck, Unsupported, AskDataPlane, HealthTypeOK
    <2>2. CASE DataPlaneUnreachable
        BY <2>2 DEF DataPlaneUnreachable, HealthTypeOK
    <2>5. CASE Sigterm \/ TerminateEnclave
        <3>1. draining' \in BOOLEAN /\ alive' \in BOOLEAN
            BY <2>5 DEF Sigterm, TerminateEnclave, HealthTypeOK
        <3>2. UNCHANGED <<hasPath, user, env, ready, buffer, agent, orphans, check,
                          answer, calm, slips>>
            BY <2>5 DEF Sigterm, TerminateEnclave
        <3> QED
            BY <3>1, <3>2 DEF HealthTypeOK
    <2>3. CASE CheckTimesOut
        <3>1. orphans' \in 0..MaxOrphans
            BY <2>3, LimitIsPositive DEF CheckTimesOut, HealthTypeOK
        <3> QED
            BY <2>3, <3>1 DEF CheckTimesOut, HealthTypeOK
    <2>4. CASE EnvChanges \/ UserChanges \/ UNCHANGED healthVars
        BY <2>4 DEF EnvChanges, UserChanges, healthVars, HealthTypeOK
    <2> QED
        BY <2>1, <2>2, <2>3, <2>4, <2>5 DEF Control
<1>3. SlipsAreCounted'
    <2>1. /\ slips' = slips /\ (draining => draining')
          /\ check' # "none" => check # "none" \/ ~draining
        BY DEF Control, BeginCheck, Unsupported, AskDataPlane, DataPlaneUnreachable,
               CheckTimesOut, Sigterm, TerminateEnclave, EnvChanges, UserChanges,
               healthVars
    <2> QED
        BY <2>1 DEF SlipsAreCounted
<1> QED
    BY <1>1, <1>2, <1>3

(***************************************************************************)
(* The invariant holds of every behaviour of the health checks, whatever   *)
(* the size of the buffer.                                                 *)
(***************************************************************************)
THEOREM HealthInvariant == HealthSpec => []HealthInv
<1>1. HealthInit => HealthInv
    <2> SUFFICES ASSUME HealthInit PROVE HealthInv
        OBVIOUS
    <2>1. /\ Limit \in Nat /\ Limit >= 2 /\ MaxOrphans \in Nat
          /\ buffer = <<>> /\ Len(buffer) = 0 /\ calm = Limit
        BY LimitIsPositive DEF HealthInit
    <2>2. CalmIsCounted(buffer, calm)
        BY <2>1 DEF CalmIsCounted
    <2>3. buffer \in Seq(Result) /\ Len(buffer) < Limit /\ calm \in 0..Limit
        BY <2>1
    <2>4. /\ hasPath \in BOOLEAN /\ ready \in BOOLEAN /\ draining \in BOOLEAN
          /\ alive \in BOOLEAN /\ slips = 0
        BY DEF HealthInit
    <2>5. HealthTypeOK
        BY <2>1, <2>3, <2>4 DEF HealthInit, HealthTypeOK
    <2> QED
        BY <2>2, <2>4, <2>5 DEF HealthInv, SlipsAreCounted
<1>2. HealthInv /\ [HealthNext]_healthVars => HealthInv'
    BY AgentStep, OtherHealthStep DEF HealthNext
<1> QED
    BY <1>1, <1>2, PTL DEF HealthSpec

(***************************************************************************)
(* One bad result is reported for as long as it is one of the last, and    *)
(* no longer.                                                              *)
(***************************************************************************)
THEOREM BadResultsLast == HealthSpec => []OneBadResultLasts
<1>1. HealthInv => OneBadResultLasts
    <2> SUFFICES ASSUME HealthInv PROVE IsHealthy(Worst) <=> calm >= Limit - 1
        BY DEF HealthInv, OneBadResultLasts
    <2>1. /\ Limit \in Nat /\ Limit >= 2 /\ Len(buffer) \in Nat /\ Len(buffer) < Limit
          /\ calm \in Nat /\ buffer \in Seq(Result)
        BY LimitIsPositive DEF HealthInv, HealthTypeOK
    <2>2. CASE calm >= Limit - 1
        <3>1. \A i \in 1..Len(buffer) : IsHealthy(buffer[i])
            BY <2>1, <2>2 DEF HealthInv, CalmIsCounted
        <3>2. CASE buffer = <<>>
            BY <2>2, <3>2 DEF Worst, IsHealthy
        <3>3. CASE buffer # <<>>
            <4>1. PICK i \in DOMAIN buffer : Worst = buffer[i]
                BY <3>3, WorstIsWorst DEF HealthInv, ToSet
            <4> QED
                BY <2>1, <2>2, <3>1, <4>1
        <3> QED
            BY <3>2, <3>3
    <2>3. CASE calm < Limit - 1
        <3>1. /\ Len(buffer) - calm \in 1..Len(buffer)
              /\ ~IsHealthy(buffer[Len(buffer) - calm])
            BY <2>1, <2>3 DEF HealthInv, CalmIsCounted
        <3> DEFINE b == buffer[Len(buffer) - calm]
        <3>2. b \in ToSet(buffer) /\ b \in Result /\ buffer # <<>>
            BY <2>1, <3>1 DEF ToSet
        <3>3. b \in {"error", "bad"}
            BY <3>1, <3>2 DEF IsHealthy, Result
        <3>4. Worst \in Result /\ Rank(b) <= Rank(Worst)
            <4>1. ToSet(buffer) \subseteq Result
                BY <2>1 DEF ToSet
            <4> QED
                BY <3>2, <4>1, WorstIsWorst DEF HealthInv
        <3> HIDE DEF b
        <3>5. ~IsHealthy(Worst)
            BY <3>3, <3>4 DEF IsHealthy, Rank, Result
        <3> QED
            BY <2>1, <2>3, <3>5
    <2> QED
        BY <2>1, <2>2, <2>3
<1> QED
    BY <1>1, HealthInvariant, PTL

(***************************************************************************)
(* Of the checks that ECS makes, one at most is answered with a 200 after  *)
(* the SIGTERM: the safety half of DrainingIsReported.                     *)
(***************************************************************************)
THEOREM DrainingSlipsOnce == HealthSpec => []OneSlipAtMost
<1>1. HealthInv => OneSlipAtMost
    BY DEF HealthInv, SlipsAreCounted, OneSlipAtMost
<1> QED
    BY <1>1, HealthInvariant, PTL

-----------------------------------------------------------------------------
(***************************************************************************)
(* Egress.  What a connection may reach depends on two caches; that an     *)
(* answer can be used is inductive with what is left in each of the caches *)
(* after the time since the answer, and with the lookups in the channel    *)
(* being those that nobody has answered.                                   *)
(***************************************************************************)

\* The lookups in the channel and with the driver wait, each once.
QueueIsWaiting ==
    /\ \A i \in 1..Len(channel) : data[channel[i]] = "queued"
    /\ \A i, j \in 1..Len(channel) : channel[i] = channel[j] => i = j
    /\ driver # <<>> =>
          /\ data[driver[1]] = "queued"
          /\ \A i \in 1..Len(channel) : channel[i] # driver[1]

\* A reply is the last thing to happen to a lookup on the host.
ReplyIsLast ==
    \A l \in Lookup :
        /\ reply[l] # NoReply => host[l] = "ended" /\ data[l] \notin {"none", "queued"}
        /\ data[l] = "answered" => reply[l] # NoReply
        /\ host[l] \in {"reading", "asking", "reread"} =>
              data[l] \notin {"none", "queued"}

\* No answer with ip has a shorter time to live than t.
IsFloor(ip, t) == \A ttl \in Ttls[ip] : t <= ttl

\* An address lasts on the host for the shortest time to live from the reply
\* on, and so it does in the enclave once the user process has been answered.
Lasts ==
    \A l \in Lookup : \A t \in Nat :
        (reply[l] # NoReply /\ IsFloor(reply[l].ip, t)) =>
            /\ t <= hostTtl[reply[l].ip] + since[l]
            /\ data[l] = "answered" => t <= dataTtl[reply[l].ip] + since[l]

\* What the host remembers is vouched for.
HostIsVouchedFor == \A ip \in Ip : hostTtl[ip] <= owed[ip]

(***************************************************************************)
(* The inductive invariant of Egress.                                      *)
(***************************************************************************)
EgressInv == EgressTypeOK /\ QueueIsWaiting /\ ReplyIsLast /\ Lasts /\ HostIsVouchedFor

(***************************************************************************)
(* The assumptions, as numbers.                                            *)
(***************************************************************************)
LEMMA EgressNumbers ==
    /\ MaxTtl \in Nat /\ Ttls \in [Ip -> SUBSET (0..MaxTtl)] /\ Patience \in Nat
    /\ ChannelSize \in Nat
    /\ NoReply \notin Reply
    /\ \A r \in Reply : r.ip \in Ip /\ r.ttl \in Ttls[r.ip] /\ r.ttl \in 0..MaxTtl
    /\ \A ip \in Ip : \A ttl \in Ttls[ip] :
          ttl \in 0..MaxTtl /\ [ip |-> ip, ttl |-> ttl] \in Reply
<1>1. /\ MaxTtl \in Nat /\ Ttls \in [Ip -> SUBSET (0..MaxTtl)] /\ Patience \in Nat
      /\ ChannelSize \in Nat
    BY BoundsAreNat
<1>2. \A r \in Reply : r \in [ip : Ip, ttl : 0..MaxTtl] /\ r.ttl \in Ttls[r.ip]
    BY DEF Reply
<1>3. NoReply \notin Reply
    BY <1>1, <1>2, NoReplyIsNone
<1>4. ASSUME NEW ip \in Ip, NEW ttl \in Ttls[ip]
      PROVE  ttl \in 0..MaxTtl /\ [ip |-> ip, ttl |-> ttl] \in Reply
    BY <1>1 DEF Reply
<1> QED
    BY <1>1, <1>2, <1>3, <1>4

(***************************************************************************)
(* The steps that touch neither the queue nor the caches.                  *)
(***************************************************************************)
LEMMA SmallEgressStep ==
    ASSUME EgressInv, NEW l \in Lookup,
           DataFails(l) \/ HostAsks(l) \/ HostRejects(l) \/ HostFails(l)
             \/ HostEnds(l)
    PROVE  EgressInv'
<1> USE EgressNumbers DEF EgressInv
<1>1. /\ UNCHANGED <<channel, driver, asks, waited, reply, since, dataTtl, hostTtl,
                     owed, conn, dest>>
    BY DEF DataFails, HostAsks, HostRejects, HostFails, HostEnds,
           caches, conns
<1>2. PICK d \in {data[l], "failed"}, h \in {host[l], "asking", "reread", "ended"} :
        /\ data' = [data EXCEPT ![l] = d] /\ host' = [host EXCEPT ![l] = h]
        /\ d # data[l] => data[l] = "forwarded"
        /\ h # host[l] => host[l] \in {"reading", "asking", "reread"}
    <2>1. data = [data EXCEPT ![l] = data[l]] /\ host = [host EXCEPT ![l] = host[l]]
        BY DEF EgressTypeOK
    <2>2. CASE DataFails(l)
        BY <2>1, <2>2 DEF DataFails
    <2>3. CASE HostAsks(l)
        BY <2>1, <2>3 DEF HostAsks
    <2>4. CASE HostRejects(l) \/ HostEnds(l)
        BY <2>1, <2>4 DEF HostRejects, HostEnds
    <2>5. CASE HostFails(l)
        BY <2>1, <2>5 DEF HostFails
    <2> QED
        BY <2>2, <2>3, <2>4, <2>5
<1>3. /\ data'[l] = d /\ host'[l] = h
      /\ \A k \in Lookup \ {l} : data'[k] = data[k] /\ host'[k] = host[k]
    BY <1>2 DEF EgressTypeOK
<1>4. EgressTypeOK'
    BY <1>1, <1>2 DEF EgressTypeOK, Answered
<1>5. \A k \in Lookup : data[k] = "queued" => data'[k] = "queued"
    BY <1>2, <1>3
<1>6. QueueIsWaiting'
    <2>1. \A i \in 1..Len(channel) : channel[i] \in Lookup
        BY DEF EgressTypeOK
    <2>2. driver # <<>> => driver[1] \in Lookup
        BY DEF EgressTypeOK
    <2> QED
        BY <1>1, <1>5, <2>1, <2>2 DEF QueueIsWaiting
<1>7. ReplyIsLast'
    BY <1>1, <1>2, <1>3 DEF ReplyIsLast, EgressTypeOK
<1>8. Lasts' /\ HostIsVouchedFor'
    <2>1. \A k \in Lookup : data'[k] = "answered" => data[k] = "answered"
        BY <1>2, <1>3
    <2> QED
        BY <1>1, <2>1 DEF Lasts, HostIsVouchedFor, IsFloor
<1> QED
    BY <1>4, <1>6, <1>7, <1>8

(***************************************************************************)
(* Both caches take an answer: it lasts as long as the shortest one.       *)
(***************************************************************************)
LEMMA AnswerStep ==
    ASSUME EgressInv, NEW l \in Lookup,
           DataAnswers(l) \/ \E ip \in Ip : \E ttl \in Ttls[ip] : HostAnswers(l, ip, ttl)
    PROVE  EgressInv'
<1> USE EgressNumbers DEF EgressInv
<1>1. CASE DataAnswers(l)
    <2> DEFINE r == reply[l]
    <2>1. /\ r \in Reply /\ r # NoReply /\ data[l] = "forwarded"
          /\ dataTtl' = [dataTtl EXCEPT ![r.ip] = r.ttl]
          /\ data' = [data EXCEPT ![l] = "answered"]
          /\ UNCHANGED <<channel, driver, host, asks, waited, reply, since, hostTtl,
                         owed, conn, dest>>
        BY <1>1 DEF DataAnswers, Cached, EgressTypeOK, conns
    <2> HIDE DEF r
    <2>2. /\ dataTtl'[r.ip] = r.ttl /\ \A ip \in Ip \ {r.ip} : dataTtl'[ip] = dataTtl[ip]
          /\ data'[l] = "answered" /\ \A k \in Lookup \ {l} : data'[k] = data[k]
        BY <2>1 DEF EgressTypeOK
    <2>3. EgressTypeOK'
        BY <2>1 DEF EgressTypeOK, Answered
    <2>4. QueueIsWaiting'
        <3>1. \A i \in 1..Len(channel) : channel[i] \in Lookup
            BY DEF EgressTypeOK
        <3>2. driver # <<>> => driver[1] \in Lookup
            BY DEF EgressTypeOK
        <3> QED
            BY <2>1, <2>2, <3>1, <3>2 DEF QueueIsWaiting
    <2>5. ReplyIsLast'
        BY <2>1, <2>2 DEF ReplyIsLast, r
    <2>6. Lasts'
        <3> SUFFICES ASSUME NEW k \in Lookup, NEW t \in Nat, reply[k] # NoReply,
                            IsFloor(reply[k].ip, t)
                     PROVE  /\ t <= hostTtl[reply[k].ip] + since[k]
                            /\ data'[k] = "answered" =>
                                  t <= dataTtl'[reply[k].ip] + since[k]
            BY <2>1 DEF Lasts, IsFloor
        <3>1. t <= hostTtl[reply[k].ip] + since[k]
            BY DEF Lasts
        <3>2. CASE reply[k].ip = r.ip
            <4>1. t <= r.ttl /\ since[k] \in Nat /\ r.ttl \in Nat
                BY <2>1, <3>2 DEF IsFloor, EgressTypeOK
            <4> QED
                BY <2>2, <3>1, <3>2, <4>1
        <3>3. CASE reply[k].ip # r.ip
            <4>1. k # l /\ reply[k].ip \in Ip
                BY <3>3 DEF EgressTypeOK, r
            <4> QED
                BY <2>2, <3>1, <3>3, <4>1 DEF Lasts
        <3> QED
            BY <3>2, <3>3
    <2>7. HostIsVouchedFor'
        BY <2>1 DEF HostIsVouchedFor
    <2> QED
        BY <2>3, <2>4, <2>5, <2>6, <2>7
<1>2. ASSUME NEW ip \in Ip, NEW ttl \in Ttls[ip], HostAnswers(l, ip, ttl)
      PROVE  EgressInv'
    <2> DEFINE r == [ip |-> ip, ttl |-> ttl]
    <2>1. /\ host[l] = "asking"
          /\ hostTtl' = [hostTtl EXCEPT ![ip] = ttl]
          /\ owed' = [owed EXCEPT ![ip] = IF ttl > owed[ip] THEN ttl ELSE owed[ip]]
          /\ reply' = [reply EXCEPT ![l] = r]
          /\ host' = [host EXCEPT ![l] = "ended"]
          /\ UNCHANGED <<channel, driver, data, asks, waited, since, dataTtl, conn, dest>>
        BY <1>2 DEF HostAnswers, Cached, conns
    <2>2. r \in Reply /\ r.ip = ip /\ r # NoReply /\ ttl \in 0..MaxTtl
        OBVIOUS
    <2> HIDE DEF r
    <2>3. /\ hostTtl'[ip] = ttl /\ \A i \in Ip \ {ip} : hostTtl'[i] = hostTtl[i]
          /\ owed'[ip] = (IF ttl > owed[ip] THEN ttl ELSE owed[ip])
          /\ \A i \in Ip \ {ip} : owed'[i] = owed[i]
          /\ reply'[l] = r /\ \A k \in Lookup \ {l} : reply'[k] = reply[k]
          /\ host'[l] = "ended" /\ \A k \in Lookup \ {l} : host'[k] = host[k]
        BY <2>1 DEF EgressTypeOK
    <2>4. EgressTypeOK'
        <3>1. hostTtl' \in [Ip -> 0..MaxTtl] /\ owed' \in [Ip -> 0..MaxTtl]
            BY <2>1, <2>2 DEF EgressTypeOK
        <3> QED
            BY <2>1, <2>2, <3>1 DEF EgressTypeOK
    <2>5. QueueIsWaiting'
        BY <2>1 DEF QueueIsWaiting
    <2>6. data[l] \notin {"none", "queued", "answered"}
        BY <2>1 DEF ReplyIsLast
    <2>7. ReplyIsLast'
        BY <2>1, <2>2, <2>3, <2>6 DEF ReplyIsLast
    <2>8. Lasts'
        <3> SUFFICES ASSUME NEW k \in Lookup, NEW t \in Nat, reply'[k] # NoReply,
                            IsFloor(reply'[k].ip, t)
                     PROVE  /\ t <= hostTtl'[reply'[k].ip] + since[k]
                            /\ data[k] = "answered" =>
                                  t <= dataTtl[reply'[k].ip] + since[k]
            BY <2>1 DEF Lasts, IsFloor
        <3>1. reply'[k].ip = ip => t <= hostTtl'[reply'[k].ip] + since[k]
            <4>1. reply'[k].ip = ip => t <= ttl
                BY DEF IsFloor
            <4>2. since[k] \in Nat /\ ttl \in Nat
                BY <2>2 DEF EgressTypeOK
            <4> QED
                BY <2>3, <4>1, <4>2
        <3>2. CASE k = l
            BY <2>2, <2>3, <2>6, <3>1, <3>2
        <3>3. CASE k # l
            <4>1. reply'[k] = reply[k] /\ reply[k].ip \in Ip
                BY <2>3, <3>3 DEF EgressTypeOK
            <4>2. /\ t <= hostTtl[reply[k].ip] + since[k]
                  /\ data[k] = "answered" => t <= dataTtl[reply[k].ip] + since[k]
                BY <4>1 DEF Lasts
            <4> QED
                BY <2>3, <3>1, <4>1, <4>2
        <3> QED
            BY <3>2, <3>3
    <2>9. HostIsVouchedFor'
        <3> SUFFICES ASSUME NEW i \in Ip PROVE hostTtl'[i] <= owed'[i]
            BY DEF HostIsVouchedFor
        <3>1. hostTtl[i] <= owed[i] /\ owed[ip] \in Nat
            BY DEF HostIsVouchedFor, EgressTypeOK
        <3> QED
            BY <2>2, <2>3, <3>1
    <2> QED
        BY <2>4, <2>5, <2>7, <2>8, <2>9
<1> QED
    BY <1>1, <1>2

(***************************************************************************)
(* A lookup begins: it is put into the channel or is lost, and what an     *)
(* earlier one in its place was answered is forgotten.                     *)
(***************************************************************************)
LEMMA AskStep ==
    ASSUME EgressInv, NEW l \in Lookup, NEW d \in Domain, UserAsks(l, d)
    PROVE  EgressInv'
<1> USE EgressNumbers DEF EgressInv
<1>1. /\ data[l] \in {"none"} \cup Answered
      /\ asks' = [asks EXCEPT ![l] = d]
      /\ host' = [host EXCEPT ![l] = "none"]
      /\ waited' = [waited EXCEPT ![l] = 0]
      /\ reply' = [reply EXCEPT ![l] = NoReply]
      /\ since' = [since EXCEPT ![l] = 0]
      /\ UNCHANGED <<driver, dataTtl, hostTtl, owed, conn, dest>>
    BY DEF UserAsks, caches, conns
<1>2. PICK where \in {"queued", "lost"} :
        /\ data' = [data EXCEPT ![l] = where]
        /\ where = "queued" => Len(channel) < ChannelSize /\ channel' = Append(channel, l)
        /\ where = "lost" => channel' = channel
    BY DEF UserAsks
<1>3. /\ data'[l] = where /\ host'[l] = "none" /\ reply'[l] = NoReply
      /\ \A k \in Lookup \ {l} :
            /\ data'[k] = data[k] /\ host'[k] = host[k]
            /\ reply'[k] = reply[k] /\ since'[k] = since[k]
    BY <1>1, <1>2 DEF EgressTypeOK
<1>4. channel \in Seq(Lookup) /\ Len(channel) \in Nat
      /\ \A i \in 1..Len(channel) : channel[i] \in Lookup
    BY DEF EgressTypeOK
<1>5. \A i \in 1..Len(channel) : channel[i] # l
    BY <1>1 DEF QueueIsWaiting, Answered
<1>6. driver # <<>> => driver[1] \in Lookup /\ driver[1] # l
    BY <1>1 DEF QueueIsWaiting, Answered, EgressTypeOK
<1>7. where = "queued" =>
        /\ channel' \in Seq(Lookup) /\ Len(channel') = Len(channel) + 1
        /\ \A i \in 1..Len(channel) : channel'[i] = channel[i]
        /\ channel'[Len(channel) + 1] = l
    <2>1. /\ Append(channel, l) \in Seq(Lookup)
          /\ Len(Append(channel, l)) = Len(channel) + 1
          /\ \A i \in 1..Len(channel) : Append(channel, l)[i] = channel[i]
          /\ Append(channel, l)[Len(channel) + 1] = l
        BY <1>4, AppendProperties
    <2> QED
        BY <1>2, <2>1
<1>8. EgressTypeOK'
    <2>1. channel' \in Seq(Lookup) /\ Len(channel') <= ChannelSize
        BY <1>2, <1>4, <1>7 DEF EgressTypeOK
    <2>2. data' \in [Lookup -> {"none", "queued", "forwarded"} \cup Answered]
        BY <1>2 DEF EgressTypeOK, Answered
    <2>3. since' \in [Lookup -> 0..MaxTtl] /\ waited' \in [Lookup -> 0..Patience]
        BY <1>1 DEF EgressTypeOK
    <2>4. /\ asks' \in [Lookup -> Domain] /\ reply' \in [Lookup -> Reply \cup {NoReply}]
          /\ host' \in [Lookup -> {"none", "reading", "asking", "reread", "ended"}]
        BY <1>1 DEF EgressTypeOK
    <2> QED
        BY <1>1, <2>1, <2>2, <2>3, <2>4 DEF EgressTypeOK
<1>9. QueueIsWaiting'
    <2>1. CASE where = "lost"
        BY <1>1, <1>2, <1>3, <1>4, <1>5, <1>6, <2>1 DEF QueueIsWaiting
    <2>2. CASE where = "queued"
        <3>1. \A i \in 1..Len(channel') : data'[channel'[i]] = "queued"
            BY <1>3, <1>4, <1>5, <1>7, <2>2 DEF QueueIsWaiting
        <3>2. \A i, j \in 1..Len(channel') : channel'[i] = channel'[j] => i = j
            BY <1>4, <1>5, <1>7, <2>2 DEF QueueIsWaiting
        <3>3. driver # <<>> => /\ data'[driver[1]] = "queued"
                               /\ \A i \in 1..Len(channel') : channel'[i] # driver[1]
            BY <1>3, <1>4, <1>6, <1>7, <2>2 DEF QueueIsWaiting
        <3> QED
            BY <1>1, <3>1, <3>2, <3>3 DEF QueueIsWaiting
    <2> QED
        BY <2>1, <2>2
<1>10. ReplyIsLast'
    BY <1>3 DEF ReplyIsLast
<1>11. Lasts' /\ HostIsVouchedFor'
    BY <1>1, <1>3 DEF Lasts, HostIsVouchedFor, IsFloor
<1> QED
    BY <1>8, <1>9, <1>10, <1>11

(***************************************************************************)
(* The driver takes the first lookup, and then sends it on its way.        *)
(***************************************************************************)
LEMMA DriverStep ==
    ASSUME EgressInv, Receive \/ Dispatch
    PROVE  EgressInv'
<1> USE EgressNumbers DEF EgressInv
<1>1. channel \in Seq(Lookup) /\ Len(channel) \in Nat /\ Len(channel) <= ChannelSize
      /\ \A i \in 1..Len(channel) : channel[i] \in Lookup
    BY DEF EgressTypeOK
<1>2. CASE Receive
    <2>1. /\ channel # <<>> /\ driver' = <<Head(channel)>> /\ channel' = Tail(channel)
          /\ UNCHANGED <<data, host, asks, waited, reply, since, dataTtl, hostTtl, owed,
                         conn, dest>>
        BY <1>2 DEF Receive, caches, conns
    <2>2. /\ Len(channel) >= 1 /\ Head(channel) = channel[1]
          /\ channel' \in Seq(Lookup) /\ Len(channel') = Len(channel) - 1
          /\ \A i \in 1..Len(channel') : channel'[i] = channel[i + 1]
        BY <1>1, <2>1, EmptySeq, HeadTailProperties
    <2>3. /\ channel[1] \in Lookup /\ driver' \in Seq(Lookup) /\ Len(driver') = 1
          /\ driver'[1] = channel[1]
        BY <1>1, <2>1, <2>2
    <2>4. EgressTypeOK'
        BY <1>1, <2>1, <2>2, <2>3 DEF EgressTypeOK
    <2>5. \A i \in 1..Len(channel') : i + 1 \in 1..Len(channel) /\ i + 1 # 1
        BY <1>1, <2>2
    <2>6. QueueIsWaiting'
        <3>1. \A i, j \in 1..Len(channel') : channel'[i] = channel'[j] => i = j
            <4> SUFFICES ASSUME NEW i \in 1..Len(channel'), NEW j \in 1..Len(channel'),
                                channel'[i] = channel'[j]
                         PROVE  i = j
                OBVIOUS
            <4>1. i + 1 = j + 1
                BY <2>2, <2>5 DEF QueueIsWaiting
            <4> QED
                BY <4>1
        <3>2. \A i \in 1..Len(channel') : data'[channel'[i]] = "queued"
            BY <2>1, <2>2, <2>5 DEF QueueIsWaiting
        <3>3. /\ data'[driver'[1]] = "queued"
              /\ \A i \in 1..Len(channel') : channel'[i] # driver'[1]
            <4>1. 1 \in 1..Len(channel)
                BY <1>1, <2>2
            <4> QED
                BY <2>1, <2>2, <2>3, <2>5, <4>1 DEF QueueIsWaiting
        <3> QED
            BY <3>1, <3>2, <3>3 DEF QueueIsWaiting
    <2>7. ReplyIsLast' /\ Lasts' /\ HostIsVouchedFor'
        BY <2>1 DEF ReplyIsLast, Lasts, HostIsVouchedFor, IsFloor
    <2> QED
        BY <2>4, <2>6, <2>7
<1>3. CASE Dispatch
    <2> DEFINE l == driver[1]
    <2>1. driver # <<>> /\ Head(driver) = l /\ l \in Lookup /\ data[l] = "queued"
        BY <1>3 DEF Dispatch, EgressTypeOK, QueueIsWaiting
    <2>2. /\ driver' = <<>>
          /\ UNCHANGED <<channel, asks, waited, reply, since, dataTtl, hostTtl, owed,
                         conn, dest>>
        BY <1>3 DEF Dispatch, caches, conns
    <2>3. PICK w \in {"forwarded", "refused"}, h \in {"reading", host[l]} :
            /\ data' = [data EXCEPT ![l] = w] /\ host' = [host EXCEPT ![l] = h]
        BY <1>3, <2>1 DEF Dispatch
    <2>4. \A i \in 1..Len(channel) : channel[i] # l
        BY <2>1 DEF QueueIsWaiting
    <2> HIDE DEF l
    <2>5. /\ data'[l] = w /\ host'[l] = h
          /\ \A k \in Lookup \ {l} : data'[k] = data[k] /\ host'[k] = host[k]
        BY <2>1, <2>3 DEF EgressTypeOK
    <2>6. EgressTypeOK'
        <3>1. data' \in [Lookup -> {"none", "queued", "forwarded"} \cup Answered]
            BY <2>3 DEF EgressTypeOK, Answered
        <3>2. host' \in [Lookup -> {"none", "reading", "asking", "reread", "ended"}]
            BY <2>1, <2>3 DEF EgressTypeOK
        <3>3. driver' \in Seq(Lookup) /\ Len(driver') <= 1
            BY <2>2
        <3> QED
            BY <2>2, <3>1, <3>2, <3>3 DEF EgressTypeOK
    <2>7. QueueIsWaiting'
        BY <1>1, <2>2, <2>4, <2>5 DEF QueueIsWaiting
    <2>8. reply[l] = NoReply
        BY <2>1 DEF ReplyIsLast
    <2>9. ReplyIsLast'
        BY <2>1, <2>2, <2>3, <2>5, <2>8 DEF ReplyIsLast
    <2>10. Lasts' /\ HostIsVouchedFor'
        BY <2>1, <2>2, <2>3, <2>5, <2>8 DEF Lasts, HostIsVouchedFor, IsFloor
    <2> QED
        BY <2>6, <2>7, <2>9, <2>10
<1> QED
    BY <1>2, <1>3

(***************************************************************************)
(* A second passes for the lookups and for both caches alike.              *)
(***************************************************************************)
LEMMA EgressTick ==
    ASSUME EgressInv, SecondPasses
    PROVE  EgressInv'
<1> USE EgressNumbers DEF EgressInv
<1>1. /\ UNCHANGED <<channel, driver, data, host, asks, reply, conn, dest>>
      /\ \A l \in Lookup : l \in Running => waited[l] < Patience
      /\ waited' = [l \in Lookup |-> IF l \in Running THEN waited[l] + 1 ELSE waited[l]]
      /\ since' = [l \in Lookup |-> IF reply[l] # NoReply /\ since[l] < MaxTtl
                                    THEN since[l] + 1 ELSE since[l]]
      /\ dataTtl' = Aged(dataTtl) /\ hostTtl' = Aged(hostTtl) /\ owed' = Aged(owed)
    BY DEF SecondPasses, conns
<1>2. /\ dataTtl \in [Ip -> 0..MaxTtl] /\ hostTtl \in [Ip -> 0..MaxTtl]
      /\ owed \in [Ip -> 0..MaxTtl] /\ since \in [Lookup -> 0..MaxTtl]
      /\ waited \in [Lookup -> 0..Patience]
    BY DEF EgressTypeOK
<1>3. ASSUME NEW ttls \in [Ip -> 0..MaxTtl]
      PROVE  /\ Aged(ttls) \in [Ip -> 0..MaxTtl]
             /\ \A ip \in Ip : Aged(ttls)[ip] >= ttls[ip] - 1
             /\ \A ip \in Ip : Aged(ttls)[ip] =
                                  IF ttls[ip] > 0 THEN ttls[ip] - 1 ELSE 0
    BY DEF Aged
<1>4. EgressTypeOK'
    <2>1. waited' \in [Lookup -> 0..Patience] /\ since' \in [Lookup -> 0..MaxTtl]
        BY <1>1, <1>2
    <2>2. {dataTtl', hostTtl', owed'} \subseteq [Ip -> 0..MaxTtl]
        BY <1>1, <1>2, <1>3
    <2> QED
        BY <1>1, <2>1, <2>2 DEF EgressTypeOK
<1>5. QueueIsWaiting' /\ ReplyIsLast'
    BY <1>1 DEF QueueIsWaiting, ReplyIsLast
<1>6. Lasts'
    <2> SUFFICES ASSUME NEW l \in Lookup, NEW t \in Nat, reply[l] # NoReply,
                        IsFloor(reply[l].ip, t)
                 PROVE  /\ t <= hostTtl'[reply[l].ip] + since'[l]
                        /\ data[l] = "answered" => t <= dataTtl'[reply[l].ip] + since'[l]
        BY <1>1 DEF Lasts, IsFloor
    <2>1. reply[l] \in Reply /\ reply[l].ip \in Ip
        BY DEF EgressTypeOK
    <2>2. t <= MaxTtl
        BY <2>1 DEF IsFloor
    <2>3. /\ t <= hostTtl[reply[l].ip] + since[l]
          /\ data[l] = "answered" => t <= dataTtl[reply[l].ip] + since[l]
        BY DEF Lasts
    <2>4. /\ hostTtl'[reply[l].ip] >= hostTtl[reply[l].ip] - 1
          /\ dataTtl'[reply[l].ip] >= dataTtl[reply[l].ip] - 1
          /\ hostTtl[reply[l].ip] \in Nat /\ dataTtl[reply[l].ip] \in Nat
          /\ hostTtl'[reply[l].ip] \in Nat /\ dataTtl'[reply[l].ip] \in Nat
        BY <1>1, <1>2, <1>3, <2>1
    <2>5. since'[l] = (IF since[l] < MaxTtl THEN since[l] + 1 ELSE since[l])
          /\ since[l] \in 0..MaxTtl
        BY <1>1, <1>2
    <2> QED
        BY <2>2, <2>3, <2>4, <2>5
<1>7. HostIsVouchedFor'
    BY <1>1, <1>2, <1>3 DEF HostIsVouchedFor
<1> QED
    BY <1>4, <1>5, <1>6, <1>7

(***************************************************************************)
(* Connections read the caches and change neither them nor the lookups.    *)
(***************************************************************************)
LEMMA ConnStep ==
    ASSUME EgressInv,
           \/ \E c \in Conn : (\E ip \in Ip : Connect(c, ip)) \/ Relay(c) \/ Close(c)
           \/ UNCHANGED egressVars
    PROVE  EgressInv'
<1> USE DEF EgressInv
<1>1. UNCHANGED <<channel, driver, data, host, asks, waited, reply, since, dataTtl,
                  hostTtl, owed>>
    BY DEF Connect, Relay, Close, egressVars, lookups, caches
<1>2. conn' \in [Conn -> {"none", "sent", "relayed", "refused"}] /\ dest' \in [Conn -> Ip]
    BY DEF Connect, Relay, Close, egressVars, conns, EgressTypeOK
<1>3. EgressTypeOK'
    BY <1>1, <1>2 DEF EgressTypeOK
<1>4. QueueIsWaiting' /\ ReplyIsLast' /\ Lasts' /\ HostIsVouchedFor'
    BY <1>1 DEF QueueIsWaiting, ReplyIsLast, Lasts, HostIsVouchedFor, IsFloor
<1> QED
    BY <1>3, <1>4

(***************************************************************************)
(* The invariant holds of every behaviour of the two egress proxies and    *)
(* the two DNS proxies, for any lists, addresses and times to live.        *)
(***************************************************************************)
THEOREM EgressInvariant == EgressSpec => []EgressInv
<1> USE EgressNumbers
<1>1. EgressInit => EgressInv
    <2> SUFFICES ASSUME EgressInit PROVE EgressInv
        OBVIOUS
    <2>1. channel \in Seq(Lookup) /\ Len(channel) = 0 /\ driver \in Seq(Lookup)
          /\ Len(driver) = 0 /\ driver = <<>>
        BY DEF EgressInit
    <2>2. EgressTypeOK
        BY <2>1 DEF EgressInit, EgressTypeOK
    <2>3. QueueIsWaiting /\ ReplyIsLast /\ Lasts
        BY <2>1 DEF EgressInit, QueueIsWaiting, ReplyIsLast, Lasts
    <2>4. HostIsVouchedFor
        BY DEF EgressInit, HostIsVouchedFor
    <2> QED
        BY <2>2, <2>3, <2>4 DEF EgressInv
<1>2. EgressInv /\ [EgressNext]_egressVars => EgressInv'
    BY EgressTick, DriverStep, AskStep, AnswerStep, SmallEgressStep, ConnStep DEF EgressNext
<1> QED
    BY <1>1, <1>2, PTL DEF EgressSpec

(***************************************************************************)
(* What the user process is told it can use: both proxies let the address  *)
(* pass, whatever was overwritten in the two caches.                       *)
(***************************************************************************)
THEOREM AnswersAreUsable == EgressSpec => []AnsweredIsUsable
<1>1. EgressInv => AnsweredIsUsable
    <2> SUFFICES ASSUME EgressInv, NEW l \in Lookup, data[l] = "answered",
                        \A ttl \in Ttls[reply[l].ip] : since[l] < ttl
                 PROVE  /\ IpIsAllowed(dataTtl, reply[l].ip)
                        /\ IpIsAllowed(hostTtl, reply[l].ip)
        BY DEF EgressInv, AnsweredIsUsable
    <2>1. reply[l] # NoReply /\ reply[l] \in Reply
        BY DEF EgressInv, ReplyIsLast, EgressTypeOK
    <2>2. since[l] \in Nat /\ since[l] + 1 \in Nat
        BY EgressNumbers DEF EgressInv, EgressTypeOK
    <2>3. IsFloor(reply[l].ip, since[l] + 1)
        <3>1. \A ttl \in Ttls[reply[l].ip] : ttl \in Nat
            BY <2>1, EgressNumbers
        <3> QED
            BY <2>2, <3>1 DEF IsFloor
    <2>4. /\ since[l] + 1 <= hostTtl[reply[l].ip] + since[l]
          /\ since[l] + 1 <= dataTtl[reply[l].ip] + since[l]
        BY <2>1, <2>2, <2>3 DEF EgressInv, Lasts
    <2>5. hostTtl[reply[l].ip] \in Nat /\ dataTtl[reply[l].ip] \in Nat
        BY <2>1, EgressNumbers DEF EgressInv, EgressTypeOK
    <2>6. hostTtl[reply[l].ip] > 0 /\ dataTtl[reply[l].ip] > 0
        BY <2>2, <2>4, <2>5
    <2> QED
        BY <2>6 DEF IpIsAllowed
<1> QED
    BY <1>1, EgressInvariant, PTL

(***************************************************************************)
(* No connection is relayed to an address that nothing vouches for, nor to *)
(* an internal one unless that is configured.                              *)
(***************************************************************************)
THEOREM RelayedAreVouchedFor == EgressSpec => RelayedIsVouchedFor
<1> DEFINE Vouched ==
        \A c \in Conn : (conn[c] = "sent" /\ conn'[c] = "relayed") =>
            /\ AllowAll \/ dest[c] \in StaticIps \/ owed[dest[c]] > 0
            /\ dest[c] \in Internal => AllowInternal
<1>1. EgressInv /\ [EgressNext]_egressVars => [Vouched]_egressVars
    <2> SUFFICES ASSUME EgressInv, EgressNext, NEW c \in Conn, conn[c] = "sent",
                        conn'[c] = "relayed"
                 PROVE  /\ AllowAll \/ dest[c] \in StaticIps \/ owed[dest[c]] > 0
                        /\ dest[c] \in Internal => AllowInternal
        BY DEF egressVars
    <2>1. Relay(c)
        <3>1. conn' # conn
            OBVIOUS
        <3>2. PICK e \in Conn : (\E ip \in Ip : Connect(e, ip)) \/ Relay(e) \/ Close(e)
            BY <3>1 DEF EgressNext, SecondPasses, Receive, Dispatch, UserAsks, DataAnswers,
                        DataFails, HostAsks, HostRejects, HostFails, HostEnds,
                        HostAnswers, conns
        <3>3. conn \in [Conn -> {"none", "sent", "relayed", "refused"}]
            BY DEF EgressInv, EgressTypeOK
        <3>4. e = c
            BY <3>2, <3>3 DEF Connect, Relay, Close
        <3> QED
            BY <3>2, <3>3, <3>4 DEF Connect, Close
    <2>2. /\ ~(dest[c] \in Internal /\ ~AllowInternal)
          /\ IpIsAllowed(hostTtl, dest[c])
        BY <2>1 DEF Relay, EgressInv, EgressTypeOK
    <2>3. dest[c] \in Ip /\ hostTtl[dest[c]] \in Nat /\ owed[dest[c]] \in Nat
          /\ hostTtl[dest[c]] <= owed[dest[c]]
        BY EgressNumbers DEF EgressInv, EgressTypeOK, HostIsVouchedFor
    <2> QED
        BY <2>2, <2>3 DEF IpIsAllowed
<1>2. EgressSpec => [][Vouched]_egressVars
    BY <1>1, EgressInvariant, PTL DEF EgressSpec
<1> QED
    BY <1>2 DEF RelayedIsVouchedFor

-----------------------------------------------------------------------------
(***************************************************************************)
(* That every lookup ends is TLC's to show; the safety under it is this.   *)
(* No lookup that was taken in is mislaid: as long as nobody has answered  *)
(* it, it is in the channel or with the driver, and those go on.  And no   *)
(* permit is mislaid: the lookups that hold one are never more than there  *)
(* are, so the driver, which waits while they are as many, waits for       *)
(* lookups that the ten seconds end.                                       *)
(***************************************************************************)
WaitingIsQueued ==
    \A l \in Lookup : data[l] = "queued" =>
        \/ \E i \in 1..Len(channel) : channel[i] = l
        \/ driver # <<>> /\ driver[1] = l

PermitsAreKept == IsFiniteSet(Running) /\ Cardinality(Running) <= Permits

(***************************************************************************)
(* A lookup enters at the end of the channel, and stays in line until it   *)
(* is dispatched.                                                          *)
(***************************************************************************)
LEMMA LookupsStayInLine ==
    ASSUME EgressInv, WaitingIsQueued, [EgressNext]_egressVars
    PROVE  WaitingIsQueued'
<1> USE DEF EgressInv
<1>1. /\ channel \in Seq(Lookup) /\ Len(channel) \in Nat
      /\ data \in [Lookup -> {"none", "queued", "forwarded"} \cup Answered]
      /\ driver \in Seq(Lookup) /\ Len(driver) \in Nat /\ Len(driver) <= 1
    BY DEF EgressTypeOK
<1>2. ASSUME UNCHANGED <<channel, driver>>,
             \A k \in Lookup : data'[k] = "queued" => data[k] = "queued"
      PROVE  WaitingIsQueued'
    BY <1>2 DEF WaitingIsQueued
<1>3. ASSUME NEW l \in Lookup, NEW d \in Domain, UserAsks(l, d)
      PROVE  WaitingIsQueued'
    <2>1. CASE Len(channel) < ChannelSize /\ channel' = Append(channel, l)
               /\ data' = [data EXCEPT ![l] = "queued"]
        <3>1. /\ Len(channel') = Len(channel) + 1
              /\ channel'[Len(channel) + 1] = l
              /\ \A i \in 1..Len(channel) : channel'[i] = channel[i] /\ i \in 1..Len(channel')
              /\ Len(channel) + 1 \in 1..Len(channel')
            BY <1>1, <2>1
        <3>2. driver' = driver
            BY <1>3 DEF UserAsks
        <3>3. \A k \in Lookup : k # l => data'[k] = data[k]
            BY <1>1, <2>1
        <3> QED
            BY <3>1, <3>2, <3>3 DEF WaitingIsQueued
    <2>2. CASE data' = [data EXCEPT ![l] = "lost"] /\ UNCHANGED channel
        BY <1>1, <1>2, <1>3, <2>2 DEF UserAsks
    <2> QED
        BY <1>3, <2>1, <2>2 DEF UserAsks
<1>4. CASE Receive
    <2>1. /\ driver = <<>> /\ channel # <<>> /\ driver' = <<Head(channel)>>
          /\ channel' = Tail(channel) /\ data' = data
        BY <1>4 DEF Receive
    <2>2. /\ Len(channel) >= 1 /\ Head(channel) = channel[1]
          /\ Len(channel') = Len(channel) - 1
          /\ \A i \in 1..Len(channel') : channel'[i] = channel[i + 1]
        BY <1>1, <2>1, EmptySeq, HeadTailProperties
    <2> SUFFICES ASSUME NEW l \in Lookup, data[l] = "queued"
                 PROVE  \/ \E i \in 1..Len(channel') : channel'[i] = l
                        \/ driver' # <<>> /\ driver'[1] = l
        BY <2>1 DEF WaitingIsQueued
    <2>3. PICK i \in 1..Len(channel) : channel[i] = l
        BY <2>1 DEF WaitingIsQueued
    <2>4. CASE i = 1
        BY <2>1, <2>2, <2>3, <2>4
    <2>5. CASE i # 1
        <3>1. i - 1 \in 1..Len(channel') /\ (i - 1) + 1 = i
            BY <1>1, <2>2, <2>5
        <3> QED
            BY <2>2, <2>3, <3>1
    <2> QED
        BY <2>4, <2>5
<1>5. CASE Dispatch
    <2>1. /\ driver # <<>> /\ Head(driver) = driver[1] /\ driver[1] \in Lookup
          /\ channel' = channel
        BY <1>1, <1>5 DEF Dispatch
    <2>2. PICK w \in {"forwarded", "refused"} : data' = [data EXCEPT ![driver[1]] = w]
        BY <1>5, <2>1 DEF Dispatch
    <2>3. \A k \in Lookup : data'[k] = "queued" => k # driver[1] /\ data[k] = "queued"
        BY <1>1, <2>1, <2>2
    <2> QED
        BY <2>1, <2>3 DEF WaitingIsQueued
<1>6. ASSUME NEW l \in Lookup,
             \/ DataAnswers(l) \/ DataFails(l)
             \/ HostAsks(l) \/ HostRejects(l) \/ HostFails(l) \/ HostEnds(l)
             \/ \E ip \in Ip : \E ttl \in Ttls[ip] : HostAnswers(l, ip, ttl)
      PROVE  WaitingIsQueued'
    <2>1. UNCHANGED <<channel, driver>>
        BY <1>6 DEF DataAnswers, DataFails, HostAsks, HostRejects, HostFails, HostEnds,
                    HostAnswers
    <2>2. data' = data \/ \E w \in {"answered", "failed"} : data' = [data EXCEPT ![l] = w]
        BY <1>6 DEF DataAnswers, DataFails, HostAsks, HostRejects, HostFails, HostEnds,
                    HostAnswers
    <2> QED
        BY <1>1, <1>2, <2>1, <2>2
<1>7. CASE SecondPasses \/ UNCHANGED egressVars
           \/ \E c \in Conn : (\E ip \in Ip : Connect(c, ip)) \/ Relay(c) \/ Close(c)
    BY <1>2, <1>7 DEF SecondPasses, Connect, Relay, Close, egressVars, lookups
<1> QED
    BY <1>3, <1>4, <1>5, <1>6, <1>7 DEF EgressNext

(***************************************************************************)
(* Only the driver hands out a permit, and only while there is one; every  *)
(* end of a lookup gives one back.                                         *)
(***************************************************************************)
LEMMA PermitsStayKept ==
    ASSUME EgressInv, PermitsAreKept, [EgressNext]_egressVars
    PROVE  PermitsAreKept'
<1> USE BoundsAreNat DEF EgressInv
<1>1. /\ data \in [Lookup -> {"none", "queued", "forwarded"} \cup Answered]
      /\ IsFiniteSet(Running) /\ Cardinality(Running) \in Nat
      /\ Cardinality(Running) <= Permits
    BY FS_CardinalityType DEF EgressTypeOK, PermitsAreKept
<1>2. ASSUME NEW l \in Lookup, NEW w, w # "forwarded", data' = [data EXCEPT ![l] = w]
      PROVE  PermitsAreKept'
    <2>1. Running' = Running \ {l}
        BY <1>1, <1>2 DEF Running
    <2>2. IsFiniteSet(Running \ {l}) /\ Cardinality(Running \ {l}) <= Cardinality(Running)
        BY <1>1, Running \ {l} \in SUBSET Running, FS_Subset
    <2>3. Cardinality(Running \ {l}) \in Nat
        BY <2>2, FS_CardinalityType
    <2> QED
        BY <1>1, <2>1, <2>2, <2>3 DEF PermitsAreKept
<1>3. ASSUME data' = data
      PROVE  PermitsAreKept'
    <2>1. Running' = Running
        BY <1>3 DEF Running
    <2> QED
        BY <2>1 DEF PermitsAreKept
<1>4. CASE Dispatch
    <2> DEFINE l == Head(driver)
    <2>1. driver # <<>> /\ Head(driver) = driver[1] /\ l \in Lookup
          /\ Cardinality(Running) < Permits
        BY <1>4 DEF Dispatch, EgressTypeOK
    <2>2. PICK w \in {"forwarded", "refused"} : data' = [data EXCEPT ![l] = w]
        BY <1>4 DEF Dispatch
    <2> HIDE DEF l
    <2>3. CASE w = "forwarded"
        <3>1. Running' = Running \cup {l}
            BY <1>1, <2>1, <2>2, <2>3 DEF Running
        <3>2. IsFiniteSet(Running \cup {l})
              /\ Cardinality(Running \cup {l}) <= Cardinality(Running) + 1
            BY <1>1, FS_AddElement
        <3>3. Cardinality(Running \cup {l}) \in Nat
            BY <3>2, FS_CardinalityType
        <3> QED
            BY <1>1, <2>1, <3>1, <3>2, <3>3 DEF PermitsAreKept
    <2>4. CASE w # "forwarded"
        BY <1>2, <2>1, <2>2, <2>4
    <2> QED
        BY <2>3, <2>4
<1>5. ASSUME NEW l \in Lookup, NEW d \in Domain, UserAsks(l, d)
      PROVE  PermitsAreKept'
    BY <1>2, <1>5 DEF UserAsks
<1>6. ASSUME NEW l \in Lookup,
             \/ DataAnswers(l) \/ DataFails(l)
             \/ HostAsks(l) \/ HostRejects(l) \/ HostFails(l) \/ HostEnds(l)
             \/ \E ip \in Ip : \E ttl \in Ttls[ip] : HostAnswers(l, ip, ttl)
      PROVE  PermitsAreKept'
    <2>1. data' = data \/ \E w \in {"answered", "failed"} : data' = [data EXCEPT ![l] = w]
        BY <1>6 DEF DataAnswers, DataFails, HostAsks, HostRejects, HostFails, HostEnds,
                    HostAnswers
    <2> QED
        BY <1>2, <1>3, <2>1
<1>7. CASE SecondPasses \/ Receive \/ UNCHANGED egressVars
           \/ \E c \in Conn : (\E ip \in Ip : Connect(c, ip)) \/ Relay(c) \/ Close(c)
    BY <1>3, <1>7 DEF SecondPasses, Receive, Connect, Relay, Close, egressVars, lookups
<1> QED
    BY <1>4, <1>5, <1>6, <1>7 DEF EgressNext

(***************************************************************************)
(* No lookup and no permit is mislaid by the enclave's DNS proxy, however  *)
(* its driver, its tasks, the host and the ten seconds interleave.         *)
(***************************************************************************)
THEOREM LookupsKeepTheirPlace == EgressSpec => [](WaitingIsQueued /\ PermitsAreKept)
<1>1. EgressInit => WaitingIsQueued /\ PermitsAreKept
    <2> SUFFICES ASSUME EgressInit PROVE WaitingIsQueued /\ PermitsAreKept
        OBVIOUS
    <2>1. Running = {}
        BY DEF EgressInit, Running
    <2> QED
        BY <2>1, FS_EmptySet, BoundsAreNat DEF EgressInit, WaitingIsQueued, PermitsAreKept
<1>2. EgressInv /\ (WaitingIsQueued /\ PermitsAreKept) /\ [EgressNext]_egressVars
        => (WaitingIsQueued /\ PermitsAreKept)'
    BY LookupsStayInLine, PermitsStayKept
<1> QED
    BY <1>1, <1>2, EgressInvariant, PTL DEF EgressSpec
=============================================================================
