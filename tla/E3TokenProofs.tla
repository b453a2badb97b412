---------------------------- MODULE E3TokenProofs ----------------------------
(***************************************************************************)
(* The token cache, for any number of callers and any durations that leave *)
(* a token time for its two ways: whoever fails or is dropped, one call at *)
(* a time fetches a token, no call sends one that has expired, none is     *)
(* overtaken where it waits, and each has only so many steps.              *)
(***************************************************************************)
EXTENDS E3Token, SequenceTheorems, TLAPS

(* A queue in which every caller stands at most once. *)
IsQueue(q) == q \in Seq(Caller) /\ IsInjective(q)

-----------------------------------------------------------------------------
(* What the queue operations do. *)

LEMMA AppendToQueue ==
  ASSUME NEW q, IsQueue(q), NEW c \in Caller, ~Contains(q, c)
  PROVE  /\ IsQueue(Append(q, c))
         /\ \A d : Contains(Append(q, c), d) <=> Contains(q, d) \/ d = c
         /\ Append(q, c) # <<>>
         /\ q # <<>> => Head(Append(q, c)) = Head(q)
<1> DEFINE r == Append(q, c)
<1>1. Len(q) \in Nat /\ (q # <<>> <=> Len(q) >= 1)
  BY LenProperties, EmptySeq DEF IsQueue
<1>2. /\ r \in Seq(Caller) /\ Len(r) = Len(q) + 1 /\ r # <<>>
      /\ \A i \in 1..Len(q) : r[i] = q[i]
      /\ r[Len(q) + 1] = c
  BY AppendProperties, LenProperties DEF IsQueue
<1> HIDE DEF r
<1>3. \A i \in 1..Len(q) : q[i] # c
  BY DEF Contains
<1>4. \A i, j \in 1..Len(q) : q[i] = q[j] => i = j
  BY LenProperties DEF IsQueue, IsInjective
<1>5. DOMAIN r = 1..Len(r)
  BY <1>2, LenProperties
<1>6. IsInjective(r)
  BY <1>1, <1>2, <1>3, <1>4, <1>5 DEF IsInjective
<1>7. \A d : Contains(r, d) <=> Contains(q, d) \/ d = c
  BY <1>1, <1>2 DEF Contains
<1>8. q # <<>> => Head(r) = Head(q)
  BY <1>1, <1>2, HeadTailProperties DEF IsQueue
<1> QED
  BY <1>2, <1>6, <1>7, <1>8 DEF r, IsQueue

LEMMA TailOfQueue ==
  ASSUME NEW q, IsQueue(q), q # <<>>
  PROVE  /\ IsQueue(Tail(q))
         /\ Head(q) \in Caller /\ Contains(q, Head(q))
         /\ \A d : Contains(Tail(q), d) <=> Contains(q, d) /\ d # Head(q)
<1> DEFINE r == Tail(q)
<1>1. Len(q) \in Nat /\ Len(q) >= 1
  BY LenProperties, EmptySeq DEF IsQueue
<1>2. /\ r \in Seq(Caller) /\ Len(r) = Len(q) - 1 /\ Head(q) = q[1]
      /\ \A i \in 1..Len(r) : r[i] = q[i + 1]
      /\ Head(q) \in Caller
  BY HeadTailProperties, LenProperties DEF IsQueue
<1> HIDE DEF r
<1>3. \A i, j \in 1..Len(q) : q[i] = q[j] => i = j
  BY LenProperties DEF IsQueue, IsInjective
<1>4. DOMAIN r = 1..Len(r)
  BY <1>2, LenProperties
<1>5. IsInjective(r)
  BY <1>1, <1>2, <1>3, <1>4 DEF IsInjective
<1>6. ASSUME NEW d PROVE Contains(r, d) <=> Contains(q, d) /\ d # Head(q)
  <2>1. ASSUME NEW i \in 1..Len(r), r[i] = d PROVE Contains(q, d) /\ d # Head(q)
    BY <1>1, <1>2, <1>3, <2>1 DEF Contains
  <2>2. ASSUME NEW i \in 1..Len(q), q[i] = d, d # Head(q) PROVE Contains(r, d)
    <3>1. i - 1 \in 1..Len(r) /\ (i - 1) + 1 = i
      BY <1>1, <1>2, <2>2
    <3> QED
      BY <1>2, <2>2, <3>1 DEF Contains
  <2> QED
    BY <2>1, <2>2 DEF Contains
<1>7. Contains(q, Head(q))
  BY <1>1, <1>2 DEF Contains
<1> QED
  BY <1>2, <1>5, <1>6, <1>7 DEF r, IsQueue

LEMMA RemoveAtPosition ==
  ASSUME NEW q \in Seq(Caller), NEW k \in 1..Len(q)
  PROVE  /\ RemoveAt(q, k) \in Seq(Caller)
         /\ Len(RemoveAt(q, k)) = Len(q) - 1
         /\ \A i \in 1..(k - 1) : RemoveAt(q, k)[i] = q[i]
         /\ \A i \in k..(Len(q) - 1) : RemoveAt(q, k)[i] = q[i + 1]
<1> DEFINE s == SubSeq(q, 1, k - 1)
           t == SubSeq(q, k + 1, Len(q))
<1>1. Len(q) \in Nat /\ k \in Nat /\ k <= Len(q) /\ k >= 1
  BY LenProperties
<1>2. s \in Seq(Caller) /\ Len(s) = k - 1 /\ \A i \in 1..(k - 1) : s[i] = q[i]
  BY <1>1, SubSeqProperties
<1>3. /\ t \in Seq(Caller) /\ Len(t) = Len(q) - k
      /\ \A i \in 1..(Len(q) - k) : t[i] = q[i + k]
  BY <1>1, SubSeqProperties
<1> HIDE DEF s, t
<1>4. /\ s \o t \in Seq(Caller) /\ Len(s \o t) = Len(s) + Len(t)
      /\ \A i \in 1..(Len(s) + Len(t)) :
            (s \o t)[i] = IF i <= Len(s) THEN s[i] ELSE t[i - Len(s)]
  BY <1>2, <1>3, ConcatProperties
<1>5. \A i \in 1..(k - 1) : (s \o t)[i] = q[i]
  BY <1>1, <1>2, <1>3, <1>4
<1>6. ASSUME NEW i \in k..(Len(q) - 1) PROVE (s \o t)[i] = q[i + 1]
  <2>1. (s \o t)[i] = t[i - (k - 1)]
    BY <1>1, <1>2, <1>3, <1>4
  <2>2. i - (k - 1) \in 1..(Len(q) - k) /\ i - (k - 1) + k = i + 1
    BY <1>1
  <2> QED
    BY <1>3, <2>1, <2>2
<1>7. RemoveAt(q, k) = s \o t
  BY DEF RemoveAt, s, t
<1>8. Len(s \o t) = Len(q) - 1
  BY <1>1, <1>2, <1>3, <1>4
<1> QED
  BY <1>4, <1>5, <1>6, <1>7, <1>8

(* A caller leaves the queue from wherever it stands; nobody else moves to *)
(* the front unless it was the first.                                      *)
LEMMA RemoveFromQueue ==
  ASSUME NEW q, IsQueue(q), NEW c
  PROVE  /\ IsQueue(RemoveFirst(q, c))
         /\ \A d : Contains(RemoveFirst(q, c), d) <=> Contains(q, d) /\ d # c
         /\ (q # <<>> /\ Head(q) # c) =>
               RemoveFirst(q, c) # <<>> /\ Head(RemoveFirst(q, c)) = Head(q)
<1>1. CASE ~Contains(q, c)
  BY <1>1 DEF RemoveFirst, Contains
<1>2. CASE Contains(q, c)
  <2>1. PICK k \in 1..Len(q) : q[k] = c
    BY <1>2 DEF Contains
  <2>2. \A i, j \in 1..Len(q) : q[i] = q[j] => i = j
    BY LenProperties DEF IsQueue, IsInjective
  <2>3. {i \in 1..Len(q) : q[i] = c} = {k}
    BY <2>1, <2>2
  <2>4. Min({k}) = k
    BY <2>1, LenProperties DEF Min
  <2>5. RemoveFirst(q, c) = RemoveAt(q, k)
    BY <2>1, <2>3, <2>4 DEF RemoveFirst, SelectInSeq
  <2> DEFINE r == RemoveAt(q, k)
  <2>6. Len(q) \in Nat /\ k \in Nat /\ k <= Len(q) /\ k >= 1
    BY LenProperties DEF IsQueue
  <2>7. /\ r \in Seq(Caller) /\ Len(r) = Len(q) - 1 /\ DOMAIN r = 1..Len(r)
        /\ \A i \in 1..(k - 1) : r[i] = q[i]
        /\ \A i \in k..(Len(q) - 1) : r[i] = q[i + 1]
    BY RemoveAtPosition, LenProperties DEF IsQueue
  <2> HIDE DEF r
  <2>8. \A i \in 1..Len(r) : \E j \in 1..Len(q) :
           /\ j # k /\ r[i] = q[j]
           /\ j = IF i < k THEN i ELSE i + 1
    BY <2>6, <2>7
  <2>9. IsInjective(r)
    <3> SUFFICES ASSUME NEW a \in 1..Len(r), NEW b \in 1..Len(r), r[a] = r[b] PROVE a = b
      BY <2>7 DEF IsInjective
    <3>1. PICK i \in 1..Len(q) : r[a] = q[i] /\ i = IF a < k THEN a ELSE a + 1
      BY <2>8
    <3>2. PICK j \in 1..Len(q) : r[b] = q[j] /\ j = IF b < k THEN b ELSE b + 1
      BY <2>8
    <3>3. i = j
      BY <2>2, <3>1, <3>2
    <3>4. a \in Nat /\ b \in Nat
      BY <2>6, <2>7
    <3> QED
      BY <2>6, <3>1, <3>2, <3>3, <3>4
  <2>10. ASSUME NEW d PROVE Contains(r, d) <=> Contains(q, d) /\ d # c
    <3>1. ASSUME NEW i \in 1..Len(r), r[i] = d PROVE Contains(q, d) /\ d # c
      BY <2>1, <2>2, <2>8, <3>1 DEF Contains
    <3>2. ASSUME NEW j \in 1..Len(q), q[j] = d, d # c PROVE Contains(r, d)
      <4>1. CASE j < k
        <5>1. j \in 1..(k - 1) /\ j \in 1..Len(r)
          BY <2>6, <2>7, <4>1
        <5> QED
          BY <2>7, <3>2, <5>1 DEF Contains
      <4>2. CASE j > k
        <5>1. j - 1 \in k..(Len(q) - 1) /\ j - 1 \in 1..Len(r) /\ (j - 1) + 1 = j
          BY <2>6, <2>7, <4>2
        <5> QED
          BY <2>7, <3>2, <5>1 DEF Contains
      <4> QED
        BY <2>1, <2>6, <3>2, <4>1, <4>2
    <3> QED
      BY <3>1, <3>2 DEF Contains
  <2>11. (q # <<>> /\ Head(q) # c) => r # <<>> /\ Head(r) = Head(q)
    <3> SUFFICES ASSUME q # <<>>, Head(q) # c PROVE r # <<>> /\ Head(r) = Head(q)
      OBVIOUS
    <3>1. Head(q) = q[1] /\ k # 1
      BY <2>1, HeadTailProperties DEF IsQueue
    <3>2. 1 \in 1..(k - 1) /\ Len(r) >= 1
      BY <2>6, <2>7, <3>1
    <3>3. r # <<>> /\ Head(r) = r[1]
      BY <2>7, <3>2, HeadTailProperties, EmptySeq
    <3> QED
      BY <2>7, <3>1, <3>2, <3>3
  <2> QED
    BY <2>5, <2>7, <2>9, <2>10, <2>11 DEF r, IsQueue
<1> QED
  BY <1>1, <1>2

-----------------------------------------------------------------------------
(* Who stands in the queue of the mutex, and who holds it over a fetch. *)
MutexInv ==
    /\ \A c \in Caller : Contains(queue, c) <=> pc[c] \in {"queued", "asking", "issued"}
    /\ \A c \in Caller : pc[c] \in {"asking", "issued"} => HoldsMutex(c) /\ ~IsFresh

(* Who has a connection in the proxy: one that waits for it, or was dropped. *)
ProxyInv ==
    \A c \in Caller :
        /\ Contains(backlog, c) \/ proxy = c => pc[c] \in {"connecting", "failed"}
        /\ ~(Contains(backlog, c) /\ proxy = c)

TriesInv == \A c \in Caller : pc[c] = "backoff" => tries[c] <= Retries

(* How old a token can be: it was on its way for Lag when it was stored, is *)
(* taken from the cache for less than Lifetime, and is on its way again.    *)
AgeInv ==
    /\ cache # None => cache.age <= cache.held + Lag
    /\ \A c \in Caller :
          /\ pc[c] = "issued" => age[c] <= lag[c]
          /\ pc[c] \in {"connecting", "sending"} => age[c] < Lifetime + Lag + lag[c]

Inv == TypeOK /\ MutexInv /\ ProxyInv /\ TriesInv /\ AgeInv

-----------------------------------------------------------------------------
LEMMA InvInit == Init => Inv
<1> SUFFICES ASSUME Init PROVE Inv
  OBVIOUS
<1>1. <<>> \in Seq(Caller) /\ IsInjective(<<>>) /\ \A c : ~Contains(<<>>, c)
  BY EmptySeq DEF IsInjective, Contains
<1>2. TypeOK
  BY <1>1, TimesAreNatural DEF Init, TypeOK
<1> QED
  BY <1>1, <1>2, NoneIsNone DEF Init, Inv, MutexInv, ProxyInv, TriesInv, AgeInv

(* The two queues after the steps that change them. *)
LEMMA TryQueue ==
  ASSUME Inv, NEW c \in Caller, NEW n, Try(c, n),
         pc[c] \in {"idle", "done", "failed", "backoff"}
  PROVE  /\ IsQueue(queue')
         /\ \A d : Contains(queue', d) <=> Contains(queue, d) \/ d = c
         /\ queue' # <<>>
         /\ queue # <<>> => Head(queue') = Head(queue)
<1>1. IsQueue(queue) /\ ~Contains(queue, c)
  BY DEF Inv, TypeOK, IsQueue, MutexInv
<1> QED
  BY <1>1, AppendToQueue DEF Try

LEMMA LeaveQueue ==
  ASSUME TypeOK, NEW c, queue' = RemoveFirst(queue, c)
  PROVE  /\ IsQueue(queue')
         /\ \A d : Contains(queue', d) <=> Contains(queue, d) /\ d # c
         /\ (queue # <<>> /\ Head(queue) # c) =>
               queue' # <<>> /\ Head(queue') = Head(queue)
  BY RemoveFromQueue DEF TypeOK, IsQueue

LEMMA SendBacklog ==
  ASSUME Inv, NEW c \in Caller, backlog' = Append(backlog, c),
         pc[c] \in {"queued", "issued"}
  PROVE  /\ IsQueue(backlog')
         /\ \A d : Contains(backlog', d) <=> Contains(backlog, d) \/ d = c
         /\ proxy # c
<1>1. IsQueue(backlog) /\ ~Contains(backlog, c) /\ proxy # c
  BY DEF Inv, TypeOK, IsQueue, ProxyInv
<1> QED
  BY <1>1, AppendToQueue

(* A call that leaves the mutex with a token of age a. *)
LEMMA SendType ==
  ASSUME Inv, NEW c \in Caller, NEW a \in 0..Validity, Send(c, a),
         pc[c] \in {"queued", "issued"}, UNCHANGED tries, cache' \in Token \cup {None}
  PROVE  TypeOK'
<1>1. IsQueue(queue') /\ IsQueue(backlog')
  BY LeaveQueue, SendBacklog DEF Send, Inv
<1>2. UNCHANGED proxy /\ age' \in [Caller -> 0..Validity] /\ lag' \in [Caller -> 0..Lag]
  BY TimesAreNatural DEF Send, Inv, TypeOK
<1> QED
  BY <1>1, <1>2 DEF Send, Inv, TypeOK, IsQueue

LEMMA FailType ==
  ASSUME TypeOK, NEW c \in Caller, Fail(c), IsQueue(backlog'), proxy' \in Caller \cup {None}
  PROVE  TypeOK'
  BY LeaveQueue DEF Fail, TypeOK, IsQueue

LEMMA TypeStep ==
  ASSUME Inv, [Next]_vars PROVE TypeOK'
<1> USE DEF proxyVars
<1>0. TypeOK /\ IsQueue(queue) /\ IsQueue(backlog)
  BY DEF Inv, TypeOK, IsQueue
<1>1. ASSUME NEW c \in Caller, Call(c) \/ BackoffEnds(c) PROVE TypeOK'
  <2>1. PICK n \in 0..(Retries + 1) :
          Try(c, n) /\ pc[c] \in {"idle", "done", "failed", "backoff"}
    <3>1. CASE Call(c)
      BY <3>1, TimesAreNatural DEF Call
    <3>2. CASE BackoffEnds(c)
      <4>1. tries[c] + 1 \in 0..(Retries + 1)
        BY <3>2, TimesAreNatural DEF BackoffEnds, Inv, TriesInv, TypeOK
      <4> QED
        BY <3>2, <4>1 DEF BackoffEnds
    <3> QED
      BY <1>1, <3>1, <3>2
  <2> QED
    BY <1>0, <2>1, TryQueue DEF Try, TypeOK, IsQueue
<1>2. ASSUME NEW c \in Caller, Lock(c) PROVE TypeOK'
  <2>1. CASE IsFresh /\ Send(c, cache.age) /\ UNCHANGED <<tries, cache>>
    <3>1. cache.age \in 0..Validity /\ cache' \in Token \cup {None}
      BY <1>0, <2>1 DEF IsFresh, TypeOK, Token
    <3> QED
      BY <1>2, <2>1, <3>1, SendType DEF Lock
  <2>2. CASE ~IsFresh /\ pc' = [pc EXCEPT ![c] = "asking"]
             /\ UNCHANGED <<tries, age, lag, queue, cache, proxyVars>>
    BY <1>0, <2>2 DEF TypeOK
  <2> QED
    BY <1>2, <2>1, <2>2 DEF Lock
<1>3. ASSUME NEW c \in Caller, Issue(c) PROVE TypeOK'
  BY <1>0, <1>3, TimesAreNatural DEF Issue, TypeOK
<1>4. ASSUME NEW c \in Caller, FetchReturns(c) PROVE TypeOK'
  <2>1. age[c] \in 0..Validity /\ cache' \in Token
    BY <1>0, <1>4, TimesAreNatural DEF FetchReturns, TypeOK, Token
  <2> QED
    BY <1>4, <2>1, SendType DEF FetchReturns
<1>5. ASSUME NEW c \in Caller, FetchFails(c) \/ SendFails(c) PROVE TypeOK'
  <2>1. Fail(c) /\ UNCHANGED proxyVars
    BY <1>5 DEF FetchFails, SendFails
  <2> QED
    BY <1>0, <2>1, FailType DEF TypeOK
<1>6. ASSUME NEW c \in Caller, Arrives(c) PROVE TypeOK'
  BY <1>0, <1>6 DEF Arrives, TypeOK
<1>7. ASSUME NEW c \in Caller, HangUp(c) PROVE TypeOK'
  BY <1>0, <1>7, LeaveQueue DEF HangUp, TypeOK, IsQueue
<1>8. CASE ProxyAccepts
  BY <1>0, <1>8, TailOfQueue DEF ProxyAccepts, TypeOK, IsQueue
<1>9. CASE ProxyForwards
  BY <1>0, <1>9 DEF ProxyForwards, TypeOK
<1>10. CASE ProxyShuts
  BY <1>0, <1>10, FailType DEF ProxyShuts, TypeOK
<1>11. CASE Tick
  <2>1. lag' \in [Caller -> 0..Lag]
    BY <1>0, <1>11, TimesAreNatural DEF Tick, TypeOK
  <2>2. age' \in [Caller -> 0..Validity]
    BY <1>0, <1>11, TimesAreNatural DEF Tick, TypeOK
  <2>3. cache' \in Token \cup {None}
    <3>1. CASE cache # None /\ cache.held < Lifetime
      <4>1. cache.age \in Nat /\ cache.held \in Nat /\ cache.age <= cache.held + Lag
        BY <1>0, <3>1 DEF Inv, AgeInv, TypeOK, Token
      <4>2. cache.age + 1 \in 0..Validity /\ cache.held + 1 \in 0..Lifetime
        BY <3>1, <4>1, TimesAreNatural
      <4> QED
        BY <1>11, <3>1, <4>2 DEF Tick, Token
    <3>2. CASE ~(cache # None /\ cache.held < Lifetime)
      BY <1>0, <1>11, <3>2 DEF Tick, TypeOK
    <3> QED
      BY <3>1, <3>2
  <2> QED
    BY <1>0, <1>11, <2>1, <2>2, <2>3 DEF Tick, TypeOK
<1>12. CASE UNCHANGED vars
  BY <1>0, <1>12 DEF vars, TypeOK
<1> QED
  BY <1>1, <1>2, <1>3, <1>4, <1>5, <1>6, <1>7, <1>8, <1>9, <1>10, <1>11, <1>12
     DEF Next, Step

(* A call that leaves the queue; only one that held the mutex over a fetch *)
(* may have filled the cache.                                              *)
LEMMA MutexLeave ==
  ASSUME Inv, NEW c \in Caller, NEW l, l \notin {"queued", "asking", "issued"},
         pc' = [pc EXCEPT ![c] = l], queue' = RemoveFirst(queue, c),
         UNCHANGED cache \/ pc[c] \in {"asking", "issued"}
  PROVE  MutexInv'
<1>1. /\ \A d : Contains(queue', d) <=> Contains(queue, d) /\ d # c
      /\ (queue # <<>> /\ Head(queue) # c) =>
            queue' # <<>> /\ Head(queue') = Head(queue)
  BY LeaveQueue DEF Inv
<1>2. \A d \in Caller : pc'[d] = IF d = c THEN l ELSE pc[d]
  BY DEF Inv, TypeOK
<1>3. ASSUME NEW d \in Caller, pc'[d] \in {"asking", "issued"}
      PROVE  HoldsMutex(d)' /\ ~IsFresh'
  <2>1. d # c /\ pc[d] \in {"asking", "issued"}
    BY <1>2, <1>3
  <2>2. HoldsMutex(d) /\ ~IsFresh
    BY <2>1 DEF Inv, MutexInv
  <2>3. ~(pc[c] \in {"asking", "issued"})
    BY <2>1, <2>2 DEF Inv, MutexInv, HoldsMutex
  <2> QED
    BY <1>1, <2>1, <2>2, <2>3 DEF HoldsMutex, IsFresh
<1> QED
  BY <1>1, <1>2, <1>3 DEF Inv, MutexInv

(* A call outside the mutex. *)
LEMMA MutexOutside ==
  ASSUME Inv, NEW c \in Caller, NEW l, l \notin {"queued", "asking", "issued"},
         pc[c] \notin {"queued", "asking", "issued"},
         pc' = [pc EXCEPT ![c] = l], UNCHANGED <<queue, cache>>
  PROVE  MutexInv'
  BY DEF Inv, TypeOK, MutexInv, HoldsMutex, IsFresh

LEMMA MutexStep ==
  ASSUME Inv, [Next]_vars PROVE MutexInv'
<1>0. TypeOK /\ MutexInv
  BY DEF Inv
<1>1. ASSUME NEW c \in Caller, Call(c) \/ BackoffEnds(c) PROVE MutexInv'
  <2>1. PICK n : Try(c, n) /\ pc[c] \in {"idle", "done", "failed", "backoff"}
    BY <1>1 DEF Call, BackoffEnds
  <2>2. /\ \A d : Contains(queue', d) <=> Contains(queue, d) \/ d = c
        /\ queue' # <<>>
        /\ queue # <<>> => Head(queue') = Head(queue)
    BY <2>1, TryQueue
  <2>3. pc' = [pc EXCEPT ![c] = "queued"] /\ UNCHANGED cache
    BY <2>1 DEF Try
  <2> QED
    BY <1>0, <2>2, <2>3 DEF MutexInv, TypeOK, HoldsMutex, IsFresh
<1>2. ASSUME NEW c \in Caller, Lock(c) PROVE MutexInv'
  <2>1. CASE IsFresh /\ Send(c, cache.age) /\ UNCHANGED <<tries, cache>>
    BY <2>1, MutexLeave DEF Send
  <2>2. CASE ~IsFresh /\ pc' = [pc EXCEPT ![c] = "asking"]
             /\ UNCHANGED <<queue, cache>>
    BY <1>0, <1>2, <2>2 DEF Lock, TypeOK, MutexInv, HoldsMutex, IsFresh
  <2> QED
    BY <1>2, <2>1, <2>2 DEF Lock
<1>3. ASSUME NEW c \in Caller, Issue(c) PROVE MutexInv'
  BY <1>0, <1>3 DEF Issue, TypeOK, MutexInv, HoldsMutex, IsFresh
<1>4. ASSUME NEW c \in Caller, FetchReturns(c) PROVE MutexInv'
  BY <1>4, MutexLeave DEF FetchReturns, Send
<1>5. ASSUME NEW c \in Caller, FetchFails(c) \/ SendFails(c) PROVE MutexInv'
  BY <1>5, MutexLeave DEF FetchFails, SendFails, Fail
<1>6. ASSUME NEW c \in Caller, Arrives(c) PROVE MutexInv'
  BY <1>6, MutexOutside DEF Arrives
<1>7. ASSUME NEW c \in Caller, HangUp(c) PROVE MutexInv'
  BY <1>7, MutexLeave DEF HangUp
<1>8. CASE ProxyAccepts
  BY <1>0, <1>8 DEF ProxyAccepts, MutexInv, HoldsMutex, IsFresh
<1>9. CASE ProxyForwards
  <2>1. proxy \in Caller /\ pc[proxy] \in {"connecting", "failed"}
    BY <1>9 DEF ProxyForwards, Inv, TypeOK, ProxyInv
  <2> QED
    BY <1>9, <2>1, MutexOutside DEF ProxyForwards
<1>10. CASE ProxyShuts
  <2>1. proxy \in Caller
    BY <1>0, <1>10 DEF ProxyShuts, TypeOK
  <2>2. CASE Fail(proxy)
    <3>1. PICK l \in {"backoff", "failed"} : pc' = [pc EXCEPT ![proxy] = l]
      BY <2>2 DEF Fail
    <3> QED
      BY <2>1, <2>2, <3>1, MutexLeave DEF Fail
  <2>3. CASE UNCHANGED <<pc, queue, cache>>
    BY <1>0, <2>3 DEF MutexInv, HoldsMutex, IsFresh
  <2> QED
    BY <1>10, <2>2, <2>3 DEF ProxyShuts
<1>11. CASE Tick
  <2>1. ~IsFresh => ~IsFresh'
    BY <1>11, TimesAreNatural DEF Tick, IsFresh
  <2> QED
    BY <1>0, <1>11, <2>1 DEF Tick, MutexInv, HoldsMutex
<1>12. CASE UNCHANGED vars
  BY <1>0, <1>12 DEF vars, MutexInv, HoldsMutex, IsFresh
<1> QED
  BY <1>1, <1>2, <1>3, <1>4, <1>5, <1>6, <1>7, <1>8, <1>9, <1>10, <1>11, <1>12
     DEF Next, Step

(* A connection leaves the proxy before its caller can make another. *)
LEMMA ProxyStep ==
  ASSUME Inv, [Next]_vars PROVE ProxyInv'
<1> USE DEF proxyVars
<1>0. TypeOK /\ ProxyInv
  BY DEF Inv
<1>1. ASSUME NEW c \in Caller, NEW l, pc' = [pc EXCEPT ![c] = l], UNCHANGED proxyVars,
             l = "failed" \/ (~Contains(backlog, c) /\ proxy # c)
      PROVE  ProxyInv'
  BY <1>0, <1>1 DEF ProxyInv, TypeOK
<1>2. ASSUME NEW c \in Caller, Send(c, age'[c]), pc[c] \in {"queued", "issued"}
      PROVE  ProxyInv'
  BY <1>0, <1>2, SendBacklog DEF Send, ProxyInv, TypeOK
<1>3. ASSUME NEW c \in Caller, Call(c) \/ BackoffEnds(c) PROVE ProxyInv'
  BY <1>0, <1>1, <1>3 DEF Call, BackoffEnds, Try, ProxyInv
<1>4. ASSUME NEW c \in Caller, Lock(c) PROVE ProxyInv'
  <2>1. CASE IsFresh /\ Send(c, cache.age)
    BY <1>0, <1>2, <1>4, <2>1 DEF Lock, Send, TypeOK
  <2>2. CASE pc' = [pc EXCEPT ![c] = "asking"] /\ UNCHANGED proxyVars
    BY <1>0, <1>1, <1>4, <2>2 DEF Lock, ProxyInv
  <2> QED
    BY <1>4, <2>1, <2>2 DEF Lock
<1>5. ASSUME NEW c \in Caller, FetchReturns(c) PROVE ProxyInv'
  BY <1>0, <1>2, <1>5 DEF FetchReturns, Send, TypeOK
<1>6. ASSUME NEW c \in Caller,
             Issue(c) \/ Arrives(c) \/ FetchFails(c) \/ SendFails(c) \/ HangUp(c)
      PROVE  ProxyInv'
  <2>1. CASE HangUp(c)
    BY <1>1, <2>1 DEF HangUp
  <2>2. CASE Issue(c) \/ Arrives(c)
    BY <1>0, <1>1, <2>2 DEF Issue, Arrives, ProxyInv
  <2>3. CASE FetchFails(c) \/ SendFails(c)
    BY <1>0, <1>1, <2>3 DEF FetchFails, SendFails, Fail, ProxyInv
  <2> QED
    BY <1>6, <2>1, <2>2, <2>3
<1>7. CASE ProxyAccepts
  <2>1. IsQueue(backlog) /\ backlog # <<>>
    BY <1>0, <1>7 DEF ProxyAccepts, TypeOK, IsQueue
  <2> QED
    BY <1>0, <1>7, <2>1, TailOfQueue DEF ProxyAccepts, ProxyInv
<1>8. CASE ProxyForwards
  BY <1>0, <1>8, NoneIsNone DEF ProxyForwards, ProxyInv, TypeOK
<1>9. CASE ProxyShuts
  BY <1>0, <1>9, NoneIsNone DEF ProxyShuts, Fail, ProxyInv, TypeOK
<1>10. CASE Tick \/ UNCHANGED vars
  BY <1>0, <1>10 DEF Tick, vars, ProxyInv
<1> QED
  BY <1>3, <1>4, <1>5, <1>6, <1>7, <1>8, <1>9, <1>10 DEF Next, Step

LEMMA TriesStep ==
  ASSUME Inv, [Next]_vars PROVE TriesInv'
<1>0. TypeOK /\ TriesInv
  BY DEF Inv
<1>1. ASSUME NEW c \in Caller, NEW l, pc' = [pc EXCEPT ![c] = l], UNCHANGED tries,
             l = "backoff" => tries[c] <= Retries \/ pc[c] = "backoff"
      PROVE  TriesInv'
  BY <1>0, <1>1 DEF TriesInv, TypeOK
<1>2. ASSUME NEW c \in Caller, NEW n, Try(c, n) PROVE TriesInv'
  BY <1>0, <1>2 DEF Try, TriesInv, TypeOK
<1>3. ASSUME NEW c \in Caller, Fail(c) PROVE TriesInv'
  BY <1>1, <1>3 DEF Fail
<1>4. CASE UNCHANGED <<pc, tries>>
  BY <1>0, <1>4 DEF TriesInv
<1>5. ASSUME ProxyForwards PROVE TriesInv'
  BY <1>0, <1>1, <1>5 DEF ProxyForwards, TypeOK
<1>6. ASSUME ProxyShuts PROVE TriesInv'
  BY <1>0, <1>3, <1>4, <1>6 DEF ProxyShuts, TypeOK
<1>7. ASSUME NEW c \in Caller, Call(c) \/ BackoffEnds(c) \/ FetchFails(c) \/ SendFails(c)
      PROVE  TriesInv'
  BY <1>2, <1>3, <1>7 DEF Call, BackoffEnds, FetchFails, SendFails
<1>8. ASSUME NEW c \in Caller,
             Lock(c) \/ Issue(c) \/ FetchReturns(c) \/ Arrives(c) \/ HangUp(c)
      PROVE  TriesInv'
  BY <1>1, <1>8 DEF Lock, Issue, FetchReturns, Send, Arrives, HangUp
<1> QED
  BY <1>4, <1>5, <1>6, <1>7, <1>8 DEF Next, Step, Tick, ProxyAccepts, vars

(* The ages add up. *)
LEMMA AgeStep ==
  ASSUME Inv, [Next]_vars PROVE AgeInv'
<1>0. TypeOK /\ AgeInv
  BY DEF Inv
<1>1. ASSUME NEW c \in Caller, NEW l, l \notin {"issued", "connecting"},
             l = "sending" => pc[c] \in {"connecting", "sending"},
             pc' = [pc EXCEPT ![c] = l], UNCHANGED <<age, lag, cache>>
      PROVE  AgeInv'
  BY <1>0, <1>1 DEF AgeInv, TypeOK
<1>2. ASSUME NEW c \in Caller, NEW a \in Nat, Send(c, a), a < Lifetime + Lag,
             cache' # None => cache'.age <= cache'.held + Lag
      PROVE  AgeInv'
  <2>1. /\ pc' = [pc EXCEPT ![c] = "connecting"] /\ age' = [age EXCEPT ![c] = a]
        /\ lag' = [lag EXCEPT ![c] = 0]
    BY <1>2 DEF Send
  <2>2. pc'[c] = "connecting" /\ age'[c] = a /\ lag'[c] = 0
    BY <1>0, <2>1 DEF TypeOK
  <2>3. \A d \in Caller \ {c} : pc'[d] = pc[d] /\ age'[d] = age[d] /\ lag'[d] = lag[d]
    BY <1>0, <2>1 DEF TypeOK
  <2>4. a < Lifetime + Lag + 0
    BY <1>2, TimesAreNatural
  <2> QED
    BY <1>0, <1>2, <2>2, <2>3, <2>4 DEF AgeInv
<1>3. ASSUME NEW c \in Caller, Lock(c) PROVE AgeInv'
  <2>1. CASE IsFresh /\ Send(c, cache.age) /\ UNCHANGED cache
    <3>1. cache.age \in Nat /\ cache.held \in Nat /\ cache.held < Lifetime
          /\ cache.age <= cache.held + Lag
      BY <1>0, <2>1 DEF IsFresh, AgeInv, TypeOK, Token
    <3>2. cache.age < Lifetime + Lag
      BY <3>1, TimesAreNatural
    <3> QED
      BY <1>2, <2>1, <3>1, <3>2
  <2>2. CASE pc' = [pc EXCEPT ![c] = "asking"] /\ UNCHANGED <<age, lag, cache>>
    BY <1>1, <2>2
  <2> QED
    BY <1>3, <2>1, <2>2 DEF Lock
<1>4. ASSUME NEW c \in Caller, Issue(c) PROVE AgeInv'
  BY <1>0, <1>4 DEF Issue, AgeInv, TypeOK
<1>5. ASSUME NEW c \in Caller, FetchReturns(c) PROVE AgeInv'
  <2>1. age[c] \in Nat /\ lag[c] \in 0..Lag /\ age[c] <= lag[c]
    BY <1>0, <1>5 DEF FetchReturns, AgeInv, TypeOK
  <2>2. age[c] < Lifetime + Lag /\ age[c] <= 0 + Lag
    BY <2>1, TimesAreNatural
  <2>3. cache'.age = age[c] /\ cache'.held = 0
    BY <1>5 DEF FetchReturns
  <2> QED
    BY <1>2, <1>5, <2>1, <2>2, <2>3 DEF FetchReturns
<1>6. ASSUME NEW c \in Caller, Fail(c) PROVE AgeInv'
  <2>1. PICK l \in {"backoff", "failed"} : pc' = [pc EXCEPT ![c] = l]
    BY <1>6 DEF Fail
  <2> QED
    BY <1>1, <1>6, <2>1 DEF Fail
<1>7. ASSUME NEW c \in Caller,
             \/ Call(c) \/ BackoffEnds(c) \/ FetchFails(c) \/ SendFails(c)
             \/ Arrives(c) \/ HangUp(c)
      PROVE  AgeInv'
  BY <1>1, <1>6, <1>7 DEF Call, BackoffEnds, Try, FetchFails, SendFails, Arrives, HangUp
<1>8. CASE UNCHANGED <<pc, age, lag, cache>>
  BY <1>0, <1>8 DEF AgeInv
<1>9. ASSUME ProxyForwards PROVE AgeInv'
  <2>1. proxy \in Caller /\ pc[proxy] \in {"connecting", "failed"}
    BY <1>9 DEF ProxyForwards, Inv, TypeOK, ProxyInv
  <2> QED
    BY <1>1, <1>9, <2>1 DEF ProxyForwards
<1>10. ASSUME ProxyShuts PROVE AgeInv'
  BY <1>0, <1>6, <1>8, <1>10 DEF ProxyShuts, TypeOK
<1>11. CASE Tick
  <2>1. cache' # None => cache'.age <= cache'.held + Lag
    <3>1. CASE cache # None /\ cache.held < Lifetime
      BY <1>0, <1>11, <3>1, TimesAreNatural DEF Tick, AgeInv, TypeOK, Token
    <3>2. CASE ~(cache # None /\ cache.held < Lifetime)
      BY <1>0, <1>11, <3>2 DEF Tick, AgeInv
    <3> QED
      BY <3>1, <3>2
  <2>2. ASSUME NEW c \in Caller
        PROVE  /\ pc[c] = "issued" => age'[c] <= lag'[c]
               /\ pc[c] \in {"connecting", "sending"} => age'[c] < Lifetime + Lag + lag'[c]
    BY <1>0, <1>11, TimesAreNatural DEF Tick, OnItsWay, AgeInv, TypeOK
  <2> QED
    BY <1>11, <2>1, <2>2 DEF Tick, AgeInv
<1> QED
  BY <1>3, <1>4, <1>5, <1>7, <1>8, <1>9, <1>10, <1>11 DEF Next, Step, ProxyAccepts, vars

-----------------------------------------------------------------------------
(* The inductive invariant: who is in the queue, in the proxy and how old  *)
(* the tokens are.                                                         *)
THEOREM TokenInvariant == Spec => []Inv
<1>1. Inv /\ [Next]_vars => Inv'
  BY TypeStep, MutexStep, ProxyStep, TriesStep, AgeStep DEF Inv
<1> QED
  BY <1>1, InvInit, PTL DEF Spec

(* One call at a time fetches a token, and only when there is no fresh one. *)
THEOREM TokensAreFetchedOnce == Spec => []SingleFlight
<1>1. Inv => SingleFlight
  BY DEF Inv, SingleFlight, MutexInv, HoldsMutex
<1> QED
  BY <1>1, TokenInvariant, PTL

(* No call is under way with a token that has expired. *)
THEOREM SentTokensAreValid == Spec => []SentTokenIsValid
<1>1. Inv => SentTokenIsValid
  <2> SUFFICES ASSUME Inv, NEW c \in Caller, pc[c] \in {"connecting", "sending"}
               PROVE  age[c] < Validity
    BY DEF SentTokenIsValid
  <2>1. /\ age[c] \in Nat /\ lag[c] \in 0..Lag
        /\ age[c] < Lifetime + Lag + lag[c]
    BY DEF Inv, TypeOK, AgeInv
  <2> QED
    BY <2>1, TimesAreNatural
<1> QED
  BY <1>1, TokenInvariant, PTL

-----------------------------------------------------------------------------
(***************************************************************************)
(* How long a call may take.  A try goes through at most six places, and   *)
(* what is left of a call is what is left of its try and of the tries      *)
(* after it.                                                               *)
(***************************************************************************)
Place == [queued |-> 6, asking |-> 5, issued |-> 4, connecting |-> 3, sending |-> 2,
          backoff |-> 1, idle |-> 0, done |-> 0, failed |-> 0]

CallLeft(c) == (Retries + 1 - tries[c]) * 6 + Place[pc[c]]

\* A step of the call itself leaves less, and only a new call leaves more:
\* not the proxy, not its client and not another call.
CallRunsDown ==
    \A c \in Caller :
        /\ Step(c) => CallLeft(c)' < CallLeft(c)
        /\ ~Call(c) => CallLeft(c)' <= CallLeft(c)

\* d stands before c in the queue q.
Precedes(q, d, c) == \E j, k \in 1..Len(q) : j < k /\ q[j] = d /\ q[k] = c

\* Nobody gets before a call that waits for the mutex or for the proxy.
NobodyOvertakes ==
    \A c, d \in Caller :
        /\ Contains(queue, c) /\ Precedes(queue', d, c) => Precedes(queue, d, c)
        /\ Contains(backlog, c) /\ Precedes(backlog', d, c) => Precedes(backlog, d, c)

LEMMA AppendKeepsOrder ==
  ASSUME NEW q, IsQueue(q), NEW c \in Caller, ~Contains(q, c), NEW e, Contains(q, e), NEW d,
         Precedes(Append(q, c), d, e)
  PROVE  Precedes(q, d, e)
<1> DEFINE r == Append(q, c)
<1>1. /\ Len(q) \in Nat /\ Len(r) = Len(q) + 1 /\ r[Len(q) + 1] = c
      /\ \A i \in 1..Len(q) : r[i] = q[i]
  BY AppendProperties, LenProperties DEF IsQueue
<1> HIDE DEF r
<1>2. PICK j, k \in 1..Len(r) : j < k /\ r[j] = d /\ r[k] = e
  BY DEF Precedes, r
<1>3. k # Len(q) + 1
  BY <1>1, <1>2 DEF Contains
<1>4. j \in 1..Len(q) /\ k \in 1..Len(q)
  BY <1>1, <1>2, <1>3
<1> QED
  BY <1>1, <1>2, <1>4 DEF Precedes

LEMMA TailKeepsOrder ==
  ASSUME NEW q, IsQueue(q), q # <<>>, NEW e, NEW d, Precedes(Tail(q), d, e)
  PROVE  Precedes(q, d, e)
<1> DEFINE r == Tail(q)
<1>1. /\ Len(q) \in Nat /\ Len(r) = Len(q) - 1 /\ Len(q) >= 1
      /\ \A i \in 1..Len(r) : r[i] = q[i + 1]
  BY HeadTailProperties, LenProperties, EmptySeq DEF IsQueue
<1> HIDE DEF r
<1>2. PICK j, k \in 1..Len(r) : j < k /\ r[j] = d /\ r[k] = e
  BY DEF Precedes, r
<1>3. j + 1 \in 1..Len(q) /\ k + 1 \in 1..Len(q) /\ j + 1 < k + 1
  BY <1>1, <1>2
<1>4. q[j + 1] = d /\ q[k + 1] = e
  BY <1>1, <1>2
<1> QED
  BY <1>3, <1>4 DEF Precedes

LEMMA RemoveKeepsOrder ==
  ASSUME NEW q, IsQueue(q), NEW c, NEW e, NEW d, Precedes(RemoveFirst(q, c), d, e)
  PROVE  Precedes(q, d, e)
<1>1. CASE ~Contains(q, c)
  BY <1>1 DEF RemoveFirst, Contains
<1>2. CASE Contains(q, c)
  <2>1. PICK n \in 1..Len(q) : q[n] = c
    BY <1>2 DEF Contains
  <2>2. \A i, j \in 1..Len(q) : q[i] = q[j] => i = j
    BY LenProperties DEF IsQueue, IsInjective
  <2>3. {i \in 1..Len(q) : q[i] = c} = {n}
    BY <2>1, <2>2
  <2>4. Min({n}) = n
    BY <2>1, LenProperties DEF Min
  <2>5. RemoveFirst(q, c) = RemoveAt(q, n)
    BY <2>1, <2>3, <2>4 DEF RemoveFirst, SelectInSeq
  <2> DEFINE r == RemoveAt(q, n)
  <2>6. Len(q) \in Nat /\ n \in Nat /\ n <= Len(q) /\ n >= 1
    BY LenProperties DEF IsQueue
  <2>7. /\ Len(r) = Len(q) - 1
        /\ \A i \in 1..(n - 1) : r[i] = q[i]
        /\ \A i \in n..(Len(q) - 1) : r[i] = q[i + 1]
    BY RemoveAtPosition DEF IsQueue
  <2>8. PICK j, k \in 1..Len(r) : j < k /\ r[j] = d /\ r[k] = e
    BY <2>5 DEF Precedes
  <2> HIDE DEF r
  <2> DEFINE Old(i) == IF i < n THEN i ELSE i + 1
  <2>9. \A i \in 1..Len(r) : Old(i) \in 1..Len(q) /\ r[i] = q[Old(i)]
    BY <2>6, <2>7
  <2>10. Old(j) < Old(k)
    BY <2>6, <2>7, <2>8
  <2> HIDE DEF Old
  <2> QED
    BY <2>8, <2>9, <2>10 DEF Precedes
<1> QED
  BY <1>1, <1>2

(* The queues change at their two ends only, and by leaving them. *)
LEMMA QueueSteps ==
  ASSUME Inv, [Next]_vars
  PROVE  /\ \/ UNCHANGED queue
            \/ \E c \in Caller : ~Contains(queue, c) /\ queue' = Append(queue, c)
            \/ \E c \in Caller : queue' = RemoveFirst(queue, c)
         /\ \/ UNCHANGED backlog
            \/ \E c \in Caller : ~Contains(backlog, c) /\ backlog' = Append(backlog, c)
            \/ backlog # <<>> /\ backlog' = Tail(backlog)
<1> DEFINE Q == \/ UNCHANGED queue
                \/ \E c \in Caller : ~Contains(queue, c) /\ queue' = Append(queue, c)
                \/ \E c \in Caller : queue' = RemoveFirst(queue, c)
           B == \/ UNCHANGED backlog
                \/ \E c \in Caller : ~Contains(backlog, c) /\ backlog' = Append(backlog, c)
                \/ backlog # <<>> /\ backlog' = Tail(backlog)
<1>0. TypeOK /\ MutexInv /\ ProxyInv
  BY DEF Inv
<1>1. ASSUME NEW c \in Caller, Call(c) \/ BackoffEnds(c) PROVE Q /\ B
  <2>1. ~Contains(queue, c) /\ queue' = Append(queue, c) /\ UNCHANGED backlog
    BY <1>0, <1>1 DEF Call, BackoffEnds, Try, proxyVars, MutexInv
  <2> QED
    BY <2>1
<1>2. ASSUME NEW c \in Caller, Lock(c) \/ FetchReturns(c) PROVE Q /\ B
  <2>1. \/ UNCHANGED <<queue, backlog>>
        \/ /\ queue' = RemoveFirst(queue, c) /\ backlog' = Append(backlog, c)
           /\ pc[c] \in {"queued", "issued"}
    BY <1>2 DEF Lock, FetchReturns, Send, proxyVars
  <2>2. pc[c] \in {"queued", "issued"} => ~Contains(backlog, c)
    BY <1>0 DEF ProxyInv
  <2> QED
    BY <2>1, <2>2
<1>3. ASSUME NEW c \in Caller, FetchFails(c) \/ SendFails(c) \/ HangUp(c) PROVE Q /\ B
  <2>1. queue' = RemoveFirst(queue, c) /\ UNCHANGED backlog
    BY <1>3 DEF FetchFails, SendFails, HangUp, Fail, proxyVars
  <2> QED
    BY <2>1
<1>4. ASSUME NEW c \in Caller, Issue(c) \/ Arrives(c) PROVE Q /\ B
  BY <1>4 DEF Issue, Arrives, proxyVars
<1>5. CASE ProxyAccepts
  <2>1. backlog # <<>> /\ backlog' = Tail(backlog) /\ UNCHANGED queue
    BY <1>5 DEF ProxyAccepts
  <2> QED
    BY <2>1
<1>6. CASE ProxyForwards \/ ProxyShuts
  <2>1. UNCHANGED backlog /\ (UNCHANGED queue \/ queue' = RemoveFirst(queue, proxy))
    BY <1>6 DEF ProxyForwards, ProxyShuts, Fail
  <2>2. proxy \in Caller
    BY <1>0, <1>6 DEF ProxyForwards, ProxyShuts, TypeOK
  <2> QED
    BY <2>1, <2>2
<1>7. CASE Tick \/ UNCHANGED vars
  BY <1>7 DEF Tick, vars, proxyVars
<1> QED
  BY <1>1, <1>2, <1>3, <1>4, <1>5, <1>6, <1>7 DEF Next, Step

(* Whoever waits for the mutex of the token, or for the proxy, is passed by *)
(* nobody, however the calls before and behind it fail, are dropped or try  *)
(* again: a retry goes to the end.                                          *)
THEOREM CallsWaitInTurn == Spec => [][NobodyOvertakes]_vars
<1>1. ASSUME Inv, [Next]_vars PROVE NobodyOvertakes
  <2>1. IsQueue(queue) /\ IsQueue(backlog)
    BY <1>1 DEF Inv, TypeOK, IsQueue
  <2> SUFFICES ASSUME NEW c \in Caller, NEW d \in Caller
               PROVE  /\ Contains(queue, c) /\ Precedes(queue', d, c) => Precedes(queue, d, c)
                      /\ Contains(backlog, c) /\ Precedes(backlog', d, c)
                            => Precedes(backlog, d, c)
    BY DEF NobodyOvertakes
  <2>2. Contains(queue, c) /\ Precedes(queue', d, c) => Precedes(queue, d, c)
    BY <1>1, <2>1, QueueSteps, AppendKeepsOrder, RemoveKeepsOrder
  <2>3. Contains(backlog, c) /\ Precedes(backlog', d, c) => Precedes(backlog, d, c)
    BY <1>1, <2>1, QueueSteps, AppendKeepsOrder, TailKeepsOrder
  <2> QED
    BY <2>2, <2>3
<1>2. Inv /\ [Next]_vars => [NobodyOvertakes]_vars
  BY <1>1
<1> QED
  BY <1>2, TokenInvariant, PTL DEF Spec

LEMMA Places ==
  /\ Place["queued"] = 6 /\ Place["asking"] = 5 /\ Place["issued"] = 4
  /\ Place["connecting"] = 3 /\ Place["sending"] = 2 /\ Place["backoff"] = 1
  /\ Place["idle"] = 0 /\ Place["done"] = 0 /\ Place["failed"] = 0
  BY DEF Place

(* What is left of a call is a number, at most six steps for each try. *)
LEMMA CallLeftType ==
  ASSUME TypeOK, NEW c \in Caller
  PROVE  /\ tries[c] \in 0..(Retries + 1) /\ Retries \in Nat
         /\ Place[pc[c]] \in 0..6
         /\ pc[c] \in {"queued", "asking", "issued", "connecting", "sending", "backoff"}
               => Place[pc[c]] \in 1..6
<1>1. tries[c] \in 0..(Retries + 1) /\ Retries \in Nat
  BY TimesAreNatural DEF TypeOK
<1>2. pc[c] \in {"idle", "queued", "asking", "issued", "connecting", "sending", "backoff",
                "done", "failed"}
  BY DEF TypeOK
<1>3. /\ Place["queued"] \in 1..6 /\ Place["asking"] \in 1..6 /\ Place["issued"] \in 1..6
      /\ Place["connecting"] \in 1..6 /\ Place["sending"] \in 1..6
      /\ Place["backoff"] \in 1..6 /\ 1..6 \subseteq 0..6
      /\ Place["idle"] \in 0..6 /\ Place["done"] \in 0..6 /\ Place["failed"] \in 0..6
  BY Places
<1>4. Place[pc[c]] \in 0..6
  BY <1>2, <1>3, Zenon
<1>5. pc[c] \in {"queued", "asking", "issued", "connecting", "sending", "backoff"}
         => Place[pc[c]] \in 1..6
  BY <1>3, Zenon
<1> QED
  BY <1>1, <1>4, <1>5

(* A call that goes on to a later place of its try. *)
LEMMA GoesOn ==
  ASSUME TypeOK, NEW c \in Caller, NEW l, pc' = [pc EXCEPT ![c] = l], UNCHANGED tries,
         Place[l] \in Nat, Place[l] < Place[pc[c]]
  PROVE  /\ CallLeft(c)' < CallLeft(c) /\ CallLeft(c)' \in Nat
         /\ \A e \in Caller \ {c} : CallLeft(e)' = CallLeft(e)
<1>1. pc'[c] = l /\ tries' = tries /\ \A e \in Caller \ {c} : pc'[e] = pc[e]
  BY DEF TypeOK
<1>2. /\ CallLeft(c)' = (Retries + 1 - tries[c]) * 6 + Place[l]
      /\ CallLeft(c) = (Retries + 1 - tries[c]) * 6 + Place[pc[c]]
  BY <1>1 DEF CallLeft
<1>3. \A e \in Caller \ {c} : CallLeft(e)' = CallLeft(e)
  BY <1>1 DEF CallLeft
<1>4. /\ Retries + 1 - tries[c] \in Nat /\ Place[pc[c]] \in Nat
  BY CallLeftType
<1> QED
  BY <1>2, <1>3, <1>4

LEMMA FailGoesOn ==
  ASSUME TypeOK, NEW c \in Caller, Fail(c),
         pc[c] \in {"asking", "issued", "connecting", "sending"}
  PROVE  /\ CallLeft(c)' < CallLeft(c) /\ CallLeft(c)' \in Nat
         /\ \A e \in Caller \ {c} : CallLeft(e)' = CallLeft(e)
<1> DEFINE l == IF tries[c] <= Retries THEN "backoff" ELSE "failed"
<1>1. pc' = [pc EXCEPT ![c] = l] /\ UNCHANGED tries
  BY DEF Fail
<1>2. Place[l] \in {0, 1}
  BY Places
<1>3. Place[pc[c]] \in {2, 3, 4, 5}
  BY Places, Zenon
<1> HIDE DEF l
<1>4. Place[l] \in Nat /\ Place[l] < Place[pc[c]]
  BY <1>2, <1>3
<1> QED
  BY <1>1, <1>4, GoesOn

(* A step of a call takes one of its steps, and none of another's. *)
LEMMA StepGoesOn ==
  ASSUME Inv, NEW c \in Caller, Step(c) \/ HangUp(c)
  PROVE  /\ CallLeft(c)' < CallLeft(c) /\ CallLeft(c)' \in Nat
         /\ \A e \in Caller \ {c} : CallLeft(e)' = CallLeft(e)
<1>0. TypeOK
  BY DEF Inv
<1>1. CASE Lock(c)
  <2>1. PICK l \in {"connecting", "asking"} :
           pc' = [pc EXCEPT ![c] = l] /\ UNCHANGED tries /\ pc[c] = "queued"
    BY <1>1 DEF Lock, Send
  <2>2. Place[l] \in Nat /\ Place[l] < Place[pc[c]]
    BY <2>1, Places
  <2> QED
    BY <1>0, <2>1, <2>2, GoesOn
<1>2. CASE Issue(c) \/ FetchReturns(c) \/ Arrives(c)
  <2>1. PICK l \in {"issued", "connecting", "done"} :
           /\ pc' = [pc EXCEPT ![c] = l] /\ UNCHANGED tries
           /\ <<pc[c], l>> \in {<<"asking", "issued">>, <<"issued", "connecting">>,
                                <<"sending", "done">>}
    BY <1>2 DEF Issue, FetchReturns, Send, Arrives
  <2>2. Place[l] \in Nat /\ Place[l] < Place[pc[c]]
    BY <2>1, Places
  <2> QED
    BY <1>0, <2>1, <2>2, GoesOn
<1>3. CASE FetchFails(c) \/ SendFails(c)
  BY <1>0, <1>3, FailGoesOn DEF FetchFails, SendFails
<1>4. CASE HangUp(c)
  <2>1. /\ pc' = [pc EXCEPT ![c] = "failed"] /\ UNCHANGED tries
        /\ Place["failed"] \in Nat /\ Place["failed"] < Place[pc[c]]
    BY <1>0, <1>4, Places, CallLeftType DEF HangUp
  <2> QED
    BY <1>0, <2>1, GoesOn
<1>5. CASE BackoffEnds(c)
  <2>1. /\ pc[c] = "backoff" /\ pc'[c] = "queued" /\ tries'[c] = tries[c] + 1
        /\ tries[c] <= Retries
        /\ \A e \in Caller \ {c} : pc'[e] = pc[e] /\ tries'[e] = tries[e]
    BY <1>0, <1>5 DEF BackoffEnds, Try, TypeOK, Inv, TriesInv
  <2>2. /\ CallLeft(c)' = (Retries + 1 - (tries[c] + 1)) * 6 + 6
        /\ CallLeft(c) = (Retries + 1 - tries[c]) * 6 + 1
    BY <2>1, Places DEF CallLeft
  <2>3. \A e \in Caller \ {c} : CallLeft(e)' = CallLeft(e)
    BY <2>1 DEF CallLeft
  <2> QED
    BY <1>0, <2>1, <2>2, <2>3, CallLeftType
<1> QED
  BY <1>1, <1>2, <1>3, <1>4, <1>5 DEF Step

LEMMA CallRuns ==
  ASSUME Inv, [Next]_vars PROVE CallRunsDown
<1>0. TypeOK
  BY DEF Inv
<1> SUFFICES ASSUME NEW e \in Caller
             PROVE  /\ Step(e) => CallLeft(e)' < CallLeft(e)
                    /\ ~Call(e) => CallLeft(e)' <= CallLeft(e)
  BY DEF CallRunsDown
<1>1. CallLeft(e) \in Nat
  BY <1>0, CallLeftType DEF CallLeft
<1>2. Step(e) => CallLeft(e)' < CallLeft(e)
  BY StepGoesOn
<1>3. ASSUME CallLeft(e)' = CallLeft(e) \/ (CallLeft(e)' < CallLeft(e) /\ CallLeft(e)' \in Nat)
      PROVE  CallLeft(e)' <= CallLeft(e)
  <2>1. \A m, n \in Nat : m = n \/ m < n => m <= n
    OBVIOUS
  <2> QED
    BY <1>1, <1>3, <2>1
<1>4. ASSUME NEW c \in Caller, Step(c) \/ HangUp(c) PROVE CallLeft(e)' <= CallLeft(e)
  BY <1>3, <1>4, StepGoesOn
<1>5. ASSUME NEW c \in Caller, Call(c), ~Call(e) PROVE CallLeft(e)' <= CallLeft(e)
  <2>1. pc'[e] = pc[e] /\ tries'[e] = tries[e]
    BY <1>0, <1>5 DEF Call, Try, TypeOK
  <2> QED
    BY <1>3, <2>1 DEF CallLeft
<1>6. CASE ProxyForwards \/ ProxyShuts
  <2>1. PICK c \in Caller : c = proxy
    BY <1>0, <1>6 DEF ProxyForwards, ProxyShuts, TypeOK
  <2>2. CASE pc[c] = "connecting" /\ ProxyForwards
    <3>1. /\ pc' = [pc EXCEPT ![c] = "sending"] /\ UNCHANGED tries
          /\ Place["sending"] \in Nat /\ Place["sending"] < Place[pc[c]]
      BY <2>1, <2>2, Places DEF ProxyForwards
    <3> QED
      BY <1>0, <1>2, <1>3, <3>1, GoesOn
  <2>3. CASE pc[c] = "connecting" /\ ProxyShuts
    <3>1. Fail(c)
      BY <2>1, <2>3 DEF ProxyShuts
    <3> QED
      BY <1>0, <1>2, <1>3, <2>3, <3>1, FailGoesOn
  <2>4. CASE pc[c] # "connecting"
    <3>1. pc'[e] = pc[e] /\ tries' = tries
      BY <1>0, <1>6, <2>1, <2>4 DEF ProxyForwards, ProxyShuts, TypeOK
    <3>2. CallLeft(e)' = CallLeft(e)
      BY <3>1 DEF CallLeft
    <3> QED
      BY <1>2, <1>3, <3>2
  <2> QED
    BY <1>6, <2>2, <2>3, <2>4
<1>7. CASE Tick \/ ProxyAccepts \/ UNCHANGED vars
  <2>1. CallLeft(e)' = CallLeft(e)
    BY <1>7 DEF Tick, ProxyAccepts, vars, CallLeft
  <2> QED
    BY <1>2, <1>3, <2>1
<1> QED
  BY <1>2, <1>4, <1>5, <1>6, <1>7 DEF Next

\* What is left of a call, as a number.
CallIsBounded == \A c \in Caller : CallLeft(c) \in 0..(6 * (Retries + 1))

\* Only a caller that has never called has not tried.
StartInv == \A c \in Caller : tries[c] = 0 => pc[c] = "idle"

LEMMA StartStep == ASSUME Inv, StartInv, [Next]_vars PROVE StartInv'
<1>0. proxy # None => proxy \in Caller /\ pc[proxy] \in {"connecting", "failed"}
  BY DEF Inv, TypeOK, ProxyInv
<1> USE DEF StartInv, TypeOK
<1>1. ASSUME NEW c \in Caller, Call(c) \/ BackoffEnds(c) PROVE StartInv'
  BY <1>1 DEF Call, BackoffEnds, Try, Inv
<1>2. ASSUME NEW c \in Caller, NEW l, pc' = [pc EXCEPT ![c] = l], UNCHANGED tries,
             pc[c] # "idle"
      PROVE  StartInv'
  BY <1>2 DEF Inv
<1>3. ASSUME NEW c \in Caller, Step(c) \/ HangUp(c), ~BackoffEnds(c) PROVE StartInv'
  BY <1>2, <1>3 DEF Step, HangUp, Lock, Issue, FetchReturns, FetchFails, Arrives, SendFails,
     Send, Fail
<1>4. CASE ProxyForwards
  BY <1>0, <1>2, <1>4 DEF ProxyForwards, Inv
<1>5. CASE ProxyShuts
  BY <1>0, <1>2, <1>5 DEF ProxyShuts, Fail, Inv
<1>6. CASE Tick \/ ProxyAccepts \/ UNCHANGED vars
  BY <1>6 DEF Tick, ProxyAccepts, vars
<1> QED
  BY <1>1, <1>3, <1>4, <1>5, <1>6 DEF Next

(* A call has at most six steps for each of its Retries + 1 tries, and     *)
(* every step that it takes, alone or with the proxy, leaves fewer; nobody *)
(* else can add to them.  With CallsWaitInTurn this is why EveryCallEnds   *)
(* needs no more than that callers, fetches and the proxy go on.           *)
THEOREM CallsRunDown == Spec => []CallIsBounded /\ [][CallRunsDown]_vars
<1>1. Inv /\ StartInv => CallIsBounded
  <2> SUFFICES ASSUME Inv, StartInv, NEW c \in Caller PROVE CallLeft(c) \in 0..(6 * (Retries + 1))
    BY DEF CallIsBounded
  <2>1. /\ tries[c] \in 0..(Retries + 1) /\ Retries \in Nat /\ Place[pc[c]] \in 0..6
        /\ tries[c] = 0 => Place[pc[c]] = 0
    BY CallLeftType, Places DEF Inv, StartInv
  <2> QED
    BY <2>1 DEF CallLeft
<1>2. Inv /\ [Next]_vars => [CallRunsDown]_vars
  BY CallRuns
<1>3. Init => StartInv
  BY DEF Init, StartInv
<1>4. Inv /\ StartInv /\ [Next]_vars => StartInv'
  BY StartStep
<1> QED
  BY <1>1, <1>2, <1>3, <1>4, TokenInvariant, PTL DEF Spec
=============================================================================
