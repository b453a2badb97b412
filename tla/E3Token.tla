------------------------------ MODULE E3Token ------------------------------
(***************************************************************************)
(* How the data plane authenticates to E3, the service that encrypts and   *)
(* decrypts.  Every call needs a token of the cert provisioner, fetched    *)
(* through the control plane and bound to an attestation document          *)
(* (data-plane/src/crypto/token.rs).  One cache of one token, behind an    *)
(* async mutex (data-plane/src/cache.rs), serves the calls of the crypto   *)
(* API and of the decryption layer; a call that finds no fresh token keeps *)
(* the mutex while it fetches one.  Failed calls are repeated              *)
(* (data-plane/src/e3client/mod.rs), but for those of the boot, which stop *)
(* at the first error as a call that is dropped does.  A request goes      *)
(* through the control plane's proxy (control-plane/src/e3proxy.rs), which *)
(* looks up the address of E3 for one connection at a time.                *)
(*                                                                         *)
(* A token ages from the moment the provisioner issues it, the cache       *)
(* counts from the moment it stores it, and E3 looks at the age when the   *)
(* call arrives.                                                           *)
(***************************************************************************)
EXTENDS Integers, Sequences, SequencesExt

CONSTANTS
    Caller,     \* the requests that need E3
    Lifetime,   \* E3_TOKEN_LIFETIME: 280 s
    Validity,   \* how long E3 accepts a token (external)
    Lag,        \* bound: how long an answer or a request is on its way, the
                \*   wait in the proxy included
    Retries,    \* the retries of a call: 2
    None        \* an empty cache, or no connection

ASSUME TimesAreNatural ==
    /\ Lifetime \in Nat \ {0} /\ Lag \in Nat
    /\ Validity \in Nat /\ Lifetime + 2 * Lag <= Validity
    /\ Retries \in Nat

VARIABLES
    pc,         \* where each call is
    tries,      \* how many times it has been tried
    age,        \* the age of the token it fetches or sends
    lag,        \* how long that has been on its way
    queue,      \* who waits for the mutex of E3_TOKEN; the first may hold it
    cache,      \* the cached token: its age and how long it has been held
    backlog,    \* the connections that the proxy has not accepted
    proxy       \* the connection that its loop looks up the address for

vars == <<pc, tries, age, lag, queue, cache, backlog, proxy>>
proxyVars == <<backlog, proxy>>

Token == [age : 0..Validity, held : 0..Lifetime]

ASSUME NoneIsNone == None \notin Caller \cup Token

TypeOK ==
    /\ pc \in [Caller -> {"idle", "queued", "asking", "issued", "connecting",
                          "sending", "backoff", "done", "failed"}]
    /\ tries \in [Caller -> 0..(Retries + 1)]
    /\ age \in [Caller -> 0..Validity]
    /\ lag \in [Caller -> 0..Lag]
    /\ queue \in Seq(Caller) /\ IsInjective(queue)
    /\ cache \in Token \cup {None}
    /\ backlog \in Seq(Caller) /\ IsInjective(backlog)
    /\ proxy \in Caller \cup {None}

Init ==
    /\ pc = [c \in Caller |-> "idle"]
    /\ tries = [c \in Caller |-> 0]
    /\ age = [c \in Caller |-> 0]
    /\ lag = [c \in Caller |-> 0]
    /\ queue = <<>>
    /\ cache = None
    /\ backlog = <<>> /\ proxy = None

\* Variant: a token is fresh for one second more.
IsFreshLonger == cache # None /\ cache.held <= Lifetime

\* TimedSizedCache::cache_get returns only what is younger than its lifespan.
IsFresh == cache # None /\ cache.held < Lifetime

\* The nth try of a call: it asks for the mutex of the cache.
Try(c, n) ==
    /\ pc' = [pc EXCEPT ![c] = "queued"]
    /\ tries' = [tries EXCEPT ![c] = n]
    /\ queue' = Append(queue, c)
    /\ UNCHANGED <<age, lag, cache, proxyVars>>

\* A caller stands for one call after another; the next one starts when the
\* connection of the last has left the proxy.
Call(c) ==
    /\ pc[c] \in {"idle", "done", "failed"}
    /\ c # proxy /\ ~Contains(backlog, c)
    /\ Try(c, 1)

\* A call that has its token leaves the mutex and connects to the proxy.
Send(c, a) ==
    /\ pc' = [pc EXCEPT ![c] = "connecting"]
    /\ backlog' = Append(backlog, c)
    /\ UNCHANGED proxy
    /\ age' = [age EXCEPT ![c] = a]
    /\ lag' = [lag EXCEPT ![c] = 0]
    /\ queue' = RemoveFirst(queue, c)

HoldsMutex(c) == queue # <<>> /\ Head(queue) = c

\* Variant: the mutex is released before the fetch is awaited.
LockOnlyToLook(c) ==
    /\ pc[c] = "queued" /\ HoldsMutex(c)
    /\ \/ IsFresh /\ Send(c, cache.age) /\ UNCHANGED <<tries, cache>>
       \/ /\ ~IsFresh
          /\ pc' = [pc EXCEPT ![c] = "asking"]
          /\ queue' = Tail(queue)
          /\ UNCHANGED <<tries, age, lag, cache, proxyVars>>

\* A fresh token is cloned and the mutex released; otherwise the mutex is
\* kept while the control plane is asked for one.
Lock(c) ==
    /\ pc[c] = "queued" /\ HoldsMutex(c)
    /\ \/ /\ IsFresh
          /\ Send(c, cache.age)
          /\ UNCHANGED <<tries, cache>>
       \/ /\ ~IsFresh
          /\ pc' = [pc EXCEPT ![c] = "asking"]
          /\ UNCHANGED <<tries, age, lag, queue, cache, proxyVars>>

\* The control plane passes the request on and the provisioner issues.
Issue(c) ==
    /\ pc[c] = "asking"
    /\ pc' = [pc EXCEPT ![c] = "issued"]
    /\ age' = [age EXCEPT ![c] = 0]
    /\ lag' = [lag EXCEPT ![c] = 0]
    /\ UNCHANGED <<tries, queue, cache, proxyVars>>

\* The token arrives, is bound to an attestation document and cached.
FetchReturns(c) ==
    /\ pc[c] = "issued"
    /\ Send(c, age[c])
    /\ cache' = [age |-> age[c], held |-> 0]
    /\ UNCHANGED tries

\* An error ends the try and drops the mutex, if the call holds it.  It is
\* repeated after a pause until the retries are used up.
Fail(c) ==
    /\ pc' = [pc EXCEPT ![c] = IF tries[c] <= Retries THEN "backoff" ELSE "failed"]
    /\ queue' = RemoveFirst(queue, c)
    /\ UNCHANGED <<tries, age, lag, cache>>

\* The control plane cannot be reached or answers with an error, the answer
\* cannot be parsed, or there is no attestation document.
FetchFails(c) ==
    /\ pc[c] \in {"asking", "issued"}
    /\ Fail(c)
    /\ UNCHANGED proxyVars

ProxyAccepts ==
    /\ proxy = None /\ backlog # <<>>
    /\ proxy' = Head(backlog)
    /\ backlog' = Tail(backlog)
    /\ UNCHANGED <<pc, tries, age, lag, queue, cache>>

\* The address of E3 is found: a task dials it and pipes, if the call is
\* still there, and the loop accepts again.
ProxyForwards ==
    /\ proxy # None
    /\ proxy' = None
    /\ pc' = [pc EXCEPT ![proxy] = IF @ = "connecting" THEN "sending" ELSE @]
    /\ UNCHANGED <<tries, age, lag, queue, cache, backlog>>

\* There is none, and the connection is shut down.
ProxyShuts ==
    /\ proxy # None
    /\ proxy' = None
    /\ \/ pc[proxy] = "connecting" /\ Fail(proxy)
       \/ pc[proxy] # "connecting" /\ UNCHANGED <<pc, tries, age, lag, queue, cache>>
    /\ UNCHANGED backlog

\* E3 accepts a token that has not expired.
Arrives(c) ==
    /\ pc[c] = "sending" /\ age[c] < Validity
    /\ pc' = [pc EXCEPT ![c] = "done"]
    /\ UNCHANGED <<tries, age, lag, queue, cache, proxyVars>>

\* E3 cannot be dialled, or answers with an unsuccessful status (the token
\* has expired, or the payload is refused), or so that it cannot be parsed.  The token stays
\* in the cache whatever the reason was.
SendFails(c) == pc[c] = "sending" /\ Fail(c) /\ UNCHANGED proxyVars

BackoffEnds(c) == pc[c] = "backoff" /\ Try(c, tries[c] + 1)

\* Variant: a dropped call stays in the queue of the mutex.
HangUpQueued(c) ==
    /\ pc[c] \in {"queued", "asking", "issued", "connecting", "sending", "backoff"}
    /\ pc' = [pc EXCEPT ![c] = "failed"]
    /\ UNCHANGED <<tries, age, lag, queue, cache, proxyVars>>

\* The client of the crypto API closes its connection: hyper drops the
\* call's future, and with it its guard or its place in the queue.  The proxy
\* does not notice.
HangUp(c) ==
    /\ pc[c] \in {"queued", "asking", "issued", "connecting", "sending", "backoff"}
    /\ pc' = [pc EXCEPT ![c] = "failed"]
    /\ queue' = RemoveFirst(queue, c)
    /\ UNCHANGED <<tries, age, lag, cache, proxyVars>>

OnItsWay(c) == pc[c] \in {"issued", "connecting", "sending"}

\* A second passes.  Lag bounds the time on the way back from the
\* provisioner and on the way to E3; asking may take any time, since neither
\* side of the config server has a timeout.
Tick ==
    /\ \A c \in Caller : OnItsWay(c) => lag[c] < Lag
    /\ lag' = [c \in Caller |-> IF OnItsWay(c) THEN lag[c] + 1 ELSE lag[c]]
    /\ age' = [c \in Caller |->
                 IF OnItsWay(c) /\ age[c] < Validity THEN age[c] + 1 ELSE age[c]]
    /\ cache' = IF cache # None /\ cache.held < Lifetime
                THEN [age |-> cache.age + 1, held |-> cache.held + 1]
                ELSE cache
    /\ UNCHANGED <<pc, tries, queue, proxyVars>>

Step(c) ==
    \/ Lock(c) \/ Issue(c) \/ FetchReturns(c) \/ FetchFails(c)
    \/ Arrives(c) \/ SendFails(c) \/ BackoffEnds(c)

Next ==
    \/ \E c \in Caller : Call(c) \/ Step(c) \/ HangUp(c)
    \/ ProxyAccepts \/ ProxyForwards \/ ProxyShuts
    \/ Tick

Spec == Init /\ [][Next]_vars

\* Callers are scheduled, every fetch and every request ends somehow, and the
\* proxy's loop goes on: a lookup has a timeout of the resolver's.
FairSpec ==
    /\ Spec
    /\ \A c \in Caller : WF_vars(Step(c))
    /\ WF_vars(ProxyAccepts) /\ WF_vars(ProxyForwards \/ ProxyShuts)

-----------------------------------------------------------------------------
\* Only one call at a time asks for a token, and only when the cache holds no
\* fresh one, however the callers fail or are dropped: E3_TOKEN's mutex is
\* held from the look at the cache to the end of the fetch (token.rs 49-65).
\* Every variable keeps its type.
SingleFlight ==
    /\ TypeOK
    /\ \A c \in Caller : pc[c] \in {"asking", "issued"} =>
          /\ ~IsFresh
          /\ \A d \in Caller \ {c} : pc[d] \notin {"asking", "issued"}

\* No call presents a token that E3 has already expired: the lifetime of
\* cache.rs, counted from when the token was stored, leaves room for the way
\* from the provisioner and the way to E3, the wait behind other connections
\* in the proxy included.
SentTokenIsValid ==
    \A c \in Caller : pc[c] \in {"connecting", "sending"} => age[c] < Validity

\* A call never waits for ever behind the others: tries that fail, and calls
\* that are dropped while they hold the mutex or their turn in the proxy, let
\* the next one in.
EveryCallEnds ==
    \A c \in Caller : pc[c] = "queued" ~> pc[c] \in {"done", "failed"}
=============================================================================
