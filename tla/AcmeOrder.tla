----------------------------- MODULE AcmeOrder -----------------------------
(***************************************************************************)
(* order_certificate (data-plane/src/acme/cert.rs) and the client library  *)
(* under it: directory.rs with its one cached nonce, account.rs, order.rs, *)
(* authorization.rs.  One retriever places order after order, weeks apart  *)
(* or seconds apart, with the account and the nonce it has kept; the ACME  *)
(* server and the clock of its nonces run beside it.                       *)
(*                                                                         *)
(* A signed request is two steps, get_nonce and the exchange.  Whatever    *)
(* goes wrong in a call fails the order: no call is repeated.              *)
(***************************************************************************)
EXTENDS Integers, FiniteSets

CONSTANTS
    NAuth,      \* authorizations of an order; handled in this order
    Nonce,      \* nonces; one that nobody keeps any more may be reissued
    NoNonce,
    AuthPolls,  \* polls of a challenge and of an authorization: 7
    OrderPolls  \* polls of an order, before and after finalize: 5

ASSUME PollsAreNat ==
    NAuth \in Nat \ {0} /\ AuthPolls \in Nat /\ OrderPolls \in Nat
ASSUME NonceSuffice == NoNonce \notin Nonce /\ Cardinality(Nonce) >= 3

VARIABLES
    srvOrder, srvAuth, srvChal, \* the server's state of the current order
    published,  \* authorizations whose key authorization is in the store
    account,    \* is an account cached in acme_account?
    cache,      \* the nonce of the account's Directory
    held,       \* the nonce get_nonce returned for the request being made
    used,       \* of these two, what the server has already been sent
    expired,    \* of these two, what the server has forgotten
    pc,         \* the request, or polling loop, the client is at
    auth,       \* the authorization it is at
    i,          \* i of the polling loop
    seen,       \* the status the loop last saw
    authSeen,   \* the statuses authorizations() returned
    orderSeen   \* the status build() returned

server == <<srvOrder, srvAuth, srvChal>>
nonces == <<cache, held, used, expired>>
client == <<auth, i, seen, authSeen, orderSeen>>
vars == <<server, published, account, nonces, pc, client>>

Auth == 1..NAuth
AuthStatus == {"pending", "valid", "invalid"}
Status == AuthStatus \cup {"ready", "processing"}

\* The polling loops, and all the requests that carry a nonce.
Loops == {"challenge", "authz", "ready", "issued"}
Signed == Loops \cup {"newAccount", "newOrder", "authorizations", "validate",
                      "finalize", "download"}
Ended == {"idle", "done", "failed"}
PC == Signed \cup Ended \cup {"directory", "publish"}

TypeOK ==
    /\ srvOrder \in Status
    /\ srvAuth \in [Auth -> AuthStatus]
    /\ srvChal \in [Auth -> AuthStatus \cup {"processing"}]
    /\ published \subseteq Auth
    /\ account \in BOOLEAN
    /\ {cache, held} \subseteq Nonce \cup {NoNonce}
    /\ used \subseteq {cache, held} /\ expired \subseteq {cache, held}
    /\ pc \in PC
    /\ auth \in Auth
    /\ i \in 0..(IF AuthPolls > OrderPolls THEN AuthPolls ELSE OrderPolls)
    /\ seen \in Status
    /\ authSeen \in [Auth -> AuthStatus]
    /\ orderSeen \in Status

Init ==
    /\ srvOrder = "invalid"
    /\ srvAuth = [a \in Auth |-> "pending"]
    /\ srvChal = [a \in Auth |-> "pending"]
    /\ published = {}
    /\ account = FALSE
    /\ cache = NoNonce /\ held = NoNonce
    /\ used = {} /\ expired = {}
    /\ pc = "idle"
    /\ auth = 1
    /\ i = 0
    /\ seen = "pending"
    /\ authSeen = [a \in Auth |-> "pending"]
    /\ orderSeen = "pending"

----------------------------------------------------------------------------
(* The requests. *)

Goto(l) == pc' = l

\* Does the loop go on?  Each has its own idea of a status that is final.
Waiting ==
    \/ pc = "challenge" /\ seen \in {"pending", "processing"}
    \/ pc \in {"authz", "ready"} /\ seen = "pending"
    \/ pc = "issued" /\ seen \notin {"valid", "invalid"}

Polls == IF pc \in {"challenge", "authz"} THEN AuthPolls ELSE OrderPolls

Polled ==
    CASE pc = "challenge" -> srvChal[auth]
      [] pc = "authz" -> srvAuth[auth]
      [] OTHER -> srvOrder

FreshNonce == Nonce \ {cache, held}

\* Variant: the nonce is copied out of the cache, not taken.
GetNonceCopied ==
    /\ pc \in Signed /\ held = NoNonce
    /\ pc \in Loops => Waiting /\ i < Polls
    /\ \/ cache # NoNonce /\ held' = cache
       \/ cache = NoNonce /\ held' \in FreshNonce
    /\ UNCHANGED <<server, published, account, cache, used, expired, pc, client>>

\* get_nonce: a cached nonce is taken out of the cache; only without one is
\* the server asked.
GetNonce ==
    /\ pc \in Signed /\ held = NoNonce
    /\ pc \in Loops => Waiting /\ i < Polls
    /\ \/ cache # NoNonce /\ held' = cache
       \/ cache = NoNonce /\ held' \in FreshNonce
    /\ cache' = NoNonce
    /\ UNCHANGED <<server, published, account, used, expired, pc, client>>

\* The server accepts the nonce of the request; a success may bring another.
Exchange(l) ==
    /\ pc = l
    /\ held \notin used \cup expired \cup {NoNonce}
    /\ cache' \in FreshNonce \cup {cache}
    /\ held' = NoNonce
    /\ used' = {} /\ expired' = {}

\* An error leaves order_certificate through `?`; the nonce is gone.
Fail ==
    /\ Goto("failed")
    /\ held' = NoNonce
    /\ used' = (used \cup {held}) \cap {cache} \cap Nonce
    /\ expired' = expired \cap {cache}
    /\ UNCHANGED <<server, published, account, cache, client>>

\* Any request, signed or not, may fail, before the server saw it or after.
\* One with a nonce the server does not accept can do nothing else.
CallFails ==
    /\ pc \notin Ended
    /\ pc \in Signed => held # NoNonce
    /\ Fail

----------------------------------------------------------------------------
(* The client. *)

\* The cached account is used again, with its Directory and nonce.
Start ==
    /\ pc \in Ended
    /\ Goto(IF account THEN "newOrder" ELSE "directory")
    /\ auth' = 1 /\ i' = 0
    /\ seen' = "pending" /\ orderSeen' = "pending"
    /\ authSeen' = [a \in Auth |-> "pending"]
    /\ UNCHANGED <<server, published, account, nonces>>

FetchDirectory ==
    /\ pc = "directory"
    /\ cache' = NoNonce
    /\ used' = {} /\ expired' = {}
    /\ Goto("newAccount")
    /\ UNCHANGED <<server, published, account, held, client>>

NewAccount ==
    /\ Exchange("newAccount")
    /\ account' = TRUE
    /\ Goto("newOrder")
    /\ UNCHANGED <<server, published, client>>

\* The server may have authorized some of the domains before.
NewOrder ==
    /\ Exchange("newOrder")
    /\ srvAuth' \in [Auth -> {"pending", "valid"}]
    /\ srvChal' = srvAuth'
    /\ srvOrder' = IF \A a \in Auth : srvAuth'[a] = "valid"
                   THEN "ready" ELSE "pending"
    /\ orderSeen' = srvOrder'
    /\ published' = {}
    /\ Goto("authorizations")
    /\ UNCHANGED <<account, auth, i, seen, authSeen>>

\* One request per authorization, then the challenges one by one.
Authorizations ==
    /\ Exchange("authorizations")
    /\ authSeen' = [authSeen EXCEPT ![auth] = srvAuth[auth]]
    /\ auth' = IF auth = NAuth THEN 1 ELSE auth + 1
    /\ Goto(IF auth = NAuth THEN "publish" ELSE "authorizations")
    /\ UNCHANGED <<server, published, account, i, seen, orderSeen>>

\* key_authorization, then put_object.
PublishChallenge ==
    /\ pc = "publish"
    /\ published' = published \cup {auth}
    /\ Goto("validate")
    /\ UNCHANGED <<server, account, nonces, client>>

\* The answer is the challenge as the server then has it.
ValidateChallenge ==
    /\ Exchange("validate")
    /\ srvChal' = [srvChal EXCEPT ![auth] =
                     IF @ = "pending" THEN "processing" ELSE @]
    /\ seen' = srvChal'[auth]
    /\ i' = 0
    /\ Goto("challenge")
    /\ UNCHANGED <<srvOrder, srvAuth, published, account, auth, authSeen,
                   orderSeen>>

\* Variant: the polls are not counted.
PollUncounted ==
    /\ Waiting
    /\ Exchange(pc)
    /\ seen' = Polled
    /\ UNCHANGED <<server, published, account, pc, auth, i, authSeen, orderSeen>>

\* One turn of a polling loop: sleep, ask, look.
Poll ==
    /\ Waiting /\ i < Polls
    /\ Exchange(pc)
    /\ i' = i + 1
    /\ seen' = Polled
    /\ UNCHANGED <<server, published, account, pc, auth, authSeen, orderSeen>>

GiveUp == Waiting /\ i >= Polls /\ held = NoNonce /\ Fail

\* Variant: any order that is done is taken to have a certificate.
HasCertificateWhenDone == seen \in {"valid", "invalid"}

\* Only a valid order has a certificate_url.
HasCertificate == seen = "valid"

\* A loop ends with its object valid or invalid: order_certificate does not
\* look.  The next loop starts from the status the client has of old.
LoopEnds ==
    /\ pc \in Loops /\ ~Waiting
    /\ \/ /\ pc = "challenge"
          /\ seen' = authSeen[auth] /\ Goto("authz")
          /\ UNCHANGED auth
       \/ /\ pc = "authz" /\ auth < NAuth
          /\ auth' = auth + 1 /\ Goto("publish")
          /\ UNCHANGED seen
       \/ /\ pc = "authz" /\ auth = NAuth
          /\ seen' = orderSeen /\ Goto("ready")
          /\ UNCHANGED auth
       \/ /\ pc = "ready" /\ Goto("finalize")
          /\ UNCHANGED <<auth, seen>>
       \/ /\ pc = "issued" /\ HasCertificate /\ Goto("download")
          /\ UNCHANGED <<auth, seen>>
    /\ i' = 0
    /\ UNCHANGED <<server, published, account, nonces, authSeen, orderSeen>>

\* The server finalizes only an order that is ready.
Finalize ==
    /\ Exchange("finalize")
    /\ srvOrder = "ready"
    /\ srvOrder' \in {"processing", "valid"}
    /\ seen' = srvOrder'
    /\ Goto("issued")
    /\ UNCHANGED <<srvAuth, srvChal, published, account, auth, i, authSeen,
                   orderSeen>>

NoCertificate == pc = "issued" /\ ~Waiting /\ ~HasCertificate /\ Fail

Download ==
    /\ Exchange("download")
    /\ Goto("done")
    /\ UNCHANGED <<server, published, account, client>>

----------------------------------------------------------------------------
(* The server (external). *)

\* It fetches the key authorization and settles challenge, authorization and
\* order together.
SettleChallenge(a) ==
    /\ srvChal[a] = "processing"
    /\ \E st \in {"invalid"} \cup (IF a \in published THEN {"valid"} ELSE {}) :
          /\ srvChal' = [srvChal EXCEPT ![a] = st]
          /\ srvAuth' = [srvAuth EXCEPT ![a] = st]
    /\ srvOrder' = IF \E b \in Auth : srvAuth'[b] = "invalid" THEN "invalid"
                   ELSE IF \A b \in Auth : srvAuth'[b] = "valid" THEN "ready"
                   ELSE srvOrder
    /\ UNCHANGED <<published, account, nonces, pc, client>>

SettleOrder ==
    /\ srvOrder = "processing"
    /\ srvOrder' \in {"valid", "invalid"}
    /\ UNCHANGED <<srvAuth, srvChal, published, account, nonces, pc, client>>

\* A nonce it issued a while ago expires.
NonceExpires ==
    /\ \E n \in {cache, held} \ (expired \cup {NoNonce}) :
          expired' = expired \cup {n}
    /\ UNCHANGED <<server, published, account, cache, held, used, pc, client>>

Step ==
    \/ GetNonce \/ FetchDirectory \/ NewAccount \/ NewOrder \/ Authorizations
    \/ PublishChallenge \/ ValidateChallenge \/ Poll \/ GiveUp \/ LoopEnds
    \/ Finalize \/ NoCertificate \/ Download \/ CallFails

Server == (\E a \in Auth : SettleChallenge(a)) \/ SettleOrder \/ NonceExpires

Next == Start \/ Step \/ Server

Spec == Init /\ [][Next]_vars

\* Every await of the client returns, with an answer or an error; the server
\* owes no progress.
FairSpec == Spec /\ WF_vars(Step)

----------------------------------------------------------------------------
(***************************************************************************)
(* No nonce is sent twice, within an order or over all the orders that     *)
(* share a cached Directory, whichever requests fail in between. Every     *)
(* variable keeps its type.                                                *)
(***************************************************************************)
NonceSentOnce == TypeOK /\ held \notin used

(***************************************************************************)
(* Statuses are not inspected on the way (an invalid challenge passes its  *)
(* loop), yet an order that returns a certificate was authorized for every *)
(* domain and issued.                                                      *)
(***************************************************************************)
CertificateWasAuthorized ==
    pc = "done" => /\ srvOrder = "valid"
                   /\ \A a \in Auth : srvAuth[a] = "valid"

(***************************************************************************)
(* Every order ends, with a certificate or an error, though the server     *)
(* may leave its objects pending for ever.                                 *)
(***************************************************************************)
EveryOrderEnds == pc \notin Ended ~> pc \in Ended
=============================================================================
