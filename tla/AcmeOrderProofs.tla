--------------------------- MODULE AcmeOrderProofs ---------------------------
(***************************************************************************)
(* The ACME client, for any number of authorizations, polls and nonces,    *)
(* against a server that settles, delays and forgets as it likes: no nonce *)
(* is sent twice, a certificate is returned only by an order that was      *)
(* authorized and issued, and an order has only so many steps.             *)
(***************************************************************************)
EXTENDS AcmeOrder, TLAPS

(* A nonce is in the cache or in a request, never in both: nothing that is *)
(* kept was ever sent.                                                     *)
NonceInv ==
    /\ held # NoNonce => cache = NoNonce
    /\ used = {}

(* The server's objects agree: a challenge that is not settled leaves its  *)
(* authorization pending, and an order is past pending only when every     *)
(* authorization is valid.                                                 *)
ServerInv ==
    /\ \A a \in Auth : srvChal[a] \in {"pending", "processing"} => srvAuth[a] = "pending"
    /\ srvOrder \in {"ready", "processing", "valid"} =>
          \A a \in Auth : srvAuth[a] = "valid"

(* What the client has seen of an order that it has finalized. *)
IssuedInv ==
    /\ pc = "issued" /\ seen = "valid" => srvOrder = "valid"
    /\ pc \in {"download", "done"} => srvOrder = "valid"

Inv == TypeOK /\ NonceInv /\ ServerInv /\ IssuedInv

USE DEF server, nonces, client

-----------------------------------------------------------------------------
LEMMA InvInit == Init => Inv
<1> SUFFICES ASSUME Init PROVE Inv
  OBVIOUS
<1>1. 1 \in Auth /\ 0 \in 0..(IF AuthPolls > OrderPolls THEN AuthPolls ELSE OrderPolls)
  BY PollsAreNat DEF Auth
<1>2. TypeOK
  BY <1>1 DEF Init, TypeOK, Status, AuthStatus, PC, Ended
<1> QED
  BY <1>2 DEF Init, Inv, NonceInv, ServerInv, IssuedInv

(* The types, by groups of variables. *)
ServerType ==
    /\ srvOrder \in Status
    /\ srvAuth \in [Auth -> AuthStatus]
    /\ srvChal \in [Auth -> AuthStatus \cup {"processing"}]

NonceType ==
    /\ {cache, held} \subseteq Nonce \cup {NoNonce}
    /\ used \subseteq {cache, held} /\ expired \subseteq {cache, held}

ClientType ==
    /\ auth \in Auth
    /\ i \in 0..(IF AuthPolls > OrderPolls THEN AuthPolls ELSE OrderPolls)
    /\ seen \in Status
    /\ authSeen \in [Auth -> AuthStatus]
    /\ orderSeen \in Status

LEMMA TypeParts ==
  TypeOK <=> /\ ServerType /\ NonceType /\ ClientType
             /\ published \subseteq Auth /\ account \in BOOLEAN /\ pc \in PC
  BY DEF TypeOK, ServerType, NonceType, ClientType

(* A step that fails the order, or ends a request. *)
LEMMA FailNonces ==
  ASSUME NonceType, NonceInv, Fail PROVE NonceType' /\ NonceInv'
  BY NonceSuffice DEF NonceType, NonceInv, Fail

LEMMA ExchangeNonces ==
  ASSUME NonceType, NEW l, Exchange(l) PROVE NonceType' /\ NonceInv'
  BY DEF NonceType, NonceInv, Exchange, FreshNonce

LEMMA NonceStep ==
  ASSUME Inv, [Next]_vars PROVE NonceType' /\ NonceInv'
<1>0. NonceType /\ NonceInv
  BY DEF Inv, TypeOK, NonceType
<1>1. CASE GetNonce
  BY <1>0, <1>1 DEF GetNonce, NonceType, NonceInv, FreshNonce
<1>2. CASE FetchDirectory
  BY <1>0, <1>2 DEF FetchDirectory, NonceType, NonceInv
<1>3. CASE NewAccount \/ NewOrder \/ Authorizations \/ ValidateChallenge \/ Poll
           \/ Finalize \/ Download
  BY <1>0, <1>3, ExchangeNonces DEF NewAccount, NewOrder, Authorizations,
     ValidateChallenge, Poll, Finalize, Download
<1>4. CASE GiveUp \/ NoCertificate \/ CallFails
  BY <1>0, <1>4, FailNonces DEF GiveUp, NoCertificate, CallFails
<1>5. CASE NonceExpires
  BY <1>0, <1>5 DEF NonceExpires, NonceType, NonceInv
<1>6. CASE UNCHANGED nonces
  BY <1>0, <1>6 DEF NonceType, NonceInv
<1> QED
  BY <1>1, <1>2, <1>3, <1>4, <1>5, <1>6 DEF Next, Step, Server, Start, PublishChallenge,
     LoopEnds, SettleChallenge, SettleOrder, vars

LEMMA ServerStep ==
  ASSUME Inv, [Next]_vars PROVE ServerType' /\ ServerInv'
<1> USE DEF AuthStatus, Status
<1>0. ServerType /\ ServerInv /\ auth \in Auth
  BY DEF Inv, TypeOK, ServerType
<1>1. CASE NewOrder
  <2>1. PICK f \in [Auth -> {"pending", "valid"}] :
          /\ srvAuth' = f /\ srvChal' = f
          /\ srvOrder' = IF \A a \in Auth : f[a] = "valid" THEN "ready" ELSE "pending"
    BY <1>1 DEF NewOrder
  <2> QED
    BY <2>1 DEF ServerType, ServerInv
<1>2. CASE ValidateChallenge
  BY <1>0, <1>2 DEF ValidateChallenge, ServerType, ServerInv
<1>3. CASE Finalize
  BY <1>0, <1>3 DEF Finalize, ServerType, ServerInv
<1>4. ASSUME NEW a \in Auth, SettleChallenge(a) PROVE ServerType' /\ ServerInv'
  <2>1. PICK st \in {"invalid", "valid"} :
          /\ srvChal' = [srvChal EXCEPT ![a] = st]
          /\ srvAuth' = [srvAuth EXCEPT ![a] = st]
    BY <1>4 DEF SettleChallenge
  <2>2. srvOrder \notin {"ready", "processing", "valid"}
    BY <1>0, <1>4 DEF SettleChallenge, ServerInv
  <2>3. ServerType'
    BY <1>0, <1>4, <2>1 DEF SettleChallenge, ServerType
  <2>4. srvOrder' \in {"ready", "processing", "valid"} =>
          \A b \in Auth : srvAuth'[b] = "valid"
    BY <1>4, <2>2 DEF SettleChallenge
  <2>5. \A b \in Auth : srvChal'[b] \in {"pending", "processing"} => srvAuth'[b] = "pending"
    BY <1>0, <2>1 DEF ServerType, ServerInv
  <2> QED
    BY <2>3, <2>4, <2>5 DEF ServerInv
<1>5. CASE SettleOrder
  BY <1>0, <1>5 DEF SettleOrder, ServerType, ServerInv
<1>6. CASE UNCHANGED server
  BY <1>0, <1>6 DEF ServerType, ServerInv
<1> QED
  BY <1>1, <1>2, <1>3, <1>4, <1>5, <1>6 DEF Next, Step, Server, Start, GetNonce,
     FetchDirectory, NewAccount, Authorizations, PublishChallenge, Poll, GiveUp, LoopEnds,
     NoCertificate, Download, CallFails, Fail, NonceExpires, vars

LEMMA ClientStep ==
  ASSUME Inv, [Next]_vars
  PROVE  /\ ClientType' /\ published' \subseteq Auth
         /\ account' \in BOOLEAN /\ pc' \in PC
<1> USE DEF AuthStatus, Status, PC, Signed, Loops, Ended, Goto
<1> DEFINE MaxPolls == IF AuthPolls > OrderPolls THEN AuthPolls ELSE OrderPolls
           Good == /\ ClientType /\ published \subseteq Auth
                   /\ account \in BOOLEAN /\ pc \in PC
<1>0. Good /\ ServerType /\ 1 \in Auth /\ 0 \in 0..MaxPolls
  BY PollsAreNat DEF Inv, TypeOK, ServerType, ClientType, Auth
<1>1. CASE Start
  BY <1>0, <1>1 DEF Start, ClientType
<1>2. CASE GetNonce \/ FetchDirectory \/ NewAccount \/ Download \/ PublishChallenge
  BY <1>0, <1>2 DEF GetNonce, FetchDirectory, NewAccount, Download, PublishChallenge,
     ClientType
<1>3. CASE NewOrder
  <2>1. srvOrder' \in {"ready", "pending"}
    BY <1>3 DEF NewOrder
  <2> QED
    BY <1>0, <1>3, <2>1 DEF NewOrder, ClientType
<1>4. CASE Authorizations
  <2>1. auth' \in Auth
    BY <1>0, <1>4, PollsAreNat DEF Authorizations, ClientType, Auth
  <2>2. authSeen' \in [Auth -> AuthStatus]
    BY <1>0, <1>4 DEF Authorizations, ClientType, ServerType
  <2> QED
    BY <1>0, <1>4, <2>1, <2>2 DEF Authorizations, ClientType
<1>5. CASE ValidateChallenge
  <2>1. seen' \in Status
    BY <1>0, <1>5 DEF ValidateChallenge, ServerType, ClientType
  <2> QED
    BY <1>0, <1>5, <2>1 DEF ValidateChallenge, ClientType
<1>6. CASE Poll
  <2>1. Polled \in Status
    BY <1>0 DEF Polled, ServerType, ClientType
  <2>2. i + 1 \in 0..MaxPolls
    BY <1>0, <1>6, PollsAreNat DEF Poll, Polls, ClientType
  <2> QED
    BY <1>0, <1>6, <2>1, <2>2 DEF Poll, ClientType
<1>7. CASE LoopEnds
  <2>1. auth' \in Auth
    BY <1>0, <1>7, PollsAreNat DEF LoopEnds, ClientType, Auth
  <2>2. seen' \in Status
    BY <1>0, <1>7 DEF LoopEnds, ClientType
  <2> QED
    BY <1>0, <1>7, <2>1, <2>2 DEF LoopEnds, ClientType
<1>8. CASE Finalize
  <2>1. srvOrder' \in Status
    BY <1>8 DEF Finalize
  <2> QED
    BY <1>0, <1>8, <2>1 DEF Finalize, ClientType
<1>9. CASE GiveUp \/ NoCertificate \/ CallFails
  BY <1>0, <1>9 DEF GiveUp, NoCertificate, CallFails, Fail, ClientType
<1>10. CASE UNCHANGED <<published, account, pc, client>>
  BY <1>0, <1>10 DEF ClientType
<1> QED
  BY <1>1, <1>2, <1>3, <1>4, <1>5, <1>6, <1>7, <1>8, <1>9, <1>10 DEF Next, Step, Server,
     SettleChallenge, SettleOrder, NonceExpires, vars

(* Only a new order replaces an issued one, and only Finalize and the polls *)
(* after it look at whether it was issued.                                  *)
LEMMA IssuedStep ==
  ASSUME Inv, [Next]_vars PROVE IssuedInv'
<1> USE DEF Goto
<1>0. IssuedInv /\ ServerInv
  BY DEF Inv
<1>1. CASE Poll
  BY <1>0, <1>1 DEF Poll, Polled, Waiting, IssuedInv
<1>2. CASE Finalize
  BY <1>2 DEF Finalize, IssuedInv
<1>3. CASE LoopEnds
  BY <1>0, <1>3 DEF LoopEnds, HasCertificate, IssuedInv
<1>4. CASE Download
  BY <1>0, <1>4 DEF Download, Exchange, IssuedInv
<1>5. CASE Start \/ FetchDirectory \/ NewAccount \/ NewOrder \/ Authorizations
           \/ PublishChallenge \/ ValidateChallenge \/ GiveUp \/ NoCertificate \/ CallFails
  <2>1. pc' \notin {"issued", "download", "done"}
    BY <1>5 DEF Start, FetchDirectory, NewAccount, NewOrder, Authorizations,
       PublishChallenge, ValidateChallenge, GiveUp, NoCertificate, CallFails, Fail
  <2> QED
    BY <2>1 DEF IssuedInv
<1>6. ASSUME NEW a \in Auth, SettleChallenge(a) PROVE IssuedInv'
  <2>1. srvOrder # "valid"
    BY <1>0, <1>6 DEF SettleChallenge, ServerInv
  <2> QED
    BY <1>0, <1>6, <2>1 DEF SettleChallenge, IssuedInv
<1>7. CASE SettleOrder
  BY <1>0, <1>7 DEF SettleOrder, IssuedInv
<1>8. CASE UNCHANGED <<srvOrder, pc, seen>>
  BY <1>0, <1>8 DEF IssuedInv
<1> QED
  BY <1>1, <1>2, <1>3, <1>4, <1>5, <1>6, <1>7, <1>8 DEF Next, Step, Server, GetNonce,
     NonceExpires, vars

-----------------------------------------------------------------------------
(* The inductive invariant, for any server. *)
THEOREM OrderInvariant == Spec => []Inv
<1>1. Inv /\ [Next]_vars => Inv'
  <2> SUFFICES ASSUME Inv, [Next]_vars PROVE Inv'
    OBVIOUS
  <2>1. (TypeOK <=> /\ ServerType /\ NonceType /\ ClientType
                    /\ published \subseteq Auth /\ account \in BOOLEAN /\ pc \in PC)'
    BY TypeParts DEF TypeOK, ServerType, NonceType, ClientType
  <2> QED
    BY <2>1, NonceStep, ServerStep, ClientStep, IssuedStep DEF Inv
<1> QED
  BY <1>1, InvInit, PTL DEF Spec

(* No nonce is sent twice: get_nonce takes it out of the one-place cache,  *)
(* and an answer replaces what is there only with a nonce that is new.     *)
THEOREM NoncesAreSentOnce == Spec => []NonceSentOnce
<1>1. Inv => NonceSentOnce
  BY DEF Inv, NonceInv, NonceSentOnce
<1> QED
  BY <1>1, OrderInvariant, PTL

(* A certificate that is returned was authorized for every domain. *)
THEOREM CertificatesAreAuthorized == Spec => []CertificateWasAuthorized
<1>1. Inv => CertificateWasAuthorized
  BY DEF Inv, IssuedInv, ServerInv, CertificateWasAuthorized
<1> QED
  BY <1>1, OrderInvariant, PTL

-----------------------------------------------------------------------------
(***************************************************************************)
(* How long an order may take.  A signed request is two steps, and a loop  *)
(* one more than its polls.  Each authorization is published, validated    *)
(* and polled twice; the order is polled twice too, with the finalize      *)
(* request in between, before the certificate is downloaded.               *)
(***************************************************************************)
Loop(n) == 2 * n + 1

AuthSteps == 1 + 2 + 2 * Loop(AuthPolls)
FinalSteps == 2 * Loop(OrderPolls) + 2 + 2
OrderSteps == 2 + 2 * NAuth + NAuth * AuthSteps + FinalSteps

\* What is to do after the current authorization.
Later == (NAuth - auth) * AuthSteps + FinalSteps

\* The steps that an order may still take, its current request not begun.
Left ==
    CASE pc = "directory" -> 1 + 2 + OrderSteps
      [] pc = "newAccount" -> 2 + OrderSteps
      [] pc = "newOrder" -> OrderSteps
      [] pc = "authorizations" -> 2 * (NAuth - auth + 1) + NAuth * AuthSteps + FinalSteps
      [] pc = "publish" -> AuthSteps + Later
      [] pc = "validate" -> 2 + 2 * Loop(AuthPolls) + Later
      [] pc = "challenge" -> Loop(AuthPolls - i) + Loop(AuthPolls) + Later
      [] pc = "authz" -> Loop(AuthPolls - i) + Later
      [] pc = "ready" -> Loop(OrderPolls - i) + 2 + Loop(OrderPolls) + 2
      [] pc = "finalize" -> 2 + Loop(OrderPolls) + 2
      [] pc = "issued" -> Loop(OrderPolls - i) + 2
      [] pc = "download" -> 2
      [] OTHER -> 0

StepsLeft == IF held = NoNonce THEN Left ELSE Left - 1

\* No loop has polled too often, each starts from zero, and a nonce is held
\* only by a request that is being made.
LoopInv ==
    /\ pc \in Loops => i <= Polls
    /\ pc = "finalize" => i = 0
    /\ pc \in {"directory", "newAccount", "newOrder"} => auth = 1
    /\ held # NoNonce => pc \in Signed /\ (pc \in Loops => Waiting /\ i < Polls)

(* What an order has left to do is bounded, and nothing when it has ended. *)
StepsAreBounded ==
    /\ StepsLeft \in 0..(OrderSteps + 3)
    /\ StepsLeft = 0 <=> pc \in Ended

(* It is less after each step of the order, and what the server does in    *)
(* between makes it no longer.                                             *)
StepsRunDown ==
    /\ Step => StepsLeft' < StepsLeft
    /\ Server => StepsLeft' = StepsLeft

LEMMA LoopStep ==
  ASSUME Inv, LoopInv, [Next]_vars PROVE LoopInv'
<1> USE DEF Signed, Loops, Ended, Goto, LoopInv
<1>0. /\ AuthPolls \in Nat /\ OrderPolls \in Nat /\ i \in Nat
      /\ NoNonce \notin Nonce
  BY PollsAreNat, NonceSuffice DEF Inv, TypeOK
<1>1. CASE Start
  BY <1>1 DEF Start
<1>2. CASE GetNonce
  BY <1>2 DEF GetNonce, Waiting, Polls
<1>3. CASE FetchDirectory \/ NewAccount \/ NewOrder \/ Authorizations \/ Download
  <2>1. held' = NoNonce /\ (pc' = "newAccount" \/ pc' = "newOrder" => auth' = auth)
    BY <1>3 DEF FetchDirectory, NewAccount, NewOrder, Authorizations, Download, Exchange
  <2> QED
    BY <1>3, <2>1 DEF FetchDirectory, NewAccount, NewOrder, Authorizations, Download,
       Exchange
<1>4. CASE PublishChallenge
  BY <1>4 DEF PublishChallenge
<1>5. CASE ValidateChallenge
  BY <1>0, <1>5 DEF ValidateChallenge, Exchange, Polls
<1>6. CASE Poll
  <2>1. /\ pc \in Loops /\ pc' = pc /\ held' = NoNonce /\ i' = i + 1 /\ i < Polls
    BY <1>6 DEF Poll, Exchange, Waiting
  <2>2. i' <= Polls'
    BY <1>0, <2>1 DEF Polls
  <2> QED
    BY <2>1, <2>2
<1>7. CASE LoopEnds
  <2>1. held' = NoNonce /\ i' = 0
    BY <1>7 DEF LoopEnds
  <2>2. pc' \in {"authz", "publish", "ready", "finalize", "download"}
    BY <1>7 DEF LoopEnds
  <2> QED
    BY <1>0, <2>1, <2>2 DEF Polls
<1>8. CASE Finalize
  BY <1>0, <1>8 DEF Finalize, Exchange, Polls
<1>9. CASE GiveUp \/ NoCertificate \/ CallFails
  BY <1>9 DEF GiveUp, NoCertificate, CallFails, Fail
<1>10. CASE UNCHANGED <<held, pc, client>>
  BY <1>10 DEF Waiting, Polls
<1> QED
  BY <1>1, <1>2, <1>3, <1>4, <1>5, <1>6, <1>7, <1>8, <1>9, <1>10 DEF Next, Step, Server,
     SettleChallenge, SettleOrder, NonceExpires, vars

(* One authorization less is AuthSteps less. *)
LEMMA StepCounts ==
  /\ AuthSteps \in Nat /\ FinalSteps \in Nat
  /\ AuthSteps = 3 + 2 * Loop(AuthPolls) /\ FinalSteps = 2 * Loop(OrderPolls) + 4
  /\ NAuth * AuthSteps \in Nat
  /\ \A a \in Auth :
        /\ (NAuth - a) * AuthSteps \in Nat
        /\ AuthSteps + (NAuth - a) * AuthSteps <= NAuth * AuthSteps
        /\ AuthSteps + (NAuth - (a + 1)) * AuthSteps = (NAuth - a) * AuthSteps
  /\ AuthSteps + (NAuth - 1) * AuthSteps = NAuth * AuthSteps
<1>1. /\ AuthSteps \in Nat /\ FinalSteps \in Nat
      /\ AuthSteps = 3 + 2 * Loop(AuthPolls) /\ FinalSteps = 2 * Loop(OrderPolls) + 4
  BY PollsAreNat DEF AuthSteps, FinalSteps, Loop
<1>2. NAuth \in Nat \ {0}
  BY PollsAreNat
<1>3. ASSUME NEW n \in Nat, NEW a \in 1..n, NEW s \in Nat
      PROVE  /\ (n - a) * s \in Nat
             /\ s + (n - a) * s <= n * s
             /\ s + (n - (a + 1)) * s = (n - a) * s
             /\ s + (n - 1) * s = n * s
  <2>1. n - a \in Nat /\ a - 1 \in Nat
    OBVIOUS
  <2>2. (n - a) * s \in Nat /\ (a - 1) * s \in Nat
    BY <2>1
  <2>3. n * s = (n - a) * s + (a - 1) * s + s
    BY <2>1
  <2>4. s + (n - a) * s <= n * s
    BY <2>2, <2>3
  <2> QED
    BY <2>2, <2>4
<1>4. NAuth * AuthSteps \in Nat
  BY <1>1, <1>2
<1>5. 1 \in Auth /\ \A a \in Auth : a \in 1..NAuth
  BY <1>2 DEF Auth
<1> HIDE DEF AuthSteps
<1> QED
  BY <1>1, <1>2, <1>3, <1>4, <1>5

(* What is left, place by place. *)
LeftByPlace ==
    /\ pc = "directory" => Left = 1 + 2 + OrderSteps
    /\ pc = "newAccount" => Left = 2 + OrderSteps
    /\ pc = "newOrder" => Left = OrderSteps
    /\ pc = "authorizations" => Left = 2 * (NAuth - auth + 1) + NAuth * AuthSteps + FinalSteps
    /\ pc = "publish" => Left = AuthSteps + Later
    /\ pc = "validate" => Left = 2 + 2 * Loop(AuthPolls) + Later
    /\ pc = "challenge" => Left = Loop(AuthPolls - i) + Loop(AuthPolls) + Later
    /\ pc = "authz" => Left = Loop(AuthPolls - i) + Later
    /\ pc = "ready" => Left = Loop(OrderPolls - i) + 2 + Loop(OrderPolls) + 2
    /\ pc = "finalize" => Left = 2 + Loop(OrderPolls) + 2
    /\ pc = "issued" => Left = Loop(OrderPolls - i) + 2
    /\ pc = "download" => Left = 2
    /\ pc \in Ended => Left = 0

LEMMA LeftAt == LeftByPlace /\ LeftByPlace'
<1>1. LeftByPlace
  BY Zenon DEF LeftByPlace, Left, Ended
<1>2. LeftByPlace'
  BY Zenon DEF LeftByPlace, Left, Ended
<1> QED
  BY <1>1, <1>2

(* What is left, as a sum of numbers. *)
LEMMA LeftTypes ==
  ASSUME Inv, LoopInv
  PROVE  /\ Later \in Nat /\ AuthSteps + Later <= NAuth * AuthSteps + FinalSteps
         /\ Left \in 0..(OrderSteps + 3)
         /\ Left = 0 <=> pc \in Ended
         /\ pc \in Signed => Left >= 2
<1> DEFINE T == NAuth * AuthSteps
<1>0. /\ auth \in Auth /\ AuthPolls \in Nat /\ OrderPolls \in Nat /\ i \in Nat
      /\ NAuth \in Nat /\ auth \in 1..NAuth /\ pc \in PC
  BY PollsAreNat DEF Inv, TypeOK, Auth
<1>1. Later \in Nat /\ AuthSteps + Later <= T + FinalSteps
  BY <1>0, StepCounts DEF Later
<1>2. OrderSteps = 2 + 2 * NAuth + T + FinalSteps /\ T \in Nat /\ FinalSteps \in Nat
  BY StepCounts DEF OrderSteps
<1>3. /\ FinalSteps = 4 * OrderPolls + 6 /\ AuthSteps = 4 * AuthPolls + 5
  BY <1>0, StepCounts DEF Loop
<1>4. pc \in Loops => i <= Polls
  BY DEF LoopInv
<1> HIDE DEF T
<1> DEFINE Good == /\ Left \in 0..(OrderSteps + 3) /\ (Left = 0 <=> pc \in Ended)
                   /\ pc \in Signed => Left >= 2
<1>5. ASSUME Left \in 2..(OrderSteps + 3), pc \notin Ended PROVE Good
  BY <1>2, <1>5
<1> SUFFICES Good
  BY <1>1 DEF T
<1> USE DEF Loop, Ended, Signed, Loops
<1>6. CASE pc \in {"directory", "newAccount", "newOrder"}
  <2>1. Left \in {OrderSteps, 2 + OrderSteps, 3 + OrderSteps}
    BY <1>2, <1>6, LeftAt DEF LeftByPlace
  <2> QED
    BY <1>0, <1>2, <1>5, <1>6, <2>1
<1>7. CASE pc = "authorizations"
  <2>1. Left = 2 * (NAuth - auth + 1) + T + FinalSteps
    BY <1>7, LeftAt DEF LeftByPlace, T
  <2>2. Left \in 2..(OrderSteps + 3)
    BY <1>0, <1>2, <2>1
  <2> QED
    BY <1>5, <1>7, <2>2
<1>8. CASE pc \in {"publish", "validate", "challenge", "authz"}
  <2>1. \/ Left = AuthSteps + Later
        \/ Left = 2 + 2 * Loop(AuthPolls) + Later
        \/ pc \in Loops /\ Left = Loop(AuthPolls - i) + Loop(AuthPolls) + Later
        \/ pc \in Loops /\ Left = Loop(AuthPolls - i) + Later
    BY <1>8, LeftAt DEF LeftByPlace
  <2>2. pc \in Loops => i <= AuthPolls
    BY <1>4, <1>8 DEF Polls
  <2>3. Left \in 1..(AuthSteps + Later)
    BY <1>0, <1>1, <1>3, <2>1, <2>2
  <2>4. Left >= 2
    BY <1>0, <1>1, <1>2, <1>3, <2>1, <2>2 DEF Later
  <2> QED
    BY <1>0, <1>1, <1>2, <1>3, <1>5, <1>8, <2>3, <2>4
<1>9. CASE pc \in {"ready", "finalize", "issued", "download"}
  <2>1. \/ pc \in Loops /\ Left = Loop(OrderPolls - i) + 2 + Loop(OrderPolls) + 2
        \/ Left = 2 + Loop(OrderPolls) + 2
        \/ pc \in Loops /\ Left = Loop(OrderPolls - i) + 2
        \/ Left = 2
    BY <1>9, LeftAt DEF LeftByPlace
  <2>2. pc \in Loops => i <= OrderPolls
    BY <1>4, <1>9 DEF Polls
  <2>3. Left \in 2..FinalSteps
    BY <1>0, <1>3, <2>1, <2>2
  <2> QED
    BY <1>0, <1>2, <1>5, <1>9, <2>3
<1>10. CASE pc \in Ended
  <2>1. Left = 0
    BY <1>10, LeftAt DEF LeftByPlace
  <2> QED
    BY <1>0, <1>2, <1>10, <2>1
<1> QED
  BY <1>0, <1>6, <1>7, <1>8, <1>9, <1>10 DEF PC

(* Every step of the order leaves less to do, and the server's leave as    *)
(* much.                                                                   *)
LEMMA RunDown == ASSUME Inv, LoopInv, Next PROVE StepsRunDown
<1>0. /\ auth \in Auth /\ AuthPolls \in Nat /\ OrderPolls \in Nat /\ i \in Nat
      /\ NAuth \in Nat \ {0} /\ auth \in 1..NAuth /\ pc \in PC /\ NoNonce \notin Nonce
  BY PollsAreNat, NonceSuffice DEF Inv, TypeOK, Auth
<1>1. /\ Later \in Nat /\ Left \in Nat /\ (Left = 0 <=> pc \in Ended)
      /\ pc \in Signed => Left >= 2
  BY LeftTypes
<1>2. LoopInv
  OBVIOUS
<1>3. ASSUME NEW l, Exchange(l), Left' \in Nat, Left' + 2 <= Left
      PROVE  StepsLeft' < StepsLeft
  <2>1. held # NoNonce /\ held' = NoNonce
    BY <1>3 DEF Exchange
  <2>2. StepsLeft = Left - 1 /\ StepsLeft' = Left'
    BY <2>1 DEF StepsLeft
  <2>3. \A m, n \in Nat : m + 2 <= n => m < n - 1
    OBVIOUS
  <2>4. Left' < Left - 1
    BY <1>1, <1>3, <2>3
  <2> QED
    BY <2>2, <2>4
<1>4. ASSUME pc \notin Signed \/ (pc \in Loops /\ ~Waiting), UNCHANGED held,
             Left' \in Nat, Left' + 1 <= Left
      PROVE  StepsLeft' < StepsLeft
  <2>1. held = NoNonce
    BY <1>2, <1>4 DEF LoopInv
  <2>2. StepsLeft = Left /\ StepsLeft' = Left'
    BY <1>4, <2>1 DEF StepsLeft
  <2>3. \A m, n \in Nat : m + 1 <= n => m < n
    OBVIOUS
  <2>4. Left' < Left
    BY <1>1, <1>4, <2>3
  <2> QED
    BY <2>2, <2>4
<1>5. ASSUME Server PROVE StepsLeft' = StepsLeft
  BY <1>5 DEF Server, SettleChallenge, SettleOrder, NonceExpires, StepsLeft, Left, Later
<1>6. ASSUME GetNonce PROVE StepsLeft' < StepsLeft
  <2>1. pc' = pc /\ auth' = auth /\ i' = i /\ held = NoNonce /\ held' # NoNonce
    BY <1>0, <1>6 DEF GetNonce, FreshNonce
  <2>2. Left' = Left
    BY <2>1 DEF Left, Later
  <2> QED
    BY <1>1, <2>1, <2>2 DEF StepsLeft
<1>7. ASSUME Fail, pc \notin Ended, pc \in Signed \/ held = NoNonce
      PROVE  StepsLeft' < StepsLeft
  <2>1. Left' = 0 /\ held' = NoNonce
    BY <1>7, LeftAt DEF Fail, Goto, LeftByPlace, Ended
  <2> QED
    BY <1>1, <1>7, <2>1 DEF StepsLeft
<1>8. ASSUME GiveUp \/ NoCertificate \/ CallFails PROVE StepsLeft' < StepsLeft
  <2>1. Fail /\ pc \notin Ended /\ (pc \in Signed \/ held = NoNonce)
    BY <1>2, <1>8 DEF GiveUp, NoCertificate, CallFails, LoopInv, Waiting, Ended, Signed, Loops
  <2> QED
    BY <1>7, <2>1
<1>9. OrderSteps = 2 + 2 * NAuth + NAuth * AuthSteps + FinalSteps /\ OrderSteps \in Nat
  BY <1>0, StepCounts DEF OrderSteps
<1>10. ASSUME FetchDirectory \/ NewAccount \/ NewOrder PROVE StepsLeft' < StepsLeft
  <2>1. CASE FetchDirectory
    <3>1. Left = 3 + OrderSteps /\ Left' = 2 + OrderSteps /\ pc \notin Signed /\ held' = held
      BY <1>9, <2>1, LeftAt DEF FetchDirectory, Goto, LeftByPlace, Signed, Loops
    <3> QED
      BY <1>4, <1>9, <3>1
  <2>2. CASE NewAccount
    <3>1. Left = 2 + OrderSteps /\ Left' = OrderSteps /\ Exchange("newAccount")
      BY <2>2, LeftAt DEF NewAccount, Exchange, Goto, LeftByPlace
    <3> QED
      BY <1>3, <1>9, <3>1
  <2>3. CASE NewOrder
    <3>1. /\ pc = "newOrder" /\ auth' = 1 /\ pc' = "authorizations" /\ Exchange("newOrder")
      BY <1>2, <2>3 DEF NewOrder, Exchange, Goto, LoopInv
    <3>2. Left = OrderSteps /\ Left' = 2 * (NAuth - 1 + 1) + NAuth * AuthSteps + FinalSteps
      BY <3>1, LeftAt DEF LeftByPlace
    <3>3. Left' \in Nat /\ Left' + 2 <= Left
      BY <1>0, <1>9, <3>2, StepCounts
    <3> QED
      BY <1>3, <3>1, <3>3
  <2> QED
    BY <1>10, <2>1, <2>2, <2>3
<1>11. ASSUME Authorizations PROVE StepsLeft' < StepsLeft
  <2>1. /\ pc = "authorizations" /\ Exchange("authorizations")
        /\ Left = 2 * (NAuth - auth + 1) + NAuth * AuthSteps + FinalSteps
    BY <1>11, LeftAt DEF Authorizations, Exchange, LeftByPlace
  <2>2. CASE auth = NAuth
    <3>1. auth' = 1 /\ pc' = "publish"
      BY <1>11, <2>2 DEF Authorizations, Goto
    <3>2. Left' = AuthSteps + ((NAuth - 1) * AuthSteps + FinalSteps)
      BY <3>1, LeftAt DEF LeftByPlace, Later
    <3>3. Left' = NAuth * AuthSteps + FinalSteps
      BY <1>0, <3>2, StepCounts
    <3>4. Left' \in Nat /\ Left' + 2 <= Left
      <4> DEFINE x == NAuth * AuthSteps + FinalSteps
      <4>1. x \in Nat /\ Left' = x
        BY <3>3, StepCounts
      <4>2. Left = 2 * (NAuth - auth + 1) + x
        BY <1>0, <2>1, StepCounts
      <4> HIDE DEF x
      <4> QED
        BY <1>0, <2>2, <4>1, <4>2
    <3> QED
      BY <1>3, <2>1, <3>4
  <2>3. CASE auth # NAuth
    <3>1. auth' = auth + 1 /\ pc' = "authorizations"
      BY <1>11, <2>3 DEF Authorizations, Goto
    <3>2. Left' = 2 * (NAuth - (auth + 1) + 1) + NAuth * AuthSteps + FinalSteps
      BY <3>1, LeftAt DEF LeftByPlace
    <3>3. Left' \in Nat /\ Left' + 2 <= Left
      BY <1>0, <2>1, <2>3, <3>2, StepCounts
    <3> QED
      BY <1>3, <2>1, <3>3
  <2> QED
    BY <2>2, <2>3
<1>12. ASSUME PublishChallenge \/ ValidateChallenge PROVE StepsLeft' < StepsLeft
  <2>0. AuthSteps = 3 + 2 * Loop(AuthPolls) /\ Loop(AuthPolls) = 2 * AuthPolls + 1
    BY StepCounts DEF Loop
  <2>1. CASE PublishChallenge
    <3>1. /\ pc = "publish" /\ pc' = "validate" /\ auth' = auth /\ held' = held
      BY <2>1 DEF PublishChallenge, Goto
    <3>2. Left = AuthSteps + Later /\ Left' = 2 + 2 * Loop(AuthPolls) + Later
      BY <3>1, LeftAt DEF LeftByPlace, Later
    <3>3. Left' \in Nat /\ Left' + 1 <= Left
      BY <1>0, <1>1, <2>0, <3>2
    <3> QED
      BY <1>4, <3>1, <3>3 DEF Signed, Loops
  <2>2. CASE ValidateChallenge
    <3>1. /\ pc = "validate" /\ pc' = "challenge" /\ auth' = auth /\ i' = 0
          /\ Exchange("validate")
      BY <2>2 DEF ValidateChallenge, Exchange, Goto
    <3>2. /\ Left = 2 + 2 * Loop(AuthPolls) + Later
          /\ Left' = Loop(AuthPolls - 0) + Loop(AuthPolls) + Later
      BY <3>1, LeftAt DEF LeftByPlace, Later
    <3>3. Left' \in Nat /\ Left' + 2 <= Left
      BY <1>0, <1>1, <2>0, <3>2 DEF Loop
    <3> QED
      BY <1>3, <3>1, <3>3
  <2> QED
    BY <1>12, <2>1, <2>2
<1>13. ASSUME Poll PROVE StepsLeft' < StepsLeft
  <2>1. /\ Exchange(pc) /\ pc' = pc /\ auth' = auth /\ i' = i + 1 /\ pc \in Loops /\ i < Polls
    BY <1>13 DEF Poll, Waiting, Loops
  <2>2. Later' = Later
    BY <2>1 DEF Later
  <2>3. Left' \in Nat /\ Left' + 2 <= Left
    <3>1. CASE pc = "challenge"
      <4>1. /\ Left = Loop(AuthPolls - i) + Loop(AuthPolls) + Later
            /\ Left' = Loop(AuthPolls - (i + 1)) + Loop(AuthPolls) + Later
        BY <2>1, <2>2, <3>1, LeftAt DEF LeftByPlace
      <4> QED
        BY <1>0, <1>1, <2>1, <3>1, <4>1 DEF Polls, Loop
    <3>2. CASE pc = "authz"
      <4>1. /\ Left = Loop(AuthPolls - i) + Later /\ Left' = Loop(AuthPolls - (i + 1)) + Later
        BY <2>1, <2>2, <3>2, LeftAt DEF LeftByPlace
      <4> QED
        BY <1>0, <1>1, <2>1, <3>2, <4>1 DEF Polls, Loop
    <3>3. CASE pc = "ready"
      <4>1. /\ Left = Loop(OrderPolls - i) + 2 + Loop(OrderPolls) + 2
            /\ Left' = Loop(OrderPolls - (i + 1)) + 2 + Loop(OrderPolls) + 2
        BY <2>1, <3>3, LeftAt DEF LeftByPlace
      <4> QED
        BY <1>0, <2>1, <3>3, <4>1 DEF Polls, Loop
    <3>4. CASE pc = "issued"
      <4>1. Left = Loop(OrderPolls - i) + 2 /\ Left' = Loop(OrderPolls - (i + 1)) + 2
        BY <2>1, <3>4, LeftAt DEF LeftByPlace
      <4> QED
        BY <1>0, <2>1, <3>4, <4>1 DEF Polls, Loop
    <3> QED
      BY <2>1, <3>1, <3>2, <3>3, <3>4 DEF Loops
  <2> QED
    BY <1>3, <2>1, <2>3
<1>14. ASSUME LoopEnds PROVE StepsLeft' < StepsLeft
  <2>1. /\ pc \in Loops /\ ~Waiting /\ i' = 0 /\ held' = held /\ i <= Polls
    BY <1>2, <1>14 DEF LoopEnds, LoopInv
  <2>2. Left' \in Nat /\ Left' + 1 <= Left
    <3>1. CASE pc = "challenge"
      <4>1. pc' = "authz" /\ auth' = auth
        BY <1>14, <3>1 DEF LoopEnds, Goto
      <4>2. /\ Left = Loop(AuthPolls - i) + Loop(AuthPolls) + Later
            /\ Left' = Loop(AuthPolls - 0) + Later
        BY <2>1, <3>1, <4>1, LeftAt DEF LeftByPlace, Later
      <4> QED
        BY <1>0, <1>1, <2>1, <3>1, <4>2 DEF Polls, Loop
    <3>2. CASE pc = "authz" /\ pc' = "publish"
      <4>1. auth' = auth + 1
        BY <1>14, <3>2 DEF LoopEnds, Goto
      <4>2. /\ Left = Loop(AuthPolls - i) + ((NAuth - auth) * AuthSteps + FinalSteps)
            /\ Left' = AuthSteps + ((NAuth - (auth + 1)) * AuthSteps + FinalSteps)
        BY <3>2, <4>1, LeftAt DEF LeftByPlace, Later
      <4>3. Left' = (NAuth - auth) * AuthSteps + FinalSteps
        <5> DEFINE x == (NAuth - (auth + 1)) * AuthSteps
        <5>1. x \in Int
          BY <1>0, StepCounts
        <5>2. AuthSteps + x = (NAuth - auth) * AuthSteps
          BY <1>0, StepCounts
        <5> HIDE DEF x
        <5> QED
          BY <4>2, <5>1, <5>2, StepCounts DEF x
      <4>4. Left' = Later /\ Left = Loop(AuthPolls - i) + Later
        BY <4>2, <4>3 DEF Later
      <4> QED
        BY <1>0, <1>1, <2>1, <3>2, <4>4 DEF Polls, Loop
    <3>3. CASE pc = "authz" /\ pc' = "ready"
      <4>1. auth = NAuth
        BY <1>14, <3>3 DEF LoopEnds, Goto
      <4>2. /\ Left = Loop(AuthPolls - i) + Later
            /\ Left' = Loop(OrderPolls - 0) + 2 + Loop(OrderPolls) + 2
        BY <2>1, <3>3, LeftAt DEF LeftByPlace
      <4>3. FinalSteps = 2 * Loop(OrderPolls) + 4 /\ Later = FinalSteps
        BY <1>0, <4>1, StepCounts DEF Later
      <4> QED
        BY <1>0, <1>1, <2>1, <3>3, <4>2, <4>3 DEF Polls, Loop
    <3>4. CASE pc = "ready"
      <4>1. pc' = "finalize"
        BY <1>14, <3>4 DEF LoopEnds, Goto
      <4>2. /\ Left = Loop(OrderPolls - i) + 2 + Loop(OrderPolls) + 2
            /\ Left' = 2 + Loop(OrderPolls) + 2
        BY <3>4, <4>1, LeftAt DEF LeftByPlace
      <4> QED
        BY <1>0, <2>1, <3>4, <4>2 DEF Polls, Loop
    <3>5. CASE pc = "issued"
      <4>1. pc' = "download"
        BY <1>14, <3>5 DEF LoopEnds, Goto
      <4>2. Left = Loop(OrderPolls - i) + 2 /\ Left' = 2
        BY <3>5, <4>1, LeftAt DEF LeftByPlace
      <4> QED
        BY <1>0, <2>1, <3>5, <4>2 DEF Polls, Loop
    <3> QED
      BY <1>14, <2>1, <3>1, <3>2, <3>3, <3>4, <3>5 DEF LoopEnds, Goto, Loops
  <2> QED
    BY <1>4, <2>1, <2>2
<1>15. ASSUME Finalize \/ Download PROVE StepsLeft' < StepsLeft
  <2>1. CASE Finalize
    <3>1. pc = "finalize" /\ pc' = "issued" /\ i' = 0 /\ Exchange("finalize")
      BY <1>2, <2>1 DEF Finalize, Exchange, Goto, LoopInv
    <3>2. Left = 2 + Loop(OrderPolls) + 2 /\ Left' = Loop(OrderPolls - 0) + 2
      BY <3>1, LeftAt DEF LeftByPlace
    <3>3. Left' \in Nat /\ Left' + 2 <= Left
      BY <1>0, <3>2 DEF Loop
    <3> QED
      BY <1>3, <3>1, <3>3
  <2>2. CASE Download
    <3>1. Left = 2 /\ Left' = 0 /\ Exchange("download")
      BY <2>2, LeftAt DEF Download, Exchange, Goto, LeftByPlace, Ended
    <3> QED
      BY <1>3, <3>1
  <2> QED
    BY <1>15, <2>1, <2>2
<1>16. ASSUME Step PROVE StepsLeft' < StepsLeft
  BY <1>6, <1>8, <1>10, <1>11, <1>12, <1>13, <1>14, <1>15, <1>16 DEF Step
<1> QED
  BY <1>5, <1>16 DEF StepsRunDown

(* An order ends: it has at most OrderSteps + 3 steps to take, a number     *)
(* that depends only on how many domains it has and how often each loop     *)
(* polls, and every step of the client takes one of them, also against a    *)
(* server that never settles anything and in whichever order requests fail. *)
(* What EveryOrderEnds adds is that the client goes on.                     *)
THEOREM OrdersRunDown == Spec => []StepsAreBounded /\ [][StepsRunDown]_vars
<1>1. Init => LoopInv
  BY PollsAreNat DEF Init, LoopInv, Loops
<1>2. Inv /\ LoopInv /\ [Next]_vars => LoopInv'
  BY LoopStep
<1>3. Inv /\ LoopInv => StepsAreBounded
  <2> SUFFICES ASSUME Inv, LoopInv PROVE StepsAreBounded
    OBVIOUS
  <2>1. /\ Left \in 0..(OrderSteps + 3) /\ (Left = 0 <=> pc \in Ended)
        /\ pc \in Signed => Left >= 2
    BY LeftTypes
  <2>2. held # NoNonce => pc \in Signed /\ pc \notin Ended
    BY DEF LoopInv, Signed, Loops, Ended
  <2>3. OrderSteps \in Nat
    BY PollsAreNat, StepCounts DEF OrderSteps
  <2> QED
    BY <2>1, <2>2, <2>3 DEF StepsAreBounded, StepsLeft
<1>4. Inv /\ LoopInv /\ [Next]_vars => [StepsRunDown]_vars
  BY RunDown
<1> QED
  BY <1>1, <1>2, <1>3, <1>4, OrderInvariant, PTL DEF Spec
=============================================================================
