------------------------ MODULE RequestPipelineProofs ------------------------
(***************************************************************************)
(* Proofs about RequestPipeline: who reaches the user process, that no     *)
(* layer loses a request's context, that requests are logged once, that    *)
(* logs reach the host in order, and that their way there is a LogQueue;   *)
(* and about StreamDecoder, which finds the ciphertexts for its decrypt    *)
(* layer.  The two share no state.                                         *)
(*                                                                         *)
(* The properties of the pipeline speak of what has been logged and        *)
(* reached; they are inductive only with what the place of a task says of  *)
(* its request: its kind, where its context is, whether E3 has accepted it *)
(* and whether it has been logged.                                         *)
(***************************************************************************)
EXTENDS RequestPipeline, StreamDecoder, SequenceTheorems, WellFoundedInduction, TLAPS

TypeInv ==
    /\ features \in [api_key_auth : BOOLEAN, trx_logging_enabled : BOOLEAN]
    /\ pc \in [Conn -> PC]
    /\ request \in [Conn -> Request \cup {NoRequest}]
    /\ count \in [Conn -> Nat]
    /\ context \in [Conn -> {"none", "request", "response", "task"}]
    /\ after \in [Conn -> {"none", "closed", "pipe"}]
    /\ sent \in Seq(Request)
    /\ acceptor \in Conn => pc[acceptor] = "handshake"

\* A task's request is the last one of its own connection.
Own(c) ==
    \/ request[c] = NoRequest /\ count[c] = 0
    \/ request[c] \in Request /\ request[c].conn = c /\ request[c].no = count[c]

\* Which traffic gets where.
KindAt(c) ==
    /\ pc[c] \in {"new", "handshake"} => request[c] = NoRequest
    /\ pc[c] = "parse" =>
          request[c] = NoRequest \/ request[c].kind \in {"attest", "http"}
    /\ pc[c] \in {"layers", "answer"} => request[c].kind \in {"attest", "http"}
    /\ pc[c] \in {"auth", "decrypt", "forward", "back"} => request[c].kind = "http"
    /\ pc[c] \in {"upgrade", "pipe"} => request[c].kind = "websocket"
    /\ pc[c] = "log" => request[c].kind \in {"websocket", "tcp"}

\* Where the context of the request is.
ContextAt(c) ==
    /\ pc[c] \in {"new", "handshake", "parse", "layers", "answer", "upgrade"} =>
          context[c] = "none"
    /\ pc[c] \in {"auth", "decrypt", "forward"} => context[c] = "request"
    /\ pc[c] = "back" => context[c] = "response"
    /\ pc[c] = "log" => (context[c] = "task" <=> request[c].kind = "websocket")

\* Where a request has been accepted, if it has to be.
AcceptedAt(c) ==
    /\ (pc[c] \in {"decrypt", "forward"} /\ ApiKeyAuth) => request[c] \in accepted
    /\ pc[c] = "pipe" => request[c] \in accepted
    /\ (pc[c] = "log" /\ request[c].kind = "websocket" /\ after[c] = "pipe") =>
          request[c] \in accepted
    /\ pc[c] = "log" => after[c] \in {"closed", "pipe"}

IsNew(c) == \A i \in DOMAIN sent : sent[i].conn = c => sent[i].no < count[c]
IsLogged(c) == \E i \in DOMAIN sent : sent[i] = request[c]
IsDue(c) ==
    \/ request[c].kind = "http" /\ TrxLogging
    \/ request[c].kind = "websocket"

\* Where a request has been logged.
LoggedAt(c) ==
    /\ pc[c] \in {"layers", "auth", "decrypt", "forward", "back", "upgrade",
                  "log"} => IsNew(c)
    /\ pc[c] = "pipe" => IsLogged(c)
    /\ (pc[c] \in {"answer", "parse", "closed"} /\ request[c] # NoRequest) =>
          (IsLogged(c) <=> IsDue(c))

\* The logs are of requests that were parsed.
SentIsPast == \A i \in DOMAIN sent : sent[i].no <= count[sent[i].conn]

At(c) == Own(c) /\ KindAt(c) /\ ContextAt(c) /\ AcceptedAt(c) /\ LoggedAt(c)

(***************************************************************************)
(* The inductive invariant.                                                *)
(***************************************************************************)
Inv ==
    /\ TypeInv
    /\ \A c \in Conn : At(c)
    /\ SentIsPast
    /\ IsInjective(sent)
    /\ OnlyAcceptedReachTheUser

-----------------------------------------------------------------------------
\* The task of c is the only one to move.
OthersStay(c) ==
    /\ features' = features
    /\ \A d \in Conn \ {c} :
          /\ pc'[d] = pc[d] /\ request'[d] = request[d] /\ count'[d] = count[d]
          /\ context'[d] = context[d] /\ after'[d] = after[d]
    /\ accepted \subseteq accepted'
    /\ sent' = sent \/ sent' = Append(sent, request[c])

(***************************************************************************)
(* NoRequest is no request.                                                *)
(***************************************************************************)
LEMMA NoRequestIsNone == NoRequest \notin Request /\ NoRequest.kind = "none"
BY KindsAreKnown DEF NoRequest, Request

(***************************************************************************)
(* The log's entries are requests.                                         *)
(***************************************************************************)
LEMMA EntriesAreRequests ==
    ASSUME TypeInv, NEW i \in DOMAIN sent
    PROVE  sent[i] \in Request /\ sent[i].no \in Nat /\ sent[i].conn \in Conn
<1>1. sent \in Seq(Request) /\ DOMAIN sent = 1..Len(sent)
    BY DEF TypeInv
<1>2. sent[i] \in Request
    BY <1>1
<1> QED
    BY <1>2 DEF Request

(***************************************************************************)
(* What Send does to the log: there is one entry more, the last.           *)
(***************************************************************************)
LEMMA AppendedLog ==
    ASSUME NEW s \in Seq(Request), NEW r \in Request
    PROVE  /\ Append(s, r) \in Seq(Request)
           /\ DOMAIN Append(s, r) = DOMAIN s \cup {Len(s) + 1}
           /\ Len(s) + 1 \notin DOMAIN s
           /\ \A i \in DOMAIN s : Append(s, r)[i] = s[i] /\ s[i] \in Request
           /\ Append(s, r)[Len(s) + 1] = r
<1>1. Append(s, r) \in Seq(Request) /\ Len(Append(s, r)) = Len(s) + 1
    BY AppendProperties
<1>2. DOMAIN s = 1..Len(s) /\ Len(s) \in Nat
    OBVIOUS
<1>3. DOMAIN Append(s, r) = 1..(Len(s) + 1)
    BY <1>1
<1> QED
    BY <1>1, <1>2, <1>3, AppendProperties

(***************************************************************************)
(* A task's step leaves what is known of the other connections.            *)
(***************************************************************************)
LEMMA OthersAreKept ==
    ASSUME Inv, NEW c \in Conn, NEW d \in Conn \ {c}, OthersStay(c),
           sent' = sent \/ request[c] \in Request
    PROVE  At(d)'
<1> USE DEF Inv, OthersStay
<1>1. Own(d)' /\ KindAt(d)' /\ ContextAt(d)'
    BY DEF At, Own, KindAt, ContextAt
<1>2. AcceptedAt(d)'
    BY DEF At, AcceptedAt, ApiKeyAuth
<1>3. LoggedAt(d)'
    <2>1. CASE sent' = sent
        BY <2>1 DEF At, LoggedAt, IsNew, IsLogged, IsDue, TrxLogging
    <2>2. CASE sent' = Append(sent, request[c]) /\ request[c] \in Request
        <3>1. request[c].conn = c
            BY <2>2, NoRequestIsNone DEF At, Own
        <3>2. DOMAIN sent' = DOMAIN sent \cup {Len(sent) + 1}
              /\ (\A i \in DOMAIN sent : sent'[i] = sent[i])
              /\ sent'[Len(sent) + 1] = request[c]
            BY <2>2, AppendedLog DEF TypeInv
        <3>3. request[d] # NoRequest => request[d].conn = d
            BY DEF At, Own
        <3>4. IsNew(d) => IsNew(d)'
            BY <3>1, <3>2 DEF IsNew
        <3>5. request[d] # NoRequest => (IsLogged(d)' <=> IsLogged(d))
            BY <3>1, <3>2, <3>3 DEF IsLogged
        <3>6. IsLogged(d) => IsLogged(d)'
            BY <3>2 DEF IsLogged
        <3>7. IsDue(d)' <=> IsDue(d)
            BY DEF IsDue, TrxLogging
        <3> QED
            BY <3>4, <3>5, <3>6, <3>7 DEF At, LoggedAt
    <2> QED
        BY <2>1, <2>2
<1> QED
    BY <1>1, <1>2, <1>3 DEF At

(***************************************************************************)
(* A step of a task that logs nothing keeps the invariant, if it keeps the *)
(* types, what is known of its own connection, and who reaches the user.   *)
(***************************************************************************)
LEMMA QuietStep ==
    ASSUME Inv, NEW c \in Conn, OthersStay(c), sent' = sent, TypeInv', At(c)',
           count'[c] >= count[c], OnlyAcceptedReachTheUser'
    PROVE  Inv'
<1>1. \A d \in Conn : At(d)'
    BY OthersAreKept
<1>2. SentIsPast'
    <2> SUFFICES ASSUME NEW i \in DOMAIN sent
                 PROVE  sent[i].no <= count'[sent[i].conn]
        BY DEF SentIsPast
    <2>1. sent[i] \in Request /\ sent[i].no \in Nat /\ sent[i].conn \in Conn
        BY EntriesAreRequests DEF Inv
    <2>2. sent[i].no <= count[sent[i].conn]
        BY DEF Inv, SentIsPast
    <2>3. count[sent[i].conn] \in Nat /\ count'[sent[i].conn] \in Nat
        BY <2>1 DEF Inv, TypeInv
    <2>4. count'[sent[i].conn] >= count[sent[i].conn]
        BY <2>1, <2>3 DEF OthersStay
    <2> QED
        BY <2>1, <2>2, <2>3, <2>4
<1> QED
    BY <1>1, <1>2 DEF Inv

(***************************************************************************)
(* The same of a step that logs the task's request, which is new.          *)
(***************************************************************************)
LEMMA LoggingStep ==
    ASSUME Inv, NEW c \in Conn, OthersStay(c), sent' = Append(sent, request[c]),
           request[c] \in Request, IsNew(c), TypeInv', At(c)', count' = count,
           OnlyAcceptedReachTheUser'
    PROVE  Inv'
<1>1. \A d \in Conn : At(d)'
    BY OthersAreKept
<1>2. /\ DOMAIN sent' = DOMAIN sent \cup {Len(sent) + 1}
      /\ Len(sent) + 1 \notin DOMAIN sent
      /\ \A i \in DOMAIN sent : sent'[i] = sent[i] /\ sent[i] \in Request
      /\ sent'[Len(sent) + 1] = request[c]
    BY AppendedLog DEF Inv, TypeInv
<1>3. request[c].conn = c /\ request[c].no = count[c] /\ count[c] \in Nat
    BY NoRequestIsNone DEF Inv, TypeInv, At, Own
<1>4. SentIsPast'
    BY <1>2, <1>3 DEF Inv, SentIsPast
<1>5. \A i \in DOMAIN sent : sent[i] # request[c]
    BY <1>2, <1>3 DEF IsNew
<1>6. IsInjective(sent')
    BY <1>2, <1>5 DEF Inv, IsInjective
<1> QED
    BY <1>1, <1>4, <1>6 DEF Inv

-----------------------------------------------------------------------------
(***************************************************************************)
(* Accept, the handshake, and the end of a connection that sends nothing.  *)
(***************************************************************************)
LEMMA AcceptLoop ==
    ASSUME Inv, NEW c \in Conn, Accept(c) \/ Handshake(c) \/ ParseFails(c)
    PROVE  Inv'
<1>1. PICK l \in PC : Goto(c, l)
    BY DEF Accept, Handshake, ParseFails, PC, Final
<1>2. /\ UNCHANGED <<features, request, count, context, after, logs, accepted,
                     reached>>
      /\ sent' = sent
    BY DEF Accept, Handshake, ParseFails, logs
<1>3. pc' = [pc EXCEPT ![c] = l] /\ pc \in [Conn -> PC]
    BY <1>1 DEF Goto, Inv, TypeInv
<1>4. OthersStay(c)
    BY <1>2, <1>3 DEF OthersStay
<1>5. TypeInv'
    <2>1. acceptor' \in Conn => pc'[acceptor'] = "handshake"
        BY <1>3, NoConnIsNone
        DEF Accept, Handshake, ParseFails, Goto, Inv, TypeInv
    <2> QED
        BY <1>2, <1>3, <2>1 DEF Inv, TypeInv
<1>6. At(c)'
    <2> USE DEF Inv
    <2>1. CASE Accept(c)
        <3>1. pc'[c] = "handshake" /\ pc[c] = "new"
            BY <1>3, <2>1 DEF Accept, Goto
        <3> QED
            BY <3>1, <1>2 DEF At, Own, KindAt, ContextAt, AcceptedAt, LoggedAt
    <2>2. CASE Handshake(c)
        <3>1. pc'[c] \in {"parse", "closed"} /\ pc[c] = "handshake"
            BY <1>3, <2>2 DEF Handshake, Goto, TypeInv
        <3> QED
            BY <3>1, <1>2 DEF At, Own, KindAt, ContextAt, AcceptedAt, LoggedAt
    <2>3. CASE ParseFails(c)
        <3>1. pc'[c] = "closed" /\ pc[c] = "parse"
            BY <1>3, <2>3 DEF ParseFails, Goto
        <3> QED
            BY <3>1, <1>2 DEF At, Own, KindAt, ContextAt, AcceptedAt, LoggedAt,
                              IsLogged, IsDue, TrxLogging
    <2> QED
        BY <2>1, <2>2, <2>3
<1>7. OnlyAcceptedReachTheUser'
    BY <1>2 DEF Inv, OnlyAcceptedReachTheUser, ApiKeyAuth
<1>8. count'[c] >= count[c]
    BY <1>2 DEF Inv, TypeInv
<1> QED
    BY <1>2, <1>4, <1>5, <1>6, <1>7, <1>8, QuietStep

(***************************************************************************)
(* A request that is parsed is new to the log.                             *)
(***************************************************************************)
LEMMA ParseStep ==
    ASSUME Inv, NEW c \in Conn, NEW kind \in Kinds, NEW key \in {"none", "given"},
           Parse(c, kind, key)
    PROVE  Inv'
<1> DEFINE r == [conn |-> c, no |-> count[c] + 1, kind |-> kind, key |-> key]
<1>1. PICK l \in {"layers", "upgrade", "log"} : Goto(c, l)
    BY DEF Parse
<1>2. pc' = [pc EXCEPT ![c] = l] /\ pc \in [Conn -> PC] /\ pc[c] = "parse"
    BY <1>1 DEF Goto, Inv, TypeInv, Parse
<1>3. /\ count' = [count EXCEPT ![c] = count[c] + 1]
      /\ request' = [request EXCEPT ![c] = r]
      /\ UNCHANGED <<features, acceptor, context, accepted, reached, sent>>
    BY DEF Parse, logs
<1>4. PICK a \in {"none", "closed", "pipe"} :
         after' = [after EXCEPT ![c] = a] /\ (kind = "tcp" => a # "none")
    <2>1. CASE UNCHANGED after /\ kind # "tcp"
        <3>1. after' = [after EXCEPT ![c] = after[c]]
            BY <2>1 DEF Inv, TypeInv
        <3> QED
            BY <2>1, <3>1 DEF Inv, TypeInv
    <2>2. CASE after' = [after EXCEPT ![c] = IF ApiKeyAuth THEN "closed" ELSE "pipe"]
        BY <2>2
    <2> QED
        BY <2>1, <2>2 DEF Parse
<1>5. r \in Request /\ count[c] \in Nat /\ r.conn = c /\ r.no = count[c] + 1
      /\ r.kind = kind
    BY DEF Request, Inv, TypeInv
<1> HIDE DEF r
<1>6. TypeInv'
    BY <1>2, <1>3, <1>4, <1>5 DEF Inv, TypeInv, PC
<1>7. /\ pc'[c] = l /\ request'[c] = r /\ count'[c] = count[c] + 1
      /\ after'[c] = a /\ context'[c] = "none"
    BY <1>2, <1>3, <1>4 DEF Inv, TypeInv, At, ContextAt
<1>8. \/ kind \in {"attest", "http"} /\ l = "layers"
      \/ kind = "websocket" /\ l = "upgrade"
      \/ kind = "tcp" /\ l = "log"
    BY <1>1, <1>2 DEF Parse, Goto
<1>9. IsNew(c)'
    <2> SUFFICES ASSUME NEW i \in DOMAIN sent, sent[i].conn = c
                 PROVE  sent[i].no < count[c] + 1
        BY <1>3, <1>7 DEF IsNew
    <2>1. sent[i].no \in Nat /\ sent[i].no <= count[c]
        BY EntriesAreRequests DEF Inv, SentIsPast
    <2> QED
        BY <1>5, <2>1
<1>10. OthersStay(c)
    BY <1>2, <1>3, <1>4 DEF OthersStay, Inv, TypeInv
<1>11. At(c)'
    <2>1. Own(c)'
        BY <1>5, <1>7 DEF Own
    <2>2. KindAt(c)' /\ ContextAt(c)'
        BY <1>5, <1>7, <1>8 DEF KindAt, ContextAt
    <2>3. AcceptedAt(c)'
        BY <1>4, <1>5, <1>7, <1>8 DEF AcceptedAt
    <2>4. LoggedAt(c)'
        BY <1>7, <1>8, <1>9 DEF LoggedAt
    <2> QED
        BY <2>1, <2>2, <2>3, <2>4 DEF At
<1>12. OnlyAcceptedReachTheUser'
    BY <1>3 DEF Inv, OnlyAcceptedReachTheUser, ApiKeyAuth
<1> QED
    BY <1>3, <1>5, <1>6, <1>7, <1>10, <1>11, <1>12, QuietStep

(***************************************************************************)
(* A step with the same request and log, to place l with the context in    *)
(* place k, and then to a, keeps the invariant if all three suit the       *)
(* request and what reaches the user has been accepted if it has to be.    *)
(***************************************************************************)
LEMMA SameRequest ==
    ASSUME Inv, NEW c \in Conn,
           NEW l \in PC, NEW k \in {"none", "request", "response", "task"},
           NEW a \in {"none", "closed", "pipe"},
           pc' = [pc EXCEPT ![c] = l], context' = [context EXCEPT ![c] = k],
           after' = [after EXCEPT ![c] = a],
           UNCHANGED <<features, acceptor, request, count, sent>>,
           accepted \subseteq accepted', pc[c] # "handshake",
           KindAt(c)', ContextAt(c)', AcceptedAt(c)', LoggedAt(c)',
           OnlyAcceptedReachTheUser'
    PROVE  Inv'
<1>1. TypeInv'
    BY DEF Inv, TypeInv
<1>2. OthersStay(c)
    BY DEF OthersStay, Inv, TypeInv
<1>3. At(c)'
    BY DEF Inv, At, Own
<1>4. count'[c] >= count[c]
    BY DEF Inv, TypeInv
<1> QED
    BY <1>1, <1>2, <1>3, <1>4, QuietStep

(***************************************************************************)
(* Attestation, the way into the layers, the end of an answer, the panics. *)
(***************************************************************************)
LEMMA PlainStep ==
    ASSUME Inv, NEW c \in Conn,
           Attest(c) \/ ContextLog(c) \/ Answer(c) \/ BuildFails(c) \/ ExpectFails(c)
    PROVE  Inv'
<1>1. /\ UNCHANGED <<features, acceptor, request, count, after, accepted, reached>>
      /\ sent' = sent
    BY DEF Attest, ContextLog, Answer, BuildFails, ExpectFails, logs
<1>2. OnlyAcceptedReachTheUser'
    BY <1>1 DEF Inv, OnlyAcceptedReachTheUser, ApiKeyAuth
<1>3. after' = [after EXCEPT ![c] = after[c]] /\ after[c] \in {"none", "closed", "pipe"}
    BY <1>1 DEF Inv, TypeInv
<1>4. PICK k \in {"none", "request", "response", "task"} :
         /\ context' = [context EXCEPT ![c] = k]
         /\ ContextLog(c) => k = "request"
         /\ Attest(c) \/ Answer(c) \/ BuildFails(c) => k = context[c]
    <2>1. CASE ContextLog(c)
        BY <2>1 DEF ContextLog, ContextIn, Attest, Answer, BuildFails
    <2>2. CASE Attest(c) \/ Answer(c) \/ BuildFails(c)
        <3>1. context' = [context EXCEPT ![c] = context[c]]
            BY <2>2 DEF Attest, Answer, BuildFails, Inv, TypeInv
        <3>2. ~ContextLog(c)
            BY <2>2 DEF Attest, Answer, BuildFails, ContextLog
        <3> QED
            BY <3>1, <3>2 DEF Inv, TypeInv
    <2>3. CASE ExpectFails(c) /\ ~ContextLog(c)
        <3>1. context' = [context EXCEPT ![c] = "none"]
            BY <2>3 DEF ExpectFails, ContextIn
        <3>2. CASE Attest(c) \/ Answer(c) \/ BuildFails(c)
            BY <2>2, <3>2
        <3> QED
            BY <2>3, <3>1, <3>2
    <2> QED
        BY <2>1, <2>2, <2>3
<1>5. PICK l \in PC :
         /\ pc' = [pc EXCEPT ![c] = l]
         /\ \/ Attest(c) /\ l = "answer"
            \/ ContextLog(c) /\ l = IF ApiKeyAuth THEN "auth" ELSE "decrypt"
            \/ Answer(c) /\ l = "parse"
            \/ (BuildFails(c) \/ ExpectFails(c)) /\ l = "panicked"
    BY DEF Attest, ContextLog, Answer, BuildFails, ExpectFails, Goto, PC, Final
<1>6. pc'[c] = l /\ context'[c] = k /\ features' = features /\ pc[c] # "handshake"
    BY <1>1, <1>4, <1>5 DEF Inv, TypeInv, Attest, ContextLog, Answer, BuildFails,
       ExpectFails
<1> USE DEF Inv, At
<1>7. KindAt(c)' /\ ContextAt(c)' /\ AcceptedAt(c)' /\ LoggedAt(c)'
    <2>1. CASE Attest(c) /\ l # "panicked"
        <3>1. /\ l = "answer" /\ k = context[c] /\ pc[c] = "layers"
              /\ request[c].kind = "attest"
            BY <1>4, <1>5, <2>1 DEF Attest, ContextLog, Answer, BuildFails
        <3>2. KindAt(c)' /\ ContextAt(c)' /\ AcceptedAt(c)'
            BY <1>1, <1>6, <3>1 DEF KindAt, ContextAt, AcceptedAt
        <3>3. ~IsLogged(c)
            <4> SUFFICES ASSUME NEW i \in DOMAIN sent, sent[i] = request[c]
                         PROVE  FALSE
                BY DEF IsLogged
            <4>1. request[c] \in Request /\ request[c].conn = c
                  /\ request[c].no = count[c] /\ count[c] \in Nat
                BY <3>1, NoRequestIsNone DEF Own, TypeInv
            <4>2. sent[i].no < count[c]
                BY <3>1, <4>1 DEF LoggedAt, IsNew
            <4> QED
                BY <4>1, <4>2
        <3>4. LoggedAt(c)'
            BY <1>1, <1>6, <3>1, <3>3 DEF LoggedAt, IsLogged, IsDue
        <3> QED
            BY <3>2, <3>4
    <2>2. CASE ContextLog(c) /\ l # "panicked"
        <3>1. /\ l = IF ApiKeyAuth THEN "auth" ELSE "decrypt"
              /\ k = "request" /\ pc[c] = "layers" /\ request[c].kind = "http"
            BY <1>4, <1>5, <2>2 DEF Attest, ContextLog, Answer, BuildFails
        <3>2. KindAt(c)' /\ ContextAt(c)' /\ AcceptedAt(c)'
            BY <1>1, <1>6, <3>1 DEF KindAt, ContextAt, AcceptedAt, ApiKeyAuth
        <3>3. LoggedAt(c)'
            BY <1>1, <1>6, <3>1 DEF LoggedAt, IsNew
        <3> QED
            BY <3>2, <3>3
    <2>3. CASE Answer(c) /\ l # "panicked"
        <3>1. l = "parse" /\ k = context[c] /\ pc[c] = "answer"
            BY <1>4, <1>5, <2>3 DEF Attest, ContextLog, Answer, BuildFails
        <3>2. KindAt(c)' /\ ContextAt(c)' /\ AcceptedAt(c)'
            BY <1>1, <1>6, <3>1 DEF KindAt, ContextAt, AcceptedAt
        <3>3. LoggedAt(c)'
            BY <1>1, <1>6, <3>1 DEF LoggedAt, IsLogged, IsDue, TrxLogging
        <3> QED
            BY <3>2, <3>3
    <2>4. CASE l = "panicked"
        BY <1>6, <2>4 DEF KindAt, ContextAt, AcceptedAt, LoggedAt
    <2> QED
        BY <1>5, <2>1, <2>2, <2>3, <2>4
<1> QED
    BY <1>1, <1>2, <1>3, <1>4, <1>5, <1>6, <1>7, SameRequest

(***************************************************************************)
(* The auth layer: E3 has accepted what goes on to decryption.             *)
(***************************************************************************)
LEMMA AuthStep ==
    ASSUME Inv, NEW c \in Conn, Auth(c)
    PROVE  Inv'
<1>1. /\ UNCHANGED <<features, acceptor, request, count, after, reached>>
      /\ sent' = sent /\ pc[c] = "auth"
    BY DEF Auth, logs
<1>2. after' = [after EXCEPT ![c] = after[c]] /\ after[c] \in {"none", "closed", "pipe"}
    BY <1>1 DEF Inv, TypeInv
<1>3. accepted \subseteq accepted'
    BY DEF Auth, Refuse
<1>4. OnlyAcceptedReachTheUser'
    BY <1>1, <1>3 DEF Inv, OnlyAcceptedReachTheUser, ApiKeyAuth
<1>5. context[c] = "request" /\ context = [context EXCEPT ![c] = "request"]
    BY <1>1 DEF Inv, TypeInv, At, ContextAt
<1>6. PICK l \in {"decrypt", "back"} :
         /\ pc' = [pc EXCEPT ![c] = l]
         /\ context' = [context EXCEPT ![c] = IF l = "back" THEN "response"
                                              ELSE "request"]
         /\ l = "decrypt" => request[c] \in accepted'
    BY <1>5 DEF Auth, Refuse, Goto, ContextIn
<1>7. /\ pc'[c] = l
      /\ context'[c] = IF l = "back" THEN "response" ELSE "request"
    BY <1>6 DEF Inv, TypeInv
<1> USE DEF Inv, At
<1>8. KindAt(c)' /\ ContextAt(c)' /\ AcceptedAt(c)'
    BY <1>1, <1>6, <1>7 DEF KindAt, ContextAt, AcceptedAt
<1>9. LoggedAt(c)'
    BY <1>1, <1>7 DEF LoggedAt, IsNew
<1>10. l \in PC
    BY DEF PC
<1> QED
    BY <1>1, <1>2, <1>3, <1>4, <1>6, <1>8, <1>9, <1>10, SameRequest

(***************************************************************************)
(* The decrypt and forward layers: what is forwarded was accepted.         *)
(***************************************************************************)
LEMMA ForwardStep ==
    ASSUME Inv, NEW c \in Conn, Decrypt(c) \/ Forward(c)
    PROVE  Inv'
<1>1. /\ UNCHANGED <<features, acceptor, request, count, after, accepted>>
      /\ sent' = sent /\ pc[c] \in {"decrypt", "forward"} /\ context[c] = "request"
    BY DEF Decrypt, Forward, logs
<1>2. after' = [after EXCEPT ![c] = after[c]] /\ after[c] \in {"none", "closed", "pipe"}
    BY <1>1 DEF Inv, TypeInv
<1> USE DEF Inv, At
<1>3. OnlyAcceptedReachTheUser'
    <2>1. request[c].kind = "http" /\ (ApiKeyAuth => request[c] \in accepted)
        BY <1>1 DEF KindAt, AcceptedAt
    <2>2. reached' \subseteq reached \cup {request[c]}
        BY DEF Decrypt, Forward
    <2> QED
        BY <1>1, <2>1, <2>2 DEF OnlyAcceptedReachTheUser, ApiKeyAuth
<1>4. context = [context EXCEPT ![c] = "request"]
    BY <1>1 DEF TypeInv
<1>5. PICK l \in {"forward", "back", "panicked"} :
         /\ pc' = [pc EXCEPT ![c] = l]
         /\ context' = [context EXCEPT ![c] =
                          CASE l = "forward" -> "request"
                            [] l = "back" -> "response"
                            [] l = "panicked" -> "none"]
    BY <1>4 DEF Decrypt, Forward, Goto, ContextIn
<1> DEFINE k == CASE l = "forward" -> "request"
                  [] l = "back" -> "response"
                  [] l = "panicked" -> "none"
<1>6. pc'[c] = l /\ context'[c] = k
    BY <1>5 DEF TypeInv
<1>7. KindAt(c)' /\ ContextAt(c)' /\ AcceptedAt(c)'
    BY <1>1, <1>6 DEF KindAt, ContextAt, AcceptedAt, ApiKeyAuth
<1>8. LoggedAt(c)'
    BY <1>1, <1>6 DEF LoggedAt, IsNew
<1>9. l \in PC /\ k \in {"none", "request", "response", "task"}
    BY DEF PC, Final
<1> HIDE DEF k
<1>10. context' = [context EXCEPT ![c] = k]
    BY <1>5 DEF k
<1> QED
    BY <1>1, <1>2, <1>3, <1>5, <1>7, <1>8, <1>9, <1>10, SameRequest

(***************************************************************************)
(* A websocket that is to be piped was accepted, be api_key_auth on or off.*)
(***************************************************************************)
LEMMA WebsocketStep ==
    ASSUME Inv, NEW c \in Conn, Websocket(c)
    PROVE  Inv'
<1>1. /\ UNCHANGED <<features, acceptor, request, count, reached>>
      /\ sent' = sent /\ pc[c] = "upgrade"
      /\ pc' = [pc EXCEPT ![c] = "log"]
      /\ context' = [context EXCEPT ![c] = "task"]
    BY DEF Websocket, logs, Goto, ContextIn
<1>2. PICK a \in {"pipe", "closed"} :
         /\ after' = [after EXCEPT ![c] = a]
         /\ a = "pipe" => request[c] \in accepted'
    BY DEF Websocket
<1>3. accepted \subseteq accepted'
    BY DEF Websocket
<1>4. OnlyAcceptedReachTheUser'
    BY <1>1, <1>3 DEF Inv, OnlyAcceptedReachTheUser, ApiKeyAuth
<1>5. pc'[c] = "log" /\ context'[c] = "task" /\ after'[c] = a
    BY <1>1, <1>2 DEF Inv, TypeInv
<1> USE DEF Inv, At
<1>6. KindAt(c)' /\ ContextAt(c)' /\ AcceptedAt(c)'
    BY <1>1, <1>2, <1>5 DEF KindAt, ContextAt, AcceptedAt
<1>7. LoggedAt(c)'
    BY <1>1, <1>5 DEF LoggedAt, IsNew
<1>8. "log" \in PC /\ "task" \in {"none", "request", "response", "task"}
    BY DEF PC
<1> QED
    BY <1>1, <1>2, <1>3, <1>4, <1>6, <1>7, <1>8, SameRequest

(***************************************************************************)
(* What is piped to the user was accepted, and has been logged.            *)
(***************************************************************************)
LEMMA PipeStep ==
    ASSUME Inv, NEW c \in Conn, Pipe(c)
    PROVE  Inv'
<1>1. /\ UNCHANGED <<features, acceptor, request, count, context, after, accepted>>
      /\ sent' = sent /\ pc[c] = "pipe"
      /\ pc' = [pc EXCEPT ![c] = "closed"]
      /\ reached' \subseteq reached \cup {request[c]}
    BY DEF Pipe, logs, Goto
<1>2. /\ after' = [after EXCEPT ![c] = after[c]]
      /\ after[c] \in {"none", "closed", "pipe"}
      /\ context' = [context EXCEPT ![c] = context[c]]
      /\ context[c] \in {"none", "request", "response", "task"}
      /\ pc'[c] = "closed"
    BY <1>1 DEF Inv, TypeInv
<1> USE DEF Inv, At
<1>3. request[c] \in accepted /\ request[c].kind = "websocket" /\ IsLogged(c)
    BY <1>1 DEF AcceptedAt, KindAt, LoggedAt
<1>4. OnlyAcceptedReachTheUser'
    BY <1>1, <1>3 DEF OnlyAcceptedReachTheUser, ApiKeyAuth
<1>5. KindAt(c)' /\ ContextAt(c)' /\ AcceptedAt(c)'
    BY <1>2 DEF KindAt, ContextAt, AcceptedAt
<1>6. LoggedAt(c)'
    BY <1>1, <1>2, <1>3 DEF LoggedAt, IsLogged, IsDue
<1>7. "closed" \in PC
    BY DEF PC, Final
<1> QED
    BY <1>1, <1>2, <1>4, <1>5, <1>6, <1>7, SameRequest

(***************************************************************************)
(* An HTTP transaction is logged on the way back, a websocket's or a TCP   *)
(* stream's before it is piped: from then on the request is in the log.    *)
(***************************************************************************)
LEMMA LogStep ==
    ASSUME Inv, NEW c \in Conn, LogResponse(c) \/ LogNonHttpTrx(c)
    PROVE  Inv'
<1> USE DEF Inv, At
<1>1. /\ UNCHANGED <<features, acceptor, request, count, after, accepted, reached>>
      /\ context' = [context EXCEPT ![c] = "none"]
      /\ pc[c] \in {"back", "log"}
    BY DEF LogResponse, LogNonHttpTrx, ContextIn
<1>2. pc[c] = "log" => context[c] = "task" /\ request[c].kind = "websocket"
    BY <1>1 DEF LogResponse, LogNonHttpTrx, CanBuild, ContextAt
<1>3. PICK l \in {"answer", "closed", "pipe"} :
         /\ pc' = [pc EXCEPT ![c] = l]
         /\ pc[c] = "back" => l = "answer"
         /\ pc[c] = "log" => l = after[c] /\ l # "answer"
    BY <1>1, <1>2 DEF LogResponse, LogNonHttpTrx, Goto, AcceptedAt
<1>4. pc'[c] = l /\ context'[c] = "none" /\ l \in PC
    BY <1>1, <1>3 DEF TypeInv, PC, Final
<1>5. /\ request[c].kind \in {"http", "websocket"} /\ IsNew(c)
      /\ request[c] \in Request /\ request[c].conn = c /\ request[c].no = count[c]
      /\ pc[c] = "back" => request[c].kind = "http"
    BY <1>1, <1>2, NoRequestIsNone DEF KindAt, LoggedAt, Own
<1>6. OnlyAcceptedReachTheUser'
    BY <1>1 DEF OnlyAcceptedReachTheUser, ApiKeyAuth
<1>7. Own(c)' /\ KindAt(c)' /\ ContextAt(c)' /\ AcceptedAt(c)'
    <2>1. Own(c)'
        BY <1>1 DEF Own
    <2>2. KindAt(c)' /\ ContextAt(c)'
        BY <1>1, <1>2, <1>3, <1>4, <1>5 DEF KindAt, ContextAt
    <2>3. AcceptedAt(c)'
        BY <1>1, <1>2, <1>3, <1>4 DEF AcceptedAt
    <2> QED
        BY <2>1, <2>2, <2>3
<1>8. CASE sent' = Append(sent, request[c]) /\ (pc[c] = "back" => TrxLogging)
    <2>1. /\ sent' \in Seq(Request)
          /\ Len(sent) + 1 \in DOMAIN sent' /\ sent'[Len(sent) + 1] = request[c]
        BY <1>5, <1>8, AppendedLog DEF TypeInv
    <2>2. TypeInv'
        BY <1>1, <1>3, <1>4, <2>1 DEF TypeInv
    <2>3. OthersStay(c)
        BY <1>1, <1>3, <1>8 DEF OthersStay, TypeInv
    <2>4. IsLogged(c)'
        BY <1>1, <2>1 DEF IsLogged
    <2>5. IsDue(c)'
        BY <1>1, <1>2, <1>5, <1>8 DEF IsDue, TrxLogging
    <2>6. LoggedAt(c)'
        BY <1>4, <2>4, <2>5 DEF LoggedAt
    <2> QED
        BY <1>1, <1>5, <1>6, <1>7, <1>8, <2>2, <2>3, <2>6, LoggingStep
<1>9. CASE sent' = sent /\ pc[c] = "back" /\ ~TrxLogging
    <2>1. ~IsLogged(c)
        <3> SUFFICES ASSUME NEW i \in DOMAIN sent, sent[i] = request[c]
                     PROVE  FALSE
            BY DEF IsLogged
        <3>1. sent[i].no < count[c] /\ count[c] \in Nat
            BY <1>5 DEF IsNew, TypeInv
        <3> QED
            BY <1>5, <3>1
    <2>2. LoggedAt(c)'
        BY <1>1, <1>3, <1>4, <1>5, <1>9, <2>1
        DEF LoggedAt, IsLogged, IsDue, TrxLogging
    <2>3. after' = [after EXCEPT ![c] = after[c]]
          /\ after[c] \in {"none", "closed", "pipe"}
        BY <1>1 DEF TypeInv
    <2> QED
        BY <1>1, <1>3, <1>4, <1>6, <1>7, <1>9, <2>2, <2>3, SameRequest
<1> QED
    BY <1>1, <1>8, <1>9 DEF LogResponse, LogNonHttpTrx, Send, logs

(***************************************************************************)
(* The handler and its timer touch neither the tasks nor what was sent.    *)
(***************************************************************************)
LEMMA HandlerStep ==
    ASSUME Inv,
           LogTimer \/ ReceiveTrx \/ ReceiveTick \/ RecordLogs \/ PostEnds
             \/ UNCHANGED vars
    PROVE  Inv'
<1>1. UNCHANGED <<task, sent, accepted, reached>>
    BY DEF LogTimer, ReceiveTrx, ReceiveTick, RecordLogs, PostEnds, vars, logs
<1>2. TypeInv' /\ SentIsPast' /\ IsInjective(sent)' /\ OnlyAcceptedReachTheUser'
    BY <1>1 DEF task, Inv, TypeInv, SentIsPast, OnlyAcceptedReachTheUser, ApiKeyAuth
<1>3. \A c \in Conn : At(c)'
    BY <1>1 DEF task, Inv, At, Own, KindAt, ContextAt, AcceptedAt, LoggedAt, IsNew,
                IsLogged, IsDue, ApiKeyAuth, TrxLogging
<1> QED
    BY <1>2, <1>3 DEF Inv

-----------------------------------------------------------------------------
(***************************************************************************)
(* The invariant holds of every behaviour, for any connections, traffic,   *)
(* batch size and number of requests.                                      *)
(***************************************************************************)
THEOREM PipelineInvariant == Spec => []Inv
<1>1. Init => Inv
    <2> SUFFICES ASSUME Init PROVE Inv
        OBVIOUS
    <2>1. TypeInv
        BY NoConnIsNone DEF Init, TypeInv, PC
    <2>2. \A c \in Conn : At(c)
        BY DEF Init, At, Own, KindAt, ContextAt, AcceptedAt, LoggedAt
    <2>3. SentIsPast /\ IsInjective(sent) /\ OnlyAcceptedReachTheUser
        BY DEF Init, SentIsPast, IsInjective, OnlyAcceptedReachTheUser
    <2> QED
        BY <2>1, <2>2, <2>3 DEF Inv
<1>2. Inv /\ [Next]_vars => Inv'
    BY AcceptLoop, ParseStep, PlainStep, AuthStep, ForwardStep, WebsocketStep,
       PipeStep, LogStep, HandlerStep
    DEF Next, Step
<1> QED
    BY <1>1, <1>2, PTL DEF Spec

(***************************************************************************)
(* No request reaches the user process past the auth layer or the upgrade  *)
(* handler, even on a connection that carries many.                        *)
(***************************************************************************)
THEOREM OnlyAcceptedAreServed == Spec => []OnlyAcceptedReachTheUser
<1>1. Inv => OnlyAcceptedReachTheUser
    BY DEF Inv
<1> QED
    BY <1>1, PipelineInvariant, PTL

(***************************************************************************)
(* No expect for a request's context fails.                                *)
(***************************************************************************)
THEOREM ContextsArePreserved == Spec => []ContextIsPreserved
<1>1. Inv => ContextIsPreserved
    BY DEF Inv, At, ContextAt, ContextIsPreserved
<1> QED
    BY <1>1, PipelineInvariant, PTL

(***************************************************************************)
(* Requests are logged once, and only those that should be.                *)
(***************************************************************************)
THEOREM RequestsAreLoggedOnce == Spec => []EachRequestIsLoggedOnce
<1>1. Inv => EachRequestIsLoggedOnce
    <2> SUFFICES ASSUME Inv PROVE EachRequestIsLoggedOnce
        OBVIOUS
    <2>1. ASSUME NEW c \in Conn, pc[c] \in {"parse", "closed"},
                 request[c] # NoRequest
          PROVE  request[c] \in Logged(c) <=> IsDue(c)
        <3>1. request[c].conn = c
            BY <2>1 DEF Inv, At, Own
        <3>2. request[c] \in ToSet(sent) <=> IsLogged(c)
            BY DEF ToSet, IsLogged
        <3>3. request[c] \in Logged(c) <=> request[c] \in ToSet(sent)
            BY <3>1 DEF Logged
        <3> QED
            BY <2>1, <3>2, <3>3 DEF Inv, At, LoggedAt
    <2> QED
        BY <2>1 DEF Inv, EachRequestIsLoggedOnce, IsDue
<1> QED
    BY <1>1, PipelineInvariant, PTL

-----------------------------------------------------------------------------
(***************************************************************************)
(* The logs' way to the host.  That they stay in order is inductive with   *)
(* where the tick is, and with where the host's records end: before the    *)
(* batch, or with it once it is handled.                                   *)
(***************************************************************************)
\* What the channel holds is rest, and perhaps a tick.
OnItsWay(rest) ==
    \/ channel = rest
    \/ \E a, b \in Seq(Request) : channel = (a \o <<Tick>>) \o b /\ rest = a \o b

Taken == shipped \o batch \o buffer

QueueTypes ==
    /\ acceptor \in Conn \cup {NoConn}
    /\ accepted \subseteq Request /\ reached \subseteq Request
    /\ buffer \in Seq(Request) /\ Len(buffer) < FlushSize
    /\ batch \in Seq(Request) /\ Len(batch) <= FlushSize
    /\ shipped \in Seq(Request)

Queued == \E rest \in Seq(Request) : OnItsWay(rest) /\ sent = Taken \o rest

\* What the host has recorded is of posts that have ended, or of this one.
Recorded ==
    /\ recorded \in Seq(Request) /\ handled \in BOOLEAN
    /\ batch = <<>> => ~handled
    /\ \E at \in [DOMAIN recorded -> 1..RecordsEnd] :
          IsWithin(recorded, shipped \o batch, at)

OrderInv == QueueTypes /\ Queued /\ Recorded

(***************************************************************************)
(* A tick is not a request.                                                *)
(***************************************************************************)
LEMMA TickIsNoRequest == Tick \notin Request
BY KindsAreKnown DEF Tick, Request

(***************************************************************************)
(* A sequence is its head and its tail.                                    *)
(***************************************************************************)
LEMMA HeadAndTail ==
    /\ \A S : \A s \in Seq(S) : s # <<>> =>
          Head(s) \in S /\ Tail(s) \in Seq(S) /\ s = <<Head(s)>> \o Tail(s)
    /\ \A S : \A r \in S, s \in Seq(S) :
          Head(<<r>> \o s) = r /\ Tail(<<r>> \o s) = s
<1>1. ASSUME NEW S, NEW s \in Seq(S), s # <<>>
      PROVE  Head(s) \in S /\ Tail(s) \in Seq(S) /\ s = <<Head(s)>> \o Tail(s)
    BY <1>1
<1>2. ASSUME NEW S, NEW r \in S, NEW s \in Seq(S)
      PROVE  Head(<<r>> \o s) = r /\ Tail(<<r>> \o s) = s
    <2> DEFINE t == <<r>> \o s
    <2>1. /\ t \in Seq(S) /\ Len(t) = Len(s) + 1 /\ Len(s) \in Nat
          /\ t[1] = r /\ \A i \in 1..Len(s) : t[i + 1] = s[i]
        BY ConcatProperties
    <2> HIDE DEF t
    <2>2. t # <<>> /\ Head(t) = r
        BY <2>1
    <2>3. /\ Tail(t) \in Seq(S) /\ Len(Tail(t)) = Len(s)
          /\ \A i \in 1..Len(s) : Tail(t)[i] = s[i]
        BY <2>1, <2>2, HeadTailProperties
    <2>4. Tail(t) = s
        BY <2>3, SeqEqual
    <2> QED
        BY <2>2, <2>4 DEF t
<1> QED
    BY <1>1, <1>2

(***************************************************************************)
(* Where a tick is in the channel, and what is left when it is taken out.  *)
(***************************************************************************)
LEMMA TickPosition ==
    ASSUME NEW a \in Seq(Request), NEW b \in Seq(Request), NEW ch,
           ch = (a \o <<Tick>>) \o b
    PROVE  /\ ch \in Seq(Request \cup {Tick})
           /\ Len(a) + 1 \in DOMAIN ch /\ ch[Len(a) + 1] = Tick
           /\ RemoveAt(ch, Len(a) + 1) = a \o b
<1> DEFINE M == Request \cup {Tick}
           s == a \o <<Tick>>
<1>1. a \in Seq(M) /\ b \in Seq(M) /\ <<Tick>> \in Seq(M)
    BY SeqMonotonic
<1>2. s \in Seq(M) /\ Len(s) = Len(a) + 1 /\ s[Len(a) + 1] = Tick
      /\ (\A i \in 1..Len(a) : s[i] = a[i])
    BY <1>1, ConcatProperties
<1>3. /\ ch \in Seq(M) /\ Len(ch) = Len(a) + 1 + Len(b) /\ Len(a) \in Nat
      /\ Len(b) \in Nat
      /\ \A i \in 1..(Len(a) + 1 + Len(b)) :
            ch[i] = IF i <= Len(a) + 1 THEN s[i] ELSE b[i - (Len(a) + 1)]
    BY <1>1, <1>2, ConcatProperties
<1>4. SubSeq(ch, 1, Len(a)) = a
    <2>1. \A i \in 1..Len(a) : ch[i] = a[i] /\ ch[i] \in M
        BY <1>1, <1>2, <1>3
    <2> HIDE DEF M, s
    <2>2. /\ SubSeq(ch, 1, Len(a)) \in Seq(M) /\ Len(SubSeq(ch, 1, Len(a))) = Len(a)
          /\ \A i \in 1..Len(a) : SubSeq(ch, 1, Len(a))[i] = ch[i]
        BY <1>3, <2>1, SubSeqProperties
    <2> QED
        BY <1>1, <2>1, <2>2, SeqEqual
<1>5. SubSeq(ch, Len(a) + 2, Len(ch)) = b
    <2>1. \A i \in 1..Len(b) :
             ch[Len(a) + 1 + i] = b[i] /\ ch[Len(a) + 1 + i] \in M
        BY <1>1, <1>3
    <2>2. \A i \in (Len(a) + 2)..Len(ch) : ch[i] \in M
        BY <1>3
    <2> HIDE DEF M, s
    <2> DEFINE t == SubSeq(ch, Len(a) + 2, Len(ch))
    <2>3. /\ t \in Seq(M) /\ Len(t) = Len(b)
          /\ \A i \in 1..Len(b) : t[i] = ch[Len(a) + 2 + i - 1]
        BY <1>3, <2>2, SubSeqProperties
    <2> HIDE DEF t
    <2>4. \A i \in 1..Len(b) : t[i] = b[i]
        <3> TAKE i \in 1..Len(b)
        <3>1. Len(a) + 2 + i - 1 = Len(a) + 1 + i
            BY <1>3
        <3> QED
            BY <2>1, <2>3, <3>1
    <2>5. t = b
        BY <1>1, <2>3, <2>4, SeqEqual
    <2> QED
        BY <2>5 DEF t
<1>6. RemoveAt(ch, Len(a) + 1) = a \o b
    <2>1. (Len(a) + 1) - 1 = Len(a) /\ (Len(a) + 1) + 1 = Len(a) + 2
        BY <1>3
    <2> QED
        BY <1>4, <1>5, <2>1, Zenon DEF RemoveAt
<1>7. Len(a) + 1 \in DOMAIN ch /\ ch[Len(a) + 1] = Tick
    <2>1. DOMAIN ch = 1..Len(ch)
        BY <1>3, LenProperties
    <2> HIDE DEF s
    <2> QED
        BY <1>2, <1>3, <2>1
<1> QED
    BY <1>3, <1>6, <1>7

(***************************************************************************)
(* Moving the head of the second piece to the end of the first does not    *)
(* change the whole.                                                       *)
(***************************************************************************)
LEMMA HeadMoves ==
    ASSUME NEW S, NEW s \in Seq(S), NEW t \in Seq(S), t # <<>>
    PROVE  /\ Head(t) \in S /\ Tail(t) \in Seq(S)
           /\ s \o t = Append(s, Head(t)) \o Tail(t)
<1>1. /\ Head(t) \in S /\ Tail(t) \in Seq(S) /\ <<Head(t)>> \in Seq(S)
      /\ t = <<Head(t)>> \o Tail(t)
    OBVIOUS
<1>2. Append(s, Head(t)) = s \o <<Head(t)>>
    BY <1>1, AppendIsConcat
<1> QED
    BY <1>1, <1>2, ConcatAssociative

(***************************************************************************)
(* A log that is sent is the request of the task that sends it.            *)
(***************************************************************************)
LEMMA SentIsARequest ==
    ASSUME Inv, NEW c \in Conn, pc[c] \in {"auth", "back", "forward", "upgrade", "pipe", "log"}
    PROVE  request[c] \in Request
BY NoRequestIsNone DEF Inv, At, Own, KindAt

(***************************************************************************)
(* A step of a task keeps the order: a log goes to the end of the channel. *)
(***************************************************************************)
LEMMA TaskKeepsOrder ==
    ASSUME Inv, OrderInv, NEW c \in Conn, Accept(c) \/ Handshake(c) \/ Step(c)
    PROVE  OrderInv'
<1>1. UNCHANGED <<buffer, batch, shipped, host>>
    BY DEF Accept, Handshake, Step, ParseFails, Attest, ContextLog, Auth, Decrypt,
           Forward, LogResponse, ExpectFails, Answer, Websocket, LogNonHttpTrx, BuildFails,
           Pipe, Parse, Send, logs
<1>2. Recorded'
    BY <1>1 DEF OrderInv, Recorded, RecordsEnd, host
<1>3. QueueTypes'
    <2>1. acceptor' \in Conn \cup {NoConn}
        BY DEF OrderInv, QueueTypes, Accept, Handshake, Step, ParseFails, Attest,
           ContextLog, Auth, Decrypt, Forward, LogResponse, ExpectFails, Answer, Websocket,
           LogNonHttpTrx, BuildFails, Pipe, Parse
    <2>2. \/ UNCHANGED <<accepted, reached>>
          \/ /\ pc[c] \in {"auth", "forward", "upgrade", "pipe"}
             /\ accepted' \subseteq accepted \cup {request[c]}
             /\ reached' \subseteq reached \cup {request[c]}
        BY DEF Accept, Handshake, Step, ParseFails, Attest, ContextLog, Auth, Refuse,
           Decrypt, Forward, LogResponse, ExpectFails, Answer, Websocket, LogNonHttpTrx,
           BuildFails, Pipe, Parse
    <2> QED
        BY <1>1, <2>1, <2>2, SentIsARequest DEF OrderInv, QueueTypes
<1>4. \/ UNCHANGED <<channel, sent>>
      \/ /\ pc[c] \in {"back", "log"}
         /\ channel' = Append(channel, request[c]) /\ sent' = Append(sent, request[c])
    BY DEF Accept, Handshake, Step, ParseFails, Attest, ContextLog, Auth, Decrypt,
           Forward, LogResponse, ExpectFails, Answer, Websocket, LogNonHttpTrx, BuildFails,
           Pipe, Parse, Send, logs
<1>5. Queued'
    <2>1. PICK rest \in Seq(Request) : OnItsWay(rest) /\ sent = Taken \o rest
        BY DEF OrderInv, Queued
    <2>2. CASE UNCHANGED <<channel, sent>>
        BY <1>1, <2>1, <2>2 DEF Queued, OnItsWay, Taken
    <2>3. ASSUME NEW r \in Request,
                 channel' = Append(channel, r), sent' = Append(sent, r)
          PROVE  Queued'
        <3>1. Taken \in Seq(Request) /\ Taken' = Taken
            BY <1>1, ConcatProperties DEF Taken, OrderInv, QueueTypes
        <3>2. <<r>> \in Seq(Request) /\ rest \o <<r>> \in Seq(Request)
            BY ConcatProperties
        <3>3. sent' = Taken' \o (rest \o <<r>>)
            <4>1. sent' = sent \o <<r>>
                BY <2>3, AppendIsConcat DEF Inv, TypeInv
            <4> QED
                BY <2>1, <3>1, <3>2, <4>1, ConcatAssociative
        <3>4. OnItsWay(rest \o <<r>>)'
            <4>1. CASE channel = rest
                <5>1. channel' = rest \o <<r>>
                    BY <2>3, <4>1, AppendIsConcat
                <5> QED
                    BY <5>1 DEF OnItsWay
            <4>2. ASSUME NEW a \in Seq(Request), NEW b \in Seq(Request),
                         channel = (a \o <<Tick>>) \o b, rest = a \o b
                  PROVE  OnItsWay(rest \o <<r>>)'
                <5> DEFINE M == Request \cup {Tick}
                <5>1. a \in Seq(M) /\ b \in Seq(M) /\ <<r>> \in Seq(M) /\ <<Tick>> \in Seq(M)
                    BY SeqMonotonic
                <5>2. a \o <<Tick>> \in Seq(M) /\ channel \in Seq(M)
                    BY <4>2, <5>1, ConcatProperties
                <5>3. channel' = channel \o <<r>>
                    BY <2>3, <5>2, AppendIsConcat
                <5>4. channel' = (a \o <<Tick>>) \o (b \o <<r>>)
                    BY <4>2, <5>1, <5>2, <5>3, ConcatAssociative
                <5>5. /\ rest \o <<r>> = a \o (b \o <<r>>)
                      /\ b \o <<r>> \in Seq(Request)
                    BY <3>2, <4>2, ConcatAssociative, ConcatProperties
                <5> QED
                    BY <5>4, <5>5 DEF OnItsWay
            <4> QED
                BY <2>1, <4>1, <4>2 DEF OnItsWay
        <3> QED
            BY <3>2, <3>3, <3>4 DEF Queued
    <2> QED
        BY <1>4, <2>2, <2>3, SentIsARequest
<1> QED
    BY <1>2, <1>3, <1>5 DEF OrderInv

(***************************************************************************)
(* A tick joins the channel only if there is none.                         *)
(***************************************************************************)
LEMMA TimerKeepsOrder == ASSUME OrderInv, LogTimer PROVE OrderInv'
<1>1. UNCHANGED <<task, buffer, batch, sent, shipped, host, accepted, reached>>
    BY DEF LogTimer
<1>2. PICK rest \in Seq(Request) : OnItsWay(rest) /\ sent = Taken \o rest
    BY DEF OrderInv, Queued
<1>3. channel = rest
    <2>1. ASSUME NEW a \in Seq(Request), NEW b \in Seq(Request),
                 channel = (a \o <<Tick>>) \o b
          PROVE  FALSE
        <3>1. Len(a) + 1 \in DOMAIN channel /\ channel[Len(a) + 1] = Tick
            BY <2>1, TickPosition
        <3> QED
            BY <3>1 DEF LogTimer, ToSet
    <2> QED
        BY <1>2, <2>1 DEF OnItsWay
<1>4. channel' = (rest \o <<Tick>>) \o <<>>
    <2>1. rest \in Seq(Request \cup {Tick}) /\ <<Tick>> \in Seq(Request \cup {Tick})
        BY SeqMonotonic
    <2>2. Append(rest, Tick) = rest \o <<Tick>>
        BY <2>1, AppendIsConcat
    <2> QED
        BY <1>3, <2>1, <2>2, ConcatEmptySeq, ConcatProperties DEF LogTimer
<1>5. rest = rest \o <<>> /\ <<>> \in Seq(Request)
    BY ConcatEmptySeq
<1>6. OnItsWay(rest)'
    BY <1>4, <1>5 DEF OnItsWay
<1>7. Queued'
    BY <1>1, <1>2, <1>6 DEF Queued, Taken
<1> QED
    BY <1>1, <1>7 DEF OrderInv, QueueTypes, Recorded, RecordsEnd, task, host

(***************************************************************************)
(* The handler takes the head of the channel when no post is under way:    *)
(* what the host has recorded lies before the new batch, if there is one.  *)
(***************************************************************************)
LEMMA NewBatchIsNotRecorded ==
    ASSUME OrderInv, batch = <<>>, batch' \in Seq(Request), UNCHANGED <<shipped, host>>
    PROVE  Recorded'
<1>1. ~handled /\ RecordsEnd = Len(shipped) /\ RecordsEnd' = Len(shipped)
    BY DEF OrderInv, Recorded, RecordsEnd, host
<1>2. PICK at \in [DOMAIN recorded -> 1..Len(shipped)] :
         IsWithin(recorded, shipped \o batch, at)
    BY <1>1 DEF OrderInv, Recorded
<1>3. \A i \in DOMAIN recorded : recorded[i] = shipped[at[i]]
    <2>1. shipped \o batch = shipped
        BY ConcatEmptySeq DEF OrderInv, QueueTypes
    <2> QED
        BY <1>2, <2>1 DEF IsWithin
<1>4. \A k \in 1..Len(shipped) : (shipped \o batch')[k] = shipped[k]
    BY ConcatProperties DEF OrderInv, QueueTypes
<1>5. IsWithin(recorded, shipped \o batch', at)
    BY <1>2, <1>3, <1>4 DEF IsWithin
<1>6. UNCHANGED <<shipped, recorded, handled>>
    BY DEF host
<1> QED
    BY <1>1, <1>5, <1>6 DEF OrderInv, Recorded

(***************************************************************************)
(* A log moves from the channel to the buffer, and a full buffer to the    *)
(* batch; a tick in the channel stays behind it.                           *)
(***************************************************************************)
LEMMA ReceiveTrxKeepsOrder == ASSUME OrderInv, ReceiveTrx PROVE OrderInv'
<1> DEFINE h == Head(channel)
<1>1. /\ UNCHANGED <<task, sent, shipped, host, accepted, reached>>
      /\ batch = <<>> /\ channel # <<>> /\ h # Tick /\ channel' = Tail(channel)
      /\ \/ batch' = Append(buffer, h) /\ buffer' = <<>> /\ Len(Append(buffer, h)) >= FlushSize
         \/ batch' = <<>> /\ buffer' = Append(buffer, h) /\ ~(Len(Append(buffer, h)) >= FlushSize)
    BY DEF ReceiveTrx
<1>2. PICK rest \in Seq(Request) : OnItsWay(rest) /\ sent = Taken \o rest
    BY DEF OrderInv, Queued
<1>3. PICK r \in Request, tr \in Seq(Request) :
         r = h /\ rest = <<r>> \o tr /\ OnItsWay(tr)'
    <2>1. CASE channel = rest
        <3>1. PICK r \in Request, tr \in Seq(Request) :
                 r = Head(rest) /\ tr = Tail(rest) /\ rest = <<r>> \o tr
            <4>1. /\ Head(rest) \in Request /\ Tail(rest) \in Seq(Request)
                  /\ rest = <<Head(rest)>> \o Tail(rest)
                BY <1>1, <2>1, HeadAndTail
            <4> QED
                BY <4>1, Zenon
        <3>2. OnItsWay(tr)'
            BY <1>1, <2>1, <3>1 DEF OnItsWay
        <3> QED
            BY <2>1, <3>1, <3>2
    <2>2. ASSUME NEW a \in Seq(Request), NEW b \in Seq(Request),
                 channel = (a \o <<Tick>>) \o b, rest = a \o b
          PROVE  \E r \in Request, tr \in Seq(Request) :
                    r = h /\ rest = <<r>> \o tr /\ OnItsWay(tr)'
        <3>1. a # <<>>
            <4>1. channel \in Seq(Request \cup {Tick}) /\ channel[Len(a) + 1] = Tick
                BY <2>2, TickPosition
            <4>2. h = channel[1]
                BY <4>1
            <4> QED
                BY <1>1, <4>1, <4>2, EmptySeq
        <3>2. PICK r \in Request, ta \in Seq(Request) : a = <<r>> \o ta
            <4>1. Head(a) \in Request /\ Tail(a) \in Seq(Request) /\ a = <<Head(a)>> \o Tail(a)
                BY <3>1, HeadAndTail
            <4> QED
                BY <4>1, Zenon
        <3>3. rest = <<r>> \o (ta \o b) /\ ta \o b \in Seq(Request)
            BY <2>2, <3>2, ConcatAssociative, ConcatProperties
        <3>4. channel = <<r>> \o ((ta \o <<Tick>>) \o b)
              /\ (ta \o <<Tick>>) \o b \in Seq(Request \cup {Tick})
            <4> DEFINE M == Request \cup {Tick}
            <4>1. /\ <<r>> \in Seq(M) /\ ta \in Seq(M) /\ b \in Seq(M)
                  /\ <<Tick>> \in Seq(M)
                BY SeqMonotonic
            <4> HIDE DEF M
            <4>2. a \o <<Tick>> = <<r>> \o (ta \o <<Tick>>) /\ ta \o <<Tick>> \in Seq(M)
                BY <3>2, <4>1, ConcatAssociative, ConcatProperties
            <4>3. (<<r>> \o (ta \o <<Tick>>)) \o b = <<r>> \o ((ta \o <<Tick>>) \o b)
                <5> DEFINE u == <<r>>
                           v == ta \o <<Tick>>
                <5>1. u \in Seq(M) /\ v \in Seq(M) /\ b \in Seq(M)
                    BY <4>1, <4>2
                <5> HIDE DEF u, v
                <5>2. (u \o v) \o b = u \o (v \o b)
                    BY <5>1, ConcatAssociative
                <5> QED
                    BY <5>2 DEF u, v
            <4>4. (ta \o <<Tick>>) \o b \in Seq(M)
                BY <4>1, <4>2, ConcatProperties
            <4> QED
                BY <2>2, <4>2, <4>3, <4>4 DEF M
        <3>5. h = r /\ Tail(channel) = (ta \o <<Tick>>) \o b
            BY <3>4, HeadAndTail
        <3>6. OnItsWay(ta \o b)'
            BY <1>1, <3>5 DEF OnItsWay
        <3> QED
            BY <3>3, <3>5, <3>6
    <2>3. \/ channel = rest
          \/ \E a, b \in Seq(Request) :
                channel = (a \o <<Tick>>) \o b /\ rest = a \o b
        BY <1>2 DEF OnItsWay
    <2> QED
        BY <2>1, <2>2, <2>3
<1>4. /\ buffer \in Seq(Request) /\ shipped \in Seq(Request) /\ <<r>> \in Seq(Request)
      /\ Append(buffer, h) = buffer \o <<r>> /\ buffer \o <<r>> \in Seq(Request)
      /\ Len(buffer \o <<r>>) = Len(buffer) + 1 /\ Len(buffer) < FlushSize
      /\ Len(buffer) \in Nat
    BY <1>3, AppendIsConcat, ConcatProperties DEF OrderInv, QueueTypes
<1>5. QueueTypes'
    <2>1. Len(buffer \o <<r>>) <= FlushSize /\ 0 < FlushSize
        BY <1>4, BoundsAreNat
    <2>2. /\ buffer' \in Seq(Request) /\ Len(buffer') < FlushSize
          /\ batch' \in Seq(Request) /\ Len(batch') <= FlushSize
        <3> HIDE DEF h
        <3>1. CASE batch' = Append(buffer, h) /\ buffer' = <<>>
            BY <1>4, <2>1, <3>1, EmptySeq
        <3>2. CASE batch' = <<>> /\ buffer' = Append(buffer, h)
                     /\ ~(Len(Append(buffer, h)) >= FlushSize)
            BY <1>4, <2>1, <3>2, EmptySeq, BoundsAreNat
        <3> QED
            BY <1>1, <3>1, <3>2
    <2> QED
        BY <1>1, <2>2 DEF OrderInv, QueueTypes, task
<1>6. sent' = Taken' \o tr
    <2>1. Taken = shipped \o buffer
        BY <1>1, <1>4, ConcatEmptySeq DEF Taken
    <2>2. Taken' = shipped \o (buffer \o <<r>>)
        <3> HIDE DEF h
        <3>1. /\ (shipped \o (buffer \o <<r>>)) \o <<>> = shipped \o (buffer \o <<r>>)
              /\ (shipped \o <<>>) \o (buffer \o <<r>>) = shipped \o (buffer \o <<r>>)
            BY <1>4, ConcatEmptySeq, ConcatProperties
        <3> QED
            BY <1>1, <1>4, <3>1 DEF Taken
    <2>3. Taken' = Taken \o <<r>> /\ Taken \in Seq(Request)
        BY <1>4, <2>1, <2>2, ConcatAssociative, ConcatProperties
    <2>4. Taken \o (<<r>> \o tr) = (Taken \o <<r>>) \o tr
        <3> DEFINE u == <<r>>
        <3>1. u \in Seq(Request) /\ Taken \in Seq(Request) /\ tr \in Seq(Request)
            BY <1>4, <2>3
        <3> HIDE DEF u
        <3>2. Taken \o (u \o tr) = (Taken \o u) \o tr
            BY <3>1, ConcatAssociative
        <3> QED
            BY <3>2 DEF u
    <2> QED
        BY <1>1, <1>2, <1>3, <2>3, <2>4
<1>7. Queued'
    BY <1>3, <1>6 DEF Queued
<1>8. Recorded'
    BY <1>1, <1>5, NewBatchIsNotRecorded DEF QueueTypes
<1> QED
    BY <1>5, <1>7, <1>8 DEF OrderInv

(***************************************************************************)
(* The tick at the head of the channel was the only one; whatever is in    *)
(* the buffer becomes the batch.                                           *)
(***************************************************************************)
LEMMA ReceiveTickKeepsOrder == ASSUME OrderInv, ReceiveTick PROVE OrderInv'
<1>1. /\ UNCHANGED <<task, sent, shipped, host, accepted, reached>>
      /\ batch = <<>> /\ channel # <<>> /\ Head(channel) = Tick
      /\ channel' = Tail(channel) /\ batch' = buffer /\ buffer' = <<>>
    BY DEF ReceiveTick
<1>2. PICK rest \in Seq(Request) : OnItsWay(rest) /\ sent = Taken \o rest
    BY DEF OrderInv, Queued
<1>3. channel' = rest
    <2>1. channel # rest
        <3> SUFFICES ASSUME channel = rest PROVE FALSE
            OBVIOUS
        <3>1. Head(channel) \in Request
            BY <1>1, HeadTailProperties
        <3> QED
            BY <1>1, <3>1, TickIsNoRequest
    <2>2. PICK a \in Seq(Request), b \in Seq(Request) :
             channel = (a \o <<Tick>>) \o b /\ rest = a \o b
        BY <1>2, <2>1 DEF OnItsWay
    <2>3. a = <<>>
        <3> SUFFICES ASSUME a # <<>> PROVE FALSE
            OBVIOUS
        <3>1. Len(a) \in Nat \ {0} /\ a[1] \in Request
            BY EmptySeq, ElementOfSeq
        <3>2. channel[1] = a[1]
            <4> DEFINE M == Request \cup {Tick}
            <4>1. a \in Seq(M) /\ b \in Seq(M) /\ <<Tick>> \in Seq(M)
                BY SeqMonotonic
            <4> HIDE DEF M
            <4>2. /\ a \o <<Tick>> \in Seq(M) /\ (a \o <<Tick>>)[1] = a[1]
                  /\ Len(a \o <<Tick>>) \in Nat /\ Len(a \o <<Tick>>) >= 1
                BY <3>1, <4>1, ConcatProperties
            <4> QED
                BY <2>2, <4>1, <4>2, ConcatProperties
        <3>3. channel[1] = Tick
            <4>1. channel \in Seq(Request \cup {Tick})
                BY <2>2, TickPosition
            <4> QED
                BY <1>1, <4>1
        <3> QED
            BY <3>1, <3>2, <3>3, TickIsNoRequest
    <2>4. rest = b /\ channel = <<Tick>> \o b
        BY <2>2, <2>3
    <2> QED
        BY <1>1, <2>4
<1>4. Taken' = Taken
    BY <1>1, ConcatEmptySeq, ConcatProperties DEF Taken, OrderInv, QueueTypes
<1>5. Queued'
    BY <1>1, <1>2, <1>3, <1>4 DEF Queued, OnItsWay
<1>6. QueueTypes'
    BY <1>1, BoundsAreNat, EmptySeq DEF OrderInv, QueueTypes, task
<1>7. Recorded'
    BY <1>1, <1>6, NewBatchIsNotRecorded DEF QueueTypes
<1> QED
    BY <1>5, <1>6, <1>7 DEF OrderInv

(***************************************************************************)
(* The host records the batch behind everything that it has recorded.      *)
(***************************************************************************)
LEMMA RecordLogsKeepsOrder == ASSUME OrderInv, RecordLogs PROVE OrderInv'
<1>1. /\ UNCHANGED <<task, channel, buffer, batch, sent, shipped, accepted, reached>>
      /\ ~handled /\ handled' /\ recorded' = recorded \o batch /\ batch # <<>>
      /\ handled' \in BOOLEAN
    BY DEF RecordLogs
<1>2. QueueTypes' /\ Queued'
    BY <1>1 DEF OrderInv, QueueTypes, Queued, OnItsWay, Taken, task
<1>3. /\ shipped \in Seq(Request) /\ batch \in Seq(Request) /\ recorded \in Seq(Request)
      /\ Len(shipped) \in Nat /\ Len(batch) \in Nat /\ Len(recorded) \in Nat
    BY DEF OrderInv, QueueTypes, Recorded
<1>4. /\ recorded' \in Seq(Request) /\ Len(recorded') = Len(recorded) + Len(batch)
      /\ \A i \in 1..(Len(recorded) + Len(batch)) :
            recorded'[i] = IF i <= Len(recorded) THEN recorded[i]
                                                 ELSE batch[i - Len(recorded)]
    BY <1>1, <1>3, ConcatProperties
<1>5. \A i \in 1..(Len(shipped) + Len(batch)) :
         (shipped \o batch)[i] = IF i <= Len(shipped) THEN shipped[i]
                                                      ELSE batch[i - Len(shipped)]
    BY <1>3, ConcatProperties
<1>6. PICK at \in [DOMAIN recorded -> 1..Len(shipped)] :
         IsWithin(recorded, shipped \o batch, at)
    BY <1>1, <1>3 DEF OrderInv, Recorded, RecordsEnd
<1>7. /\ DOMAIN recorded = 1..Len(recorded)
      /\ DOMAIN recorded' = 1..(Len(recorded) + Len(batch))
    BY <1>3, <1>4, LenProperties
<1> DEFINE n == Len(recorded)
           k == Len(shipped)
           on == [i \in DOMAIN recorded' |-> IF i <= n THEN at[i] ELSE k + (i - n)]
<1>8. \A i \in DOMAIN recorded' : on[i] = IF i <= n THEN at[i] ELSE k + (i - n)
    OBVIOUS
<1>9. on \in [DOMAIN recorded' -> 1..(k + Len(batch))]
    BY <1>3, <1>6, <1>7
<1> HIDE DEF on
<1>10. \A i \in DOMAIN recorded' : recorded'[i] = (shipped \o batch)[on[i]]
    <2> TAKE i \in DOMAIN recorded'
    <2>1. CASE i <= n
        <3>1. i \in DOMAIN recorded /\ recorded'[i] = recorded[i] /\ on[i] = at[i]
            BY <1>3, <1>4, <1>7, <1>8, <2>1
        <3> QED
            BY <1>6, <3>1 DEF IsWithin
    <2>2. CASE ~(i <= n)
        <3>1. /\ on[i] = k + (i - n) /\ i - n \in 1..Len(batch)
              /\ recorded'[i] = batch[i - n]
            BY <1>3, <1>4, <1>7, <1>8, <2>2
        <3>2. (shipped \o batch)[k + (i - n)] = batch[(k + (i - n)) - k]
            BY <1>3, <1>5, <3>1
        <3>3. (k + (i - n)) - k = i - n
            BY <1>3, <3>1
        <3> QED
            BY <3>1, <3>2, <3>3
    <2> QED
        BY <2>1, <2>2
<1>11. ASSUME NEW i \in DOMAIN recorded', NEW j \in DOMAIN recorded', i < j
       PROVE  on[i] < on[j]
    <2>1. CASE j <= n
        BY <1>3, <1>6, <1>7, <1>8, <1>11, <2>1 DEF IsWithin
    <2>2. CASE i <= n /\ ~(j <= n)
        <3>1. on[i] = at[i] /\ at[i] \in 1..k
            BY <1>6, <1>7, <1>8, <2>2
        <3> QED
            BY <1>3, <1>7, <1>8, <2>2, <3>1
    <2>3. CASE ~(i <= n)
        BY <1>3, <1>7, <1>8, <1>11, <2>3
    <2> QED
        BY <1>3, <1>7, <2>1, <2>2, <2>3
<1>12. IsWithin(recorded', shipped \o batch, on)
    BY <1>10, <1>11 DEF IsWithin
<1>13. RecordsEnd' = k + Len(batch)
    BY <1>1 DEF RecordsEnd
<1> HIDE DEF k, n
<1>14. Recorded'
    <2>1. (shipped \o batch)' = shipped \o batch /\ batch' = batch
        BY <1>1
    <2> QED
        BY <1>1, <1>4, <1>9, <1>12, <1>13, <2>1 DEF Recorded
<1> QED
    BY <1>2, <1>14 DEF OrderInv

(***************************************************************************)
(* A post that ends, well or not, is over: its logs are behind the handler *)
(* and nothing is put back.                                                *)
(***************************************************************************)
LEMMA PostEndsKeepsOrder == ASSUME OrderInv, PostEnds PROVE OrderInv'
<1>1. /\ UNCHANGED <<task, channel, buffer, sent, recorded, accepted, reached>>
      /\ shipped' = shipped \o batch /\ batch' = <<>> /\ handled' = FALSE
    BY DEF PostEnds
<1>2. /\ shipped \in Seq(Request) /\ batch \in Seq(Request) /\ buffer \in Seq(Request)
      /\ shipped \o batch \in Seq(Request)
      /\ Len(shipped \o batch) = Len(shipped) + Len(batch)
      /\ Len(shipped) \in Nat /\ Len(batch) \in Nat
    BY ConcatProperties DEF OrderInv, QueueTypes
<1>3. QueueTypes'
    BY <1>1, <1>2, BoundsAreNat, EmptySeq DEF OrderInv, QueueTypes, task
<1>4. (shipped \o batch)' = shipped \o batch
    BY <1>1, <1>2, ConcatEmptySeq
<1>5. Taken' = Taken
    BY <1>1, <1>4 DEF Taken
<1>6. Queued'
    BY <1>1, <1>5 DEF OrderInv, Queued, OnItsWay
<1>7. Recorded'
    <2>1. PICK at \in [DOMAIN recorded -> 1..RecordsEnd] :
             IsWithin(recorded, shipped \o batch, at)
        BY DEF OrderInv, Recorded
    <2>2. RecordsEnd \in Nat /\ RecordsEnd <= Len(shipped) + Len(batch)
        BY <1>2 DEF RecordsEnd
    <2>3. RecordsEnd' = Len(shipped) + Len(batch)
        BY <1>1, <1>2 DEF RecordsEnd
    <2>4. at \in [DOMAIN recorded' -> 1..RecordsEnd']
        BY <1>1, <1>2, <2>2, <2>3
    <2>5. IsWithin(recorded', (shipped \o batch)', at)
        BY <1>1, <1>4, <2>1
    <2> QED
        BY <1>1, <2>4, <2>5 DEF OrderInv, Recorded
<1> QED
    BY <1>3, <1>6, <1>7 DEF OrderInv

(***************************************************************************)
(* The logs' invariant holds of every behaviour, for any batch size.       *)
(***************************************************************************)
THEOREM OrderInvariant == Spec => []OrderInv
<1>1. Init => OrderInv
    <2> SUFFICES ASSUME Init PROVE OrderInv
        OBVIOUS
    <2>1. QueueTypes
        BY BoundsAreNat, EmptySeq DEF Init, QueueTypes
    <2>2. Queued
        BY ConcatEmptySeq, EmptySeq DEF Init, Queued, OnItsWay, Taken
    <2>3. Recorded
        <3>1. recorded = <<>> /\ ~handled /\ handled \in BOOLEAN
            BY DEF Init
        <3>2. /\ [i \in {} |-> 0] \in [DOMAIN recorded -> 1..RecordsEnd]
              /\ IsWithin(recorded, shipped \o batch, [i \in {} |-> 0])
            BY <3>1 DEF IsWithin
        <3> QED
            BY <3>1, <3>2, EmptySeq DEF Recorded
    <2> QED
        BY <2>1, <2>2, <2>3 DEF OrderInv
<1>2. Inv /\ OrderInv /\ [Next]_vars => OrderInv'
    <2>1. ASSUME OrderInv, UNCHANGED vars PROVE OrderInv'
        BY <2>1 DEF vars, task, logs, host, OrderInv, QueueTypes, Queued, OnItsWay,
                    Taken, Recorded, RecordsEnd
    <2> QED
        BY <2>1, TaskKeepsOrder, TimerKeepsOrder, ReceiveTrxKeepsOrder,
           ReceiveTickKeepsOrder, RecordLogsKeepsOrder, PostEndsKeepsOrder DEF Next
<1> QED
    BY <1>1, <1>2, PipelineInvariant, PTL DEF Spec

(***************************************************************************)
(* No log is lost, repeated or overtaken between a connection's task and   *)
(* the host, and every variable keeps its type.                            *)
(***************************************************************************)
THEOREM LogsAreInOrder == Spec => []LogsStayInOrder
<1>1. Inv /\ OrderInv => LogsStayInOrder
    <2> SUFFICES ASSUME Inv, OrderInv PROVE LogsStayInOrder
        OBVIOUS
    <2>1. PICK rest \in Seq(Request) : OnItsWay(rest) /\ sent = Taken \o rest
        BY DEF OrderInv, Queued
    <2>2. /\ channel \in Seq(Request \cup {Tick})
          /\ \/ sent = Taken \o channel
             \/ \E i \in DOMAIN channel :
                   channel[i] = Tick /\ sent = Taken \o RemoveAt(channel, i)
        <3>1. CASE channel = rest
            BY <2>1, <3>1, SeqMonotonic
        <3>2. ASSUME NEW a \in Seq(Request), NEW b \in Seq(Request),
                     channel = (a \o <<Tick>>) \o b, rest = a \o b
              PROVE  /\ channel \in Seq(Request \cup {Tick})
                     /\ \E i \in DOMAIN channel :
                           channel[i] = Tick /\ sent = Taken \o RemoveAt(channel, i)
            <4>1. /\ channel \in Seq(Request \cup {Tick}) /\ Len(a) + 1 \in DOMAIN channel
                  /\ channel[Len(a) + 1] = Tick /\ RemoveAt(channel, Len(a) + 1) = rest
                BY <3>2, TickPosition
            <4> QED
                BY <2>1, <4>1, Zenon
        <3> QED
            BY <2>1, <3>1, <3>2 DEF OnItsWay
    <2>3. TypeOK
        BY <2>2 DEF Inv, TypeInv, OrderInv, QueueTypes, Recorded, TypeOK
    <2>4. \E at \in [DOMAIN recorded -> DOMAIN sent] : IsWithin(recorded, sent, at)
        <3>1. PICK at \in [DOMAIN recorded -> 1..RecordsEnd] :
                 IsWithin(recorded, shipped \o batch, at)
            BY DEF OrderInv, Recorded
        <3> DEFINE p == shipped \o batch
                   q == buffer \o rest
        <3>2. /\ shipped \in Seq(Request) /\ batch \in Seq(Request)
              /\ buffer \in Seq(Request) /\ p \in Seq(Request) /\ q \in Seq(Request)
              /\ Len(p) = Len(shipped) + Len(batch)
            BY ConcatProperties DEF OrderInv, QueueTypes
        <3>3. RecordsEnd \in Nat /\ RecordsEnd <= Len(p)
            BY <3>2 DEF RecordsEnd
        <3> HIDE DEF p, q
        <3>4. sent = p \o q
            BY <2>1, <3>2, ConcatAssociative DEF Taken, p, q
        <3>5. /\ \A k \in 1..Len(p) : sent[k] = p[k] /\ k \in DOMAIN sent
            BY <3>2, <3>4, ConcatProperties, LenProperties
        <3>6. at \in [DOMAIN recorded -> DOMAIN sent]
            BY <3>3, <3>2, <3>5
        <3>7. IsWithin(recorded, sent, at)
            <4>1. \A i \in DOMAIN recorded : at[i] \in 1..Len(p)
                BY <3>2, <3>3
            <4>2. \A i \in DOMAIN recorded : recorded[i] = p[at[i]]
                BY <3>1 DEF IsWithin, p
            <4>3. \A i, j \in DOMAIN recorded : i < j => at[i] < at[j]
                BY <3>1 DEF IsWithin
            <4> QED
                BY <3>5, <4>1, <4>2, <4>3 DEF IsWithin
        <3> QED
            BY <3>6, <3>7
    <2> QED
        BY <2>2, <2>3, <2>4 DEF LogsStayInOrder, Taken
<1> QED
    BY <1>1, PipelineInvariant, OrderInvariant, PTL

(***************************************************************************)
(* The logs of a post are the next ones of those that were sent.           *)
(***************************************************************************)
LEMMA BatchIsNext ==
    ASSUME Inv, OrderInv, batch # <<>>
    PROVE  LET n == Len(batch) IN
           /\ n \in 1..FlushSize /\ Len(shipped) \in Nat
           /\ Len(shipped) + n <= Len(sent)
           /\ SubSeq(sent, Len(shipped) + 1, Len(shipped) + n) = batch
<1> DEFINE m == Len(shipped)
           n == Len(batch)
<1>1. PICK rest \in Seq(Request) : sent = Taken \o rest
    BY DEF OrderInv, Queued
<1> DEFINE q == buffer \o rest
           p == shipped \o batch
<1>2. /\ shipped \in Seq(Request) /\ batch \in Seq(Request) /\ buffer \in Seq(Request)
      /\ q \in Seq(Request) /\ p \in Seq(Request) /\ Len(p) = m + n
      /\ m \in Nat /\ n \in Nat /\ n <= FlushSize /\ Len(q) \in Nat
      /\ \A i \in 1..(m + n) : p[i] = IF i <= m THEN shipped[i] ELSE batch[i - m]
    BY ConcatProperties, LenProperties DEF OrderInv, QueueTypes
<1>3. n \in 1..FlushSize
    BY <1>2, EmptySeq, BoundsAreNat
<1> HIDE DEF m, n, p, q
<1>4. sent = p \o q
    <2>1. p \in Seq(Request) /\ buffer \in Seq(Request) /\ sent = (p \o buffer) \o rest
        BY <1>1, <1>2 DEF Taken, p
    <2> QED
        BY <2>1, ConcatAssociative DEF q
<1>5. /\ Len(sent) = m + n + Len(q) /\ sent \in Seq(Request)
      /\ \A i \in 1..(m + n) : sent[i] = p[i]
    <2>1. /\ p \o q \in Seq(Request) /\ Len(p \o q) = Len(p) + Len(q)
          /\ \A i \in 1..(Len(p) + Len(q)) :
                (p \o q)[i] = IF i <= Len(p) THEN p[i] ELSE q[i - Len(p)]
        BY <1>2, ConcatProperties
    <2> QED
        BY <1>2, <1>4, <2>1
<1>6. SubSeq(sent, m + 1, m + n) = batch
    <2> DEFINE s == SubSeq(sent, m + 1, m + n)
    <2>0. \A i \in (m + 1)..(m + n) : sent[i] \in Request
        BY <1>2, <1>5, ElementOfSeq
    <2>1. /\ s \in Seq(Request) /\ Len(s) = n
          /\ \A i \in 1..n : s[i] = sent[m + 1 + i - 1]
        BY <1>2, <1>5, <2>0, SubSeqProperties
    <2> HIDE DEF s
    <2>2. \A i \in 1..n : s[i] = batch[i]
        <3> TAKE i \in 1..n
        <3>1. /\ m + 1 + i - 1 = m + i /\ m + i \in 1..(m + n)
              /\ ~(m + i <= m) /\ (m + i) - m = i
            BY <1>2
        <3> QED
            BY <1>2, <1>5, <2>1, <3>1
    <2>3. Len(batch) = n
        BY DEF n
    <2>4. s = batch
        BY <1>2, <2>1, <2>2, <2>3, SeqEqual
    <2> QED
        BY <2>4 DEF s
<1>7. m + n <= Len(sent)
    BY <1>2, <1>5
<1> QED
    BY <1>2, <1>3, <1>6, <1>7 DEF m, n

(***************************************************************************)
(* A step of a task sends a log that was not sent before, or none.         *)
(***************************************************************************)
LEMMA TaskSends ==
    ASSUME Inv, Inv', OrderInv, NEW c \in Conn, Accept(c) \/ Handshake(c) \/ Step(c)
    PROVE  Q!Send \/ UNCHANGED Q!vars
<1>1. UNCHANGED <<buffer, batch, shipped, recorded, handled>>
    BY DEF Accept, Handshake, Step, ParseFails, Attest, ContextLog, Auth, Decrypt,
           Forward, LogResponse, ExpectFails, Answer, Websocket, LogNonHttpTrx, BuildFails,
           Pipe, Parse, Send, logs, host
<1>2. UNCHANGED <<RecordsEnd, recorded>>
    BY <1>1 DEF RecordsEnd
<1>3. \/ UNCHANGED sent
      \/ pc[c] \in {"back", "log"} /\ sent' = Append(sent, request[c])
    BY DEF Accept, Handshake, Step, ParseFails, Attest, ContextLog, Auth, Decrypt,
           Forward, LogResponse, ExpectFails, Answer, Websocket, LogNonHttpTrx, BuildFails,
           Pipe, Parse, Send, logs
<1>4. CASE UNCHANGED sent
    BY <1>2, <1>4 DEF Q!vars
<1>5. ASSUME NEW r \in Request, sent' = Append(sent, r) PROVE Q!Send
    <2>1. /\ sent \in Seq(Request) /\ Len(sent) \in Nat
          /\ Len(sent') = Len(sent) + 1 /\ sent'[Len(sent) + 1] = r
          /\ \A i \in 1..Len(sent) : sent'[i] = sent[i]
          /\ DOMAIN sent = 1..Len(sent) /\ DOMAIN sent' = 1..(Len(sent) + 1)
        BY <1>5, AppendProperties DEF Inv, TypeInv
    <2>2. Last(sent') = r
        BY <2>1 DEF Last
    <2>3. ASSUME r \in ToSet(sent) PROVE FALSE
        <3>1. PICK i \in DOMAIN sent : sent[i] = r
            BY <2>3 DEF ToSet
        <3>2. i \in DOMAIN sent' /\ Len(sent) + 1 \in DOMAIN sent' /\ i # Len(sent) + 1
            BY <2>1
        <3>3. sent'[i] = sent'[Len(sent) + 1]
            BY <2>1, <3>1
        <3>4. \A j, k \in DOMAIN sent' : sent'[j] = sent'[k] => j = k
            BY DEF Inv, IsInjective
        <3> QED
            BY <3>2, <3>3, <3>4
    <2>4. sent' = Append(sent, Last(sent')) /\ Last(sent') \notin ToSet(sent)
        BY <1>5, <2>2, <2>3
    <2>5. Q!Last(sent') = Last(sent') /\ Q!ToSet(sent) = ToSet(sent)
        BY DEF Last, Q!Last, ToSet, Q!ToSet
    <2> QED
        BY <1>2, <2>1, <2>4, <2>5 DEF Q!Send
<1> QED
    BY <1>3, <1>4, <1>5, SentIsARequest

(***************************************************************************)
(* The batch leaves the queue when the host records it, or when its post   *)
(* ends unrecorded; filling the buffer and the batch moves nothing.        *)
(***************************************************************************)
LEMMA HandlerMoves ==
    ASSUME Inv, OrderInv, LogTimer \/ ReceiveTrx \/ ReceiveTick \/ RecordLogs \/ PostEnds
    PROVE  [Q!Next]_(Q!vars)
<1>1. CASE LogTimer
    BY <1>1 DEF LogTimer, RecordsEnd, host, Q!vars
<1>2. CASE ReceiveTrx \/ ReceiveTick
    <2>1. ~handled /\ UNCHANGED <<sent, shipped, recorded, handled>>
        BY <1>2 DEF ReceiveTrx, ReceiveTick, host, OrderInv, Recorded
    <2> QED
        BY <2>1 DEF RecordsEnd, Q!vars
<1>3. CASE RecordLogs
    <2>1. /\ batch # <<>> /\ RecordsEnd = Len(shipped)
          /\ RecordsEnd' = Len(shipped) + Len(batch)
          /\ UNCHANGED sent /\ recorded' = recorded \o batch
        BY <1>3 DEF RecordLogs, RecordsEnd
    <2>2. Q!Record(Len(batch)) /\ Len(batch) \in 1..FlushSize
        BY <2>1, BatchIsNext DEF Q!Record, Q!Leave
    <2> QED
        BY <2>2 DEF Q!Next
<1>4. CASE PostEnds
    <2>1. /\ batch # <<>> /\ UNCHANGED <<sent, recorded>>
          /\ shipped' = shipped \o batch /\ batch' = <<>> /\ handled' = FALSE
        BY <1>4 DEF PostEnds
    <2>2. /\ Len(shipped') = Len(shipped) + Len(batch)
        BY <2>1, ConcatProperties DEF OrderInv, QueueTypes
    <2>3. RecordsEnd' = Len(shipped) + Len(batch)
        BY <2>1, <2>2 DEF RecordsEnd
    <2>4. CASE handled
        BY <2>1, <2>3, <2>4 DEF RecordsEnd, Q!vars
    <2>5. CASE ~handled
        <3>1. RecordsEnd = Len(shipped)
            BY <2>5, BatchIsNext, <2>1 DEF RecordsEnd
        <3>2. Q!Lose(Len(batch)) /\ Len(batch) \in 1..FlushSize
            BY <2>1, <2>3, <3>1, BatchIsNext DEF Q!Lose, Q!Leave
        <3> QED
            BY <3>2 DEF Q!Next
    <2> QED
        BY <2>4, <2>5
<1> QED
    BY <1>1, <1>2, <1>3, <1>4

(***************************************************************************)
(* The channel, the handler and the host implement LogQueue, for any batch *)
(* size and any number of connections and requests, wherever posts fail.   *)
(***************************************************************************)
THEOREM PipelineImplementsLogQueue == Spec => ImplementsLogQueue
<1>1. Init => Q!Init
    <2>1. Len(<<>>) = 0
        BY EmptySeq
    <2> QED
        BY <2>1 DEF Init, Q!Init, RecordsEnd
<1>2. Inv /\ Inv' /\ OrderInv /\ [Next]_vars => [Q!Next]_(Q!vars)
    <2>1. ASSUME UNCHANGED vars PROVE UNCHANGED Q!vars
        BY <2>1 DEF vars, logs, host, RecordsEnd, Q!vars
    <2> QED
        BY <2>1, TaskSends, HandlerMoves DEF Next, Q!Next
<1> QED
    BY <1>1, <1>2, PipelineInvariant, OrderInvariant, PTL
       DEF Spec, ImplementsLogQueue, Q!Spec

-----------------------------------------------------------------------------
(***************************************************************************)
(* The decoder.  What it has found and missed is inductive with where each *)
(* byte of the buffer comes from: that a candidate of the buffer is one of *)
(* the body, and that none begins in what is cut off as plaintext.         *)
(***************************************************************************)

(***************************************************************************)
(* The buffer holds what was read and not cut off, and after the end       *)
(* perhaps the injected byte; x is how many of these were injected.        *)
(***************************************************************************)
HoldsUnread(x) ==
    /\ Len(src) = read + x - offset
    /\ x = 1 => eof
    /\ \A i \in 1..Len(src) :
          src[i] = IF offset + i <= read THEN body[offset + i] ELSE Injected

\* A ciphertext whose "ev" has been cut off was found, or a read ended there.
PassedIsFound ==
    \A k \in Ciphertexts : k <= offset =>
        k \in cuts \/ \E r \in ToSet(found) : r[1] < k /\ k <= r[2]

(***************************************************************************)
(* The inductive invariant of StreamDecoder.                               *)
(***************************************************************************)
DecoderInv ==
    /\ DecoderTypeOK
    /\ \E x \in {0, 1} : HoldsUnread(x)
    /\ eof => read = Len(body)
    /\ mode = "read" => ~eof
    /\ mode = "done" => eof /\ src = <<>>
    /\ read > 0 => read \in cuts
    /\ RangesAreCiphertexts
    /\ PassedIsFound

-----------------------------------------------------------------------------
(***************************************************************************)
(* What the helpers return.                                                *)
(***************************************************************************)
LEMMA MinIsLeast ==
    ASSUME NEW S, S \subseteq Nat, S # {}
    PROVE  Min(S) \in S /\ \A y \in S : Min(S) <= y
<1>1. \E x \in S : \A y \in S : ~(<<y, x>> \in OpToRel(<, Nat))
    BY NatLessThanWellFounded, WFMin
<1>2. PICK x \in S : \A y \in S : ~(<<y, x>> \in {ss \in Nat \X Nat : ss[1] < ss[2]})
    BY <1>1 DEF OpToRel
<1>3. ASSUME NEW y \in S PROVE x <= y
    <2>1. x \in Nat /\ y \in Nat
        OBVIOUS
    <2>2. <<y, x>> \in Nat \X Nat /\ <<y, x>>[1] = y /\ <<y, x>>[2] = x
        BY <2>1
    <2>3. ~(y < x)
        BY <1>2, <2>2
    <2> QED
        BY <2>1, <2>3
<1> QED
    BY <1>3 DEF Min

LEMMA CandidateIsFirst ==
    ASSUME NEW T, NEW s \in Seq(T)
    PROVE  /\ Candidate(s) \in Nat
           /\ Candidate(s) # 0 =>
                 /\ Candidate(s) + 1 <= Len(s)
                 /\ s[Candidate(s)] = "ev" /\ s[Candidate(s) + 1] = ":"
           /\ \A j \in 1..(Len(s) - 1) : s[j] = "ev" /\ s[j + 1] = ":" =>
                 Candidate(s) # 0 /\ Candidate(s) <= j
<1> DEFINE hits == {k \in 1..(Len(s) - 1) : s[k] = "ev" /\ s[k + 1] = ":"}
<1>1. Candidate(s) = IF hits = {} THEN 0 ELSE Min(hits)
    BY DEF Candidate
<1>2. hits \subseteq Nat /\ Len(s) \in Nat
    OBVIOUS
<1>3. hits # {} => Min(hits) \in hits /\ \A y \in hits : Min(hits) <= y
    BY <1>2, MinIsLeast
<1>4. \A k : k \in hits <=> k \in 1..(Len(s) - 1) /\ s[k] = "ev" /\ s[k + 1] = ":"
    OBVIOUS
<1> HIDE DEF hits
<1>5. CASE hits = {}
    BY <1>1, <1>4, <1>5
<1>6. CASE hits # {}
    <2>1. Candidate(s) \in hits /\ \A y \in hits : Candidate(s) <= y
        BY <1>1, <1>3, <1>6
    <2>2. /\ Candidate(s) \in 1..(Len(s) - 1)
          /\ s[Candidate(s)] = "ev" /\ s[Candidate(s) + 1] = ":"
        BY <2>1, <1>4
    <2>3. \A j \in 1..(Len(s) - 1) : s[j] = "ev" /\ s[j + 1] = ":" => Candidate(s) <= j
        BY <2>1, <1>4
    <2> QED
        BY <2>2, <2>3, <1>2
<1> QED
    BY <1>5, <1>6

LEMMA FromIsTail ==
    ASSUME NEW T, NEW s \in Seq(T), NEW n \in 0..Len(s)
    PROVE  /\ From(s, n) \in Seq(T) /\ Len(From(s, n)) = Len(s) - n
           /\ \A i \in 1..(Len(s) - n) : From(s, n)[i] = s[n + i]
    BY DEF From

LEMMA PieceOf ==
    ASSUME NEW T, NEW s \in Seq(T), NEW m \in Nat, NEW n \in Nat, m + n <= Len(s)
    PROVE  /\ SubSeq(s, m + 1, m + n) \in Seq(T)
           /\ Len(SubSeq(s, m + 1, m + n)) = n
           /\ \A k \in 1..n : SubSeq(s, m + 1, m + n)[k] = s[m + k]
<1>1. \A k \in (m + 1)..(m + n) : s[k] \in T
    OBVIOUS
<1>2. /\ SubSeq(s, m + 1, m + n) \in Seq(T)
      /\ Len(SubSeq(s, m + 1, m + n)) =
            IF m + 1 <= m + n THEN (m + n) - (m + 1) + 1 ELSE 0
      /\ \A k \in 1..((m + n) - (m + 1) + 1) :
            SubSeq(s, m + 1, m + n)[k] = s[(m + 1) + k - 1]
    BY <1>1, SubSeqProperties, m + 1 \in Int, m + n \in Int
<1>3. (m + n) - (m + 1) + 1 = n /\ \A k \in 1..n : (m + 1) + k - 1 = m + k
    OBVIOUS
<1> QED
    BY <1>2, <1>3

LEMMA PieceUpTo ==
    ASSUME NEW T, NEW s \in Seq(T), NEW m \in Nat, NEW n \in Nat, m <= n, n <= Len(s)
    PROVE  /\ SubSeq(s, m + 1, n) \in Seq(T)
           /\ Len(SubSeq(s, m + 1, n)) = n - m
           /\ \A k \in 1..(n - m) : SubSeq(s, m + 1, n)[k] = s[m + k]
<1>1. m + 1 \in Int /\ n \in Int /\ \A k \in (m + 1)..n : s[k] \in T
    OBVIOUS
<1>2. /\ SubSeq(s, m + 1, n) \in Seq(T)
      /\ Len(SubSeq(s, m + 1, n)) = IF m + 1 <= n THEN n - (m + 1) + 1 ELSE 0
      /\ \A k \in 1..(n - (m + 1) + 1) : SubSeq(s, m + 1, n)[k] = s[(m + 1) + k - 1]
    BY <1>1, SubSeqProperties
<1>3. /\ n - (m + 1) + 1 = n - m /\ (~(m + 1 <= n) => n - m = 0)
      /\ \A k \in 1..(n - m) : (m + 1) + k - 1 = m + k
    OBVIOUS
<1> QED
    BY <1>2, <1>3

LEMMA ThreeTokens ==
    ASSUME NEW T, NEW s \in Seq(T), NEW m \in Nat, m + 3 <= Len(s)
    PROVE  SubSeq(s, m + 1, m + 3) =
             <<s[m + 1], s[m + 2], s[m + 3]>>
<1> DEFINE t == SubSeq(s, m + 1, m + 3)
           u == <<s[m + 1], s[m + 2], s[m + 3]>>
<1>0. 3 \in Nat
    OBVIOUS
<1>1. t \in Seq(T) /\ Len(t) = 3 /\ \A k \in 1..3 : t[k] = s[m + k]
    BY <1>0, PieceOf, Zenon
<1>2. u \in Seq(T) /\ Len(u) = 3
    BY \A k \in 1..3 : s[m + k] \in T
<1>3. \A k \in 1..3 : t[k] = u[k]
    BY <1>1
<1> HIDE DEF t, u
<1>4. \A k \in 1..Len(t) : t[k] = u[k]
    BY <1>1, <1>3
<1>5. t = u
    BY <1>1, <1>2, <1>4, SeqEqual
<1> QED
    BY <1>5 DEF t, u

LEMMA FiveTokens ==
    ASSUME NEW T, NEW s \in Seq(T), NEW m \in Nat, m + 5 <= Len(s)
    PROVE  SubSeq(s, m + 1, m + 5) =
             <<s[m + 1], s[m + 2], s[m + 3], s[m + 4], s[m + 5]>>
<1> DEFINE t == SubSeq(s, m + 1, m + 5)
           u == <<s[m + 1], s[m + 2], s[m + 3], s[m + 4], s[m + 5]>>
<1>0. 5 \in Nat
    OBVIOUS
<1>1. t \in Seq(T) /\ Len(t) = 5 /\ \A k \in 1..5 : t[k] = s[m + k]
    BY <1>0, PieceOf, Zenon
<1>2. u \in Seq(T) /\ Len(u) = 5
    BY \A k \in 1..5 : s[m + k] \in T
<1>3. \A k \in 1..5 : t[k] = u[k]
    BY <1>1
<1> HIDE DEF t, u
<1>4. \A k \in 1..Len(t) : t[k] = u[k]
    BY <1>1, <1>3
<1>5. t = u
    BY <1>1, <1>2, <1>4, SeqEqual
<1> QED
    BY <1>5 DEF t, u

LEMMA CiphertextAt ==
    ASSUME DecoderTypeOK, NEW k \in Nat
    PROVE  k \in Ciphertexts <=>
             /\ k >= 1 /\ k + 2 <= Len(body)
             /\ body[k] = "ev" /\ body[k + 1] = ":" /\ body[k + 2] = "rest"
<1>1. body \in Seq(Token) /\ Len(body) \in Nat
    BY DEF DecoderTypeOK
<1>2. CASE k \in 1..(Len(body) - 2)
    <2>1. SubSeq(body, (k - 1) + 1, (k - 1) + 3) =
            <<body[(k - 1) + 1], body[(k - 1) + 2], body[(k - 1) + 3]>>
        BY <1>1, <1>2, ThreeTokens, k - 1 \in Nat, (k - 1) + 3 <= Len(body)
    <2>2. SubSeq(body, k, k + 2) = <<body[k], body[k + 1], body[k + 2]>>
        BY <2>1, <1>1, <1>2, (k - 1) + 1 = k, (k - 1) + 2 = k + 1, (k - 1) + 3 = k + 2
    <2> QED
        BY <2>2, <1>1, <1>2 DEF Ciphertexts
<1>3. CASE k \notin 1..(Len(body) - 2)
    BY <1>1, <1>3 DEF Ciphertexts
<1> QED
    BY <1>2, <1>3

(***************************************************************************)
(* A candidate at the front of the buffer, and what becomes of it.         *)
(***************************************************************************)
LEMMA FrontCandidate ==
    ASSUME DecoderTypeOK, Where # 0, PlaintextLen = 0
    PROVE  /\ Where \in {1, 2} /\ Where + 1 <= Len(src)
           /\ QuotePrecedesCipher <=> Where = 2
           /\ Where = 2 => src[1] = "quote"
           /\ src[Where] = "ev" /\ src[Where + 1] = ":"
           /\ ParsedCandidate \in {"bare", "trailing"} =>
                 Where + 3 <= Len(src) /\ src[Where + 2] = "rest"
           /\ ParsedCandidate = "trailing" => src[Where + 3] = "quote"
           /\ ParsedCandidate = "bare" => src[Where + 3] # "quote"
           /\ ParsedCandidate = "none" =>
                 Where + 2 <= Len(src) /\ src[Where + 2] # "rest"
           /\ ParsedCandidate = "incomplete" =>
                 \/ Len(src) = Where + 1
                 \/ Len(src) = Where + 2 /\ src[Where + 2] = "rest"
<1> DEFINE T == Token \cup {Injected}
           c == From(src, Where - 1)
<1>1. src \in Seq(T)
    BY DEF DecoderTypeOK
<1>2. /\ Where \in Nat /\ Where + 1 <= Len(src)
      /\ src[Where] = "ev" /\ src[Where + 1] = ":"
    BY <1>1, CandidateIsFirst DEF Where
<1>3. Where \in {1, 2} /\ (QuotePrecedesCipher <=> Where = 2) /\ (Where = 2 => src[1] = "quote")
    BY <1>2 DEF PlaintextLen, QuotePrecedesCipher
<1>4. /\ Len(c) = Len(src) - Where + 1
      /\ \A i \in 1..Len(c) : c[i] = src[Where - 1 + i]
    <2>1. Where - 1 \in 0..Len(src) /\ Len(src) \in Nat
        BY <1>1, <1>2
    <2>2. /\ Len(c) = Len(src) - (Where - 1)
          /\ \A i \in 1..(Len(src) - (Where - 1)) : c[i] = src[(Where - 1) + i]
        BY <1>1, <2>1, FromIsTail
    <2> QED
        BY <2>1, <2>2, <1>2
<1>5. ParsedCandidate = ParseCiphertexts(c)
    BY DEF ParsedCandidate
<1>6. /\ Len(c) >= 3 => c[3] = src[Where + 2]
      /\ Len(c) >= 4 => c[4] = src[Where + 3]
    BY <1>2, <1>4, Where - 1 + 3 = Where + 2, Where - 1 + 4 = Where + 3
<1>7. /\ Len(c) = 2 => ParsedCandidate = "incomplete"
      /\ Len(c) # 2 /\ c[3] # "rest" => ParsedCandidate = "none"
      /\ Len(c) = 3 /\ c[3] = "rest" => ParsedCandidate = "incomplete"
      /\ Len(c) \notin {2, 3} /\ c[3] = "rest" =>
            ParsedCandidate = IF c[4] = "quote" THEN "trailing" ELSE "bare"
    BY <1>5 DEF ParseCiphertexts
<1> HIDE DEF c
<1>8. Len(c) \in Nat /\ Len(c) >= 2 /\ Len(src) = Len(c) + Where - 1
    BY <1>1, <1>2, <1>4
<1>9. CASE Len(c) = 2
    BY <1>2, <1>3, <1>7, <1>8, <1>9
<1>10. CASE Len(c) >= 3 /\ c[3] # "rest"
    BY <1>2, <1>3, <1>6, <1>7, <1>8, <1>10
<1>11. CASE Len(c) = 3 /\ c[3] = "rest"
    BY <1>2, <1>3, <1>6, <1>7, <1>8, <1>11
<1>12. CASE Len(c) >= 4 /\ c[3] = "rest"
    BY <1>2, <1>3, <1>6, <1>7, <1>8, <1>12
<1>13. \/ Len(c) = 2
       \/ Len(c) >= 3 /\ c[3] # "rest"
       \/ Len(c) = 3 /\ c[3] = "rest"
       \/ Len(c) >= 4 /\ c[3] = "rest"
    <2>1. PICK n \in Nat : n = Len(c) /\ n >= 2
        BY <1>8
    <2>2. n = 2 \/ n = 3 \/ n >= 4
        BY <2>1
    <2> QED
        BY <2>1, <2>2
<1> QED
    BY <1>9, <1>10, <1>11, <1>12, <1>13, Zenon

-----------------------------------------------------------------------------
(***************************************************************************)
(* A ciphertext that begins in what is cut off the front is a candidate of *)
(* the buffer, unless a read ended inside its "ev:".                       *)
(***************************************************************************)
LEMMA CiphertextInBuffer ==
    ASSUME DecoderInv, NEW j \in 1..Len(src), offset + j \in Ciphertexts
    PROVE  \/ offset + j \in cuts
           \/ /\ j + 1 <= Len(src) /\ src[j] = "ev" /\ src[j + 1] = ":"
              /\ j + 2 <= Len(src) => src[j + 2] = "rest"
              /\ eof => j + 2 <= Len(src)
<1> DEFINE k == offset + j
<1>1. /\ offset \in Nat /\ read \in Nat /\ Len(body) \in Nat /\ Len(src) \in Nat
      /\ read <= Len(body) /\ k \in Nat /\ j \in Nat
    BY DEF DecoderInv, DecoderTypeOK
<1>2. /\ k >= 1 /\ k + 2 <= Len(body)
      /\ body[k] = "ev" /\ body[k + 1] = ":" /\ body[k + 2] = "rest"
    BY <1>1, CiphertextAt DEF DecoderInv
<1>3. PICK x \in {0, 1} : HoldsUnread(x)
    BY DEF DecoderInv
<1>4. /\ Len(src) = read + x - offset /\ (x = 1 => eof)
      /\ \A i \in 1..Len(src) :
            src[i] = IF offset + i <= read THEN body[offset + i] ELSE Injected
    BY <1>3 DEF HoldsUnread
<1>5. (eof => read = Len(body)) /\ (read > 0 => read \in cuts)
    BY DEF DecoderInv
<1> HIDE DEF k
<1>6. k = offset + j
    BY DEF k
<1>7. CASE k = read
    BY <1>1, <1>2, <1>5, <1>6, <1>7
<1>8. CASE k > read
    BY <1>1, <1>2, <1>4, <1>5, <1>6, <1>8
<1>9. CASE k < read
    <2>1. j + 1 <= Len(src) /\ (eof => j + 2 <= Len(src))
        BY <1>1, <1>2, <1>4, <1>5, <1>6, <1>9
    <2>2. src[j] = body[k] /\ src[j + 1] = body[k + 1]
        BY <1>1, <1>4, <1>6, <1>9, <2>1, j + 1 \in 1..Len(src), offset + (j + 1) = k + 1
    <2>3. ASSUME j + 2 <= Len(src) PROVE src[j + 2] = body[k + 2]
        <3>1. j + 2 \in 1..Len(src) /\ offset + (j + 2) = k + 2
            BY <2>3, <1>1, <1>6
        <3>2. k + 2 <= read
            BY <1>1, <1>2, <1>4, <1>5, <1>6, <1>9, <2>3
        <3> QED
            BY <3>1, <3>2, <1>4
    <2> QED
        BY <1>2, <2>1, <2>2, <2>3
<1> QED
    BY <1>1, <1>7, <1>8, <1>9

(***************************************************************************)
(* A frame of n bytes is cut off, and every ciphertext that begins in it   *)
(* is accounted for.                                                       *)
(***************************************************************************)
LEMMA CutOff ==
    ASSUME DecoderInv, mode = "decode", NEW n \in 0..Len(src),
           src' = From(src, n), offset' = offset + n,
           UNCHANGED <<body, read, eof, mode, cuts>>,
           found' \in Seq((0..MaxLen) \X (0..MaxLen)),
           ToSet(found) \subseteq ToSet(found'), RangesAreCiphertexts',
           \A j \in 1..n : offset + j \in Ciphertexts =>
               \/ offset + j \in cuts
               \/ \E r \in ToSet(found') : r[1] < offset + j /\ offset + j <= r[2]
    PROVE  DecoderInv'
<1>1. /\ offset \in Nat /\ read \in Nat /\ Len(body) \in Nat /\ Len(src) \in Nat
      /\ read <= Len(body) /\ Len(body) <= MaxLen /\ MaxLen \in Nat /\ n \in Nat
      /\ src \in Seq(Token \cup {Injected})
    BY SizesAreNat DEF DecoderInv, DecoderTypeOK
<1>2. PICK x \in {0, 1} : HoldsUnread(x)
    BY DEF DecoderInv
<1>3. /\ Len(src) = read + x - offset /\ (x = 1 => eof)
      /\ \A i \in 1..Len(src) :
            src[i] = IF offset + i <= read THEN body[offset + i] ELSE Injected
    BY <1>2 DEF HoldsUnread
<1>4. /\ src' \in Seq(Token \cup {Injected}) /\ Len(src') = Len(src) - n
      /\ \A i \in 1..(Len(src) - n) : src'[i] = src[n + i]
    BY <1>1, FromIsTail
<1>5. HoldsUnread(x)'
    <2>1. Len(src') = read + x - offset'
        <3>1. Len(src) - n = read + x - (offset + n)
            BY <1>1, <1>3
        <3> QED
            BY <3>1, <1>4
    <2>2. ASSUME NEW i \in 1..Len(src')
          PROVE  src'[i] = IF offset' + i <= read THEN body[offset' + i] ELSE Injected
        <3>1. src'[i] = src[n + i] /\ n + i \in 1..Len(src) /\ offset' + i = offset + (n + i)
            BY <1>1, <1>4
        <3> QED
            BY <3>1, <1>3
    <2> QED
        BY <2>1, <2>2, <1>3 DEF HoldsUnread
<1>6. DecoderTypeOK'
    BY <1>1, <1>3, <1>4 DEF DecoderInv, DecoderTypeOK
<1>7. PassedIsFound'
    <2> SUFFICES ASSUME NEW k \in Ciphertexts', k <= offset'
                 PROVE  \/ k \in cuts
                        \/ \E r \in ToSet(found') : r[1] < k /\ k <= r[2]
        BY DEF PassedIsFound
    <2>1. k \in Ciphertexts /\ k \in Nat
        BY <1>1 DEF Ciphertexts
    <2>2. CASE k <= offset
        <3>1. k \in cuts \/ \E r \in ToSet(found) : r[1] < k /\ k <= r[2]
            BY <2>1, <2>2 DEF DecoderInv, PassedIsFound
        <3> QED
            BY <3>1
    <2>3. CASE k > offset
        <3>1. k - offset \in 1..n /\ offset + (k - offset) = k
            BY <1>1, <2>1, <2>3
        <3> QED
            BY <3>1, <2>1
    <2> QED
        BY <1>1, <2>1, <2>2, <2>3
<1> QED
    BY <1>1, <1>5, <1>6, <1>7 DEF DecoderInv

LEMMA PlaintextFrame ==
    ASSUME DecoderInv, mode = "decode", NEW n \in 0..Len(src), CreateSlice(n),
           UNCHANGED <<body, read, eof, mode, cuts>>,
           \A j \in 1..n : offset + j \in Ciphertexts => offset + j \in cuts
    PROVE  DecoderInv'
<1>1. /\ src' = From(src, n) /\ offset' = offset + n /\ found' = found
    BY DEF CreateSlice
<1>2. RangesAreCiphertexts'
    BY <1>1 DEF DecoderInv, RangesAreCiphertexts, HalfQuoted, Ciphertexts
<1>3. found' \in Seq((0..MaxLen) \X (0..MaxLen)) /\ ToSet(found) \subseteq ToSet(found')
    BY <1>1 DEF DecoderInv, DecoderTypeOK
<1> QED
    BY <1>1, <1>2, <1>3, CutOff

(***************************************************************************)
(* The frame of a ciphertext.  Its range is within what has been read, for *)
(* the injected byte is not one of its tokens.                             *)
(***************************************************************************)
LEMMA CiphertextFrame ==
    ASSUME DecoderInv, mode = "decode", Where # 0, PlaintextLen = 0,
           ParsedCandidate \in {"bare", "trailing"}, EmitCiphertext,
           UNCHANGED <<body, read, eof, mode, cuts>>
    PROVE  DecoderInv'
<1> DEFINE n == CiphertextLen(QuotePrecedesCipher, ParsedCandidate)
           T == Token \cup {Injected}
           range == <<offset, offset + n>>
<1>1. /\ offset \in Nat /\ read \in Nat /\ Len(body) \in Nat /\ Len(src) \in Nat
      /\ read <= Len(body) /\ Len(body) <= MaxLen /\ MaxLen \in Nat
      /\ body \in Seq(Token) /\ found \in Seq((0..MaxLen) \X (0..MaxLen))
    BY SizesAreNat DEF DecoderInv, DecoderTypeOK
<1>2. PICK x \in {0, 1} : HoldsUnread(x)
    BY DEF DecoderInv
<1>3. /\ Len(src) = read + x - offset /\ (x = 1 => eof)
      /\ \A i \in 1..Len(src) :
            src[i] = IF offset + i <= read THEN body[offset + i] ELSE Injected
    BY <1>2 DEF HoldsUnread
<1>4. /\ Where \in {1, 2} /\ Where + 3 <= Len(src)
      /\ QuotePrecedesCipher <=> Where = 2
      /\ Where = 2 => src[1] = "quote"
      /\ src[Where] = "ev" /\ src[Where + 1] = ":" /\ src[Where + 2] = "rest"
      /\ ParsedCandidate = "trailing" <=> src[Where + 3] = "quote"
    BY FrontCandidate DEF DecoderInv
<1>5. ASSUME NEW i \in 1..Len(src), src[i] # Injected
      PROVE  offset + i <= read /\ body[offset + i] = src[i]
    BY <1>3, <1>5
<1>6. /\ n = IF Where = 2 /\ ParsedCandidate = "trailing" THEN 5 ELSE 3
      /\ n \in Nat /\ n \in 0..Len(src)
    BY <1>1, <1>4 DEF CiphertextLen
<1>7. /\ src' = From(src, n) /\ offset' = offset + n /\ found' = Append(found, range)
    BY DEF EmitCiphertext
<1> HIDE DEF n
<1>8. /\ offset + n <= read
      /\ LET text == SubSeq(body, offset + 1, offset + n)
         IN  \/ text = <<"ev", ":", "rest">>
             \/ text = <<"quote", "ev", ":", "rest", "quote">>
             \/ offset + 2 \in HalfQuoted
    <2>1. CASE Where = 1
        <3>1. n = 3 /\ src[1] = "ev" /\ src[2] = ":" /\ src[3] = "rest" /\ Len(src) >= 4
            BY <1>4, <1>6, <2>1
        <3>2. /\ offset + 3 <= read
              /\ body[offset + 1] = "ev" /\ body[offset + 2] = ":"
              /\ body[offset + 3] = "rest"
            BY <3>1, <1>1, <1>5, 1 \in 1..Len(src), 2 \in 1..Len(src), 3 \in 1..Len(src)
               DEF Injected
        <3>3. SubSeq(body, offset + 1, offset + 3) = <<"ev", ":", "rest">>
            BY <3>2, <1>1, ThreeTokens
        <3> QED
            BY <3>1, <3>2, <3>3
    <2>2. CASE Where = 2 /\ ParsedCandidate = "bare"
        <3>1. /\ n = 3 /\ src[1] = "quote" /\ src[2] = "ev" /\ src[3] = ":"
              /\ src[4] = "rest" /\ Len(src) >= 5
            BY <1>4, <1>6, <2>2
        <3>2. /\ offset + 4 <= read
              /\ body[offset + 1] = "quote" /\ body[offset + 2] = "ev"
              /\ body[offset + 3] = ":" /\ body[offset + 4] = "rest"
            BY <3>1, <1>1, <1>5, 1 \in 1..Len(src), 2 \in 1..Len(src), 3 \in 1..Len(src), 4 \in 1..Len(src)
               DEF Injected
        <3>3. offset + 5 <= Len(body) => body[offset + 5] # "quote"
            <4>1. src[5] # "quote" /\ 5 \in 1..Len(src)
                BY <1>1, <1>4, <2>2, <3>1
            <4>2. CASE offset + 5 <= read
                BY <1>3, <4>1, <4>2
            <4>3. CASE ~(offset + 5 <= read)
                <5>1. x = 1 /\ read = offset + 4
                    BY <1>1, <1>3, <3>1, <3>2, <4>3
                <5>2. read = Len(body)
                    BY <1>3, <5>1 DEF DecoderInv
                <5> QED
                    BY <1>1, <5>1, <5>2
            <4> QED
                BY <4>2, <4>3
        <3>4. offset + 2 \in Ciphertexts
            <4>1. offset + 2 \in Nat /\ offset + 2 >= 1 /\ (offset + 2) + 2 <= Len(body)
                BY <1>1, <3>2
            <4>2. (offset + 2) + 1 = offset + 3 /\ (offset + 2) + 2 = offset + 4
                BY <1>1
            <4> QED
                BY <4>1, <4>2, <3>2, CiphertextAt DEF DecoderInv
        <3>5. offset + 2 \in HalfQuoted
            <4>1. (offset + 2) - 1 = offset + 1 /\ (offset + 2) + 3 = offset + 5
                  /\ offset + 2 > 1
                BY <1>1
            <4> QED
                BY <3>2, <3>3, <3>4, <4>1 DEF HalfQuoted
        <3> QED
            BY <1>1, <3>1, <3>2, <3>5
    <2>3. CASE Where = 2 /\ ParsedCandidate = "trailing"
        <3>1. /\ n = 5 /\ src[1] = "quote" /\ src[2] = "ev" /\ src[3] = ":"
              /\ src[4] = "rest" /\ src[5] = "quote" /\ Len(src) >= 5
            BY <1>4, <1>6, <2>3
        <3>2. /\ offset + 5 <= read
              /\ body[offset + 1] = "quote" /\ body[offset + 2] = "ev"
              /\ body[offset + 3] = ":" /\ body[offset + 4] = "rest"
              /\ body[offset + 5] = "quote"
            BY <3>1, <1>1, <1>5, 1 \in 1..Len(src), 2 \in 1..Len(src), 3 \in 1..Len(src), 4 \in 1..Len(src), 5 \in 1..Len(src)
               DEF Injected
        <3>3. SubSeq(body, offset + 1, offset + 5) =
                <<"quote", "ev", ":", "rest", "quote">>
            <4>1. SubSeq(body, offset + 1, offset + 5) =
                    <<body[offset + 1], body[offset + 2], body[offset + 3],
                      body[offset + 4], body[offset + 5]>>
                BY <3>2, <1>1, FiveTokens, offset + 5 <= Len(body)
            <4> QED
                BY <4>1, <3>2
        <3> QED
            BY <3>1, <3>2, <3>3
    <2> QED
        BY <1>4, <2>1, <2>2, <2>3
<1>9. /\ range \in (0..MaxLen) \X (0..MaxLen)
      /\ found' \in Seq((0..MaxLen) \X (0..MaxLen))
      /\ ToSet(found') = ToSet(found) \cup {range}
    <2>1. range \in (0..MaxLen) \X (0..MaxLen)
        BY <1>1, <1>6, <1>8
    <2> HIDE DEF range
    <2>2. /\ found' \in Seq((0..MaxLen) \X (0..MaxLen)) /\ Len(found') = Len(found) + 1
          /\ \A i \in 1..Len(found) : found'[i] = found[i]
          /\ found'[Len(found) + 1] = range
        BY <2>1, <1>1, <1>7, AppendProperties
    <2>3. /\ Len(found) \in Nat /\ DOMAIN found = 1..Len(found)
          /\ DOMAIN found' = 1..(Len(found) + 1)
        BY <2>2, <1>1
    <2>4. ToSet(found) \cup {range} \subseteq ToSet(found')
        <3>1. ASSUME NEW i \in 1..Len(found) PROVE found[i] \in ToSet(found')
            <4>1. i \in DOMAIN found' /\ found'[i] = found[i]
                BY <2>2, <2>3
            <4> QED
                BY <4>1 DEF ToSet
        <3>2. range \in ToSet(found')
            <4>1. Len(found) + 1 \in DOMAIN found'
                BY <2>3
            <4> QED
                BY <4>1, <2>2 DEF ToSet
        <3> QED
            BY <3>1, <3>2, <2>3 DEF ToSet
    <2>5. ToSet(found') \subseteq ToSet(found) \cup {range}
        <3> SUFFICES ASSUME NEW i \in DOMAIN found'
                     PROVE  found'[i] \in ToSet(found) \cup {range}
            BY DEF ToSet
        <3>1. CASE i \in 1..Len(found)
            BY <3>1, <2>2, <2>3 DEF ToSet
        <3>2. CASE i = Len(found) + 1
            BY <3>2, <2>2
        <3> QED
            BY <3>1, <3>2, <2>3
    <2> QED
        BY <2>1, <2>2, <2>4, <2>5
<1>10. RangesAreCiphertexts'
    <2> SUFFICES ASSUME NEW r \in ToSet(found')
                 PROVE  LET text == SubSeq(body, r[1] + 1, r[2])
                        IN  \/ text = <<"ev", ":", "rest">>
                            \/ text = <<"quote", "ev", ":", "rest", "quote">>
                            \/ r[1] + 2 \in HalfQuoted
        BY DEF RangesAreCiphertexts, HalfQuoted, Ciphertexts
    <2>1. CASE r \in ToSet(found)
        BY <2>1 DEF DecoderInv, RangesAreCiphertexts
    <2>2. CASE r = range
        BY <2>2, <1>8
    <2> QED
        BY <1>9, <2>1, <2>2
<1>11. ASSUME NEW j \in 1..n
       PROVE  \E r \in ToSet(found') : r[1] < offset + j /\ offset + j <= r[2]
    <2>1. range[1] < offset + j /\ offset + j <= range[2]
        BY <1>1, <1>6
    <2> QED
        BY <2>1, <1>9
<1> QED
    BY <1>6, <1>7, <1>9, <1>10, <1>11, CutOff

(***************************************************************************)
(* Every frame of decode_ciphertexts.                                      *)
(***************************************************************************)
LEMMA FrameStep == ASSUME DecoderInv, DecodeFrame PROVE DecoderInv'
<1>1. mode = "decode" /\ UNCHANGED <<body, read, eof, mode, cuts>> /\ NextFrame
    BY DEF DecodeFrame
<1>2. /\ src \in Seq(Token \cup {Injected}) /\ Len(src) \in Nat
      /\ read \in Nat /\ offset \in Nat
    BY DEF DecoderInv, DecoderTypeOK
<1>3. /\ Where \in Nat
      /\ Where # 0 => Where + 1 <= Len(src)
      /\ \A j \in 1..(Len(src) - 1) : src[j] = "ev" /\ src[j + 1] = ":" =>
            Where # 0 /\ Where <= j
    BY <1>2, CandidateIsFirst DEF Where
<1>4. CASE Where = 0 /\ CreateSlice(Len(src))
    <2>1. ASSUME NEW j \in 1..Len(src), offset + j \in Ciphertexts
          PROVE  offset + j \in cuts
        BY <2>1, <1>2, <1>3, <1>4, CiphertextInBuffer
    <2> QED
        BY <2>1, <1>1, <1>2, <1>4, PlaintextFrame
<1>5. CASE Where # 0 /\ PlaintextLen > 0 /\ CreateSlice(PlaintextLen)
    <2>1. PlaintextLen \in 0..Len(src) /\ PlaintextLen < Where
        BY <1>2, <1>3, <1>5 DEF PlaintextLen, QuotePrecedesCipher
    <2>2. ASSUME NEW j \in 1..PlaintextLen, offset + j \in Ciphertexts
          PROVE  offset + j \in cuts
        <3>1. j \in 1..Len(src) /\ j < Where
            BY <2>1, <1>2, <1>3
        <3>2. \/ offset + j \in cuts
              \/ j + 1 <= Len(src) /\ src[j] = "ev" /\ src[j + 1] = ":"
            BY <2>2, <3>1, CiphertextInBuffer
        <3> QED
            BY <3>1, <3>2, <1>2, <1>3
    <2> QED
        BY <2>1, <2>2, <1>1, <1>5, PlaintextFrame
<1>6. CASE /\ Where # 0 /\ PlaintextLen = 0 /\ ParsedCandidate \in {"bare", "trailing"}
           /\ EmitCiphertext
    BY <1>1, <1>6, CiphertextFrame
<1>7. CASE Where # 0 /\ PlaintextLen = 0 /\ ParsedCandidate = "none" /\ NotACiphertext
    <2> DEFINE tail == From(src, Where + 1)
               next == Candidate(tail)
               n == IF next = 0 THEN Len(src) ELSE next - 1 + 2
    <2>1. /\ Where \in {1, 2} /\ Where + 2 <= Len(src) /\ src[Where + 1] = ":"
          /\ src[Where + 2] # "rest"
        BY <1>7, FrontCandidate DEF DecoderInv
    <2>2. /\ tail \in Seq(Token \cup {Injected}) /\ Len(tail) = Len(src) - (Where + 1)
          /\ \A i \in 1..(Len(src) - (Where + 1)) : tail[i] = src[(Where + 1) + i]
        BY <1>2, <2>1, FromIsTail, Where + 1 \in 0..Len(src)
    <2>3. /\ next \in Nat /\ (next # 0 => next + 1 <= Len(tail))
          /\ \A j \in 1..(Len(tail) - 1) : tail[j] = "ev" /\ tail[j + 1] = ":" =>
                next # 0 /\ next <= j
        BY <2>2, CandidateIsFirst
    <2>4. CreateSlice(n)
        BY <1>7 DEF NotACiphertext
    <2> HIDE DEF tail, next
    <2>5. n \in 0..Len(src)
        BY <1>2, <2>1, <2>2, <2>3
    <2>6. ASSUME NEW j \in 1..n, offset + j \in Ciphertexts
          PROVE  offset + j \in cuts
        <3> SUFFICES ASSUME offset + j \notin cuts PROVE FALSE
            OBVIOUS
        <3>1. j \in 1..Len(src)
            BY <1>2, <2>5
        <3>2. /\ j + 1 <= Len(src) /\ src[j] = "ev" /\ src[j + 1] = ":"
              /\ j + 2 <= Len(src) => src[j + 2] = "rest"
            BY <2>6, <3>1, CiphertextInBuffer
        <3>3. Where <= j
            BY <1>2, <1>3, <3>1, <3>2
        <3>4. j # Where /\ j # Where + 1
            BY <2>1, <3>2
        <3>5. /\ j - (Where + 1) \in 1..(Len(tail) - 1)
              /\ tail[j - (Where + 1)] = "ev" /\ tail[(j - (Where + 1)) + 1] = ":"
            <4>1. /\ j - (Where + 1) \in 1..(Len(src) - (Where + 1) - 1)
                  /\ (Where + 1) + (j - (Where + 1)) = j
                  /\ (Where + 1) + ((j - (Where + 1)) + 1) = j + 1
                BY <1>2, <2>1, <3>1, <3>2, <3>3, <3>4
            <4> QED
                BY <4>1, <2>2, <3>2, <1>2, <2>1
        <3>6. next # 0 /\ next <= j - (Where + 1)
            BY <2>3, <3>5
        <3> QED
            BY <3>6, <2>1, <2>3, <3>1, <1>2
    <2> QED
        BY <1>1, <2>4, <2>5, <2>6, PlaintextFrame
<1> QED
    BY <1>1, <1>4, <1>5, <1>6, <1>7 DEF NextFrame

(***************************************************************************)
(* What decode_eof does with a candidate that the body ends in.            *)
(***************************************************************************)
LEMMA EofStep == ASSUME DecoderInv, DecodeEofIncomplete PROVE DecoderInv'
<1>1. /\ mode = "decode" /\ eof /\ UNCHANGED <<body, read, eof, mode, cuts>>
      /\ Where # 0 /\ PlaintextLen = 0 /\ ParsedCandidate = "incomplete"
    BY DEF DecodeEofIncomplete, Incomplete
<1>2. /\ offset \in Nat /\ read \in Nat /\ Len(body) \in Nat /\ Len(src) \in Nat
      /\ src \in Seq(Token \cup {Injected})
    BY DEF DecoderInv, DecoderTypeOK
<1>3. /\ Where \in {1, 2} /\ Where + 1 <= Len(src)
      /\ src[Where + 1] = ":"
      /\ \/ Len(src) = Where + 1
         \/ Len(src) = Where + 2 /\ src[Where + 2] = "rest"
    BY <1>1, FrontCandidate DEF DecoderInv
<1>4. CASE src' = Append(src, Injected) /\ UNCHANGED <<offset, found>>
    <2>1. src[Len(src)] # Injected
        BY <1>3 DEF Injected
    <2>2. PICK x \in {0, 1} : HoldsUnread(x)
        BY DEF DecoderInv
    <2>3. /\ Len(src) = read + x - offset
          /\ \A i \in 1..Len(src) :
                src[i] = IF offset + i <= read THEN body[offset + i] ELSE Injected
        BY <2>2 DEF HoldsUnread
    <2>4. Len(src) \in 1..Len(src)
        BY <1>2, <1>3
    <2>5. x = 0
        BY <1>2, <2>1, <2>3, <2>4
    <2>6. /\ src' \in Seq(Token \cup {Injected}) /\ Len(src') = Len(src) + 1
          /\ \A i \in 1..Len(src) : src'[i] = src[i]
          /\ src'[Len(src) + 1] = Injected
        BY <1>2, <1>4, AppendProperties
    <2>7. HoldsUnread(1)'
        <3>1. Len(src') = read + 1 - offset
            BY <1>2, <2>3, <2>5, <2>6
        <3>2. ASSUME NEW i \in 1..Len(src')
              PROVE  src'[i] = IF offset + i <= read THEN body[offset + i] ELSE Injected
            <4>1. CASE i \in 1..Len(src)
                BY <4>1, <2>3, <2>6
            <4>2. CASE i = Len(src) + 1
                BY <4>2, <1>2, <2>3, <2>5, <2>6
            <4> QED
                BY <4>1, <4>2, <1>2, <2>6
        <3> QED
            BY <3>1, <3>2, <1>1, <1>4 DEF HoldsUnread
    <2>8. DecoderTypeOK' /\ RangesAreCiphertexts' /\ PassedIsFound'
        BY <1>1, <1>4, <2>6 DEF DecoderInv, DecoderTypeOK, RangesAreCiphertexts,
           HalfQuoted, PassedIsFound, Ciphertexts
    <2> QED
        BY <1>1, <1>4, <2>7, <2>8 DEF DecoderInv
<1>5. CASE Len(src) = Where + 1 /\ CreateSlice(Len(src))
    <2>1. ASSUME NEW j \in 1..Len(src), offset + j \in Ciphertexts
          PROVE  offset + j \in cuts
        <3> SUFFICES ASSUME offset + j \notin cuts PROVE FALSE
            OBVIOUS
        <3>1. src[j] = "ev" /\ src[j + 1] = ":" /\ j + 2 <= Len(src)
            BY <1>1, <2>1, CiphertextInBuffer
        <3>2. j \in 1..(Len(src) - 1) /\ j < Where
            BY <3>1, <1>2, <1>3, <1>5
        <3>3. Where <= j
            BY <3>1, <3>2, <1>2, CandidateIsFirst DEF Where
        <3> QED
            BY <3>2, <3>3, <1>3
    <2>2. Len(src) \in 0..Len(src)
        BY <1>2
    <2> QED
        BY <2>1, <2>2, <1>1, <1>5, PlaintextFrame
<1> QED
    BY <1>4, <1>5 DEF DecodeEofIncomplete

(***************************************************************************)
(* A read appends to the buffer what follows in the body.                  *)
(***************************************************************************)
LEMMA ReadStep == ASSUME DecoderInv, Read PROVE DecoderInv'
<1>1. PICK n \in 1..(Len(body) - read) :
          /\ read' = read + n
          /\ src' = src \o SubSeq(body, read + 1, read + n)
    BY DEF Read
<1>2. /\ mode = "read" /\ ~eof /\ mode' = "decode" /\ cuts' = cuts \cup {read'}
      /\ UNCHANGED <<body, eof, offset, found>>
    BY DEF Read, DecoderInv
<1>3. /\ offset \in Nat /\ read \in Nat /\ Len(body) \in Nat /\ Len(src) \in Nat
      /\ Len(body) <= MaxLen /\ MaxLen \in Nat /\ n \in Nat /\ read + n <= Len(body)
      /\ body \in Seq(Token) /\ src \in Seq(Token \cup {Injected})
    BY SizesAreNat DEF DecoderInv, DecoderTypeOK
<1> DEFINE piece == SubSeq(body, read + 1, read + n)
<1>4. /\ piece \in Seq(Token \cup {Injected}) /\ Len(piece) = n
      /\ \A i \in 1..n : piece[i] = body[read + i]
    <2>1. body \in Seq(Token \cup {Injected})
        BY <1>3
    <2>2. /\ SubSeq(body, read + 1, read + n) \in Seq(Token \cup {Injected})
          /\ Len(SubSeq(body, read + 1, read + n)) = n
          /\ \A k \in 1..n : SubSeq(body, read + 1, read + n)[k] = body[read + k]
        BY <2>1, <1>3, PieceOf
    <2> QED
        BY <2>2
<1>5. PICK x \in {0, 1} : HoldsUnread(x)
    BY DEF DecoderInv
<1>6. /\ x = 0 /\ Len(src) = read - offset
      /\ \A i \in 1..Len(src) : src[i] = body[offset + i]
    BY <1>2, <1>3, <1>5 DEF HoldsUnread
<1> HIDE DEF piece
<1>7. /\ src' \in Seq(Token \cup {Injected}) /\ Len(src') = Len(src) + n
      /\ \A i \in 1..(Len(src) + n) :
            src'[i] = IF i <= Len(src) THEN src[i] ELSE piece[i - Len(src)]
    <2>1. src' = src \o piece
        BY <1>1 DEF piece
    <2> QED
        BY <2>1, <1>3, <1>4, ConcatProperties
<1>8. HoldsUnread(0)'
    <2>1. Len(src') = read' + 0 - offset'
        <3>1. Len(src) + n = (read + n) + 0 - offset
            BY <1>3, <1>6
        <3> QED
            BY <3>1, <1>1, <1>2, <1>7
    <2>2. ASSUME NEW i \in 1..Len(src')
          PROVE  offset' + i <= read' /\ src'[i] = body'[offset' + i]
        <3>1. CASE i <= Len(src)
            BY <3>1, <1>1, <1>2, <1>3, <1>6, <1>7
        <3>2. CASE i > Len(src)
            <4>1. /\ i - Len(src) \in 1..n /\ read + (i - Len(src)) = offset + i
                  /\ i \in 1..(Len(src) + n)
                BY <3>2, <1>3, <1>6, <1>7
            <4>2. src'[i] = piece[i - Len(src)]
                BY <4>1, <3>2, <1>7, <1>3
            <4>3. piece[i - Len(src)] = body[offset + i]
                BY <4>1, <1>4
            <4>4. offset + i <= read + n
                BY <4>1, <1>3, <1>6
            <4> QED
                BY <4>2, <4>3, <4>4, <1>1, <1>2
        <3> QED
            BY <3>1, <3>2, <1>3, <1>7
    <2> QED
        BY <2>1, <2>2 DEF HoldsUnread
<1>9. DecoderTypeOK'
    BY <1>1, <1>2, <1>3, <1>7 DEF DecoderInv, DecoderTypeOK
<1>10. RangesAreCiphertexts' /\ PassedIsFound'
    BY <1>2 DEF DecoderInv, RangesAreCiphertexts, HalfQuoted, PassedIsFound,
            Ciphertexts
<1> QED
    BY <1>2, <1>8, <1>9, <1>10 DEF DecoderInv

-----------------------------------------------------------------------------
(***************************************************************************)
(* The invariant holds of every body, of any length, however it is cut     *)
(* into reads.                                                             *)
(***************************************************************************)
THEOREM DecoderInvariant == DecoderSpec => []DecoderInv
<1>1. DecoderInit => DecoderInv
    <2> SUFFICES ASSUME DecoderInit PROVE DecoderInv
        OBVIOUS
    <2>1. body \in Seq(Token) /\ Len(body) \in 0..MaxLen
        <3>1. PICK n \in 0..MaxLen : body \in [1..n -> Token]
            BY DEF DecoderInit
        <3> QED
            BY <3>1, SizesAreNat
    <2>2. DecoderTypeOK
        <3>1. /\ read = 0 /\ src = <<>> /\ eof = FALSE /\ offset = 0 /\ mode = "read"
              /\ found = <<>> /\ cuts = {}
            BY DEF DecoderInit
        <3>2. read \in 0..Len(body) /\ offset \in 0..(MaxLen + 1) /\ Len(body) <= MaxLen
            BY <2>1, <3>1, SizesAreNat
        <3>3. /\ src \in Seq(Token \cup {Injected})
              /\ found \in Seq((0..MaxLen) \X (0..MaxLen)) /\ cuts \subseteq 0..MaxLen
            BY <3>1
        <3> QED
            BY <2>1, <3>1, <3>2, <3>3 DEF DecoderTypeOK
    <2>3. HoldsUnread(0)
        BY DEF DecoderInit, HoldsUnread
    <2>4. RangesAreCiphertexts
        BY DEF DecoderInit, RangesAreCiphertexts, ToSet
    <2>5. PassedIsFound
        BY <2>1 DEF DecoderInit, PassedIsFound, Ciphertexts
    <2> QED
        BY <2>2, <2>3, <2>4, <2>5 DEF DecoderInit, DecoderInv
<1>2. DecoderInv /\ [DecoderNext]_decoderVars => DecoderInv'
    <2> SUFFICES ASSUME DecoderInv, [DecoderNext]_decoderVars PROVE DecoderInv'
        OBVIOUS
    <2>1. CASE ReadEof \/ DecodeNone \/ DecodeEofNone \/ UNCHANGED decoderVars
        <3>1. UNCHANGED <<body, read, src, offset, found, cuts>>
            BY <2>1 DEF ReadEof, DecodeNone, DecodeEofNone, decoderVars
        <3>2. /\ eof' \in BOOLEAN /\ mode' \in {"read", "decode", "done"}
              /\ eof => eof'
              /\ eof' => read = Len(body)
              /\ mode' = "read" => ~eof'
              /\ mode' = "done" => eof' /\ src = <<>>
            <4>1. CASE ReadEof
                BY <4>1 DEF ReadEof
            <4>2. CASE DecodeNone \/ DecodeEofNone
                BY <4>2 DEF DecodeNone, DecodeEofNone, DecoderInv, DecoderTypeOK
            <4>3. CASE UNCHANGED decoderVars
                BY <4>3 DEF decoderVars, DecoderInv, DecoderTypeOK
            <4> QED
                BY <2>1, <4>1, <4>2, <4>3
        <3>3. DecoderTypeOK'
            BY <3>1, <3>2 DEF DecoderInv, DecoderTypeOK
        <3>4. \E x \in {0, 1} : HoldsUnread(x)'
            BY <3>1, <3>2 DEF DecoderInv, HoldsUnread
        <3>5. RangesAreCiphertexts' /\ PassedIsFound'
            BY <3>1 DEF DecoderInv, RangesAreCiphertexts, HalfQuoted, PassedIsFound,
            Ciphertexts
        <3> QED
            BY <3>1, <3>2, <3>3, <3>4, <3>5 DEF DecoderInv
    <2>2. CASE Done
        BY <2>1, <2>2 DEF Done
    <2> QED
        BY <2>1, <2>2, ReadStep, FrameStep, EofStep DEF DecoderNext
<1> QED
    BY <1>1, <1>2, PTL DEF DecoderSpec

(***************************************************************************)
(* No frame loses, repeats or miscounts a byte, however the body is cut    *)
(* into reads.                                                             *)
(***************************************************************************)
THEOREM BuffersAreInStep == DecoderSpec => []BufferIsInStep
<1>1. DecoderInv => BufferIsInStep
    <2> SUFFICES ASSUME DecoderInv PROVE BufferIsInStep
        OBVIOUS
    <2> DEFINE T == Token \cup {Injected}
               rest == SubSeq(body, offset + 1, read)
    <2>1. /\ offset \in Nat /\ read \in Nat /\ Len(body) \in Nat /\ Len(src) \in Nat
          /\ read <= Len(body) /\ body \in Seq(T) /\ src \in Seq(T)
        BY DEF DecoderInv, DecoderTypeOK
    <2>2. PICK x \in {0, 1} : HoldsUnread(x)
        BY DEF DecoderInv
    <2>3. /\ Len(src) = read + x - offset /\ (x = 1 => eof)
          /\ \A i \in 1..Len(src) :
                src[i] = IF offset + i <= read THEN body[offset + i] ELSE Injected
        BY <2>2 DEF HoldsUnread
    <2>4. CASE offset > read
        <3>1. src = <<>> /\ rest = <<>>
            BY <2>1, <2>3, <2>4, SubSeqEmpty
        <3> QED
            BY <3>1 DEF BufferIsInStep, DecoderInv
    <2>5. CASE offset <= read
        <3>1. /\ rest \in Seq(T) /\ Len(rest) = read - offset
              /\ \A i \in 1..(read - offset) : rest[i] = body[offset + i]
            BY <2>1, <2>5, PieceUpTo
        <3> HIDE DEF rest
        <3>2. CASE x = 0
            <4>1. Len(src) = Len(rest)
                BY <3>1, <3>2, <2>1, <2>3
            <4>2. \A i \in 1..Len(src) : src[i] = rest[i]
                BY <3>1, <3>2, <2>1, <2>3
            <4>3. src = rest
                BY <4>1, <4>2, <3>1, <2>1, SeqEqual
            <4> QED
                BY <4>3 DEF BufferIsInStep, DecoderInv, rest
        <3>3. CASE x = 1
            <4> DEFINE longer == Append(rest, Injected)
            <4>1. /\ longer \in Seq(T) /\ Len(longer) = Len(rest) + 1
                  /\ \A i \in 1..Len(rest) : longer[i] = rest[i]
                  /\ longer[Len(rest) + 1] = Injected
                BY <3>1, AppendProperties
            <4> HIDE DEF longer
            <4>2. Len(src) = Len(longer) /\ \A i \in 1..Len(src) : src[i] = longer[i]
                BY <3>1, <3>3, <4>1, <2>1, <2>3
            <4>3. src = longer
                BY <4>1, <4>2, <2>1, SeqEqual
            <4> QED
                BY <4>3, <3>3, <2>3 DEF BufferIsInStep, DecoderInv, rest, longer
        <3> QED
            BY <3>2, <3>3
    <2> QED
        BY <2>1, <2>4, <2>5
<1> QED
    BY <1>1, DecoderInvariant, PTL

(***************************************************************************)
(* Every range that is overwritten is a ciphertext, bare or in quotes, but *)
(* for those of half-quoted ones.                                          *)
(***************************************************************************)
THEOREM RangesAreRight == DecoderSpec => []RangesAreCiphertexts
<1>1. DecoderInv => RangesAreCiphertexts
    BY DEF DecoderInv
<1> QED
    BY <1>1, DecoderInvariant, PTL

(***************************************************************************)
(* No ciphertext is overlooked unless a read ends inside its "ev:".        *)
(***************************************************************************)
THEOREM MissesAreAtBoundaries == DecoderSpec => []MissedOnlyAtABoundary
<1>1. DecoderInv => MissedOnlyAtABoundary
    <2> SUFFICES ASSUME DecoderInv, mode = "done", NEW k \in Ciphertexts
                 PROVE  k \in cuts \/ \E r \in ToSet(found) : r[1] < k /\ k <= r[2]
        BY DEF MissedOnlyAtABoundary
    <2>1. PICK x \in {0, 1} : Len(src) = read + x - offset
        BY DEF DecoderInv, HoldsUnread
    <2>2. Len(src) = 0 /\ read = Len(body)
        BY DEF DecoderInv
    <2>3. k <= offset
        BY <2>1, <2>2 DEF DecoderInv, DecoderTypeOK, Ciphertexts
    <2> QED
        BY <2>3 DEF DecoderInv, PassedIsFound
<1> QED
    BY <1>1, DecoderInvariant, PTL
=============================================================================
