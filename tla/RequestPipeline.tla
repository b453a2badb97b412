-------------------------- MODULE RequestPipeline --------------------------
(***************************************************************************)
(* What happens to a request in the enclave (data-plane/src/server): it is *)
(* accepted, parsed, taken through the attestation, context, auth, decrypt *)
(* and forward layers, answered and logged; websocket and TCP traffic is   *)
(* authenticated, logged and piped instead.  Logs travel over an unbounded *)
(* channel to a handler that ships them to the host in batches             *)
(* (data-plane/src/utils/trx_handler.rs), where the config server records  *)
(* those of its own enclave (control-plane/src/config_server.rs); the      *)
(* names of the enclave are the same on both sides, so it records all.     *)
(*                                                                         *)
(* Connections are tasks of their own once their TLS handshake is done;    *)
(* the handshake is part of accept, so there is one at a time.  A panic    *)
(* ends the connection's task and nothing else.                            *)
(***************************************************************************)
EXTENDS Integers, Sequences, SequencesExt, FiniteSets

CONSTANTS
    Conn, NoConn,
    Kinds,          \* the traffic to consider
    FlushSize,      \* logs that make a batch: 15
    MaxRequests     \* bound: requests altogether

ASSUME KindsAreKnown == Kinds \subseteq {"attest", "http", "websocket", "tcp"}
ASSUME BoundsAreNat == FlushSize \in Nat \ {0} /\ MaxRequests \in Nat
ASSUME NoConnIsNone == NoConn \notin Conn

VARIABLES
    features,   \* the FeatureContext the enclave was built with
    acceptor,   \* the connection the accept loop shakes hands with
    pc,         \* pc[c]: where the task of connection c is
    request,    \* request[c]: its current request
    count,      \* count[c]: requests it has parsed
    context,    \* context[c]: where the request's TrxContextBuilder is
    after,      \* after[c]: where c goes once it has logged
    channel,    \* messages to the log handler: "tick" or a request
    buffer,     \* the handler's LogHandlerBuffer
    batch,      \* the logs it is posting
    recorded,   \* the logs that the config server has written, in order
    handled,    \* whether it has written those of the batch
    sent,       \* logs that were sent, in order
    shipped,    \* logs whose one post has ended, well or not, in order
    accepted,   \* requests whose api key E3 has accepted
    reached     \* requests that the user process was given
                \*   (the last four are not program state)

task == <<features, acceptor, pc, request, count, context, after>>
host == <<recorded, handled>>
logs == <<channel, buffer, batch, sent, shipped, host>>
vars == <<task, logs, accepted, reached>>

Request == [conn : Conn, no : Nat, kind : Kinds, key : {"none", "given"}]
NoRequest == [kind |-> "none"]
Tick == [kind |-> "tick"]

Final == {"closed", "panicked"}
PC == Final \cup {"new", "handshake", "parse", "layers", "auth", "decrypt",
                  "forward", "back", "answer", "upgrade", "log", "pipe"}

ApiKeyAuth == features.api_key_auth
TrxLogging == features.trx_logging_enabled

TypeOK ==
    /\ features \in [api_key_auth : BOOLEAN, trx_logging_enabled : BOOLEAN]
    /\ acceptor \in Conn \cup {NoConn}
    /\ pc \in [Conn -> PC]
    /\ request \in [Conn -> Request \cup {NoRequest}]
    /\ count \in [Conn -> Nat]
    /\ context \in [Conn -> {"none", "request", "response", "task"}]
    /\ after \in [Conn -> {"none", "closed", "pipe"}]
    /\ channel \in Seq(Request \cup {Tick})
    /\ buffer \in Seq(Request) /\ Len(buffer) < FlushSize
    /\ batch \in Seq(Request) /\ Len(batch) <= FlushSize
    /\ recorded \in Seq(Request) /\ handled \in BOOLEAN
    /\ sent \in Seq(Request) /\ shipped \in Seq(Request)
    /\ accepted \subseteq Request /\ reached \subseteq Request

Init ==
    /\ features \in [api_key_auth : BOOLEAN, trx_logging_enabled : BOOLEAN]
    /\ acceptor = NoConn
    /\ pc = [c \in Conn |-> "new"]
    /\ request = [c \in Conn |-> NoRequest]
    /\ count = [c \in Conn |-> 0]
    /\ context = [c \in Conn |-> "none"]
    /\ after = [c \in Conn |-> "none"]
    /\ channel = <<>> /\ buffer = <<>> /\ batch = <<>>
    /\ sent = <<>> /\ shipped = <<>> /\ recorded = <<>> /\ handled = FALSE
    /\ accepted = {} /\ reached = {}

----------------------------------------------------------------------------
Goto(c, l) == pc' = [pc EXCEPT ![c] = l]
ContextIn(c, place) == context' = [context EXCEPT ![c] = place]

Send(r) ==
    /\ channel' = Append(channel, r)
    /\ sent' = Append(sent, r)
    /\ UNCHANGED <<buffer, batch, shipped, host>>

----------------------------------------------------------------------------
(* The accept loop. *)

Accept(c) ==
    /\ acceptor = NoConn /\ pc[c] = "new"
    /\ acceptor' = c
    /\ Goto(c, "handshake")
    /\ UNCHANGED <<features, request, count, context, after, logs, accepted,
                   reached>>

\* The handshake succeeds and the connection gets its task, or it fails.
Handshake(c) ==
    /\ acceptor = c
    /\ acceptor' = NoConn
    /\ Goto(c, "parse") \/ Goto(c, "closed")
    /\ UNCHANGED <<features, request, count, context, after, logs, accepted,
                   reached>>

----------------------------------------------------------------------------
(* The connection's task. *)

\* Requests parsed so far, which MaxRequests bounds.
Parsed == SumFunction(count)

\* try_parse_http_request_from_stream gives a request or something else.
Parse(c, kind, key) ==
    /\ pc[c] = "parse" /\ Parsed < MaxRequests
    /\ count' = [count EXCEPT ![c] = @ + 1]
    /\ request' = [request EXCEPT ![c] =
                     [conn |-> c, no |-> count[c] + 1, kind |-> kind, key |-> key]]
    /\ \/ kind \in {"attest", "http"} /\ Goto(c, "layers") /\ UNCHANGED after
       \/ kind = "websocket" /\ Goto(c, "upgrade") /\ UNCHANGED after
       \/ /\ kind = "tcp" /\ Goto(c, "log")
          /\ after' = [after EXCEPT ![c] = IF ApiKeyAuth THEN "closed" ELSE "pipe"]
    /\ UNCHANGED <<features, acceptor, context, logs, accepted, reached>>

\* End of file, an I/O error, or ten seconds without a byte of the body.
ParseFails(c) ==
    /\ pc[c] = "parse"
    /\ Goto(c, "closed")
    /\ UNCHANGED <<features, acceptor, request, count, context, after, logs,
                   accepted, reached>>

\* AttestService answers a request for an attestation document itself.
Attest(c) ==
    /\ pc[c] = "layers" /\ request[c].kind = "attest"
    /\ Goto(c, "answer")
    /\ UNCHANGED <<features, acceptor, request, count, context, after, logs,
                   accepted, reached>>

\* Variant: a request without an api key is not sent to the auth layer.
ContextLogSkippingAuth(c) ==
    /\ pc[c] = "layers" /\ request[c].kind = "http"
    /\ ContextIn(c, "request")
    /\ Goto(c, IF ApiKeyAuth /\ request[c].key = "given" THEN "auth" ELSE "decrypt")
    /\ UNCHANGED <<features, acceptor, request, count, after, logs, accepted,
                   reached>>

\* ContextLogService puts a context on the request.
ContextLog(c) ==
    /\ pc[c] = "layers" /\ request[c].kind = "http"
    /\ ContextIn(c, "request")
    /\ Goto(c, IF ApiKeyAuth THEN "auth" ELSE "decrypt")
    /\ UNCHANGED <<features, acceptor, request, count, after, logs, accepted,
                   reached>>

\* Variant: the error response goes without the context.
RefuseWithoutContext(c) ==
    /\ Goto(c, "back")
    /\ UNCHANGED <<context, accepted>>

\* An error response of the auth layer takes the context along.
Refuse(c) ==
    /\ Goto(c, "back")
    /\ ContextIn(c, "response")
    /\ UNCHANGED accepted

\* AuthService: E3 accepts the api key, or there is none, or E3 answers 401,
\* or it cannot be asked.
Auth(c) ==
    /\ pc[c] = "auth"
    /\ \/ /\ request[c].key = "given"
          /\ accepted' = accepted \cup {request[c]}
          /\ Goto(c, "decrypt")
          /\ UNCHANGED context
       \/ Refuse(c)
    /\ UNCHANGED <<features, acceptor, request, count, after, logs, reached>>

\* DecryptService takes the context off the request and puts it back on the
\* decrypted request, or on the response when E3 fails.
Decrypt(c) ==
    /\ pc[c] = "decrypt" /\ context[c] = "request"
    /\ \/ Goto(c, "forward") /\ UNCHANGED context
       \/ Goto(c, "back") /\ ContextIn(c, "response")
    /\ UNCHANGED <<features, acceptor, request, count, after, logs, accepted,
                   reached>>

\* ForwardService: the user process answers or cannot be reached; a chunked
\* answer that breaks off is a panic, which takes the context with it.
Forward(c) ==
    /\ pc[c] = "forward" /\ context[c] = "request"
    /\ \/ /\ Goto(c, "back") /\ ContextIn(c, "response")
          /\ UNCHANGED reached \/ reached' = reached \cup {request[c]}
       \/ /\ Goto(c, "panicked") /\ ContextIn(c, "none")
          /\ reached' = reached \cup {request[c]}
    /\ UNCHANGED <<features, acceptor, request, count, after, logs, accepted>>

\* ContextLogService takes the context off the response and logs it.
LogResponse(c) ==
    /\ pc[c] = "back" /\ context[c] = "response"
    /\ ContextIn(c, "none")
    /\ IF TrxLogging THEN Send(request[c]) ELSE UNCHANGED logs
    /\ Goto(c, "answer")
    /\ UNCHANGED <<features, acceptor, request, count, after, accepted,
                   reached>>

\* What TrxContextBuilder expects does not hold: a Content-Type or User-Agent
\* that goes into the context is not ASCII, on the request, which may be that
\* of a websocket, or on the response; or the clock was set back meanwhile.
ExpectFails(c) ==
    /\ \/ pc[c] = "layers" /\ request[c].kind = "http"
       \/ pc[c] \in {"upgrade", "back"}
    /\ Goto(c, "panicked") /\ ContextIn(c, "none")
    /\ UNCHANGED <<features, acceptor, request, count, after, logs, accepted,
                   reached>>

\* The response is written, and the next request read.
Answer(c) ==
    /\ pc[c] = "answer"
    /\ Goto(c, "parse")
    /\ UNCHANGED <<features, acceptor, request, count, context, after, logs,
                   accepted, reached>>

----------------------------------------------------------------------------
(* Websockets and TCP. *)

\* handle_websocket_request asks for an api key whether or not api_key_auth
\* is on.
Websocket(c) ==
    /\ pc[c] = "upgrade"
    /\ ContextIn(c, "task")
    /\ \/ /\ request[c].key = "given"
          /\ accepted' = accepted \cup {request[c]}
          /\ after' = [after EXCEPT ![c] = "pipe"]
       \/ /\ after' = [after EXCEPT ![c] = "closed"]
          /\ UNCHANGED accepted
    /\ Goto(c, "log")
    /\ UNCHANGED <<features, acceptor, request, count, logs, reached>>

\* A TrxContext can be built if its uri and method were set, which only a
\* parsed request sets.
CanBuild(c) == context[c] = "task"

\* Variant: a log is sent when the connection is authorized, and when it is
\* closed.
LogNonHttpTrxTwice(c) ==
    /\ pc[c] = "log" /\ CanBuild(c)
    /\ channel' = channel \o <<request[c], request[c]>>
    /\ sent' = sent \o <<request[c], request[c]>>
    /\ ContextIn(c, "none")
    /\ Goto(c, after[c])
    /\ UNCHANGED <<features, acceptor, request, count, after, buffer, batch,
                   shipped, host, accepted, reached>>

\* log_non_http_trx, whether or not anyone reads the channel.
LogNonHttpTrx(c) ==
    /\ pc[c] = "log" /\ CanBuild(c)
    /\ Send(request[c])
    /\ ContextIn(c, "none")
    /\ Goto(c, after[c])
    /\ UNCHANGED <<features, acceptor, request, count, after, accepted,
                   reached>>

\* build().unwrap() on a context without a uri.
BuildFails(c) ==
    /\ pc[c] = "log" /\ ~CanBuild(c)
    /\ Goto(c, "panicked")
    /\ UNCHANGED <<features, acceptor, request, count, context, after, logs,
                   accepted, reached>>

\* pipe_to_customer_process: connect, hand over what was read, pipe on.
Pipe(c) ==
    /\ pc[c] = "pipe"
    /\ UNCHANGED reached \/ reached' = reached \cup {request[c]}
    /\ Goto(c, "closed")
    /\ UNCHANGED <<features, acceptor, request, count, context, after, logs,
                   accepted>>

----------------------------------------------------------------------------
(* The log handler and its timer, which run if logging is on. *)

\* Every thirty seconds; one tick in the channel stands for any number.
LogTimer ==
    /\ TrxLogging
    /\ Tick \notin ToSet(channel)
    /\ channel' = Append(channel, Tick)
    /\ UNCHANGED <<task, buffer, batch, sent, shipped, host, accepted, reached>>

\* A log is added; a full buffer is drained and posted.
ReceiveTrx ==
    /\ TrxLogging /\ batch = <<>>
    /\ channel # <<>> /\ Head(channel) # Tick
    /\ channel' = Tail(channel)
    /\ LET added == Append(buffer, Head(channel))
       IN  IF Len(added) >= FlushSize
           THEN batch' = added /\ buffer' = <<>>
           ELSE buffer' = added /\ UNCHANGED batch
    /\ UNCHANGED <<task, sent, shipped, host, accepted, reached>>

\* Variant: only a full buffer is posted.
ReceiveTickIdle ==
    /\ TrxLogging /\ batch = <<>>
    /\ channel # <<>> /\ Head(channel) = Tick
    /\ channel' = Tail(channel)
    /\ UNCHANGED <<task, buffer, batch, sent, shipped, host, accepted, reached>>

\* A tick: whatever is in the buffer is drained and posted.
ReceiveTick ==
    /\ TrxLogging /\ batch = <<>>
    /\ channel # <<>> /\ Head(channel) = Tick
    /\ channel' = Tail(channel)
    /\ batch' = buffer
    /\ buffer' = <<>>
    /\ UNCHANGED <<task, sent, shipped, host, accepted, reached>>

\* Variant: the post is made again until its answer is heard.
RecordLogsAgain ==
    /\ batch # <<>>
    /\ Len(recorded) < MaxRequests + FlushSize
    /\ recorded' = recorded \o batch
    /\ handled' = TRUE
    /\ UNCHANGED <<task, channel, buffer, batch, sent, shipped, accepted,
                   reached>>

\* handle_post_trx_logs_request: the body is parsed, and every log in it that
\* validate_trx_log passes is recorded.
RecordLogs ==
    /\ batch # <<>> /\ ~handled
    /\ recorded' = recorded \o batch
    /\ handled' = TRUE
    /\ UNCHANGED <<task, channel, buffer, batch, sent, shipped, accepted,
                   reached>>

\* Variant: the logs of a post that failed are put back into the buffer.
PostEndsPuttingBack ==
    /\ batch # <<>>
    /\ \/ shipped' = shipped \o batch /\ UNCHANGED buffer
       \/ buffer' = batch \o buffer /\ UNCHANGED shipped
    /\ batch' = <<>>
    /\ handled' = FALSE
    /\ UNCHANGED <<task, channel, sent, recorded, accepted, reached>>

\* post_trx_logs returns, once its answer is there or with an error before or
\* after the host has recorded.  An error is only written down: the drained
\* logs are not put back.
PostEnds ==
    /\ batch # <<>>
    /\ shipped' = shipped \o batch
    /\ batch' = <<>>
    /\ handled' = FALSE
    /\ UNCHANGED <<task, channel, buffer, sent, recorded, accepted, reached>>

----------------------------------------------------------------------------
Step(c) ==
    \/ ParseFails(c) \/ Attest(c) \/ ContextLog(c) \/ Auth(c) \/ Decrypt(c)
    \/ Forward(c) \/ LogResponse(c) \/ ExpectFails(c) \/ Answer(c) \/ Websocket(c)
    \/ LogNonHttpTrx(c) \/ BuildFails(c) \/ Pipe(c)
    \/ \E kind \in Kinds, key \in {"none", "given"} : Parse(c, kind, key)

Next ==
    \/ \E c \in Conn : Accept(c) \/ Handshake(c) \/ Step(c)
    \/ LogTimer \/ ReceiveTrx \/ ReceiveTick \/ RecordLogs \/ PostEnds

Spec == Init /\ [][Next]_vars

\* The timer and the handler go on, and the host answers a post or fails.
Fairness ==
    WF_vars(LogTimer) /\ WF_vars(ReceiveTrx) /\ WF_vars(ReceiveTick)
        /\ WF_vars(PostEnds)

FairSpec == Spec /\ Fairness

----------------------------------------------------------------------------
(***************************************************************************)
(* The user process is given only requests whose api key E3 has accepted,  *)
(* if api_key_auth is on, and only such websockets even if it is off.  The *)
(* acceptance is of this very request, not of an earlier one on the same   *)
(* connection.                                                             *)
(***************************************************************************)
OnlyAcceptedReachTheUser ==
    \A r \in reached : (ApiKeyAuth \/ r.kind = "websocket") => r \in accepted

(***************************************************************************)
(* Every early return of a layer hands the request's context on, so that   *)
(* no expect for it ever fails ("Context not preserved on data plane       *)
(* response", "No context set on received request").                       *)
(***************************************************************************)
ContextIsPreserved ==
    \A c \in Conn :
        /\ pc[c] \in {"decrypt", "forward"} => context[c] = "request"
        /\ pc[c] = "back" => context[c] = "response"

Logged(c) == {r \in ToSet(sent) : r.conn = c}

(***************************************************************************)
(* A connection that is between requests or closed has logged its last     *)
(* request exactly once, however that ended, except for attestations and,  *)
(* with logging off, for HTTP.  Only a panic leaves a request unlogged.    *)
(***************************************************************************)
EachRequestIsLoggedOnce ==
    /\ IsInjective(sent)
    /\ \A c \in Conn :
          (pc[c] \in {"parse", "closed"} /\ request[c] # NoRequest) =>
              (request[c] \in Logged(c)
                 <=> \/ request[c].kind = "http" /\ TrxLogging
                     \/ request[c].kind = "websocket")

\* s is t with gaps: position i of s is position at[i] of t.
IsWithin(s, t, at) ==
    /\ \A i \in DOMAIN s : s[i] = t[at[i]]
    /\ \A i, j \in DOMAIN s : i < j => at[i] < at[j]

(***************************************************************************)
(* No log is lost, repeated or overtaken on its way through the channel,   *)
(* where a tick may be among them, the buffer and the batch, though the    *)
(* handler is suspended in a post while logs and ticks go on arriving.     *)
(* The host records each log at most once and in the order in which they   *)
(* were sent, with gaps where a post failed.  Every variable keeps its     *)
(* type.                                                                   *)
(***************************************************************************)
LogsStayInOrder ==
    /\ TypeOK
    /\ \E at \in [DOMAIN recorded -> DOMAIN sent] : IsWithin(recorded, sent, at)
    /\ LET taken == shipped \o batch \o buffer
       IN  \/ sent = taken \o channel
           \/ \E i \in DOMAIN channel :
                 channel[i] = Tick /\ sent = taken \o RemoveAt(channel, i)

\* How many of the sent logs the host has recorded, or will never see.
RecordsEnd == Len(shipped) + (IF handled THEN Len(batch) ELSE 0)

Q == INSTANCE LogQueue WITH gone <- RecordsEnd

(***************************************************************************)
(* The refinement: what the host records is a queue of the logs sent, each *)
(* log sent once, that leave it by whole batches of at most FlushSize,     *)
(* recorded or lost at the moment the host handles the post or its         *)
(* connection fails.  No log is recorded after a later one was, or after   *)
(* its own post was given up.                                              *)
(***************************************************************************)
ImplementsLogQueue == Q!Spec

(***************************************************************************)
(* Every log is posted in the end, be the batch ever so small.  It is      *)
(* posted once: the logs of a post that fails are dropped.                 *)
(***************************************************************************)
EveryLogIsShipped ==
    \A c \in Conn : \A n \in 1..MaxRequests :
        (TrxLogging /\ \E r \in ToSet(sent) : r.conn = c /\ r.no = n)
            ~> (\E r \in ToSet(shipped) : r.conn = c /\ r.no = n)

=============================================================================
