------------------------------- MODULE Egress -------------------------------
(***************************************************************************)
(* How a user process reaches the outside.  Its DNS lookups go through the *)
(* enclave's DNS proxy (data-plane/src/dns/enclavedns.rs) and the host's   *)
(* (control-plane/src/dnsproxy.rs); each side checks the domain against    *)
(* the allow list and remembers the addresses of the answer for their TTL  *)
(* (shared/src/server/egress.rs).  Its connections go through the two      *)
(* egress proxies, and each side lets an address pass only if it is on the *)
(* allow list or remembered.  The two sides share nothing: each has its    *)
(* own cache, filled and expiring at its own time.                         *)
(***************************************************************************)
EXTENDS Integers, Sequences, FiniteSets

CONSTANTS
    Lookup, Conn,       \* lookups and connections under way at a time
    Domain,             \* the domains that are asked for
    Allowed,            \* those the enclave's allow list matches
    HostAllowed,        \* those the host's matches
    Ip, StaticIps,      \* addresses, and those listed as such
    Internal,           \* addresses that are not globally reachable
    Ttls, MaxTtl,       \* Ttls[ip]: the times to live of answers with ip
    AllowAll,           \* the allow list is empty or holds "*"
    AllowInternal,      \* EV_ALLOW_PRIVATE_IP_EGRESS
    Permits,            \* concurrent lookups: 250
    ChannelSize,        \* lookups waiting for the driver: 500
    Patience,           \* dns_request_upper_bound: 10 seconds
    NoReply

ASSUME SubsetsAreSubsets ==
    /\ Allowed \subseteq Domain /\ HostAllowed \subseteq Domain
    /\ StaticIps \subseteq Ip /\ Internal \subseteq Ip
ASSUME BoundsAreNat ==
    /\ MaxTtl \in Nat /\ Ttls \in [Ip -> SUBSET (0..MaxTtl)] /\ Patience \in Nat
    /\ Permits \in Nat \ {0} /\ ChannelSize \in Nat \ {0}
ASSUME NoReplyIsNone == NoReply \notin [ip : Ip, ttl : Nat]
ASSUME AllowancesAreBoolean == AllowAll \in BOOLEAN /\ AllowInternal \in BOOLEAN

VARIABLES
    channel,    \* lookups waiting for the enclave's driver, first come first
    driver,     \* the lookup the driver has received, waiting for a permit
    data,       \* data[l]: where lookup l is in the enclave
    host,       \* host[l]: where its proxied half is on the host
    asks,       \* asks[l]: the domain it asks for
    waited,     \* waited[l]: seconds since the enclave forwarded it
    reply,      \* reply[l]: address and TTL the host answered with
    since,      \* since[l]: seconds since then, as far as the TTL goes
    dataTtl,    \* dataTtl[ip], hostTtl[ip]: what is left of the entries of
    hostTtl,    \*   ALLOWED_IPS_FROM_DNS in the enclave and on the host
    conn, dest, \* conn[c], dest[c]: where connection c is, and its address
    owed        \* owed[ip]: how long an answer for an allowed domain still
                \*   vouches for ip (since and owed are not program state)

lookups == <<channel, driver, data, host, asks, waited, reply, since>>
caches == <<dataTtl, hostTtl, owed>>
conns == <<conn, dest>>
egressVars == <<lookups, caches, conns>>

Answered == {"answered", "refused", "lost", "failed"}
Reply == {r \in [ip : Ip, ttl : 0..MaxTtl] : r.ttl \in Ttls[r.ip]}

EgressTypeOK ==
    /\ channel \in Seq(Lookup) /\ Len(channel) <= ChannelSize
    /\ driver \in Seq(Lookup) /\ Len(driver) <= 1
    /\ data \in [Lookup -> {"none", "queued", "forwarded"} \cup Answered]
    /\ host \in [Lookup -> {"none", "reading", "asking", "reread", "ended"}]
    /\ asks \in [Lookup -> Domain]
    /\ waited \in [Lookup -> 0..Patience]
    /\ reply \in [Lookup -> Reply \cup {NoReply}]
    /\ since \in [Lookup -> 0..MaxTtl]
    /\ {dataTtl, hostTtl, owed} \subseteq [Ip -> 0..MaxTtl]
    /\ conn \in [Conn -> {"none", "sent", "relayed", "refused"}]
    /\ dest \in [Conn -> Ip]

EgressInit ==
    /\ channel = <<>>
    /\ driver = <<>>
    /\ data = [l \in Lookup |-> "none"]
    /\ host = [l \in Lookup |-> "none"]
    /\ asks \in [Lookup -> Domain]
    /\ waited = [l \in Lookup |-> 0]
    /\ reply = [l \in Lookup |-> NoReply]
    /\ since = [l \in Lookup |-> 0]
    /\ dataTtl = [ip \in Ip |-> 0]
    /\ hostTtl = [ip \in Ip |-> 0]
    /\ owed = [ip \in Ip |-> 0]
    /\ conn = [c \in Conn |-> "none"]
    /\ dest \in [Conn -> Ip]

----------------------------------------------------------------------------
\* check_domain_allow_list, for every question of the packet.
DomainIsAllowed(d, list) == AllowAll \/ d \in list

\* Variant: an entry that is there is left to expire.
CachedIfNew(ttls, ip, ttl) ==
    IF ttls[ip] > 0 THEN ttls ELSE [ttls EXCEPT ![ip] = ttl]

\* cache_ip: the new entry replaces the old one, be it shorter or longer.
Cached(ttls, ip, ttl) == [ttls EXCEPT ![ip] = ttl]

\* check_ip_allow_list against one side's cache.
IpIsAllowed(ttls, ip) == AllowAll \/ ip \in StaticIps \/ ttls[ip] > 0

Running == {l \in Lookup : data[l] = "forwarded"}

----------------------------------------------------------------------------
(* The enclave's DNS proxy. *)

\* bind_server's loop: a packet is queued, or dropped after a second.
UserAsks(l, d) ==
    /\ data[l] \in {"none"} \cup Answered
    /\ host[l] \in {"none", "ended"}
    /\ \/ /\ Len(channel) < ChannelSize
          /\ channel' = Append(channel, l)
          /\ data' = [data EXCEPT ![l] = "queued"]
       \/ /\ Len(channel) = ChannelSize
          /\ data' = [data EXCEPT ![l] = "lost"]
          /\ UNCHANGED channel
    /\ asks' = [asks EXCEPT ![l] = d]
    /\ host' = [host EXCEPT ![l] = "none"]
    /\ waited' = [waited EXCEPT ![l] = 0]
    /\ reply' = [reply EXCEPT ![l] = NoReply]
    /\ since' = [since EXCEPT ![l] = 0]
    /\ UNCHANGED <<driver, caches, conns>>

\* start_driver: a lookup is received, and then waits for a permit.
Receive ==
    /\ driver = <<>> /\ channel # <<>>
    /\ driver' = <<Head(channel)>>
    /\ channel' = Tail(channel)
    /\ UNCHANGED <<data, host, asks, waited, reply, since, caches, conns>>

\* With a permit, a task of its own checks the domain and forwards.
Dispatch ==
    /\ driver # <<>>
    /\ Cardinality(Running) < Permits
    /\ LET l == Head(driver)
           ok == DomainIsAllowed(asks[l], Allowed)
       IN  /\ data' = [data EXCEPT ![l] = IF ok THEN "forwarded" ELSE "refused"]
           /\ host' = [host EXCEPT ![l] = IF ok THEN "reading" ELSE @]
    /\ driver' = <<>>
    /\ UNCHANGED <<channel, asks, waited, reply, since, caches, conns>>

\* The answer is remembered first, then sent to the user process.
DataAnswers(l) ==
    /\ data[l] = "forwarded"
    /\ reply[l] # NoReply
    /\ dataTtl' = Cached(dataTtl, reply[l].ip, reply[l].ttl)
    /\ data' = [data EXCEPT ![l] = "answered"]
    /\ UNCHANGED <<channel, driver, host, asks, waited, reply, since, hostTtl,
                   owed, conns>>

\* Variant: only a host that closes the stream ends a lookup.
DataFailsUntimed(l) ==
    /\ data[l] = "forwarded"
    /\ host[l] = "ended" /\ reply[l] = NoReply
    /\ data' = [data EXCEPT ![l] = "failed"]
    /\ UNCHANGED <<channel, driver, host, asks, waited, reply, since, caches,
                   conns>>

\* The ten seconds are over, or the host closed the stream: no packet.
DataFails(l) ==
    /\ data[l] = "forwarded"
    /\ waited[l] = Patience \/ (host[l] = "ended" /\ reply[l] = NoReply)
    /\ data' = [data EXCEPT ![l] = "failed"]
    /\ UNCHANGED <<channel, driver, host, asks, waited, reply, since, caches,
                   conns>>

----------------------------------------------------------------------------
(* The host's DNS proxy. *)

\* proxy_dns_connection: read the packet, check the domain, ask a server.
HostAsks(l) ==
    /\ host[l] = "reading"
    /\ \/ /\ DomainIsAllowed(asks[l], HostAllowed)
          /\ host' = [host EXCEPT ![l] = "asking"]
       \/ /\ ~DomainIsAllowed(asks[l], HostAllowed)
          /\ host' = [host EXCEPT ![l] = "ended"]
    /\ UNCHANGED <<channel, driver, data, asks, waited, reply, since, caches, conns>>

\* The server answers: remember the address, then write to the enclave, which
\* may not be waiting any more.
HostAnswers(l, ip, ttl) ==
    /\ host[l] = "asking"
    /\ hostTtl' = Cached(hostTtl, ip, ttl)
    /\ owed' = [owed EXCEPT ![ip] = IF ttl > @ THEN ttl ELSE @]
    /\ reply' = [reply EXCEPT ![l] = [ip |-> ip, ttl |-> ttl]]
    /\ host' = [host EXCEPT ![l] = "ended"]
    /\ UNCHANGED <<channel, driver, data, asks, waited, since, dataTtl, conns>>

\* What the server answers is no DNS packet: an egress error ends the task.
HostRejects(l) ==
    /\ host[l] = "asking"
    /\ host' = [host EXCEPT ![l] = "ended"]
    /\ UNCHANGED <<channel, driver, data, asks, waited, reply, since,
                   caches, conns>>

\* The server's socket fails, before or after the packet is sent: the next
\* server is tried, which begins with another read of the stream, whose one
\* packet has been read.
HostFails(l) ==
    /\ host[l] \in {"reading", "asking"}
    /\ host' = [host EXCEPT ![l] = "reread"]
    /\ UNCHANGED <<channel, driver, data, asks, waited, reply, since,
                   caches, conns>>

\* The enclave closes the stream: nothing to parse, which ends the task.
HostEnds(l) ==
    /\ host[l] = "reread"
    /\ data[l] # "forwarded"
    /\ host' = [host EXCEPT ![l] = "ended"]
    /\ UNCHANGED <<channel, driver, data, asks, waited, reply, since, caches,
                   conns>>

----------------------------------------------------------------------------
(* The egress proxies. *)

\* handle_egress_connection in the enclave.
Connect(c, ip) ==
    /\ conn[c] = "none"
    /\ dest' = [dest EXCEPT ![c] = ip]
    /\ conn' = [conn EXCEPT ![c] =
                  IF IpIsAllowed(dataTtl, ip) THEN "sent" ELSE "refused"]
    /\ UNCHANGED <<lookups, caches>>

\* Variant: what the enclave has let pass is relayed.
RelayTrusting(c) ==
    /\ conn[c] = "sent"
    /\ conn' = [conn EXCEPT ![c] =
                  IF dest[c] \in Internal /\ ~AllowInternal
                  THEN "refused" ELSE "relayed"]
    /\ UNCHANGED <<lookups, caches, dest>>

\* handle_connection on the host.
Relay(c) ==
    /\ conn[c] = "sent"
    /\ conn' = [conn EXCEPT ![c] =
                  IF \/ dest[c] \in Internal /\ ~AllowInternal
                     \/ ~IpIsAllowed(hostTtl, dest[c])
                  THEN "refused" ELSE "relayed"]
    /\ UNCHANGED <<lookups, caches, dest>>

Close(c) ==
    /\ conn[c] \in {"relayed", "refused"}
    /\ conn' = [conn EXCEPT ![c] = "none"]
    /\ UNCHANGED <<lookups, caches, dest>>

----------------------------------------------------------------------------
Aged(ttls) == [ip \in Ip |-> IF ttls[ip] > 0 THEN ttls[ip] - 1 ELSE 0]

SecondPasses ==
    /\ \A l \in Running : waited[l] < Patience
    /\ waited' = [l \in Lookup |->
                    IF l \in Running THEN waited[l] + 1 ELSE waited[l]]
    /\ since' = [l \in Lookup |->
                   IF reply[l] # NoReply /\ since[l] < MaxTtl
                   THEN since[l] + 1 ELSE since[l]]
    /\ dataTtl' = Aged(dataTtl)
    /\ hostTtl' = Aged(hostTtl)
    /\ owed' = Aged(owed)
    /\ UNCHANGED <<channel, driver, data, host, asks, reply, conns>>

EgressNext ==
    \/ SecondPasses \/ Receive \/ Dispatch
    \/ \E l \in Lookup :
          \/ \E d \in Domain : UserAsks(l, d)
          \/ DataAnswers(l) \/ DataFails(l)
          \/ HostAsks(l) \/ HostRejects(l) \/ HostFails(l) \/ HostEnds(l)
          \/ \E ip \in Ip : \E ttl \in Ttls[ip] : HostAnswers(l, ip, ttl)
    \/ \E c \in Conn :
          (\E ip \in Ip : Connect(c, ip)) \/ Relay(c) \/ Close(c)

EgressSpec == EgressInit /\ [][EgressNext]_egressVars

\* Time passes and the enclave's tasks run; neither the host nor the name
\* servers are relied on.
EgressFairness ==
    /\ WF_egressVars(SecondPasses) /\ WF_egressVars(Receive) /\ WF_egressVars(Dispatch)
    /\ \A l \in Lookup : WF_egressVars(DataAnswers(l)) /\ WF_egressVars(DataFails(l))

EgressFairSpec == EgressSpec /\ EgressFairness

----------------------------------------------------------------------------
(***************************************************************************)
(* A connection is relayed only to an address that is on the list or that  *)
(* an answer for an allowed domain vouches for at that moment: the slack   *)
(* between the two caches never lets an expired address pass.  Internal    *)
(* addresses are never relayed to unless that is configured.               *)
(***************************************************************************)
RelayedIsVouchedFor ==
    [][\A c \in Conn : (conn[c] = "sent" /\ conn'[c] = "relayed") =>
          /\ AllowAll \/ dest[c] \in StaticIps \/ owed[dest[c]] > 0
          /\ dest[c] \in Internal => AllowInternal]_egressVars

(***************************************************************************)
(* An address that was given to the user process passes both proxies for   *)
(* at least the shortest TTL that answers with it carry, counted from when *)
(* the host received the answer, whatever lookups of the same address      *)
(* overwrite in the two caches, and in whatever order. Every variable      *)
(* keeps its type.                                                         *)
(***************************************************************************)
AnsweredIsUsable ==
    /\ EgressTypeOK
    /\ \A l \in Lookup :
        (/\ data[l] = "answered"
         /\ \A ttl \in Ttls[reply[l].ip] : since[l] < ttl) =>
            /\ IpIsAllowed(dataTtl, reply[l].ip)
            /\ IpIsAllowed(hostTtl, reply[l].ip)

(***************************************************************************)
(* Every lookup that got into the channel ends, and gives its permit back, *)
(* though the host or the name server may never answer.                    *)
(***************************************************************************)
EveryLookupEnds ==
    \A l \in Lookup : data[l] \in {"queued", "forwarded"} ~> data[l] \in Answered
=============================================================================
