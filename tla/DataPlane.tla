----------------------------- MODULE DataPlane -----------------------------
(***************************************************************************)
(* The data plane from its start to the first connections, with what it    *)
(* needs of the control plane: Boot, the provisioner's TlsProxy, ClockSync *)
(* beside them, and, once the boot is over, CertResolver or Ingress.       *)
(*                                                                         *)
(* The process has one thread (main builds a current_thread runtime): a    *)
(* pause of the boot is a pause of the clock's synchronisation too.  Each  *)
(* process makes one connection to the provisioner at a time; the          *)
(* connections that a dead process left stay with the proxy.  Nothing      *)
(* reads the clock without TLS termination, so it is left out there.       *)
(*                                                                         *)
(* The ACME hosts are reached through a TlsProxy of their own, of which    *)
(* only its end matters here: see ResetEndsAcmeProxy.                      *)
(***************************************************************************)
EXTENDS Boot, ClockSync, CertResolver, Ingress

VARIABLES
    loop, current, link, hello, heard,
    acmeProxy   \* whether the proxy to the ACME hosts still listens

proxyVars == <<loop, current, link, hello, heard>>

\* The provisioner's proxy; a process, counted by restarts, is a connection.
Proxy == INSTANCE TlsProxy WITH Conn <- 0..MaxRestarts

vars == <<bootVars, proxyVars, acmeProxy, clockVars, resolverVars, ingressVars>>

Init ==
    /\ BootInit /\ Proxy!Init /\ ClockInit /\ ResolverInit /\ IngressInit
    /\ mode = "tls" => ~forward
    /\ acmeProxy = TRUE

\* The connection of the process that runs.
Mine == restarts

\* The ACME proxy, the clock, the resolver and the ingress stay as they are;
\* the handshake of the last step is over.
Elsewhere == served' = None /\ UNCHANGED <<acmeProxy, left, clockVars, ingressVars>>

-----------------------------------------------------------------------------
\* A certificate is ordered through the ACME proxy.
BootWorks ==
    /\ pc = "acme" => acmeProxy
    /\ Work
    /\ Elsewhere /\ UNCHANGED proxyVars

\* Without it the boot goes on only if storage has a certificate, which is
\* for the other instances to see to; if not, enclave_trusted_cert exits.
CertIsStored ==
    /\ ~acmeProxy /\ TrustedCert
    /\ Elsewhere /\ UNCHANGED proxyVars

ConnectProvisioner == Connect /\ Proxy!Connect(Mine) /\ Elsewhere

SendHello ==
    /\ \/ SayHello(FALSE) /\ Proxy!SendHello(Mine, "whole")
       \/ SayHello(TRUE) /\ \E h \in {"cut", "other"} : Proxy!SendHello(Mine, h)
    /\ Elsewhere

ProvisionerAnswers ==
    /\ link[Mine] = "piped" /\ Mine \in heard
    /\ AnswerArrives \/ AnswerFails
    /\ Proxy!Hangup(Mine)
    /\ Elsewhere

\* The connection is refused or shut.
NoProvisioner ==
    /\ \/ pc = "attest" /\ ~Proxy!Listening
       \/ pc \in {"hello", "answer"} /\ link[Mine] = "shut"
    /\ ConnectionFails
    /\ Elsewhere /\ UNCHANGED proxyVars

Serves ==
    /\ StartServer /\ NewResolver
    /\ UNCHANGED <<proxyVars, acmeProxy, clockVars, ingressVars>>

\* A process that dies while it orders, at boot or to renew, may leave a
\* connection that the ACME proxy has not read from.  If that is reset the
\* read ends the proxy's loop as it ends the provisioner's; whatever connects
\* later waits behind it, so the proxy is gone from here on.
ResetEndsAcmeProxy ==
    IF mode = "tls" /\ pc \in {"acme", "serving"}
      THEN acmeProxy' \in {acmeProxy, FALSE} ELSE UNCHANGED acmeProxy

ProcessDies ==
    /\ Crash
    /\ Proxy!PeerDies(Mine) /\ ResetEndsAcmeProxy
    /\ SyncForgotten /\ ResolverGone
    /\ IF stage \in {"relayed", "parsing", "accepted", "piping"}
         THEN CloseConn ELSE UNCHANGED ingressVars

ProcessRestarts == Restart /\ Elsewhere /\ UNCHANGED proxyVars

ProcessWakes == WakeUp /\ Elsewhere /\ UNCHANGED proxyVars

UserWaits ==
    /\ UserFindsMark \/ UserStarts
    /\ Elsewhere /\ UNCHANGED proxyVars

-----------------------------------------------------------------------------
ProxyLoops ==
    /\ \/ \E c \in 0..MaxRestarts : Proxy!Accept(c) \/ Proxy!Dial(c)
       \/ Proxy!ReadName \/ Proxy!ReadNoName \/ Proxy!ReadFails \/ Proxy!Resolved
    /\ Elsewhere /\ UNCHANGED bootVars

\* The name has no address, or the host cannot be reached.
ProxyFails ==
    /\ Fault
    /\ Proxy!NotResolved \/ \E c \in 0..MaxRestarts : Proxy!DialFails(c)
    /\ Elsewhere
    /\ UNCHANGED <<mode, pc, local, env, userVars, restarts>>

-----------------------------------------------------------------------------
\* The tasks of the process run only while its thread does; the host answers
\* in any case.
ClockSyncs ==
    /\ mode = "tls"
    /\ \/ Awake /\ (SyncStarts \/ SetClock)
       \/ HostAnswers
    /\ served' = None
    /\ UNCHANGED <<bootVars, proxyVars, acmeProxy, left, ingressVars>>

\* The config server cannot be reached or has no time to give.
SyncTryFails ==
    /\ mode = "tls" /\ Awake
    /\ Fault
    /\ AskAgain \/ SyncFails
    /\ served' = None
    /\ UNCHANGED <<mode, pc, local, env, userVars, restarts, proxyVars, acmeProxy, left,
                   ingressVars>>

Tick ==
    /\ mode = "tls"
    /\ ClockTicks /\ DocumentAges /\ Sleep
    /\ UNCHANGED <<mode, pc, attempts, secrets, ctx, trusted, env, userVars,
                   restarts, faults, proxyVars, acmeProxy, ingressVars>>

Handshake ==
    /\ mode = "tls" /\ pc = "serving"
    /\ \E sni \in Sni : Resolve(sni, trusted, offset)
    /\ UNCHANGED <<bootVars, proxyVars, acmeProxy, clockVars, ingressVars>>

\* A connection is relayed from the time that start_data_plane has bound the
\* socket, and accepted once the boot is over.
PassThrough ==
    /\ mode = "passthrough"
    /\ \/ Relay(pc # "down")
       \/ /\ pc = "serving"
          /\ \/ AcceptConn
             \/ \E n \in 1..Len(wire) : ReadChunk(n)
             \/ DialUser \/ Pipe
       \/ CloseConn
    /\ served' = None
    /\ UNCHANGED <<bootVars, proxyVars, acmeProxy, clockVars, left>>

Next ==
    \/ BootWorks \/ CertIsStored \/ ConnectProvisioner \/ SendHello \/ ProvisionerAnswers
    \/ NoProvisioner \/ Serves \/ ProcessDies \/ ProcessRestarts \/ ProcessWakes \/ UserWaits
    \/ ProxyLoops \/ ProxyFails \/ ClockSyncs \/ SyncTryFails \/ Tick
    \/ Handshake \/ PassThrough

Spec == Init /\ [][Next]_vars

\* What the process can do it does, except to fail: faults are bounded; that
\* others have stored a certificate is not assumed.  The proxy's loop and its tasks, runsv, the script of the user process and time
\* go on.
FairSpec ==
    /\ Spec
    /\ WF_vars(BootWorks) /\ WF_vars(ConnectProvisioner) /\ WF_vars(SendHello)
    /\ WF_vars(ProvisionerAnswers) /\ WF_vars(NoProvisioner) /\ WF_vars(Serves)
    /\ WF_vars(ProcessRestarts) /\ WF_vars(ProcessWakes) /\ WF_vars(UserWaits)
    /\ WF_vars(ProxyLoops) /\ WF_vars(Tick)

-----------------------------------------------------------------------------
\* Every variable of the proxies, the clock and the resolver keeps its type, and
\* a client of a trusted domain always gets the trusted certificate: nothing
\* is served before enclave_trusted_cert has filled the store (tls_server.rs
\* 83-101), through retries and restarts.
TrustedDomainIsTrusted ==
    /\ Proxy!TypeOK /\ acmeProxy \in BOOLEAN /\ ClockTypeOK /\ ResolverTypeOK
    /\ served # None /\ served.sni = "trusted" => served.cert = "trusted"

\* A base certificate whose attestation document has expired, in true time,
\* is served only when it could not be made again, or for as long as the
\* clock may be behind: once the clock has been set, less than a second and a
\* round trip.
ServedIsFresh ==
    served # None /\ synced => served.failed \/ served.left > -MaxError

\* Whatever goes wrong in between, the user process is started in the end,
\* with TLS termination: every failure is retried, a process that dies starts
\* over.  The exception is the two proxies: a read that fails ends either of
\* them for good (tls_proxy.rs 82), and the boot needs both.
UserIsStarted ==
    mode = "tls" => <>(upc = "running" \/ loop = "ended" \/ ~acmeProxy)
=============================================================================
