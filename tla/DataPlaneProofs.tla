--------------------------- MODULE DataPlaneProofs ---------------------------
(***************************************************************************)
(* The data plane's invariants hold for any bounds, clock errors, header   *)
(* and payload.  Each component has an inductive invariant of its own;     *)
(* what a step of the data plane is for a component is shown first, and    *)
(* only the resolver needs the others: the trusted certificate of the boot *)
(* and the error of the clock.                                             *)
(***************************************************************************)
EXTENDS DataPlane, TLAPS, SequenceTheorems

-----------------------------------------------------------------------------
(* What any step of the data plane is for the clock. *)
ClockStep ==
    \/ SyncStarts \/ HostAnswers \/ AskAgain \/ SyncFails
    \/ SetClock \/ ClockTicks \/ SyncForgotten

LEMMA NextIsClockStep == [Next]_vars => [ClockStep]_clockVars
  BY DEF Next, vars, ClockStep, BootWorks, CertIsStored, ConnectProvisioner, SendHello,
         ProvisionerAnswers, NoProvisioner, Serves, ProcessDies, ProcessRestarts,
         ProcessWakes, UserWaits, ProxyLoops, ProxyFails, ClockSyncs, SyncTryFails,
         Tick, Handshake, PassThrough, Elsewhere, clockVars

(* An answer that may still be used is behind the host by no more than the *)
(* fraction it lost and the time it has been waiting since it was asked.   *)
ClockInv ==
    /\ ClockTypeOK
    /\ SyncedClockIsClose
    /\ sync.at = "answered" =>
         sync.elapsed > RttLimit \/ sync.error >= -(PerSecond - 1) - sync.elapsed

(* The bounds, as numbers. *)
LEMMA ClockNumbers ==
  /\ RttLimit \in Nat /\ Tries \in Nat /\ Tries > 0
  /\ MaxError \in Nat /\ MaxError = RttLimit + 1 /\ PerSecond = 2
  /\ \A e : e \in Elapsed <=> e \in Int /\ 0 <= e /\ e <= RttLimit + 1
  BY ClockBounds DEF MaxError, PerSecond, Elapsed

LEMMA ClockInvInit == ClockInit => ClockInv
<1> SUFFICES ASSUME ClockInit PROVE ClockInv
  OBVIOUS
<1>1. Idle \in [at : {"idle", "asked", "answered"}, tries : 0..Tries,
                elapsed : Elapsed, error : (-MaxError - 1)..0]
  BY ClockNumbers DEF Idle
<1>2. phase \in 0..(PerSecond - 1)
  BY ClockNumbers DEF ClockInit
<1> QED
  BY <1>1, <1>2 DEF ClockInit, ClockInv, ClockTypeOK, SyncedClockIsClose, Idle

LEMMA ClockInvStep == ClockInv /\ [ClockStep]_clockVars => ClockInv'
<1> SUFFICES ASSUME ClockInv, [ClockStep]_clockVars PROVE ClockInv'
  OBVIOUS
<1> USE ClockNumbers DEF ClockInv, ClockTypeOK, SyncedClockIsClose
<1>0. Idle \in [at : {"idle", "asked", "answered"}, tries : 0..Tries,
                elapsed : Elapsed, error : (-MaxError - 1)..0]
  BY DEF Idle
<1>1. CASE SyncStarts
  <2>1. sync' = [at |-> "asked", tries |-> 1, elapsed |-> 0, error |-> 0]
    BY <1>1 DEF SyncStarts, Idle
  <2> QED
    BY <1>1, <2>1 DEF SyncStarts
<1>2. CASE HostAnswers
  <2>1. sync' \in [at : {"idle", "asked", "answered"}, tries : 0..Tries,
                   elapsed : Elapsed, error : (-MaxError - 1)..0]
    <3>1. sync' = [at |-> "answered", tries |-> 0, elapsed |-> sync.elapsed,
                   error |-> -phase]
      BY <1>2 DEF HostAnswers
    <3>2. -phase \in (-MaxError - 1)..0
      OBVIOUS
    <3> QED
      BY <3>1, <3>2
  <2>2. sync'.error >= -(PerSecond - 1) - sync'.elapsed
    BY <1>2 DEF HostAnswers
  <2> QED
    BY <1>2, <2>1, <2>2 DEF HostAnswers
<1>3. CASE AskAgain
  BY <1>3 DEF AskAgain
<1>4. CASE SyncFails
  BY <1>0, <1>4 DEF SyncFails, Idle
<1>5. CASE SetClock
  <2>1. sync.elapsed <= RttLimit => sync.error \in (-MaxError)..0
    BY <1>5 DEF SetClock
  <2>2. offset' \in Offsets \cup (-MaxError - 1)..0
    BY <1>5, <2>1 DEF SetClock
  <2>3. synced' => offset' \in (-MaxError)..0
    BY <1>5, <2>1 DEF SetClock
  <2>4. synced' \in BOOLEAN
    BY <1>5 DEF SetClock
  <2> QED
    BY <1>0, <1>5, <2>2, <2>3, <2>4 DEF SetClock, Idle
<1>6. CASE ClockTicks
  <2>1. phase' \in 0..(PerSecond - 1)
    BY <1>6 DEF ClockTicks
  <2>2. sync' \in [at : {"idle", "asked", "answered"}, tries : 0..Tries,
                   elapsed : Elapsed, error : (-MaxError - 1)..0]
    <3> DEFINE elapsed == IF sync.at # "idle" /\ sync.elapsed <= RttLimit
                            THEN sync.elapsed + 1 ELSE sync.elapsed
               error == IF sync.at = "answered" /\ sync.error >= -MaxError
                          THEN sync.error - 1 ELSE sync.error
    <3>1. sync' = [at |-> sync.at, tries |-> sync.tries, elapsed |-> elapsed,
                   error |-> error]
      BY <1>6 DEF ClockTicks
    <3>2. elapsed \in Elapsed /\ error \in (-MaxError - 1)..0
      OBVIOUS
    <3> QED
      BY <3>1, <3>2
  <2>3. sync'.at = "answered" => sync'.elapsed > RttLimit
                              \/ sync'.error >= -(PerSecond - 1) - sync'.elapsed
    BY <1>6 DEF ClockTicks
  <2> QED
    BY <1>6, <2>1, <2>2, <2>3 DEF ClockTicks
<1>7. CASE SyncForgotten
  BY <1>0, <1>7 DEF SyncForgotten, Idle
<1>8. CASE UNCHANGED clockVars
  BY <1>8 DEF clockVars
<1> QED
  BY <1>1, <1>2, <1>3, <1>4, <1>5, <1>6, <1>7, <1>8 DEF ClockStep

-----------------------------------------------------------------------------
(* What any step of the data plane is for the boot. *)
BootStep ==
    \/ Work \/ Connect \/ SayHello(TRUE) \/ SayHello(FALSE)
    \/ AnswerArrives \/ AnswerFails \/ ConnectionFails \/ StartServer
    \/ Crash \/ Restart \/ WakeUp \/ UserFindsMark \/ UserStarts
    \/ Fault /\ UNCHANGED <<mode, pc, local, env, userVars, restarts>>
    \/ Sleep /\ UNCHANGED <<mode, pc, attempts, secrets, ctx, trusted, env, userVars,
                            restarts, faults>>

LEMMA NextIsBootStep == [Next]_vars => [BootStep]_bootVars
<1> SUFFICES ASSUME Next PROVE [BootStep]_bootVars
  BY DEF vars
<1>1. TrustedCert => Work
  BY DEF Work
<1> QED
  BY <1>1 DEF Next, BootStep, BootWorks, CertIsStored, ConnectProvisioner, SendHello,
         ProvisionerAnswers, NoProvisioner, Serves, ProcessDies, ProcessRestarts,
         ProcessWakes, UserWaits, ProxyLoops, ProxyFails, ClockSyncs, SyncTryFails,
         Tick, Handshake, PassThrough

(* What the process has by the time it gets somewhere.  A file is marked by *)
(* the first process only once it goes on to serve; from the mark to the    *)
(* sourcing of the file nothing but a later process could empty it.         *)
BootInv ==
    /\ MarkedIsComplete
    /\ pc \in {"create", "write"} => secrets = "open"
    /\ pc \in {"parse", "acme", "mark"} => env.holds = "open"
    /\ pc \in {"env", "create", "write", "parse", "acme", "mark", "resolver"} => ctx
    /\ mode = "tls" /\ pc \in {"mark", "resolver", "serving"} => trusted
    /\ restarts = 0 /\ env.marked => pc \in {"resolver", "serving", "down"}
    /\ restarts = 0 /\ upc = "found" => env.marked
    /\ pc = "down" => restarts < MaxRestarts

LEMMA BootInvInit == BootInit => BootInv
<1> SUFFICES ASSUME BootInit PROVE BootInv
  OBVIOUS
<1>1. BootTypeOK
  <2>1. /\ attempts \in 0..MaxAttempts /\ nap \in 0..LongNap
        /\ restarts \in 0..MaxRestarts /\ faults \in 0..MaxFaults
    BY BootBounds DEF BootInit
  <2>2. env \in [holds : {"nothing", "sealed", "open"}, marked : BOOLEAN]
    BY DEF BootInit
  <2>3. ctx \in BOOLEAN /\ trusted \in BOOLEAN
    BY DEF BootInit
  <2> QED
    BY BootBounds, <2>1, <2>2, <2>3 DEF BootInit, BootTypeOK
<1>2. ~env.marked /\ pc = "start" /\ upc = "waiting"
  BY DEF BootInit
<1> QED
  BY <1>1, <1>2 DEF BootInv, MarkedIsComplete

LEMMA BootInvStep == BootInv /\ [BootStep]_bootVars => BootInv'
<1> SUFFICES ASSUME BootInv, [BootStep]_bootVars PROVE BootInv'
  OBVIOUS
<1> USE BootBounds DEF BootInv, MarkedIsComplete, BootTypeOK, Goto, local, userVars, fixed
<1>1. CASE AskToken \/ TokenArrives \/ Connect \/ SayHello(FALSE) \/ StartServer \/ WakeUp
  BY <1>1 DEF AskToken, TokenArrives, Connect, SayHello, StartServer, WakeUp
<1>2. CASE SayHello(TRUE)
  BY <1>2 DEF SayHello, Fault
<1>3. CASE \/ TokenFails \/ AttestFails \/ ConnectionFails \/ AnswerFails
           \/ DecryptFails \/ WriteFails \/ MarkFails
  <2>1. /\ AttemptFails /\ UNCHANGED env
        /\ faults' \in 0..MaxFaults
        /\ pc \notin {"start", "resolver", "serving", "down", "asleep"}
    BY <1>3 DEF TokenFails, AttestFails, ConnectionFails, AnswerFails,
                DecryptFails, WriteFails, MarkFails, Fault
  <2>2. CASE mode = "tls"
    BY <2>1, <2>2 DEF AttemptFails
  <2>3. CASE mode = "passthrough"
    BY <2>1, <2>3 DEF AttemptFails
  <2> QED
    BY <2>2, <2>3
<1>4. CASE AnswerArrives
  BY <1>4 DEF AnswerArrives
<1>5. CASE Decrypt
  BY <1>5 DEF Decrypt
<1>6. CASE CreateEnv
  BY <1>6 DEF CreateEnv
<1>7. CASE WriteEnv
  BY <1>7 DEF WriteEnv
<1>8. CASE ParseCa
  BY <1>8 DEF ParseCa
<1>9. CASE TrustedCert
  BY <1>9 DEF TrustedCert
<1>10. CASE MarkEnv
  BY <1>10 DEF MarkEnv
<1>11. CASE Crash
  <2>1. ctx' \in BOOLEAN /\ trusted' \in BOOLEAN
    BY <1>11 DEF Crash
  <2>2. attempts' \in 0..MaxAttempts /\ nap' \in 0..LongNap
    BY <1>11 DEF Crash
  <2> QED
    BY <1>11, <2>1, <2>2 DEF Crash
<1>12. CASE Restart
  BY <1>12 DEF Restart
<1>13. CASE UserFindsMark \/ UserStarts
  BY <1>13 DEF UserFindsMark, UserStarts
<1>14. CASE Fault /\ UNCHANGED <<mode, pc, local, env, userVars, restarts>>
  BY <1>14 DEF Fault
<1>15. CASE Sleep /\ UNCHANGED <<mode, pc, attempts, secrets, ctx, trusted, env,
                                 userVars, restarts, faults>>
  BY <1>15 DEF Sleep
<1>16. CASE UNCHANGED bootVars
  BY <1>16 DEF bootVars
<1> QED
  BY <1>1, <1>2, <1>3, <1>4, <1>5, <1>6, <1>7, <1>8, <1>9, <1>10, <1>11, <1>12,
     <1>13, <1>14, <1>15, <1>16 DEF BootStep, Work

-----------------------------------------------------------------------------
(* What any step of the data plane is for the proxy. *)
ProxyStep ==
    \/ \E c \in 0..MaxRestarts :
         \/ Proxy!Connect(c) \/ Proxy!Hangup(c) \/ Proxy!PeerDies(c)
         \/ Proxy!Accept(c) \/ Proxy!Dial(c) \/ Proxy!DialFails(c)
         \/ \E h \in {"whole", "cut", "other"} : Proxy!SendHello(c, h)
    \/ Proxy!ReadName \/ Proxy!ReadNoName \/ Proxy!ReadFails
    \/ Proxy!Resolved \/ Proxy!NotResolved

LEMMA NextIsProxyStep == BootInv /\ [Next]_vars => [ProxyStep]_proxyVars
<1> SUFFICES ASSUME BootInv, Next PROVE [ProxyStep]_proxyVars
  BY DEF vars
<1>1. Mine \in 0..MaxRestarts
  BY DEF Mine, BootInv, MarkedIsComplete, BootTypeOK
<1> QED
  BY <1>1 DEF Next, ProxyStep, BootWorks, CertIsStored, ConnectProvisioner, SendHello,
         ProvisionerAnswers, NoProvisioner, Serves, ProcessDies, ProcessRestarts,
         ProcessWakes, UserWaits, ProxyLoops, ProxyFails, ClockSyncs, SyncTryFails,
         Tick, Handshake, PassThrough

LEMMA ProxyTypeInit == Proxy!Init => Proxy!TypeOK
  BY DEF Proxy!Init, Proxy!TypeOK

LEMMA ProxyTypeStep == Proxy!TypeOK /\ [ProxyStep]_proxyVars => Proxy!TypeOK'
<1> SUFFICES ASSUME Proxy!TypeOK, [ProxyStep]_proxyVars PROVE Proxy!TypeOK'
  OBVIOUS
<1> USE DEF Proxy!TypeOK
<1>1. ASSUME NEW c \in 0..MaxRestarts,
             \/ Proxy!Connect(c) \/ Proxy!Accept(c) \/ Proxy!Dial(c)
             \/ \E h \in {"whole", "cut", "other"} : Proxy!SendHello(c, h)
      PROVE  Proxy!TypeOK'
  BY <1>1 DEF Proxy!Connect, Proxy!Accept, Proxy!Dial, Proxy!SendHello
<1>2. ASSUME NEW c \in 0..MaxRestarts,
             Proxy!Hangup(c) \/ Proxy!PeerDies(c) \/ Proxy!DialFails(c)
      PROVE  Proxy!TypeOK'
  BY <1>2 DEF Proxy!Hangup, Proxy!PeerDies, Proxy!DialFails, Proxy!Over
<1>3. CASE Proxy!ReadName \/ Proxy!Resolved
  BY <1>3 DEF Proxy!ReadName, Proxy!Resolved
<1>4. CASE Proxy!ReadNoName \/ Proxy!NotResolved
  BY <1>4 DEF Proxy!ReadNoName, Proxy!NotResolved, Proxy!Shutdown, Proxy!Over
<1>5. CASE Proxy!ReadFails
  BY <1>5 DEF Proxy!ReadFails
<1>6. CASE UNCHANGED proxyVars
  BY <1>6 DEF proxyVars
<1> QED
  BY <1>1, <1>2, <1>3, <1>4, <1>5, <1>6 DEF ProxyStep

(* The ACME proxy listens until it does not. *)
LEMMA AcmeProxyEndsOnce ==
  [Next]_vars => acmeProxy' = acmeProxy \/ acmeProxy' = FALSE
<1> SUFFICES ASSUME Next PROVE acmeProxy' = acmeProxy \/ acmeProxy' = FALSE
  BY DEF vars
<1> QED
  BY DEF Next, BootWorks, CertIsStored, ConnectProvisioner, SendHello,
         ProvisionerAnswers, NoProvisioner, Serves, ProcessDies, ProcessRestarts,
         ProcessWakes, UserWaits, ProxyLoops, ProxyFails, ClockSyncs, SyncTryFails,
         Tick, Handshake, PassThrough, Elsewhere, ResetEndsAcmeProxy

-----------------------------------------------------------------------------
(* Whoever serves with TLS termination has a base certificate. *)
ResolverInv ==
    /\ ResolverTypeOK
    /\ served # None /\ served.sni = "trusted" => served.cert = "trusted"
    /\ ServedIsFresh
    /\ mode = "tls" /\ pc = "serving" => left # None

LEMMA ResolverInvInit == ResolverInit /\ BootInit => ResolverInv
  BY DEF ResolverInit, BootInit, ResolverInv, ResolverTypeOK, ServedIsFresh

(* What is handed out, if it is what the name asks for and is fresh enough. *)
LEMMA ServeIsRight ==
  ASSUME NEW sni \in Sni, NEW cert \in {"nonce", "trusted", "base"},
         NEW l \in (-MaxAge)..Life, NEW failed \in BOOLEAN,
         Serve(sni, cert, l, failed), synced' = synced,
         sni = "trusted" => cert = "trusted",
         synced => failed \/ l > -MaxError
  PROVE  /\ served' \in Certificate
         /\ served'.sni = "trusted" => served'.cert = "trusted"
         /\ synced' => served'.failed \/ served'.left > -MaxError
<1>1. served' = [sni |-> sni, cert |-> cert, left |-> l, failed |-> failed]
  BY DEF Serve
<1>2. served' \in Certificate
  BY <1>1 DEF Certificate
<1> QED
  BY <1>1, <1>2

(* A certificate that is handed out is the trusted one for a trusted domain, *)
(* and its document is at most as old as the clock is behind.                *)
LEMMA ResolveIsRight ==
  ASSUME BootInv, ClockInv, ResolverInv, Handshake
  PROVE  ResolverInv'
<1>1. /\ trusted /\ left \in (-MaxAge)..Life /\ offset \in Int
      /\ synced => offset >= -MaxError
  BY ClockNumbers, ClockBounds DEF Handshake, BootInv, ResolverInv, ResolverTypeOK, ClockInv,
     ClockTypeOK, SyncedClockIsClose
<1>2. Life \in (-MaxAge)..Life /\ Life > -MaxError /\ Life # None /\ left # None
  BY <1>1, LifeIsPositive, NoneIsNoTime, ClockNumbers
<1>3. PICK sni \in Sni : Resolve(sni, trusted, offset)
  BY DEF Handshake
<1>4. pc' = pc /\ mode' = mode /\ synced' = synced
  BY DEF Handshake, bootVars, clockVars
<1> DEFINE Right ==
        /\ served' \in Certificate \cup {None}
        /\ served' # None /\ served'.sni = "trusted" => served'.cert = "trusted"
        /\ served' # None /\ synced' => served'.failed \/ served'.left > -MaxError
        /\ left' \in {left, Life}
<1>5. ASSUME ResolveNonce PROVE Right
  <2>1. CASE Serve("nonce", "nonce", Life, FALSE)
    BY <1>2, <1>4, <1>5, <2>1, ServeIsRight DEF ResolveNonce, Sni
  <2>2. CASE served' = None
    BY <1>5, <2>2 DEF ResolveNonce
  <2> QED
    BY <1>5, <2>1, <2>2 DEF ResolveNonce
<1>6. ASSUME ResolveTrusted(trusted, offset) PROVE Right
  BY <1>1, <1>2, <1>4, <1>6, ServeIsRight DEF ResolveTrusted, Sni
<1>7. ASSUME ResolveBase("other", offset) PROVE Right
  <2>1. CASE IsGood(offset) /\ Serve("other", "base", left, FALSE) /\ UNCHANGED left
    <3>1. synced => left > -MaxError
      BY <1>1, <2>1, ClockNumbers DEF IsGood
    <3> QED
      BY <1>1, <1>4, <2>1, <3>1, ServeIsRight DEF Sni
  <2>2. CASE left' = Life /\ Serve("other", "base", Life, FALSE)
    BY <1>2, <1>4, <2>2, ServeIsRight DEF Sni
  <2>3. CASE Serve("other", "base", left, TRUE) /\ UNCHANGED left
    BY <1>1, <1>4, <2>3, ServeIsRight DEF Sni
  <2> QED
    BY <1>7, <2>1, <2>2, <2>3 DEF ResolveBase
<1>8. Right
  BY <1>3, <1>5, <1>6, <1>7 DEF Resolve
<1> QED
  BY <1>1, <1>2, <1>4, <1>8 DEF ResolverInv, ResolverTypeOK, ServedIsFresh

LEMMA ResolverInvStep ==
  BootInv /\ ClockInv /\ ResolverInv /\ [Next]_vars => ResolverInv'
<1> SUFFICES ASSUME BootInv, ClockInv, ResolverInv, [Next]_vars PROVE ResolverInv'
  OBVIOUS
<1> USE DEF ResolverInv, ResolverTypeOK, ServedIsFresh
<1>1. CASE Handshake
  BY <1>1, ResolveIsRight
<1>2. CASE Serves
  BY <1>2, LifeIsPositive, NoneIsNoTime DEF Serves, NewResolver
<1>3. CASE ProcessDies
  BY <1>3 DEF ProcessDies, ResolverGone, Crash
<1>4. CASE Tick
  <2>1. left' \in (-MaxAge)..Life \cup {None}
    BY <1>4, LifeIsPositive DEF Tick, DocumentAges
  <2>2. left # None => left' # None
    BY <1>4, LifeIsPositive, NoneIsNoTime DEF Tick, DocumentAges
  <2> QED
    BY <1>4, <2>1, <2>2 DEF Tick, DocumentAges
<1>5. CASE UNCHANGED vars
  BY <1>5 DEF vars, resolverVars, bootVars, clockVars
<1>6. CASE ClockSyncs \/ SyncTryFails \/ PassThrough \/ ProxyLoops \/ ProxyFails
  BY <1>6 DEF ClockSyncs, SyncTryFails, PassThrough, ProxyLoops, ProxyFails, Elsewhere,
     bootVars
<1>7. CASE \/ BootWorks \/ CertIsStored \/ ConnectProvisioner \/ SendHello
           \/ ProvisionerAnswers \/ NoProvisioner \/ ProcessRestarts \/ ProcessWakes \/ UserWaits
  <2>1. served' = None /\ left' = left
    BY <1>7 DEF BootWorks, CertIsStored, ConnectProvisioner, SendHello, ProvisionerAnswers,
       NoProvisioner, ProcessRestarts, ProcessWakes, UserWaits, Elsewhere
  <2>2. mode' = "tls" /\ pc' = "serving" => mode = "tls" /\ pc = "serving"
    BY <1>7 DEF BootWorks, CertIsStored, ConnectProvisioner, SendHello, ProvisionerAnswers,
       NoProvisioner, ProcessRestarts, ProcessWakes, UserWaits, Work, AskToken,
       TokenArrives, TokenFails, AttestFails, Decrypt, DecryptFails, CreateEnv, WriteEnv,
       WriteFails, ParseCa, TrustedCert, MarkEnv, MarkFails, AttemptFails, Goto, fixed,
       Connect, SayHello, AnswerArrives, AnswerFails, ConnectionFails, Restart, WakeUp,
       UserFindsMark, UserStarts
  <2> QED
    BY <2>1, <2>2
<1> QED
  BY <1>1, <1>2, <1>3, <1>4, <1>5, <1>6, <1>7 DEF Next

-----------------------------------------------------------------------------
(* A sequence is cut in two anywhere, and nothing is lost. *)
LEMMA CutInTwo ==
  ASSUME NEW S, NEW s \in Seq(S), NEW n \in 0..Len(s)
  PROVE  /\ SubSeq(s, 1, n) \in Seq(S) /\ SubSeq(s, n + 1, Len(s)) \in Seq(S)
         /\ Len(SubSeq(s, 1, n)) = n
         /\ SubSeq(s, 1, n) \o SubSeq(s, n + 1, Len(s)) = s
<1>1. Len(s) \in Nat /\ \A i \in 1..Len(s) : s[i] \in S
  BY LenProperties, ElementOfSeq
<1>2. SubSeq(s, 1, n) \in Seq(S) /\ Len(SubSeq(s, 1, n)) = n
  BY <1>1, SubSeqProperties
<1>3. SubSeq(s, n + 1, Len(s)) \in Seq(S)
  BY <1>1, SubSeqProperties
<1>4. SubSeq(s, 1, n) \o SubSeq(s, n + 1, Len(s)) = SubSeq(s, 1, Len(s))
  <2>1. 1 \in 1..Len(s) + 1 /\ n \in (1 - 1)..Len(s) /\ Len(s) \in n..Len(s)
    BY <1>1
  <2> QED
    BY <2>1, ConcatAdjacentSubSeq
<1> QED
  BY <1>2, <1>3, <1>4, SubSeqFull

(* Of two starts of one sequence the shorter is a prefix of the longer. *)
LEMMA StartsAreOrdered ==
  ASSUME NEW S, NEW a \in Seq(S), NEW b \in Seq(S), NEW c \in Seq(S), NEW d \in Seq(S),
         a \o b = c \o d, Len(a) <= Len(c)
  PROVE  IsPrefix(a, c)
<1>1. Len(a) \in Nat /\ Len(c) \in Nat /\ Len(b) \in Nat /\ Len(d) \in Nat
  BY LenProperties
<1>2. \A i \in 1..Len(a) : a[i] = c[i]
  <2> TAKE i \in 1..Len(a)
  <2>1. (a \o b)[i] = a[i]
    BY <1>1, ConcatProperties
  <2>2. (c \o d)[i] = c[i]
    BY <1>1, ConcatProperties
  <2> QED
    BY <2>1, <2>2
<1>3. SubSeq(a, 1, Len(a)) = a
  BY SubSeqFull
<1>4. /\ SubSeq(c, 1, Len(a)) \in Seq(S)
      /\ Len(SubSeq(c, 1, Len(a))) = Len(a)
      /\ \A i \in 1..Len(a) : SubSeq(c, 1, Len(a))[i] = c[i]
  <2>1. \A i \in 1..Len(a) : c[i] \in S
    BY <1>1, ElementOfSeq
  <2> QED
    BY <1>1, <2>1, SubSeqProperties
<1>5. a = SubSeq(c, 1, Len(a))
  BY <1>2, <1>4, SeqEqual
<1> QED
  BY <1>3, <1>5 DEF IsPrefix

(* What follows a prefix is what is left when it is taken off. *)
LEMMA PrefixTakenOff ==
  ASSUME NEW S, NEW h \in Seq(S), NEW r \in Seq(S), IsPrefix(h, r)
  PROVE  /\ SubSeq(r, Len(h) + 1, Len(r)) \in Seq(S)
         /\ r = h \o SubSeq(r, Len(h) + 1, Len(r))
<1>1. Len(h) \in 0..Len(r)
  BY LenProperties DEF IsPrefix
<1>2. SubSeq(r, 1, Len(h)) = h
  BY SubSeqFull DEF IsPrefix
<1> QED
  BY <1>1, <1>2, CutInTwo

(* The end of a sequence is a suffix of it. *)
LEMMA EndIsSuffix ==
  ASSUME NEW S, NEW u \in Seq(S), NEW s \in Seq(S)
  PROVE  IsSuffix(s, u \o s)
<1> DEFINE t == u \o s
<1>1. /\ t \in Seq(S) /\ Len(t) = Len(u) + Len(s)
      /\ Len(u) \in Nat /\ Len(s) \in Nat /\ Len(t) \in Nat
  BY ConcatProperties, LenProperties
<1>2. \A q \in Seq(S) : Reverse(q) \in Seq(S) /\ Len(Reverse(q)) = Len(q)
                     /\ \A i \in 1..Len(q) : Reverse(q)[i] = q[Len(q) - i + 1]
  <2> TAKE q \in Seq(S)
  <2>1. Len(q) \in Nat
    BY LenProperties
  <2>2. \A i \in 1..Len(q) : q[Len(q) - i + 1] \in S
    BY <2>1, ElementOfSeq
  <2>3. Reverse(q) \in [1..Len(q) -> S]
    BY <2>2 DEF Reverse
  <2> QED
    BY <2>1, <2>3, SeqDef DEF Reverse
<1>3. \A i \in 1..Len(s) : Reverse(s)[i] = Reverse(t)[i]
  <2> TAKE i \in 1..Len(s)
  <2>1. Reverse(s)[i] = s[Len(s) - i + 1]
    BY <1>2
  <2>2. Reverse(t)[i] = t[Len(t) - i + 1]
    <3>1. i \in 1..Len(t)
      BY <1>1
    <3> HIDE DEF t
    <3> QED
      BY <1>1, <1>2, <3>1
  <2> DEFINE j == Len(t) - i + 1
  <2>3. j \in 1..Len(u) + Len(s) /\ j > Len(u) /\ j - Len(u) = Len(s) - i + 1
    BY <1>1
  <2>4. t[j] = s[j - Len(u)]
    BY <1>1, <2>3, ConcatProperties
  <2> QED
    BY <2>1, <2>2, <2>3, <2>4
<1> DEFINE a == Reverse(s)
           b == Reverse(t)
<1>4. /\ a \in Seq(S) /\ b \in Seq(S) /\ Len(a) = Len(s) /\ Len(b) = Len(t)
      /\ \A i \in 1..Len(s) : a[i] = b[i]
  BY <1>1, <1>2, <1>3
<1> HIDE DEF a, b, t
<1>5. /\ SubSeq(b, 1, Len(a)) \in Seq(S) /\ Len(SubSeq(b, 1, Len(a))) = Len(a)
      /\ \A i \in 1..Len(a) : SubSeq(b, 1, Len(a))[i] = b[i]
  <2>1. \A i \in 1..Len(a) : b[i] \in S
    BY <1>1, <1>4, ElementOfSeq
  <2> QED
    BY <1>1, <1>4, <2>1, SubSeqProperties
<1>6. a = SubSeq(b, 1, Len(a))
  BY <1>4, <1>5, SeqEqual
<1>7. SubSeq(a, 1, Len(a)) = a
  BY <1>4, SubSeqFull
<1> QED
  BY <1>1, <1>4, <1>6, <1>7 DEF IsSuffix, IsPrefix, a, b, t

-----------------------------------------------------------------------------
(* What any step of the data plane is for the passthrough connection. *)
IngressStep ==
    \/ \E r \in BOOLEAN : Relay(r)
    \/ AcceptConn \/ DialUser \/ Pipe \/ CloseConn
    \/ \E n \in 1..Len(wire) : ReadChunk(n)

LEMMA NextIsIngressStep == [Next]_vars => [IngressStep]_ingressVars
<1> SUFFICES ASSUME Next PROVE [IngressStep]_ingressVars
  BY DEF vars
<1> QED
  BY DEF Next, IngressStep, BootWorks, CertIsStored, ConnectProvisioner, SendHello,
         ProvisionerAnswers, NoProvisioner, Serves, ProcessDies, ProcessRestarts,
         ProcessWakes, UserWaits, ProxyLoops, ProxyFails, ClockSyncs, SyncTryFails,
         Tick, Handshake, PassThrough, Elsewhere

Byte == Range(Header \o Payload)
Streams == {Header \o Payload, Payload}

(* Nothing is lost on the way: what was read and what was not are a stream *)
(* of the client until the header is found or is known not to be there,    *)
(* and from then on the client's own bytes.                                *)
IngressInv ==
    /\ forward \in BOOLEAN /\ pp \in BOOLEAN
    /\ stage \in {"none", "relayed", "parsing", "accepted", "piping", "closed"}
    /\ wire \in Seq(Byte) /\ buf \in Seq(Byte) /\ received \in Seq(Byte)
    /\ \E gone \in Seq(Byte) : Header \o Payload = gone \o wire
    /\ stage \in {"none", "relayed"} => buf = <<>>
    /\ stage \in {"none", "relayed", "parsing", "accepted"} => received = <<>>
    /\ stage = "relayed" => wire \in Streams
    /\ stage = "parsing" => buf \o wire \in Streams /\ IsStrictPrefix(buf, Header)
    /\ stage = "accepted" => buf \o wire = Payload
    /\ stage = "piping" =>
         received \o buf \o wire = (IF pp /\ forward THEN Header ELSE <<>>) \o Payload

LEMMA StreamBytes ==
  /\ Header \in Seq(Byte) /\ Payload \in Seq(Byte) /\ <<>> \in Seq(Byte)
  /\ Header \o Payload \in Seq(Byte)
<1> DEFINE S == Range(Header) \cup Range(Payload)
<1>1. Header \in Seq(S) /\ Payload \in Seq(S)
  BY StreamsAreSequences, SeqMonotonic
<1>2. Byte = S
  BY <1>1, RangeConcatenation, RangeOfSeq DEF Byte
<1> QED
  BY <1>1, <1>2, EmptySeq, ConcatProperties

LEMMA IngressInvImplies == IngressInv => StreamIsKept
<1> SUFFICES ASSUME IngressInv PROVE StreamIsKept
  OBVIOUS
<1>1. IsSuffix(wire, Header \o Payload)
  BY EndIsSuffix DEF IngressInv
<1> QED
  BY <1>1 DEF IngressInv, StreamIsKept, IngressTypeOK, Byte

LEMMA IngressInvInit == IngressInit => IngressInv
<1> SUFFICES ASSUME IngressInit PROVE IngressInv
  OBVIOUS
<1>1. Header \o Payload = (Header \o Payload) \o <<>>
  BY StreamBytes, ConcatEmptySeq
<1> QED
  BY <1>1, StreamBytes, StreamsDiffer DEF IngressInit, IngressInv

(* To cut bytes off the second of two sequences and to add them to the first *)
(* leaves the two together what they were.                                   *)
LEMMA CutAndJoin ==
  ASSUME NEW S, NEW a \in Seq(S), NEW s \in Seq(S)
  PROVE  \A n \in 1..Len(s) :
           /\ a \o SubSeq(s, 1, n) \in Seq(S)
           /\ SubSeq(s, n + 1, Len(s)) \in Seq(S)
           /\ (a \o SubSeq(s, 1, n)) \o SubSeq(s, n + 1, Len(s)) = a \o s
<1>1. \A x, y \in Seq(S) : x \o y = s => (a \o x) \o y = a \o s
  <2> TAKE x, y \in Seq(S)
  <2>1. (a \o x) \o y = a \o (x \o y)
    BY ConcatAssociative
  <2> QED
    BY <2>1, Zenon
<1> TAKE n \in 1..Len(s)
<1>2. n \in 0..Len(s)
  BY LenProperties
<1>3. /\ SubSeq(s, 1, n) \in Seq(S) /\ SubSeq(s, n + 1, Len(s)) \in Seq(S)
      /\ SubSeq(s, 1, n) \o SubSeq(s, n + 1, Len(s)) = s
  BY <1>2, CutInTwo
<1>4. a \o SubSeq(s, 1, n) \in Seq(S)
  BY <1>3, ConcatProperties
<1> QED
  BY <1>1, <1>3, <1>4, Zenon

(* A read takes its bytes off the wire, whose rest is still an end of the *)
(* stream.                                                                *)
LEMMA WireIsCut ==
  ASSUME IngressInv, NEW n \in 1..Len(wire),
         wire' = SubSeq(wire, n + 1, Len(wire))
  PROVE  /\ wire' \in Seq(Byte)
         /\ \E gone \in Seq(Byte) : Header \o Payload = gone \o wire'
<1>1. wire \in Seq(Byte)
  BY DEF IngressInv
<1>2. PICK gone \in Seq(Byte) : Header \o Payload = gone \o wire
  BY DEF IngressInv
<1> DEFINE more == gone \o SubSeq(wire, 1, n)
<1>3. /\ more \in Seq(Byte) /\ SubSeq(wire, n + 1, Len(wire)) \in Seq(Byte)
      /\ more \o SubSeq(wire, n + 1, Len(wire)) = gone \o wire
  BY <1>1, CutAndJoin
<1> QED
  BY <1>2, <1>3, Zenon

(* Only a stream with a header starts with one. *)
LEMMA HeaderIsFound ==
  ASSUME NEW read \in Seq(Byte), NEW rest \in Seq(Byte),
         read \o rest \in Streams, IsPrefix(Header, read)
  PROVE  /\ SubSeq(read, Len(Header) + 1, Len(read)) \in Seq(Byte)
         /\ SubSeq(read, Len(Header) + 1, Len(read)) \o rest = Payload
<1> DEFINE after == SubSeq(read, Len(Header) + 1, Len(read))
<1>1. after \in Seq(Byte) /\ read = Header \o after
  BY StreamBytes, PrefixTakenOff
<1> HIDE DEF after
<1>2. read \o rest = Header \o (after \o rest) /\ after \o rest \in Seq(Byte)
  BY <1>1, StreamBytes, ConcatAssociative, ConcatProperties
<1>3. read \o rest # Payload
  <2>1. Len(Header) \in Nat \ {0} /\ Len(after \o rest) \in Nat
    BY StreamBytes, StreamsDiffer, EmptySeq, <1>2, LenProperties
  <2>2. (Header \o (after \o rest))[1] = Header[1]
    BY <1>2, <2>1, StreamBytes, ConcatProperties
  <2>3. Header[1] # Payload[1]
    BY StreamBytes, StreamsDiffer
  <2> QED
    BY <1>2, <2>2, <2>3
<1>4. Header \o (after \o rest) = Header \o Payload
  BY <1>2, <1>3 DEF Streams
<1>5. after \o rest = Payload
  BY <1>2, <1>4, StreamBytes, ConcatSimplifications
<1> QED
  BY <1>1, <1>5 DEF after

(* A stream that neither starts with the header nor may yet do so is the *)
(* client's own.                                                         *)
LEMMA HeaderIsMissing ==
  ASSUME NEW read \in Seq(Byte), NEW rest \in Seq(Byte), read \o rest \in Streams,
         ~IsPrefix(Header, read), ~IsStrictPrefix(read, Header)
  PROVE  read \o rest = Payload
<1> SUFFICES ASSUME read \o rest = Header \o Payload PROVE FALSE
  BY DEF Streams
<1>1. Len(read) \in Nat /\ Len(Header) \in Nat
  BY StreamBytes, LenProperties
<1>2. Len(Header) <= Len(read) => IsPrefix(Header, read)
  BY StreamBytes, StartsAreOrdered
<1>3. Len(read) < Len(Header) => IsPrefix(read, Header)
  <2> SUFFICES ASSUME Len(read) < Len(Header) PROVE IsPrefix(read, Header)
    OBVIOUS
  <2>1. Len(read) <= Len(Header)
    BY <1>1
  <2> QED
    BY <2>1, StreamBytes, StartsAreOrdered
<1> QED
  BY <1>1, <1>2, <1>3 DEF IsStrictPrefix

LEMMA ReadKeepsTheStream ==
  ASSUME IngressInv, NEW n \in 1..Len(wire), ReadChunk(n)
  PROVE  IngressInv'
<1> DEFINE read == buf \o SubSeq(wire, 1, n)
<1>1. wire' \in Seq(Byte) /\ \E gone \in Seq(Byte) : Header \o Payload = gone \o wire'
  BY WireIsCut DEF ReadChunk
<1>2. /\ stage = "parsing" /\ received = <<>> /\ buf \in Seq(Byte) /\ wire \in Seq(Byte)
      /\ forward \in BOOLEAN /\ pp \in BOOLEAN
  BY DEF ReadChunk, IngressInv
<1>3. read \in Seq(Byte) /\ read \o wire' \in Streams
  <2>1. /\ read \in Seq(Byte)
        /\ read \o SubSeq(wire, n + 1, Len(wire)) = buf \o wire
    BY <1>2, CutAndJoin
  <2>2. wire' = SubSeq(wire, n + 1, Len(wire)) /\ buf \o wire \in Streams
    BY DEF ReadChunk, IngressInv
  <2> QED
    BY <2>1, <2>2, Zenon
<1>4. forward' = forward /\ received' = received
  BY DEF ReadChunk
<1>5. \/ IsPrefix(Header, read) /\ Accepted(read, TRUE)
      \/ IsStrictPrefix(read, Header) /\ buf' = read /\ UNCHANGED <<stage, pp>>
      \/ ~IsPrefix(Header, read) /\ ~IsStrictPrefix(read, Header) /\ Accepted(read, FALSE)
  BY DEF ReadChunk
<1> HIDE DEF read
<1>6. CASE IsPrefix(Header, read) /\ Accepted(read, TRUE)
  <2>1. buf' \in Seq(Byte) /\ buf' \o wire' = Payload
    BY <1>1, <1>3, <1>6, HeaderIsFound DEF Accepted
  <2>2. stage' = "accepted" /\ pp' \in BOOLEAN
    BY <1>6 DEF Accepted
  <2> QED
    BY <1>1, <1>2, <1>4, <2>1, <2>2, StreamBytes DEF IngressInv
<1>7. CASE IsStrictPrefix(read, Header) /\ buf' = read /\ UNCHANGED <<stage, pp>>
  BY <1>1, <1>2, <1>3, <1>4, <1>7, StreamBytes DEF IngressInv
<1>8. CASE ~IsPrefix(Header, read) /\ ~IsStrictPrefix(read, Header) /\ Accepted(read, FALSE)
  <2>1. buf' \in Seq(Byte) /\ buf' \o wire' = Payload
    BY <1>1, <1>3, <1>8, HeaderIsMissing DEF Accepted
  <2>2. stage' = "accepted" /\ pp' \in BOOLEAN
    BY <1>8 DEF Accepted
  <2> QED
    BY <1>1, <1>2, <1>4, <2>1, <2>2, StreamBytes DEF IngressInv
<1> QED
  BY <1>5, <1>6, <1>7, <1>8

LEMMA PipeKeepsTheStream ==
  ASSUME IngressInv, Pipe
  PROVE  IngressInv'
<1> DEFINE target == (IF pp /\ forward THEN Header ELSE <<>>) \o Payload
<1>1. /\ stage = "piping" /\ (received \o buf) \o wire = target
      /\ received \in Seq(Byte) /\ buf \in Seq(Byte) /\ wire \in Seq(Byte)
      /\ UNCHANGED <<forward, stage, pp>>
  BY DEF Pipe, IngressInv
<1>2. CASE /\ UNCHANGED wire
           /\ \E n \in 1..Len(buf) : /\ received' = received \o SubSeq(buf, 1, n)
                                     /\ buf' = SubSeq(buf, n + 1, Len(buf))
  <2>1. PICK n \in 1..Len(buf) : /\ received' = received \o SubSeq(buf, 1, n)
                                 /\ buf' = SubSeq(buf, n + 1, Len(buf))
    BY <1>2
  <2>2. /\ received \o SubSeq(buf, 1, n) \in Seq(Byte)
        /\ SubSeq(buf, n + 1, Len(buf)) \in Seq(Byte)
        /\ (received \o SubSeq(buf, 1, n)) \o SubSeq(buf, n + 1, Len(buf)) = received \o buf
    BY <1>1, CutAndJoin
  <2>3. /\ received' \in Seq(Byte) /\ buf' \in Seq(Byte)
        /\ received' \o buf' = received \o buf
    BY <2>1, <2>2, Zenon
  <2> QED
    BY <1>1, <1>2, <2>3 DEF IngressInv
<1>3. CASE /\ buf = <<>> /\ UNCHANGED buf
           /\ \E n \in 1..Len(wire) : /\ received' = received \o SubSeq(wire, 1, n)
                                      /\ wire' = SubSeq(wire, n + 1, Len(wire))
  <2>1. PICK n \in 1..Len(wire) : /\ received' = received \o SubSeq(wire, 1, n)
                                  /\ wire' = SubSeq(wire, n + 1, Len(wire))
    BY <1>3
  <2>2. wire' \in Seq(Byte) /\ \E gone \in Seq(Byte) : Header \o Payload = gone \o wire'
    BY <2>1, WireIsCut
  <2>3. received' \in Seq(Byte) /\ received' \o wire' = received \o wire
    <3>1. /\ received \o SubSeq(wire, 1, n) \in Seq(Byte)
          /\ (received \o SubSeq(wire, 1, n)) \o SubSeq(wire, n + 1, Len(wire))
               = received \o wire
      BY <1>1, CutAndJoin
    <3> QED
      BY <2>1, <3>1, Zenon
  <2>4. received' \o buf' = received' /\ received \o buf = received
    BY <1>1, <1>3, <2>3, ConcatEmptySeq
  <2> QED
    BY <1>1, <1>3, <2>2, <2>3, <2>4, StreamBytes DEF IngressInv
<1> QED
  BY <1>2, <1>3 DEF Pipe

LEMMA IngressInvStep == IngressInv /\ [IngressStep]_ingressVars => IngressInv'
<1> SUFFICES ASSUME IngressInv, [IngressStep]_ingressVars PROVE IngressInv'
  OBVIOUS
<1>1. ASSUME NEW r \in BOOLEAN, Relay(r) PROVE IngressInv'
  <2>1. wire' \in Streams /\ wire' \in Seq(Byte)
    BY <1>1, StreamBytes DEF Relay, Streams
  <2>2. \E gone \in Seq(Byte) : Header \o Payload = gone \o wire'
    BY <2>1, StreamBytes, ConcatEmptySeq DEF Streams
  <2> QED
    BY <1>1, <2>1, <2>2 DEF Relay, IngressInv
<1>2. CASE AcceptConn
  <2>1. buf = <<>> /\ buf \o wire = wire
    BY <1>2, ConcatEmptySeq DEF AcceptConn, IngressInv
  <2>2. IsStrictPrefix(<<>>, Header)
    <3>1. Len(<<>>) = 0 /\ Len(Header) \in Nat /\ Header # <<>>
      BY StreamBytes, StreamsDiffer, LenProperties
    <3>2. SubSeq(<<>>, 1, 0) = <<>> /\ SubSeq(Header, 1, 0) = <<>>
      BY SubSeqEmpty
    <3> QED
      BY <3>1, <3>2 DEF IsStrictPrefix, IsPrefix
  <2> QED
    BY <1>2, <2>1, <2>2 DEF AcceptConn, IngressInv
<1>3. ASSUME NEW n \in 1..Len(wire), ReadChunk(n) PROVE IngressInv'
  BY <1>3, ReadKeepsTheStream
<1>4. CASE DialUser
  <2>1. received' \in Seq(Byte)
    BY <1>4, StreamBytes DEF DialUser
  <2>2. buf \in Seq(Byte) /\ wire \in Seq(Byte)
    BY DEF IngressInv
  <2>3. (received' \o buf) \o wire = received' \o (buf \o wire)
    BY <2>1, <2>2, ConcatAssociative
  <2>4. buf \o wire = Payload
    BY <1>4 DEF DialUser, IngressInv
  <2> QED
    BY <1>4, <2>1, <2>3, <2>4 DEF DialUser, IngressInv
<1>5. CASE Pipe
  BY <1>5, PipeKeepsTheStream
<1>6. CASE CloseConn
  BY <1>6 DEF CloseConn, IngressInv
<1>7. CASE UNCHANGED ingressVars
  BY <1>7 DEF ingressVars, IngressInv
<1> QED
  BY <1>1, <1>2, <1>3, <1>4, <1>5, <1>6, <1>7 DEF IngressStep

-----------------------------------------------------------------------------
(* What the components need of one another, together. *)
Inv ==
    /\ BootInv /\ ClockInv /\ ResolverInv /\ IngressInv
    /\ Proxy!TypeOK /\ acmeProxy \in BOOLEAN

(* The inductive invariant of the data plane. *)
THEOREM DataPlaneInvariant == Spec => []Inv
<1>1. Init => Inv
  BY BootInvInit, ClockInvInit, ProxyTypeInit, ResolverInvInit, IngressInvInit DEF Init, Inv
<1>2. Inv /\ [Next]_vars => Inv'
  BY NextIsBootStep, BootInvStep, NextIsClockStep, ClockInvStep, NextIsProxyStep,
     ProxyTypeStep, AcmeProxyEndsOnce, ResolverInvStep, NextIsIngressStep, IngressInvStep DEF Inv
<1> QED
  BY <1>1, <1>2, PTL DEF Spec

(* A marked environment file holds the secrets, and what marks it stands. *)
THEOREM MarkedFilesAreComplete == Spec => []MarkedIsComplete
<1>1. Inv => MarkedIsComplete
  BY DEF Inv, BootInv
<1> QED
  BY <1>1, DataPlaneInvariant, PTL

(* A clock that has been set is behind the host's by less than a second and *)
(* the longest round trip.                                                  *)
THEOREM SyncedClocksAreClose == Spec => []SyncedClockIsClose
<1>1. Inv => SyncedClockIsClose
  BY DEF Inv, ClockInv
<1> QED
  BY <1>1, DataPlaneInvariant, PTL

(* A client of a trusted domain gets the trusted certificate. *)
THEOREM TrustedDomainsAreTrusted == Spec => []TrustedDomainIsTrusted
<1>1. Inv => TrustedDomainIsTrusted
  BY DEF Inv, TrustedDomainIsTrusted, ClockInv, ResolverInv
<1> QED
  BY <1>1, DataPlaneInvariant, PTL

(* No stale base certificate is served by choice. *)
THEOREM ServedCertsAreFresh == Spec => []ServedIsFresh
<1>1. Inv => ServedIsFresh
  BY DEF Inv, ResolverInv
<1> QED
  BY <1>1, DataPlaneInvariant, PTL

(* The user process receives the client's stream, whole and in order. *)
THEOREM StreamsAreKept == Spec => []StreamIsKept
<1>1. Inv => StreamIsKept
  BY IngressInvImplies DEF Inv
<1> QED
  BY <1>1, DataPlaneInvariant, PTL

=============================================================================
