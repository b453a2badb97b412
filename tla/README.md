# Enclaves: TLA+ models, checks and proofs

The repository is the runtime around an AWS Nitro enclave. The **control plane**
(`control-plane/`) runs on the host, the **data plane** (`data-plane/`) inside the
enclave, and they talk over vsock. `shared/` holds what both use. Several
instances of one enclave run side by side on different hosts and share an object
store, which the data plane reaches through the control plane's config server.

The data plane terminates TLS, authenticates and decrypts requests and forwards
them to the user process; it obtains and renews a public certificate with ACME;
it proxies DNS and outgoing connections; it answers health checks. It runs all of
this as tasks of one thread.

## Inventory

| component | state | operations | what is hard | what makes it correct |
|---|---|---|---|---|
| storage lock (`acme/lock.rs`) | one stored object: uuid, expiry, attempts | read, write, sleep and check, delete | no compare-and-swap; skewed clocks; late and unheard calls | one owner at a time, whose lock stays stored and valid |
| ACME key pair (`acme/key.rs`) | two stored objects and the lock | poll, create under the lock | two halves, crashes between them, waiting for the dead | halves that match, never half and unlocked |
| ACME certificate at boot (`acme/cert.rs`) | stored certificate, lock with attempts | poll, order under the lock, take over | orders outlast the lock; the provider depends on the attempts of dead instances | somebody orders; two orders at Let's Encrypt; a served certificate will be renewed |
| renewal (`acme/cert.rs`, `raw_cert.rs`) | stored certificate, every instance's copy, tasks | sleep, look, renew, retry, rebook | months of interleaved sleeps; failures; restarts | a valid certificate is stored and served |
| ACME order (`acme/directory.rs`, `order.rs`, `authorization.rs`) | cached account, directory and nonce; the order | nonce, account, order, challenges, polls, finalize, download | nonces are good once; the server may stall | nonces used once, challenges published first, polling that ends |
| health checks (`health/`, `control-plane/src/health.rs`, `main.rs`) | window of results, draining flag | probe, record, report, drain | one task answers and probes; late answers; SIGTERM | a failure is reported as long as it is in the window; draining is reported |
| egress and DNS (`dns/`, `dnsproxy.rs`, `egressproxy.rs`, `egress.rs`) | a cache of allowed addresses on each plane, permits, channel | lookup, cache, connect, relay, expire | two caches that age apart, timeouts | only vouched-for addresses are relayed; permits come back |
| stream decoder (`crypto/stream.rs`, `parser.rs`) | buffer and offset | decode, decode at the end | chunk boundaries anywhere | ranges cover ciphertexts and can be spliced |
| request pipeline (`server/`, `utils/trx_handler.rs`) | connections, contexts, log channel and buffer, what the host recorded | accept, parse, layers, websocket, TCP, log, ship, record | early returns, panics, logs during a post, posts that fail | nothing unauthenticated gets through; each request is logged once, in order |
| E3 tokens (`crypto/token.rs`, `cache.rs`, `e3client/`, `e3proxy.rs`) | one cached token behind an async mutex; the backlog of the proxy | lock, fetch, connect, forward, send, retry | a mutex held across an await, dropped futures, a proxy that looks up addresses one by one, expiry | one fetch at a time, no expired token, everybody gets through |
| certificate resolver (`server/tls/cert_resolver.rs`) | base certificate and its expiry, trusted store | resolve by name, rotate | rotation that fails; a clock that is stepped | the right certificate, and a fresh one |
| boot (`main.rs`, `tls_server.rs`, `inter_ca_retreiver.rs`, `env/`) | environment file with its mark, context, CA, trusted store | token, CA with retries, decrypt, write the file, ACME, mark, serve | pauses that block the only thread; panics and restarts with the file left behind; two builds | the mark is on complete files only; the user process starts |
| clock sync (`time/`) | the enclave's clock | ask the host, set | answers read late; milliseconds taken for nanoseconds | a clock that was set is close to the host's |
| relays (`tls_proxy.rs`, `e3proxy.rs`, `tcp_server` of the control plane) | accept loop, connections | accept, read the name, resolve, dial, pipe | awaits inside the accept loop, an error that ends it | connections get through |
| PROXY protocol (`proxy_protocol.rs`) and TCP passthrough | what was read ahead | parse, forward the header, pipe | reads cut anywhere | no byte is lost, repeated or out of order |
| mTLS and provisioner clients, attestation | none of their own | request, encode | - | present as calls that succeed or fail |
| statistics | counters | send | - | not modelled: nothing depends on them |

Interactions: instances meet only in the object store (lock, key halves,
certificate, challenge answers). Inside an instance the connection tasks share the
E3 token cache and the log channel; the renewal tasks write the certificate that
the TLS server serves; the health agent is asked over a channel; the boot and the clock
task share the one thread. The control plane
serves storage, signing, tokens, its time and log posts statelessly, keeps its own egress
cache and the draining flag, and relays connections through proxies with one accept loop
each.

`PROJECT.json` lists under `hazards` each place where this goes wrong in a way that
a test hardly reaches, with the properties that would show it.

## Modules

Every component has a module; `MC<name>` holds the small sets for TLC, and
`<name>_<question>.cfg` one run. Definitions that start with `\* Variant:` are
mutated forms of the definition after them: plausible mistakes, each of which must
violate a property (`mutants` in `PROJECT.json`). They are not part of any
specification.

* **Mutex** - what a lock promises.
* **StorageLock** - the lock protocol alone, with true time (`Tick`), clock offsets,
  and calls that take effect though their caller has not heard of it
  (`WriteLockUnheard`, `DeleteLockUnheard`) or has stopped (`Abandon`). An instance that
  stopped may come back as a new one (`Return`). A lock's
  expiry is kept as the seconds that are left. The history variable `slow` holds the
  instances that have outstayed the time limit of a phase (`Limit`); they go on, and what
  they write lands however late.
* **AcmeKeyPair**, **AcmeCert** - one action per storage, E3 or ACME call of
  `get_or_create_enclave_key_pair` and `get_or_create_enclave_certificate`, with the
  three tries of every storage call and failures that were applied nevertheless. The
  first retry comes within half a second, which `Lag` has in it; the second may come 250 s
  later (`config_client.rs:308-330`), and who waits for it is `slow` (`Tick`). An
  instance that died boots again (`Restart`) with nothing in memory; the store keeps
  what it wrote.
  Both instantiate StorageLock; `ImplementsStorageLock` is the refinement. Key pairs
  and certificates are named after the instance that made them, a pair also after the
  lock it was made under.
* **CertRenewal** - the renewal tasks. Days pass only while all tasks sleep, and
  tens of seconds only while one is awake.
* **AcmeOrder** - one order after another over a cached account and directory; the
  ACME server (external) settles challenges and orders as it likes.
* **HealthCheck** - the user process, the agent, both health servers, draining and
  termination. The user process is external. A probe of a process that hangs blocks the
  agent (`ProbeHangs`), for good unless something ends it (`ProbeReleased`). `slips`
  counts the 200s that are given after the draining began.
* **Egress** - lookups and connections through both planes, with both caches. Name
  servers give any answer.
* **StreamDecoder** - bodies over four tokens (a quote, `ev`, `:`, the rest of a
  ciphertext), cut into any chunks. A token that is left out of its place stands for
  plaintext.
* **RequestPipeline** - connections as tasks, a handshake at a time, the layers, the
  websocket and TCP paths, the log handler, and the config server that records a post
  (`RecordLogs`) before its answer arrives or is lost (`PostEnds`). The names that the
  two planes give the enclave are taken to agree; the host drops logs for other ones.
  A panic ends a connection's task; `BuildFails`, `ExpectFails` and a branch of `Forward`
  are the ones there are.
* **LogQueue** - what the way of the logs promises: they leave in the order in which they
  were sent, a batch at a time, and a batch is recorded or lost as one. RequestPipeline
  implements it (`ImplementsLogQueue`); a batch leaves when the host records it or when
  its post fails unrecorded.
* **E3Token** - callers, mutex, cache, retries and callers that hang up, and the proxy to
  E3: a backlog, and a loop that takes one connection at a time, looks up the address,
  and forwards or shuts it.
* **TlsProxy** - the control plane's proxy to a TLS server: `loop` is where its accept
  loop is, `link` where each connection is, `hello` what the first read will find.
  `ReadFails` is the `?` that ends the loop.
* **Boot** - `pc` names the call that the boot is making; `env` is the file that outlives
  the process, `upc` the script that waits for the mark and starts the user process.
  `AttemptFails` is what every failure leads to: a pause (`nap`) in the TLS build, and
  serving without an environment in the passthrough build. `Crash` stands for every
  panic and exit, and for a kill anywhere. The script is
  `e2e-tests/scripts/start_customer_process`, the one in the repository.
* **ClockSync** - the clock as its distance from the host's, in half seconds, and the
  request under way.
* **CertResolver** - what a handshake is served, with the time that is left of the
  attestation document in true time, judged by the enclave's clock.
* **Ingress** - a passed-through stream as a sequence of bytes, from the control plane to
  the user process.
* **DataPlane** - composes these five. The proxy that is composed is the provisioner's; of
  the one to the ACME hosts only `acmeProxy` is kept, whether it still listens. A process
  that dies while it orders, at boot or to renew, may end it by a connection that is
  reset (`ResetEndsAcmeProxy`); from then on the boot gets past its ACME step only with a
  certificate that is stored already (`CertIsStored`). A step of one leaves the variables of the others
  alone, with four exceptions that are the interactions: connections of the boot are
  connections of the proxy; a pause of the boot stops the clock task; a handshake looks
  at the boot's trusted store and at the clock; and a death of the process takes the
  state in memory of all of them along.

The theorems are in eight modules, which extend what they are about and are not used
by any run: **StorageLockProofs**, **AcmeKeyPairProofs**, **AcmeCertProofs**,
**AcmeOrderProofs**, **E3TokenProofs** and **DataPlaneProofs** (with the five parts of
DataPlane); **RequestPipelineProofs**, about RequestPipeline and StreamDecoder; and
**UpkeepProofs**, about CertRenewal, HealthCheck and Egress. Where a proof module
extends more than one component, the components' `Init`, `Next`, `Spec` and `vars`
carry the component's name (`RenewalSpec`, `HealthSpec`, `EgressSpec`, `DecoderSpec`).

## Runs

| run | shows | bounds |
|---|---|---|
| `StorageLock_timely` | the inductive invariant (which has mutual exclusion and the protection of the owner in it), refinement to Mutex | up to the step that makes somebody slow (`NobodyIsSlow`), 3 instances, one clock a second ahead, 2 locks each, lifetime 7 s with the other times to scale: the tightest values that meet `Timely` |
| `AcmeKeyPair_boots` | stored halves that match while no call fails, a half pair is locked, no other pair is created by who began a check with a stored one, refinement to StorageLock | 2 instances, one of which may fail, die and boot once more, or else be slow (`SlowOrRestarted`), one clock a second ahead, the code's own times and five checks |
| `AcmeCert_boots` | a survivor takes the order over, what is served is scheduled for renewal, two orders at Let's Encrypt at most unless a call was slow, refinement to StorageLock | 2 instances, one of which may fail, die and boot once more, or else be slow (`SlowOrRestarted`); times to scale: a lock of 8, eight checks 2 apart, for the code's 30 and ten checks 5 apart; orders up to 9, longer than the lock |
| `CertRenewal_renews` | the stored certificate never expires while all goes well; whatever fails, a renewal task is left | 2 tasks of 2 instances, validity, 60 and 30 days to scale (9, 6, 3), failures and restarts |
| `CertRenewal_stale` | a disagreement, see below | the same without failures and restarts |
| `AcmeOrder_orders` | nonces, authorization, orders end | 2 authorizations, the code's seven and five polls, 3 nonces |
| `HealthCheck_checks` | the window, one late 200 at most once draining, reports follow the user process or a hung probe stops them | with and without a health path, a window of 4 for the code's 10 (`Limit`), one abandoned request |
| `Egress_planes` | vouched-for relays, fresh answers are usable, lookups end | 2 lookups, 1 connection, one public address with TTLs 2 and 3 (`MaxTtl` is the longest) and one internal static address, one permit, a channel of one |
| `StreamDecoder_chunks` | offsets, ranges where quotes are closed, misses | all bodies up to 6 tokens, a buffer of 2: a read may end between any two tokens |
| `RequestPipeline_traffic` | auth, contexts, one log per request, recorded by the host once and in order, and shipped; refinement to LogQueue | 2 connections and 2 requests of any kind, both feature switches on or off, batches of 2 |
| `E3Token_calls` | single flight, valid tokens; calls end | 2 callers, one proxy with 2 retries each, lifetime 3, a lag of 1, and the shortest validity that allows them |
| `DataPlane_boots` | a marked file is complete, a set clock is close, trusted and fresh certificates, streams kept whole, the user process starts | both builds, one restart, two faults of any kind, one short pause and then pauses of 1.5 s, two tries of the clock request, a document that lives a second and is followed for 1.5 s more, header and payload of two bytes each |

In every module but StorageLock, whose type correctness is a theorem of its own, the type
invariant is the first conjunct of one of the invariants, and is proved with it.

Why these bounds are enough. One restart is what the hazards need: what a dead process
left (a lock, half a pair, a marked file, a connection in the proxy) meets the next one,
and a second death adds nothing that the first did not leave. Two faults let a failure
follow a failure, so that short and long pauses both happen. A half second is the round
trip that the clock task accepts, and half of the fraction it loses; longer pauses only
age an answer that is already too old. In a header and a payload of two bytes each a read
can end before, inside and after both. The certificate's times are scaled because what matters is
their order: order longer than lock, lock longer than a few pauses, all checks together
longer than the lock that a dead instance left.

Two runs do not check for deadlock: in `RequestPipeline_traffic`, with logging switched
off, nothing is left to do once all connections are closed, and in `DataPlane_boots` the
passthrough build comes to rest once its connection is.

Some properties hold only under conditions, which are part of their statements or
of the constants:

* `Timely` (StorageLock) is that a storage call with its first retry is shorter than the
  two-second sleep and that the lock outlives the work on every clock. Certificate orders
  do not keep it, and `AcmeCert_boots` asks what then still holds.
* `slow = {}` is that nobody has outstayed its limits. A second retry does, and with one
  the lock is not a mutex: `LockInv`, the owners that `ImplementsMutex` counts,
  `LetsEncryptTwice` and `SurvivorNeverGivesUp` are about behaviours without one. The
  other properties of AcmeKeyPair and AcmeCert, and both refinements to StorageLock, are
  about all; those that speak of behaviours in which no call fails have no retries.
* The history variable `failed` (AcmeKeyPair, AcmeCert) holds the instances one of
  whose calls has failed or that have died. `StoredHalvesMatch` and `NobodyGivesUp` speak of
  behaviours where there is none, `SurvivorNeverGivesUp` of the instances that are not
  in it, before any restart, and while at most one other instance has written a lock
  (`HasOneRival`, always so in the run, which has two). Its checks outlast one lock, not
  two: with a second rival, or one that came back, it may give up.
* The history variable `clean` (CertRenewal) is true until a renewal call fails or an
  instance restarts with a task awake. `StoredCertNeverExpires` is about clean
  behaviours; `SomebodyRenews` is about all.
* `AnsweredIsUsable` promises the shortest TTL an address comes with, and only above
  zero: an answer with TTL zero is never usable, and a later shorter TTL replaces a
  longer one.
* `MarkedIsComplete` says of a user process only that it starts with the secrets while
  there was no restart: one that finds the mark of a process that has died may source
  the file while the next process rewrites it.
* `DrainingIsReported` allows for one check that looked at `IS_DRAINING` before the
  SIGTERM. `FailureIsReported` excepts a probe that hangs for good from its second half:
  then ECS gets no answer, but no 200 either.
* `UserIsStarted` is about the TLS build, and states its exception: a first read that
  fails ends the provisioner's or the ACME proxy for good. In the passthrough build one failed call leaves the user
  process waiting for ever, and a missing token is a panic.
* `ServedIsFresh` is about a clock that has been set, and allows for a rotation that
  failed.
* `RangesAreCiphertexts` says nothing of a ciphertext with one quote beside it
  (`HalfQuoted`).
* `MissedOnlyAtABoundary` states the exception it has: a ciphertext is missed if a
  read ends inside its `ev:`.

### Disagreements

`CertRenewal_stale` is expected to fail. `cert.rs:267` says "wait for the certificate
to be renewed by another instance"; the instance does not wait, and serves the old
certificate until after its expiry.

Eight more places where a comment and the code part were met while modelling. The
models follow the code, and no run makes a claim about them:

* `key.rs:131` waits "for lock to expire"; its few checks three seconds apart end
  before a thirty-second lock does, and the boot panics.
* `cert.rs:218` "Retry certificate renewal if it fails": the retry meets the failed
  try's own lock and counts as success; the next renewal is booked sixty days away.
* `cert.rs:316` "Try twice with LetsEncrypt, then try with ZeroSSL": an instance whose put
  of the lock waits minutes for its third try (`config_client.rs:316`) overwrites a later
  lock and its count, finds its own lock when it reads back, and places a third order at
  Let's Encrypt while another instance's second is under way. TLC finds this in 31 states
  when `slow = {}` is left out of `LetsEncryptTwice` and the constraint out of its run.
* `cert.rs:316` again: at renewals the
  account cached at boot decides instead. The choice of the provider at renewals is
  not part of CertRenewal.
* `stream.rs:13` "track location of ciphertext within body": an opening quote without
  a closing one shifts the range by a byte, so that the quote is overwritten and the last
  byte of the ciphertext is not.
* `stream.rs:74` "leave the quote in the buffer": after a candidate that failed, the
  quote of the next ciphertext is consumed.
* `tls_server.rs:111` computes the pause as `2 ^ attempts`, which is an exclusive or: the
  pauses do not grow. Boot has them as one short pause each.
* `parse.rs:2` "needs to support both HTTP and non-HTTP traffic": the log of a TCP
  connection cannot be built (`server.rs:232`), and the task panics.

Two more things that the code does, contrary to no comment:

* An instance that looked for a key pair before another stored one, and read the lock
  after that one had released it (`key.rs:108-137`), creates a second pair and overwrites
  the first, whose maker goes on with it until it is restarted. The stored halves match
  throughout, and no property of AcmeKeyPair is about it.
* A proxy of the control plane ends with the first read that fails (`tls_proxy.rs:82`), and
  `main` only joins it with the other servers.

## Fairness

* StorageLock, AcmeKeyPair, AcmeCert, CertRenewal: none; only safety is claimed.
* AcmeOrder: the client goes on. Nothing is assumed of the server, which may leave
  every status as it is.
* HealthCheck: the agent's `select!` and the two accept loops are scheduled, with
  strong fairness where another branch can disable the step: `select!` picks a ready
  branch at random. A probe is answered unless the user process hangs; one that hangs is
  under no fairness (`ProbeReleased`), for the code has no timeout. The second half of
  `FailureIsReported` is about an ECS that stops giving up on checks.
* Egress: time passes and the driver runs; the host may hang. The timeout of the
  enclave is what ends a lookup.
* RequestPipeline: the timer ticks, the handler runs and posts end. Clients do not
  have to go on.
* E3Token: callers run, fetches and requests end somehow, and the proxy's loop goes on:
  its lookup ends, since the resolver has a timeout. The code has no timeout
  for a fetch: a host that accepts the request and never answers stops all callers.
* DataPlane: weak fairness of every step of the boot that is not a failure, of the
  proxy's loop and tasks, of `runsv`, which starts the process again, of the user's
  script, which looks for the mark in a loop, and of time, which ends the pauses. The
  ACME step ends while its proxy listens; that a certificate is stored already
  (`CertIsStored`) is not assumed. Faults
  and restarts are bounded and not fair. Nothing is assumed of the clock task, of clients
  or of what a dead process's connections look like to the proxy.

## Proofs

Every theorem is about the specification that the runs check, for every value of the
constants that meets the modules' named assumptions: any number of instances, tasks,
callers or connections, any times, windows, batches, bodies and streams. The
assumptions are the types of the constants, that "nothing" values (`NoLock`, `NoKey`,
`None`, ...) are none of the values they stand beside, and a few that say more:
`DaysFit` (CertRenewal: thirty days before it expires a certificate is at most sixty days
old), `TimesAreNatural` (E3Token: a token's validity leaves room for its lifetime in the
cache and two calls), `LimitIsPositive` (HealthCheck: a window of at least two),
`StreamsDiffer` (Ingress: a payload is not taken for a header) and `BoundsAreNat` (Egress:
TTLs have a bound, `MaxTtl`). TLC evaluates all of them on the runs' instances.
Hypotheses that only some theorems need are in their statements: `Timely`,
`SettlesInTime`, `CreationIsShort` and `ChecksOutlastLocks`, below.

Each safety property follows from an inductive invariant, which is a theorem too. What
that invariant has to add says why the code is right.

| theorem | states | the invariant adds |
|---|---|---|
| `TypeCorrect` | type correctness of StorageLock | nothing |
| `SettleInvariant` | the read-back is sound however long owners work, given `SettlesInTime` and while nobody is slow | ages of phases and of what is left of a lock; a write that is pending while a lock settles is older than that lock |
| `LockInvariant`, `MutualExclusion` | one owner, whose lock is stored and valid, given `Timely` and while nobody is slow | the same for deletes, and that no reader finds an owner's lock expired |
| `LockImplementsMutex` | StorageLock implements Mutex, given `Timely` | - |
| `HalfPairsAreLocked`, `LatecomersCreateNoPair` | the key pair's crash safety, whatever fails | whoever deletes the lock has stored a private half; a check that began with a pair finds it |
| `KeyPairImplementsStorageLock`, `CertImplementsStorageLock` | both users of the lock keep to its protocol | - |
| `StoredHalvesAreOfOnePair` | the stored halves match, given `Timely` | who is between the two puts is the owner |
| `NobodyRunsOutOfChecks` | nobody gives up waiting for the pair, given `Timely` and `CreationIsShort` | how long anybody has slept is bounded by how long the pair has been in the making |
| `CreationIsExclusive` | the creation of a pair implements Mutex, given `Timely` | the two refinements, chained |
| `ServedCertsAreRenewed` | a served certificate has its renewal booked | - |
| `LetsEncryptIsTriedTwice` | two orders at Let's Encrypt until a certificate is stored, given `SettlesInTime` and while nobody is slow | every order is counted in the stored lock, and whoever finds its own lock has counted all |
| `SurvivorsDoNotGiveUp` | a survivor with one rival gets a certificate before its checks are used up, given `SettlesInTime` and `ChecksOutlastLocks` and while nobody is slow | how long the survivor has slept, together with what is left of the rival's lock, is no more than a lock's lifetime |
| `StoredCertsDoNotExpire`, `SomebodyAlwaysRenews` | renewal | a valid lock has an owner at work; a task that lost the race lost it to one at work, or the certificate is of today; of a certificate of today somebody stands by |
| `NoncesAreSentOnce`, `CertificatesAreAuthorized` | the order | a nonce is cached or in a request, never both; the server's objects agree |
| `OrdersRunDown` | an order has a bounded number of steps, and each step of the client takes one; an invariant and an action property | a poll is counted in the loop it belongs to |
| `BadResultsLast`, `DrainingSlipsOnce` | health, for any window | the youngest bad result is at the place in the window that the count of good ones says; before the slip there is none, and after it no check is left that has looked before (`SlipsAreCounted`) |
| `AnswersAreUsable`, `RelayedAreVouchedFor` | egress; the second is an action property | a reply is the last step of a lookup on the host; both caches hold an address for the shortest TTL from its answer on |
| `LookupsKeepTheirPlace` | no lookup and no permit is mislaid by the DNS proxy | the lookups in the channel and with the driver are those that wait, each once |
| `BuffersAreInStep`, `RangesAreRight`, `MissesAreAtBoundaries` | the decoder | where in the body each byte of the buffer comes from; a ciphertext that was passed was found or cut |
| `OnlyAcceptedAreServed`, `ContextsArePreserved`, `RequestsAreLoggedOnce` | the request pipeline | what holds at each `pc` of a connection, its own requests in the log being those before this one |
| `LogsAreInOrder` | no log is lost, repeated or overtaken on its way to the host | where the one tick is in the channel, and where the host's records end: before the batch, or with it once it is handled |
| `PipelineImplementsLogQueue` | the logs' way to the host implements LogQueue | the batch under way is what follows, among the logs sent, those whose posts have ended |
| `TokensAreFetchedOnce`, `SentTokensAreValid` | tokens | the queue of the mutex is who waits for it, without repetition; how old a token is from its fetch to its use |
| `CallsWaitInTurn`, `CallsRunDown` | nobody is overtaken at the mutex or the proxy; a call has at most six steps per try, and each takes one; action properties | a caller's place in the mutex's queue and in the proxy's backlog agrees with its `pc` |
| `MarkedFilesAreComplete`, `SyncedClocksAreClose`, `TrustedDomainsAreTrusted`, `ServedCertsAreFresh`, `StreamsAreKept` | the data plane's boot, clock, resolver and ingress | what the process has at each `pc`; that an answer of the host which may still be used is late by no more than it has waited; that bytes read and unread together are the client's stream |

### The storage lock

`OneOwner` is not inductive: a state with one owner and another instance about to write
would break it in one step. `LockInv` adds why that state is not reached while nobody is
slow (`PromptInv` is that part of it, and a step after which nobody is slow is one before
which nobody was). Nobody outstays a phase (`OnTime`). A new uuid is new (`SerialsAreOld`). What is left of a lock is bounded
from below by how long its creator has been in its phase (`LeftOver`), so no reader finds
an owner's lock expired and starts to write (`StoredLockIsValid`). And every write or
delete that is pending while a lock settles is older than that lock (`PendingIsOlder`), so
with `Lag < Settle` it has landed before the check: an owner is alone (`OwnerIsAlone`).
One lemma per action shows that it preserves `LockInv`. An instance that comes back after
a stop (`Return`) preserves it because whoever stopped has no call under way any more.

`SettlesInTime` is the part of `Timely` without the work of the owner. It is what the
certificate can rely on, whose orders outlast the lock. A late *delete* may then remove
the lock of another, but a late *write* may not replace one that has settled
(`WritesAreOlder`).

### The users of the lock

`KeyPairImplementsStorageLock` and `CertImplementsStorageLock` show, one lemma per group
of actions, that every step of the creation of a pair or a certificate is a step of
StorageLock or leaves its state alone. They have no hypothesis: the users use the lock as it
describes whether or not they are in time. The theorems of StorageLockProofs then hold of
their lock, through the same mapping (`LP`), and the safety of the users is proved
from them rather than again. `CreationIsExclusive` goes on from there to Mutex,
`StoredHalvesAreOfOnePair` takes `OneOwner`, and
`LetsEncryptIsTriedTwice` takes `SettleInv`: between writing a lock and finding it again
nobody else has placed an order that was not counted.

`NobodyRunsOutOfChecks` is about time. Without a pair in the store, a lock in the store
has a maker, and nobody has slept for longer than the maker has been at it, the way
there included (`MakerInv`, `WriterInv`); a creation takes at most
`2 * Lag + Settle + Work`; so with `CreationIsShort` a sleeper finds the pair at its last check
but one at the latest (`WaiterInv`). The constants of `AcmeKeyPair_boots`, which are the
code's, meet both hypotheses. The theorem is about behaviours in which no call fails; a dead maker's
lock does outlast the checks (see Disagreements).

`SurvivorsDoNotGiveUp` is about time too, but with a rival that may die or take for ever.
Until a certificate is stored, a lock has a creator who was at work on it or still is, and once
there has been a lock there is one (`OwnerInv`). While the lock is the rival's, the time
that a survivor has slept and what is left of that lock are together at most a lock's
lifetime (`WaitsForLock`): each nap adds to the one and takes from the other. So when the
survivor has slept for as long as a lock lives it has found the rival's expired and has
written its own, and nobody is left who could replace it (`TakesOver`). `ChecksOutlastLocks` says that
this is before the last check but two, on every pair of clocks: one check to take over,
one more to find a certificate that the rival stored meanwhile. The code's thirty seconds
and the skew are less than the 35 of its ten checks, the run's 8 and 1 less than its 10,
and with a check less TLC finds a survivor that gives up. The number of instances is any;
only those that have written a lock count as rivals.

Both users keep `SlowInv`: whoever is past a limit is in `slow`, and whoever is in `slow` or
tries again is in `failed`. So the theorems about behaviours in which no call fails have
nothing to say of `slow`, and theirs is `slow = {}` by proof.

### The logs

`PipelineImplementsLogQueue` maps what has left the queue to `RecordsEnd`: the logs whose
posts have ended, and those of the post under way once the host has handled it.
`OrderInvariant` says that the batch being posted is exactly what comes next among the logs
sent (`BatchIsNext`), so a post that is recorded is a `Record` of the whole batch and one that fails
unrecorded a `Lose`; an answer that is lost after the record changes nothing. A log is sent
once because its request is logged once (`PipelineInvariant`).

### What liveness rests on

The prover has no fairness, but what is in the way of a liveness proof is safety, and
four of the theorems state it. `OrdersRunDown` and `CallsRunDown` give a measure: how
many steps an order or a call has left at most, which every step of its own lowers and no
step of anybody else raises (the server, the other callers). `CallsWaitInTurn` says that
waiting ends if those in front go on: queues are left at the front only, or by
hanging up. `LookupsKeepTheirPlace` says that what the driver waits for is there.
What TLC adds on the runs' instances is only that the client, the callers, the proxy and
time go on (see Fairness), and that they can.

### The data plane

A step of DataPlane is, for each of its five parts, a step of that part or none
(`NextIsBootStep`, `NextIsClockStep`, ...), so each part's invariant is shown to be
preserved by that part's steps only, and `DataPlaneInvariant` puts them together. Where a part looks at
another's state, its invariant says what it needs of it (a served trusted certificate
needs the boot's trusted store).

### Only model-checked

* Liveness: `EveryOrderEnds`, `DrainingIsReported` (but for `OneSlipAtMost`, which is
  `DrainingSlipsOnce`), `FailureIsReported`, `EveryLookupEnds`, `EveryLogIsShipped`,
  `EveryCallEnds` and `UserIsStarted`. Fairness and `ENABLED` are beyond the prover.
* `CertRenewal_stale`, which is expected to fail.
* The relay's behaviour beyond its type (TlsProxy), which is there for `UserIsStarted`.

## Not modelled

Bytes: the content of requests and of ciphertexts, and so pipelined requests, whose
bytes the parser drops or attaches to the body before. Cryptography, signing,
encodings, log contents, how certificates and attestation documents are built. The
capacity of the egress cache (1000) and its eviction, and wildcard matching of domains.
The host's tasks that wait for a name server for ever. The routing of the config server
and TLS set-up: each request is a step of the component that makes it. Statistics, their
relay, and the `vsock-proxy` crate, which is a command around a byte pipe. The clock of
the passthrough build, which nothing there reads. `UserIsStarted` takes the ACME step of
the boot as one call; `AcmeCert` has its inside, and the two are not composed. The ACME
proxy's loop is not stepped through as the provisioner's is: it listens or it has ended.

## Plan

Done: the inventory; the storage lock; key pair, certificate, renewal and order, with
restarts; health; egress; decoder; pipeline with the host's records; tokens with their
proxy; boot, relays, clock, resolver and ingress, composed. Theorems for every safety
property that a run is to pass, the refinements to Mutex, StorageLock and LogQueue, and
the measures behind three of the liveness properties. Storage calls whose last try comes
late, probes that hang for good, and both TLS proxies are part of the models.

Next:

1. Refinements, each with its theorem: CertRenewal to an abstract renewal, Egress to an
   allow list with one cache.
2. What happens to `SurvivorNeverGivesUp` with more rivals and restarts: how many checks
   a survivor would need.
3. What the lock still gives once a call was slow: how many owners at a time, and how many
   orders at Let's Encrypt.
