-------------------------------- MODULE Boot --------------------------------
(***************************************************************************)
(* How the data plane starts.  With TLS termination                        *)
(* (data-plane/src/server/tls/tls_server.rs, inter_ca_retreiver.rs) it     *)
(* gets a token from the control plane, and with it, from the provisioner, *)
(* an intermediate CA, its own context and the user's secrets; writes the  *)
(* secrets, decrypted by E3, to /etc/customer-env (env/mod.rs); gets the   *)
(* trusted certificate, which AcmeCert models; marks the file with         *)
(* EV_INITIALIZED; and serves.  All up to the CA is repeated until it      *)
(* succeeds, with pauses that put the only thread of the process to sleep. *)
(* Without TLS termination (init_without_certs, run_tcp_passthrough) it    *)
(* fetches the secrets once, and serves whatever came of it.               *)
(*                                                                         *)
(* A panic, or the exit when there is no trusted certificate, ends the     *)
(* process; the enclave's init starts it again.  The file survives that.   *)
(* The user process waits for the mark and then sources the file           *)
(* (e2e-tests/scripts/start_customer_process).                             *)
(***************************************************************************)
EXTENDS Integers

CONSTANTS
    Modes,          \* the builds to check: "tls", "passthrough"
    MaxAttempts,    \* how many pauses are short: 7
    LongNap,        \* the other pauses: 20 s
    MaxRestarts,    \* bound: how often the process dies and is started again
    MaxFaults       \* bound: how many other things go wrong

ASSUME BootBounds ==
    /\ Modes \subseteq {"tls", "passthrough"}
    /\ MaxAttempts \in Nat /\ LongNap \in Nat \ {0}
    /\ MaxRestarts \in Nat /\ MaxFaults \in Nat

VARIABLES
    mode,       \* the build
    pc,         \* where the boot is
    attempts,   \* how many times it has failed, up to MaxAttempts
    nap,        \* how long the thread still sleeps, in half seconds
    secrets,    \* what the provisioner sent, or E3 made of it
    ctx,        \* whether ENCLAVE_CONTEXT is set
    trusted,    \* whether TRUSTED_CERT_STORE is set
    env,        \* /etc/customer-env: what it holds, and whether it is marked
    upc,        \* where the user process is
    uenv,       \* what it sourced
    restarts,
    faults

bootVars == <<mode, pc, attempts, nap, secrets, ctx, trusted, env, upc, uenv,
              restarts, faults>>

\* What a process keeps in memory.
local == <<attempts, nap, secrets, ctx, trusted>>
userVars == <<upc, uenv>>
fixed == <<mode, restarts>>

BootTypeOK ==
    /\ mode \in {"tls", "passthrough"}
    /\ pc \in {"start", "token", "attest", "hello", "answer", "env", "create",
               "write", "parse", "acme", "mark", "resolver", "asleep", "serving", "down"}
    /\ attempts \in 0..MaxAttempts /\ nap \in 0..LongNap
    /\ secrets \in {"none", "sealed", "open"}
    /\ ctx \in BOOLEAN /\ trusted \in BOOLEAN
    /\ env \in [holds : {"nothing", "sealed", "open"}, marked : BOOLEAN]
    /\ upc \in {"waiting", "found", "running"} /\ uenv \in {"nothing", "sealed", "open"}
    /\ restarts \in 0..MaxRestarts /\ faults \in 0..MaxFaults

BootInit ==
    /\ mode \in Modes
    /\ pc = "start"
    /\ attempts = 0 /\ nap = 0 /\ secrets = "none" /\ ctx = FALSE /\ trusted = FALSE
    /\ env = [holds |-> "nothing", marked |-> FALSE]
    /\ upc = "waiting" /\ uenv = "nothing"
    /\ restarts = 0 /\ faults = 0

\* thread::sleep stops everything that the process does.
Awake == pc \notin {"asleep", "down"}

Goto(p) == pc' = p /\ UNCHANGED <<mode, restarts, faults, upc, uenv>>

Fault == faults < MaxFaults /\ faults' = faults + 1

\* The process ends: by exit(1) when there is no trusted certificate; by a
\* panic when an answer has no secrets, the file cannot be marked, there is
\* no attestation document for the resolver or later for a certificate, or,
\* without TLS termination, there is no token; or killed, anywhere.
Crash ==
    /\ pc # "down" /\ restarts < MaxRestarts
    /\ pc' = "down"
    /\ attempts' = 0 /\ nap' = 0 /\ secrets' = "none" /\ ctx' = FALSE /\ trusted' = FALSE
    /\ UNCHANGED <<fixed, env, userVars, faults>>

\* runsv starts it again.
Restart ==
    /\ pc = "down"
    /\ pc' = "start"
    /\ restarts' = restarts + 1
    /\ UNCHANGED <<mode, local, env, userVars, faults>>

\* An attempt fails.  get_ca_with_retry sleeps: up to 850 ms the first times,
\* and 20 s from then on.  init_without_certs gives up, and the data plane
\* serves.
AttemptFails ==
    /\ \/ /\ mode = "tls"
          /\ pc' = "asleep"
          /\ \/ /\ attempts < MaxAttempts
                /\ attempts' = attempts + 1
                /\ nap' = 1
             \/ /\ attempts = MaxAttempts
                /\ nap' = LongNap
                /\ UNCHANGED attempts
       \/ /\ mode = "passthrough"
          /\ pc' = "serving"
          /\ UNCHANGED <<attempts, nap>>
    /\ secrets' = "none"
    /\ UNCHANGED <<ctx, trusted, fixed, userVars>>

WakeUp ==
    /\ pc = "asleep" /\ nap = 0
    /\ Goto("start")
    /\ UNCHANGED <<local, env>>

Sleep == nap' = (IF nap > 0 THEN nap - 1 ELSE 0)

-----------------------------------------------------------------------------
AskToken == pc = "start" /\ Goto("token") /\ UNCHANGED <<local, env>>

\* The control plane has a token from the provisioner (get_token).
TokenArrives == pc = "token" /\ Goto("attest") /\ UNCHANGED <<local, env>>

\* It cannot be reached or has none; without TLS termination that is a panic.
TokenFails ==
    /\ pc = "token" /\ mode = "tls"
    /\ Fault /\ AttemptFails
    /\ UNCHANGED env

\* get_attestation_doc binds the token to the enclave; then the connection
\* to the provisioner is made.
Connect == pc = "attest" /\ Goto("hello") /\ UNCHANGED <<local, env>>

\* There is no attestation document.
AttestFails == pc = "attest" /\ Fault /\ AttemptFails /\ UNCHANGED env

\* The proxy is gone, or has shut the connection.
ConnectionFails ==
    /\ pc \in {"attest", "hello", "answer"}
    /\ AttemptFails
    /\ UNCHANGED <<env, faults>>

\* The ClientHello is sent, in one piece or not.
SayHello(cut) ==
    /\ pc = "hello"
    /\ pc' = "answer"
    /\ IF cut THEN Fault ELSE UNCHANGED faults
    /\ UNCHANGED <<fixed, local, env, userVars>>

\* The CA, the context and the secrets arrive; the first context stays.
AnswerArrives ==
    /\ pc = "answer"
    /\ Goto("env")
    /\ ctx' = TRUE
    /\ \E s \in {"sealed", "open"} : secrets' = s
    /\ UNCHANGED <<attempts, nap, trusted, env>>

\* The answer cannot be parsed.
AnswerFails ==
    /\ pc = "answer"
    /\ Fault /\ AttemptFails
    /\ UNCHANGED env

\* Environment::init: secrets that start with "ev:" go to E3 first.
Decrypt ==
    /\ pc = "env"
    /\ Goto("create")
    /\ secrets' = "open"
    /\ UNCHANGED <<attempts, nap, ctx, trusted, env>>

DecryptFails ==
    /\ pc = "env" /\ secrets = "sealed"
    /\ Fault /\ AttemptFails
    /\ UNCHANGED env

\* Variant: the file is opened and overwritten from its start on.
CreateEnvKeepingMark ==
    /\ pc = "create"
    /\ Goto("write")
    /\ env' = [env EXCEPT !.holds = "nothing"]
    /\ UNCHANGED local

\* File::create empties the file, mark and all.
CreateEnv ==
    /\ pc = "create"
    /\ Goto("write")
    /\ env' = [holds |-> "nothing", marked |-> FALSE]
    /\ UNCHANGED local

WriteEnv ==
    /\ pc = "write"
    /\ Goto(IF mode = "tls" THEN "parse" ELSE "mark")
    /\ env' = [env EXCEPT !.holds = secrets]
    /\ UNCHANGED local

\* The file cannot be created or written, or, once it is, the certificate or
\* the key not be parsed.
WriteFails ==
    /\ pc \in {"create", "write", "parse"}
    /\ Fault /\ AttemptFails
    /\ UNCHANGED env

\* get_intermediate_ca returns, and get_ca_with_retry with it.
ParseCa ==
    /\ pc = "parse"
    /\ Goto("acme")
    /\ attempts' = 0 /\ secrets' = "none"
    /\ UNCHANGED <<nap, ctx, trusted, env>>

\* Variant: the boot goes on without a trusted certificate.
TrustedCertOptional ==
    /\ pc = "acme"
    /\ Goto("mark")
    /\ trusted' \in BOOLEAN
    /\ UNCHANGED <<attempts, nap, secrets, ctx, env>>

\* enclave_trusted_cert returns, with a certificate that was ordered or stored;
\* its failure is an exit.
TrustedCert ==
    /\ pc = "acme"
    /\ Goto("mark")
    /\ trusted' = TRUE
    /\ UNCHANGED <<attempts, nap, secrets, ctx, env>>

\* write_startup_complete_env_vars appends the mark to the file.
MarkEnv ==
    /\ pc = "mark"
    /\ Goto(IF mode = "tls" THEN "resolver" ELSE "serving")
    /\ env' = [env EXCEPT !.marked = TRUE]
    /\ secrets' = "none"
    /\ UNCHANGED <<attempts, nap, ctx, trusted>>

\* init_without_certs ignores that it could not.
MarkFails ==
    /\ pc = "mark" /\ mode = "passthrough"
    /\ Fault /\ AttemptFails
    /\ UNCHANGED env

\* The certificate resolver is made and the server runs.
StartServer == pc = "resolver" /\ Goto("serving") /\ UNCHANGED <<local, env>>

-----------------------------------------------------------------------------
\* The script greps for the mark,
UserFindsMark ==
    /\ upc = "waiting" /\ env.marked
    /\ upc' = "found"
    /\ UNCHANGED <<mode, pc, local, env, uenv, restarts, faults>>

\* and sources the file, as it is then.
UserStarts ==
    /\ upc = "found"
    /\ upc' = "running"
    /\ uenv' = env.holds
    /\ UNCHANGED <<mode, pc, local, env, restarts, faults>>

\* What the process does on its own.
Work ==
    \/ AskToken \/ TokenArrives \/ TokenFails \/ AttestFails
    \/ Decrypt \/ DecryptFails \/ CreateEnv \/ WriteEnv \/ WriteFails
    \/ ParseCa \/ TrustedCert \/ MarkEnv \/ MarkFails

-----------------------------------------------------------------------------
\* A marked file is a complete one: it holds the user's secrets, decrypted,
\* also after a restart, when the mark may be that of an earlier process; and
\* in the first process the context and the trusted certificate are there.
\* A user process that no restart disturbed has started with the secrets.
MarkedIsComplete ==
    /\ BootTypeOK
    /\ env.marked => env.holds = "open"
    /\ env.marked /\ restarts = 0 /\ pc # "down" => ctx /\ (mode = "tls" => trusted)
    /\ upc = "running" /\ restarts = 0 => uenv = "open"
=============================================================================
