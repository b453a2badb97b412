---------------------------- MODULE HealthCheck ----------------------------
(***************************************************************************)
(* How ECS learns whether an enclave is healthy.  Its health checks reach  *)
(* the control plane (control-plane/src/health.rs), which asks the data    *)
(* plane (data-plane/src/health/mod.rs), which asks the healthcheck agent  *)
(* over a channel (data-plane/src/health/agent.rs).  The agent probes the  *)
(* user process every second, keeps the last results and answers with the  *)
(* worst of them.  SIGTERM makes the control plane drain and then          *)
(* terminate the enclave (control-plane/src/main.rs).                      *)
(*                                                                         *)
(* The agent is one task: while a probe is outstanding it answers nobody.  *)
(* Both servers handle one connection at a time; a check that ECS gives up *)
(* on frees them, but its request stays in the agent's channel.            *)
(***************************************************************************)
EXTENDS Integers, Sequences, SequencesExt

CONSTANTS
    Limit,      \* buffer_size_limit: 10
    MaxOrphans, \* bound: requests left in the channel by abandoned checks
    UserStates  \* the behaviours of the user process to consider

ASSUME LimitIsPositive == Limit \in Nat \ {0, 1} /\ MaxOrphans \in Nat
ASSUME UserStatesAreKnown ==
    UserStates \subseteq {"up", "failing", "down", "hung"}

VARIABLES
    hasPath,    \* was a healthcheck path configured?
    user,       \* how the user process answers a probe
    env,        \* the state of /etc/customer-env
    ready,      \* HealthcheckAgentState is Ready
    buffer,     \* the agent's results, oldest first
    agent,      \* "select", "probing", or "stuck" with a probe
    orphans,    \* abandoned requests ahead in the channel
    check,      \* where the current check of ECS is
    answer,     \* the status code of the last answer to ECS, 0 before any
    draining,   \* IS_DRAINING
    alive,      \* the enclave runs
    calm,       \* results recorded since the last unhealthy one, up to Limit
    slips       \* answers of 200 since SIGTERM, up to two
                \*   (the last two are not program state)

healthVars == <<hasPath, user, env, ready, buffer, agent, orphans, check, answer,
          draining, alive, calm, slips>>

Result == {"unknown", "ok", "error", "bad"}

HealthTypeOK ==
    /\ hasPath \in BOOLEAN
    /\ user \in UserStates
    /\ env \in {"missing", "unreadable", "written", "initialized"}
    /\ ready \in BOOLEAN
    /\ buffer \in Seq(Result) /\ Len(buffer) < Limit
    /\ agent \in {"select", "probing", "stuck"}
    /\ orphans \in 0..MaxOrphans
    /\ check \in {"none", "control", "agent"}
    /\ answer \in {0, 200, 400, 500}
    /\ draining \in BOOLEAN
    /\ alive \in BOOLEAN
    /\ calm \in 0..Limit
    /\ slips \in 0..2

HealthInit ==
    /\ hasPath \in BOOLEAN
    /\ user \in UserStates
    /\ env = "missing"
    /\ ready = FALSE
    /\ buffer = <<>>
    /\ agent = "select"
    /\ orphans = 0
    /\ check = "none"
    /\ answer = 0
    /\ draining = FALSE
    /\ alive = TRUE
    /\ calm = Limit
    /\ slips = 0

----------------------------------------------------------------------------
(* UserProcessHealth: the order of the results, and which are healthy. *)

\* Variant: every answer of the user process ranks above every error.
RankAnswersFirst(r) ==
    CASE r = "unknown" -> 0 [] r = "error" -> 1 [] r = "ok" -> 2 [] r = "bad" -> 3

Rank(r) ==
    CASE r = "unknown" -> 0 [] r = "ok" -> 1 [] r = "error" -> 2 [] r = "bad" -> 3

IsHealthy(r) == r \in {"unknown", "ok"}

StatusCode(r) == IF IsHealthy(r) THEN 200 ELSE 500

\* The worst result, Unknown if there is none yet.
Worst ==
    IF buffer = <<>> THEN "unknown"
    ELSE CHOOSE r \in ToSet(buffer) :
            \A s \in ToSet(buffer) : Rank(s) <= Rank(r)

----------------------------------------------------------------------------
(* The agent. *)

\* Variant: it is the newest result that is popped.
RecordResultPopBack(r) ==
    /\ LET pushed == Append(buffer, r)
       IN  buffer' = IF Len(pushed) >= Limit THEN Front(pushed) ELSE pushed
    /\ calm' = IF ~IsHealthy(r) THEN 0
               ELSE IF calm < Limit THEN calm + 1 ELSE calm

\* record_result: push, and pop the oldest when the limit is reached.
RecordResult(r) ==
    /\ LET pushed == Append(buffer, r)
       IN  buffer' = IF Len(pushed) >= Limit THEN Tail(pushed) ELSE pushed
    /\ calm' = IF ~IsHealthy(r) THEN 0
               ELSE IF calm < Limit THEN calm + 1 ELSE calm

\* check_user_process_initialized: once seen, it is not looked at again.
NowReady == ready \/ env = "initialized"

\* interval.tick: a result right away, or a probe.
PerformHealthcheck ==
    /\ alive /\ agent = "select"
    /\ ready' = NowReady
    /\ \/ /\ NowReady /\ hasPath
          /\ agent' = "probing"
          /\ UNCHANGED <<buffer, calm>>
       \/ /\ NowReady /\ ~hasPath
          /\ RecordResult("unknown")
          /\ UNCHANGED agent
       \/ /\ ~NowReady /\ env # "unreadable"
          /\ RecordResult("unknown")
          /\ UNCHANGED agent
       \/ /\ ~NowReady /\ env = "unreadable"
          /\ RecordResult("error")
          /\ UNCHANGED agent
    /\ UNCHANGED <<hasPath, user, env, orphans, check, answer, draining,
                   alive, slips>>

\* What the user process, when it answers, makes of a probe: a 2xx, another
\* status, or an error because the connection is refused or closed.
ResultOf(u) == CASE u = "up" -> "ok" [] u = "failing" -> "bad" [] OTHER -> "error"

\* The probe is answered, or refused.
ProbeUserProcess ==
    /\ alive /\ agent = "probing"
    /\ user # "hung"
    /\ RecordResult(ResultOf(user))
    /\ agent' = "select"
    /\ UNCHANGED <<hasPath, user, env, ready, orphans, check, answer,
                   draining, alive, slips>>

\* The user process has taken the probe and does not answer it.
ProbeHangs ==
    /\ alive /\ agent = "probing"
    /\ user = "hung"
    /\ agent' = "stuck"
    /\ UNCHANGED <<hasPath, user, env, ready, buffer, orphans, check, answer,
                   draining, alive, calm, slips>>

\* It is answered after all, or its connection closed.  There is no timeout:
\* nothing says that this happens, whatever becomes of the user process.
ProbeReleased ==
    /\ alive /\ agent = "stuck"
    /\ \E r \in {"error", ResultOf(user)} : RecordResult(r)
    /\ agent' = "select"
    /\ UNCHANGED <<hasPath, user, env, ready, orphans, check, answer,
                   draining, alive, slips>>

\* An abandoned request is answered to nobody.
ServeOrphan ==
    /\ alive /\ agent = "select" /\ orphans > 0
    /\ orphans' = orphans - 1
    /\ UNCHANGED <<hasPath, user, env, ready, buffer, agent, check, answer,
                   draining, alive, calm, slips>>

\* serve_healthcheck_request, and the answer on its way back to ECS: the
\* greater of the two status codes, of which the control plane's is 200.
ServeRequest ==
    /\ alive /\ agent = "select" /\ orphans = 0
    /\ check = "agent"
    /\ check' = "none"
    /\ answer' = StatusCode(Worst)
    /\ slips' = IF draining /\ answer' = 200 /\ slips < 2 THEN slips + 1 ELSE slips
    /\ UNCHANGED <<hasPath, user, env, ready, buffer, agent, orphans,
                   draining, alive, calm>>

----------------------------------------------------------------------------
(* The control plane. *)

\* Variant: the flag is not looked at.
BeginCheckBlindly ==
    /\ check = "none"
    /\ check' = "control"
    /\ UNCHANGED <<hasPath, user, env, ready, buffer, agent, orphans, answer,
                   draining, alive, calm, slips>>

\* A check begins with a look at IS_DRAINING.
BeginCheck ==
    /\ check = "none"
    /\ \/ /\ draining
          /\ answer' = 500
          /\ UNCHANGED check
       \/ /\ ~draining
          /\ check' = "control"
          /\ UNCHANGED answer
    /\ UNCHANGED <<hasPath, user, env, ready, buffer, agent, orphans,
                   draining, alive, calm, slips>>

\* A request of another user agent.
Unsupported ==
    /\ check = "none"
    /\ answer' = 400
    /\ UNCHANGED <<hasPath, user, env, ready, buffer, agent, orphans, check,
                   draining, alive, calm, slips>>

\* health_check_data_plane: connect, and the data plane queues a request.
AskDataPlane ==
    /\ check = "control" /\ alive
    /\ check' = "agent"
    /\ UNCHANGED <<hasPath, user, env, ready, buffer, agent, orphans, answer,
                   draining, alive, calm, slips>>

\* The enclave cannot be reached, or goes while it is asked.
DataPlaneUnreachable ==
    /\ check # "none" /\ ~alive
    /\ check' = "none"
    /\ answer' = 500
    /\ UNCHANGED <<hasPath, user, env, ready, buffer, agent, orphans,
                   draining, alive, calm, slips>>

\* ECS gives up on a check: the connections go, a queued request stays.
CheckTimesOut ==
    /\ check # "none"
    /\ check = "agent" => orphans < MaxOrphans
    /\ orphans' = IF check = "agent" THEN orphans + 1 ELSE orphans
    /\ check' = "none"
    /\ UNCHANGED <<hasPath, user, env, ready, buffer, agent, answer, draining,
                   alive, calm, slips>>

Sigterm ==
    /\ ~draining
    /\ draining' = TRUE
    /\ UNCHANGED <<hasPath, user, env, ready, buffer, agent, orphans, check,
                   answer, alive, calm, slips>>

\* Fifty-five seconds later: nitro-cli terminate-enclave.
TerminateEnclave ==
    /\ draining /\ alive
    /\ alive' = FALSE
    /\ UNCHANGED <<hasPath, user, env, ready, buffer, agent, orphans, check,
                   answer, draining, calm, slips>>

----------------------------------------------------------------------------
(* The environment: the user process and the file that tells of it. *)

\* The data plane writes the file, and the mark once TLS is being served.
EnvChanges ==
    /\ env # "initialized" /\ alive
    /\ env' \in {"unreadable", "written", "initialized"}
    /\ UNCHANGED <<hasPath, user, ready, buffer, agent, orphans, check,
                   answer, draining, alive, calm, slips>>

UserChanges ==
    /\ alive
    /\ user' \in UserStates \ {user}
    /\ UNCHANGED <<hasPath, env, ready, buffer, agent, orphans, check, answer,
                   draining, alive, calm, slips>>

Agent ==
    \/ PerformHealthcheck \/ ProbeUserProcess \/ ProbeHangs \/ ProbeReleased
    \/ ServeOrphan \/ ServeRequest

Control ==
    \/ BeginCheck \/ Unsupported \/ AskDataPlane \/ DataPlaneUnreachable
    \/ CheckTimesOut \/ Sigterm \/ TerminateEnclave

HealthNext == Agent \/ Control \/ EnvChanges \/ UserChanges

HealthSpec == HealthInit /\ [][HealthNext]_healthVars

\* The interval ticks on, a probe is answered or hangs, tokio::select! picks
\* between a tick and a request at random, so neither starves; ECS checks
\* again and again.  A probe that hangs may hang for good.
HealthFairness ==
    /\ SF_healthVars(PerformHealthcheck)
    /\ WF_healthVars(ProbeUserProcess \/ ProbeHangs)
    /\ SF_healthVars(ServeOrphan) /\ SF_healthVars(ServeRequest)
    /\ WF_healthVars(BeginCheck) /\ SF_healthVars(AskDataPlane)
    /\ WF_healthVars(DataPlaneUnreachable) /\ WF_healthVars(TerminateEnclave)

HealthFairSpec == HealthSpec /\ HealthFairness

----------------------------------------------------------------------------
(***************************************************************************)
(* ECS is told that the data plane is unhealthy exactly when one of the    *)
(* last Limit - 1 results was: one bad probe is remembered for nine        *)
(* results, no longer, whatever the results around it were. Every variable *)
(* keeps its type.                                                         *)
(***************************************************************************)
OneBadResultLasts == HealthTypeOK /\ (IsHealthy(Worst) <=> calm >= Limit - 1)

(***************************************************************************)
(* Once the control plane drains, ECS is told so.  One check that looked   *)
(* at IS_DRAINING before the SIGTERM may still be answered with a 200,     *)
(* however late, and no second: the server takes one connection at a time. *)
(* In the end, and for good, the answer is not 200, although the agent may *)
(* be stuck with that check and ECS give up on any.                        *)
(***************************************************************************)
OneSlipAtMost == slips <= 1

DrainingIsReported == <>draining => []OneSlipAtMost /\ <>[](answer # 200)

\* From some time on ECS waits for the answers to its checks.
EcsIsPatient == <>[][~CheckTimesOut]_healthVars

\* ECS is told that all is well.
AllIsWell == ServeRequest /\ answer' = 200

(***************************************************************************)
(* A user process that from some time on fails, refuses or hangs is told   *)
(* to ECS: a 200 is given at most a few times more, although checks time   *)
(* out and their requests pile up in the channel of a blocked agent.  If   *)
(* ECS waits, the answer in the end is not 200 and stays so, unless a      *)
(* probe hangs for good: then ECS gets no answer at all.                   *)
(***************************************************************************)
FailureIsReported ==
    <>[](user # "up" /\ ready /\ hasPath) =>
        /\ <>[][~AllIsWell]_healthVars
        /\ EcsIsPatient => \/ <>[](answer # 200)
                           \/ <>[](agent = "stuck" /\ alive)

=============================================================================
