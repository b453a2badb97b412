----------------------------- MODULE ClockSync -----------------------------
(***************************************************************************)
(* The enclave's clock, set from the host's every 300 s                    *)
(* (data-plane/src/time/mod.rs; the config server answers with its own     *)
(* time, control-plane/src/config_server.rs).  The answer has the seconds  *)
(* and the milliseconds of the host, and both go into a timespec whose     *)
(* second field counts nanoseconds: the fraction is lost.  An answer that  *)
(* took more than 500 ms, by the enclave's own clock and retries included, *)
(* is not used.                                                            *)
(*                                                                         *)
(* Time is counted in half seconds and is relative: what the model keeps   *)
(* is how far the clock is from the host's and how far an answer is.       *)
(***************************************************************************)
EXTENDS Integers

CONSTANTS
    Offsets,    \* how far ahead the clock can be when the enclave starts
    RttLimit,   \* the longest round trip that is used: 500 ms
    Tries       \* get_time_from_host tries three times

ASSUME ClockBounds == Offsets \subseteq Int /\ RttLimit \in Nat /\ Tries \in Nat \ {0}

VARIABLES
    phase,      \* the host's fraction of a second, in half seconds
    offset,     \* the enclave's clock less the host's
    synced,     \* whether clock_settime has been called
    sync        \* the synchronisation under way

clockVars == <<phase, offset, synced, sync>>

PerSecond == 2

\* Beyond these an answer is too old whatever else happens.
Elapsed == 0..(RttLimit + 1)
MaxError == PerSecond - 1 + RttLimit

Idle == [at |-> "idle", tries |-> 0, elapsed |-> 0, error |-> 0]

ClockTypeOK ==
    /\ phase \in 0..(PerSecond - 1)
    /\ offset \in Offsets \cup (-MaxError - 1)..0
    /\ synced \in BOOLEAN
    /\ sync \in [at : {"idle", "asked", "answered"}, tries : 0..Tries,
                 elapsed : Elapsed, error : (-MaxError - 1)..0]

ClockInit ==
    /\ phase = 0
    /\ offset \in Offsets
    /\ synced = FALSE
    /\ sync = Idle

\* The interval ticks: the timer of the request starts.
SyncStarts ==
    /\ sync.at = "idle"
    /\ sync' = [Idle EXCEPT !.at = "asked", !.tries = 1]
    /\ UNCHANGED <<phase, offset, synced>>

\* The host answers.  Of its seconds and milliseconds only the seconds will
\* count, so the answer is behind by the fraction already.
HostAnswers ==
    /\ sync.at = "asked"
    /\ sync' = [sync EXCEPT !.at = "answered", !.tries = 0, !.error = -phase]
    /\ UNCHANGED <<phase, offset, synced>>

\* A try fails and is repeated; the timer is that of the whole call.
AskAgain ==
    /\ sync.at = "asked" /\ sync.tries < Tries
    /\ sync' = [sync EXCEPT !.tries = @ + 1]
    /\ UNCHANGED <<phase, offset, synced>>

\* The last try fails: the error is logged, the next tick is awaited.
SyncFails ==
    /\ sync.at = "asked" /\ sync.tries = Tries
    /\ sync' = Idle
    /\ UNCHANGED <<phase, offset, synced>>

\* Variant: the answer is used however long it took.
SetClockAnyhow ==
    /\ sync.at = "answered"
    /\ offset' = sync.error
    /\ synced' = TRUE
    /\ sync' = Idle
    /\ UNCHANGED phase

\* The answer is read, and used if it did not take too long and clock_settime
\* lets it be; what it refuses is logged.
SetClock ==
    /\ sync.at = "answered"
    /\ \/ /\ sync.elapsed <= RttLimit
          /\ offset' = sync.error
          /\ synced' = TRUE
       \/ UNCHANGED <<offset, synced>>
    /\ sync' = Idle
    /\ UNCHANGED phase

\* Half a second passes for the host and for the enclave.
ClockTicks ==
    /\ phase' = (phase + 1) % PerSecond
    /\ sync' = [sync EXCEPT
           !.elapsed = IF sync.at # "idle" /\ @ <= RttLimit THEN @ + 1 ELSE @,
           !.error = IF sync.at = "answered" /\ @ >= -MaxError THEN @ - 1 ELSE @]
    /\ UNCHANGED <<offset, synced>>

\* The process dies; the clock is the kernel's.
SyncForgotten ==
    /\ sync' = Idle
    /\ UNCHANGED <<phase, offset, synced>>

-----------------------------------------------------------------------------
\* Once set, the clock is never ahead of the host's, and behind it by less
\* than a second (the fraction that time/mod.rs 48-51 loses) and the longest
\* round trip it accepts, whatever else kept the thread from reading the
\* answer.
SyncedClockIsClose == synced => offset \in (-MaxError)..0
=============================================================================
