--------------------------- MODULE TransportBreaker ---------------------------
(***************************************************************************)
(* The circuit breaker of src/agent/minimax_code/resilience, as the LLM    *)
(* transports use it.  app.ensure_breaker_registry() keeps ONE registry    *)
(* for the whole process, so every session, sub-agent and retry that       *)
(* streams from the same provider shares one breaker.  A transport calls   *)
(* check_or_raise() before the SDK call and record_outcome() after the     *)
(* stream settles; between the two the stream yields, and every other      *)
(* stream may check and record.                                            *)
(*                                                                         *)
(* Time is relative: openLeft is _opened_until - now, leaseLeft is         *)
(* _probe_claimed_at + open_duration - now (both cut at 0), and a sample   *)
(* carries its age (cut at WindowDuration + 1, when it is evictable).      *)
(* The differences are all that the code ever looks at.                    *)
(***************************************************************************)
EXTENDS Integers, Sequences, FiniteSets

CONSTANTS
    Streams,         \* the concurrent stream_chat() calls of the process
    MinSamples,      \* BreakerConfig.min_samples
    RateNum, RateDen,\* BreakerConfig.error_rate_threshold = RateNum / RateDen
    WindowDuration,  \* BreakerConfig.window_duration, in ticks
    OpenDuration,    \* BreakerConfig.open_duration, in ticks
    MaxProbes,       \* BreakerConfig.half_open_max_probes
    MaxWindow        \* MAX_WINDOW_ENTRIES

ASSUME BreakerAssumption ==
    /\ IsFiniteSet(Streams)
    /\ MinSamples \in Nat /\ RateNum \in Nat /\ RateDen \in Nat \ {0}
    /\ WindowDuration \in Nat /\ OpenDuration \in Nat
    /\ MaxProbes \in Nat \ {0} /\ MaxWindow \in Nat \ {0}

VARIABLES
    state,      \* CircuitBreaker._state
    window,     \* SlidingWindow._entries
    openLeft,   \* _opened_until - now
    probes,     \* _half_open_probes
    leaseLeft,  \* _probe_claimed_at + open_duration - now
    stream,     \* what each stream is doing, and how it was admitted
    probeAge    \* time since a stream was admitted as a probe

breakerVars == <<state, window, openLeft, probes, leaseLeft>>
vars == <<state, window, openLeft, probes, leaseLeft, stream, probeAge>>

BreakerState == {"CLOSED", "OPEN", "HALF_OPEN"}
Outcome == {"SUCCESS", "FAILURE"}

\* "plain" was admitted while CLOSED, "probe" in the current HALF_OPEN period,
\* "stale" in an earlier one; the code does not tell the three apart.
InFlight == {"plain", "probe", "stale"}
StreamState == {"idle", "shed"} \cup InFlight
Sample == [age : 0 .. WindowDuration + 1, fail : BOOLEAN]

\* Type invariant.  The window stays within _MAX_ENTRIES samples and the probe
\* count within half_open_max_probes, whatever check() and record() are called.
TypeOK ==
    /\ state \in BreakerState
    /\ window \in Seq(Sample) /\ Len(window) <= MaxWindow
    /\ openLeft \in 0 .. OpenDuration
    /\ probes \in 0 .. MaxProbes
    /\ leaseLeft \in 0 .. OpenDuration
    /\ stream \in [Streams -> StreamState]
    /\ probeAge \in [Streams -> 0 .. OpenDuration]

Init ==
    /\ state = "CLOSED"
    /\ window = << >>
    /\ openLeft = 0 /\ probes = 0 /\ leaseLeft = 0
    /\ stream = [s \in Streams |-> "idle"]
    /\ probeAge = [s \in Streams |-> 0]

-----------------------------------------------------------------------------
(* SlidingWindow *)

PushUncapped(w, fail) == Append(w, [age |-> 0, fail |-> fail])

\* push(): at capacity the oldest sample goes, whatever its age.
Push(w, fail) ==
    Append(IF Len(w) >= MaxWindow THEN Tail(w) ELSE w, [age |-> 0, fail |-> fail])

\* evict(): samples leave from the left while they are older than the window.
\* They are in arrival order, so as many leave as are too old.
Evict(w) ==
    LET old == Cardinality({i \in DOMAIN w : w[i].age > WindowDuration})
    IN  SubSeq(w, old + 1, Len(w))

Failures(w) == Cardinality({i \in DOMAIN w : w[i].fail})

\* sample_count() >= min_samples and error_rate() >= error_rate_threshold
Breached(w) ==
    /\ Len(w) > 0 /\ Len(w) >= MinSamples
    /\ Failures(w) * RateDen >= RateNum * Len(w)

-----------------------------------------------------------------------------
(* CircuitBreaker *)

\* The `state' property: OPEN becomes HALF_OPEN once the cool-down elapsed.
Observed == IF state = "OPEN" /\ openLeft = 0 THEN "HALF_OPEN" ELSE state
ObservedProbes == IF state = "OPEN" /\ openLeft = 0 THEN 0 ELSE probes

\* Leaving HALF_OPEN makes the probes of that period stale.
Retire(f) == [s \in Streams |-> IF f[s] = "probe" THEN "stale" ELSE f[s]]

ReapedWithoutLease(p) == IF p >= MaxProbes THEN 0 ELSE p
ReapedNever(p) == p

\* _try_half_open_probe(): an abandoned lease frees every slot.
Reaped(p) == IF p >= MaxProbes /\ leaseLeft = 0 THEN 0 ELSE p

\* _trip(): a new cool-down starts; the samples stay.
Trip(w) ==
    /\ state' = "OPEN" /\ openLeft' = OpenDuration /\ probes' = 0
    /\ window' = w

CloseKeepingWindow ==
    /\ state' = "CLOSED" /\ probes' = 0
    /\ UNCHANGED <<window, openLeft>>

\* _close(): the samples that tripped the breaker are forgotten.
Close ==
    /\ state' = "CLOSED" /\ window' = << >> /\ probes' = 0
    /\ UNCHANGED openLeft

-----------------------------------------------------------------------------
(* What a transport does *)

\* check() on a CLOSED breaker admits.
CheckClosed(s) ==
    /\ stream[s] = "idle" /\ Observed = "CLOSED"
    /\ stream' = [stream EXCEPT ![s] = "plain"]
    /\ UNCHANGED <<breakerVars, probeAge>>

\* check() on a HALF_OPEN breaker with a free (or reaped) slot claims it.
CheckProbe(s) ==
    /\ stream[s] = "idle" /\ Observed = "HALF_OPEN"
    /\ Reaped(ObservedProbes) < MaxProbes
    /\ state' = "HALF_OPEN"
    /\ probes' = Reaped(ObservedProbes) + 1
    /\ leaseLeft' = OpenDuration
    /\ stream' = [stream EXCEPT ![s] = "probe"]
    /\ probeAge' = [probeAge EXCEPT ![s] = 0]
    /\ UNCHANGED <<window, openLeft>>

\* check() raises BreakerOpen: the breaker cools down, or every slot is taken.
\* check_or_raise() turns it into LLMError(breaker_open), which is terminal.
CheckShed(s) ==
    /\ stream[s] = "idle"
    /\ \/ Observed = "OPEN"
       \/ Observed = "HALF_OPEN" /\ Reaped(ObservedProbes) >= MaxProbes
    /\ stream' = [stream EXCEPT ![s] = "shed"]
    /\ UNCHANGED <<breakerVars, probeAge>>

\* The caller saw the error; its next request is a new stream.
Retry(s) ==
    /\ stream[s] = "shed"
    /\ stream' = [stream EXCEPT ![s] = "idle"]
    /\ UNCHANGED <<breakerVars, probeAge>>

\* record(): the stream settled and its outcome is a health sample.
Record(s, outcome) ==
    /\ stream[s] \in InFlight
    /\ LET w == Evict(window)
           pushed == Push(w, outcome = "FAILURE")
           ended == [stream EXCEPT ![s] = "idle"]
       IN  \/ /\ Observed = "OPEN"
              /\ window' = w /\ stream' = ended
              /\ UNCHANGED <<state, openLeft, probes>>
           \/ /\ Observed = "HALF_OPEN"
              /\ IF outcome = "SUCCESS" THEN Close ELSE Trip(w)
              /\ stream' = Retire(ended)
           \/ /\ Observed = "CLOSED"
              /\ stream' = ended
              /\ IF Breached(pushed)
                   THEN Trip(pushed)
                   ELSE window' = pushed /\ UNCHANGED <<state, openLeft, probes>>
    /\ UNCHANGED <<leaseLeft, probeAge>>

\* The stream ends without a sample: a client-side status that is not a
\* failure code, a stall timeout or a cancellation that closes the generator,
\* or an exception that is not the SDK's APIError.
Abandon(s) ==
    /\ stream[s] \in InFlight
    /\ stream' = [stream EXCEPT ![s] = "idle"]
    /\ UNCHANGED <<breakerVars, probeAge>>

Older(x, limit) == IF x < limit THEN x + 1 ELSE x
Sooner(x) == IF x > 0 THEN x - 1 ELSE 0

Tick ==
    /\ window' = [i \in DOMAIN window |->
                    [age |-> Older(window[i].age, WindowDuration + 1),
                     fail |-> window[i].fail]]
    /\ openLeft' = Sooner(openLeft)
    /\ leaseLeft' = Sooner(leaseLeft)
    /\ probeAge' = [s \in Streams |-> Older(probeAge[s], OpenDuration)]
    /\ UNCHANGED <<state, probes, stream>>

Next ==
    \/ Tick
    \/ \E s \in Streams :
         \/ CheckClosed(s) \/ CheckProbe(s) \/ CheckShed(s) \/ Retry(s)
         \/ Abandon(s)
         \/ \E outcome \in Outcome : Record(s, outcome)

Spec == Init /\ [][Next]_vars

\* The clock runs, every stream settles (the SDK timeout and the stall timeout
\* bound it) and every caller that was shed or is idle asks again.
FairSpec ==
    /\ Spec /\ WF_vars(Tick)
    /\ \A s \in Streams :
         /\ WF_vars(CheckClosed(s) \/ CheckProbe(s) \/ CheckShed(s))
         /\ WF_vars(Retry(s))
         /\ WF_vars(Abandon(s) \/ \E outcome \in Outcome : Record(s, outcome))

-----------------------------------------------------------------------------
(* Properties *)

FreshProbes == {s \in Streams : stream[s] = "probe" /\ probeAge[s] < OpenDuration}

\* check()'s probe budget with lease reaping: however streams end, hang or are
\* abandoned, at most half_open_max_probes probes of the current HALF_OPEN
\* period have been out for less than one lease.
ProbeBudget == Cardinality(FreshProbes) <= MaxProbes

\* A breaker that admits everything never sits on a window that breaches the
\* thresholds: every way back to CLOSED clears the samples that tripped it.
ClosedIsHealthy == state = "CLOSED" => ~Breached(window)

\* _try_half_open_probe() reaps abandoned probes "so the breaker can't wedge":
\* however many probes are abandoned, calls keep being admitted.
NeverWedges == []<><<\E s \in Streams : CheckClosed(s) \/ CheckProbe(s)>>_vars

=============================================================================
