------------------------ MODULE TransportBreakerProofs ------------------------
(***************************************************************************)
(* The probe budget of the transport breaker, for every number of streams  *)
(* and every value of its knobs.                                           *)
(***************************************************************************)
EXTENDS TransportBreaker, FiniteSetTheorems, TLAPS

\* ProbeBudget alone is not inductive: reaping frees every slot, so it has to
\* be known that a lease that ran out is the lease of every probe (the third
\* conjunct), and that the slot counter covers the probes that are still
\* fresh (the fourth).
ProbeInv ==
    /\ TypeOK
    /\ state # "HALF_OPEN" => \A s \in Streams : stream[s] # "probe"
    /\ \A s \in Streams : stream[s] = "probe" => probeAge[s] + leaseLeft >= OpenDuration
    /\ state = "HALF_OPEN" => Cardinality(FreshProbes) <= probes

-----------------------------------------------------------------------------
(* The window operators *)

\* Pushing a sample keeps the window within MAX_WINDOW_ENTRIES.
LEMMA PushType ==
    ASSUME NEW w \in Seq(Sample), Len(w) <= MaxWindow, NEW f \in BOOLEAN
    PROVE  Push(w, f) \in Seq(Sample) /\ Len(Push(w, f)) <= MaxWindow
<1> DEFINE e == [age |-> 0, fail |-> f]
<1>1. e \in Sample
  BY BreakerAssumption DEF Sample
<1>2. CASE Len(w) >= MaxWindow
  <2>1. w # << >>
    BY <1>2, BreakerAssumption
  <2>2. Tail(w) \in Seq(Sample) /\ Len(Tail(w)) = Len(w) - 1
    BY <2>1
  <2>3. Push(w, f) = Append(Tail(w), e)
    BY <1>2 DEF Push
  <2> HIDE DEF e
  <2> QED
    BY <2>2, <2>3, <1>1, BreakerAssumption
<1>3. CASE ~(Len(w) >= MaxWindow)
  <2>1. Push(w, f) = Append(w, e)
    BY <1>3 DEF Push
  <2> HIDE DEF e
  <2> QED
    BY <2>1, <1>1, <1>3, BreakerAssumption
<1> QED
  BY <1>2, <1>3

\* Evicting samples never makes the window longer.
LEMMA EvictType ==
    ASSUME NEW w \in Seq(Sample)
    PROVE  Evict(w) \in Seq(Sample) /\ Len(Evict(w)) <= Len(w)
<1> DEFINE O == {i \in DOMAIN w : w[i].age > WindowDuration}
           n == Cardinality(O)
<1>1. DOMAIN w = 1 .. Len(w) /\ Len(w) \in Nat
  OBVIOUS
<1>2. IsFiniteSet(1 .. Len(w)) /\ Cardinality(1 .. Len(w)) = Len(w)
  BY <1>1, FS_Interval
<1>3. O \in SUBSET (1 .. Len(w))
  BY <1>1
<1>4. n \in Nat /\ n <= Len(w)
  <2>1. IsFiniteSet(O) /\ n <= Len(w)
    BY <1>2, <1>3, FS_Subset
  <2> QED
    BY <2>1, FS_CardinalityType
<1>5. Evict(w) = SubSeq(w, n + 1, Len(w))
  BY DEF Evict
<1> HIDE DEF n
<1> QED
  BY <1>1, <1>4, <1>5

-----------------------------------------------------------------------------
(* The inductive invariant *)

\* The probes still fresh are finitely many, and counting is monotonic.
LEMMA FreshFinite ==
    ASSUME NEW S \in SUBSET Streams
    PROVE  /\ IsFiniteSet(S) /\ Cardinality(S) \in Nat
           /\ \A T \in SUBSET S : Cardinality(T) <= Cardinality(S)
<1>1. IsFiniteSet(S)
  BY BreakerAssumption, FS_Subset
<1> QED
  BY <1>1, FS_Subset, FS_CardinalityType

\* A breaker at rest has claimed no slot.
LEMMA ProbeInvInit == Init => ProbeInv
BY BreakerAssumption DEF Init, ProbeInv, TypeOK, BreakerState, StreamState, InFlight

\* Every step of a stream and every tick of the clock keeps the budget.
LEMMA ProbeInvNext == ProbeInv /\ [Next]_vars => ProbeInv'
<1> SUFFICES ASSUME ProbeInv, [Next]_vars
             PROVE  ProbeInv'
  OBVIOUS
<1> USE BreakerAssumption
<1> DEFINE Fewer == FreshProbes' \in SUBSET FreshProbes
<1>0. FreshProbes \in SUBSET Streams /\ FreshProbes' \in SUBSET Streams
  BY DEF FreshProbes
<1>1. /\ Cardinality(FreshProbes) \in Nat /\ Cardinality(FreshProbes') \in Nat
      /\ Fewer => Cardinality(FreshProbes') <= Cardinality(FreshProbes)
  BY <1>0, FreshFinite
<1>2. ASSUME NEW s \in Streams, CheckClosed(s)
      PROVE  ProbeInv'
  <2>1. TypeOK'
    BY <1>2 DEF ProbeInv, TypeOK, CheckClosed, breakerVars, StreamState, InFlight
  <2>2. Fewer
    BY <1>2 DEF ProbeInv, TypeOK, CheckClosed, breakerVars, FreshProbes
  <2> QED
    BY <1>1, <1>2, <2>1, <2>2
    DEF ProbeInv, TypeOK, CheckClosed, breakerVars
<1>3. ASSUME NEW s \in Streams, CheckProbe(s)
      PROVE  ProbeInv'
  <2> DEFINE p == Reaped(ObservedProbes)
  <2>1. p \in 0 .. MaxProbes - 1
    BY <1>3 DEF ProbeInv, TypeOK, CheckProbe, Reaped, ObservedProbes
  <2>2. TypeOK'
    BY <1>3, <2>1
    DEF ProbeInv, TypeOK, CheckProbe, BreakerState, StreamState, InFlight
  <2>3. \A t \in Streams : (stream[t] = "probe")' => (probeAge[t] + leaseLeft >= OpenDuration)'
    BY <1>3 DEF ProbeInv, TypeOK, CheckProbe
  <2>4. FreshProbes' \in SUBSET (FreshProbes \cup {s})
    BY <1>3 DEF ProbeInv, TypeOK, CheckProbe, FreshProbes
  <2>5. Cardinality(FreshProbes) <= p
    <3>1. CASE state = "HALF_OPEN" /\ ~(probes >= MaxProbes /\ leaseLeft = 0)
      BY <3>1 DEF ProbeInv, TypeOK, Reaped, ObservedProbes
    <3>2. CASE state = "HALF_OPEN" /\ leaseLeft = 0
      <4>1. FreshProbes = {}
        BY <3>2 DEF ProbeInv, TypeOK, FreshProbes
      <4> QED
        BY <4>1, <2>1, FS_EmptySet
    <3>3. CASE state # "HALF_OPEN"
      <4>1. FreshProbes = {}
        BY <3>3 DEF ProbeInv, FreshProbes
      <4> QED
        BY <4>1, <2>1, FS_EmptySet
    <3> QED
      BY <3>1, <3>2, <3>3
  <2>6. Cardinality(FreshProbes') <= Cardinality(FreshProbes) + 1
    <3>1. IsFiniteSet(FreshProbes)
      BY <1>0, FreshFinite
    <3>2. /\ IsFiniteSet(FreshProbes \cup {s})
          /\ Cardinality(FreshProbes \cup {s}) <= Cardinality(FreshProbes) + 1
      <4>1. /\ IsFiniteSet(FreshProbes \cup {s})
            /\ Cardinality(FreshProbes \cup {s}) =
                 IF s \in FreshProbes THEN Cardinality(FreshProbes)
                                      ELSE Cardinality(FreshProbes) + 1
        <5> HIDE BreakerAssumption
        <5> QED
          BY <3>1, FS_AddElement
      <4> QED
        BY <4>1, <1>1
    <3>3. Cardinality(FreshProbes') <= Cardinality(FreshProbes \cup {s})
      BY <3>2, <2>4, FS_Subset
    <3>4. Cardinality(FreshProbes \cup {s}) \in Nat
      BY <3>2, FS_CardinalityType
    <3> QED
      BY <3>2, <3>3, <3>4, <1>1
  <2>7. state' = "HALF_OPEN" /\ probes' = p + 1
    BY <1>3 DEF CheckProbe
  <2>8. Cardinality(FreshProbes') <= probes'
    <3> HIDE DEF p
    <3> QED
      BY <1>1, <2>1, <2>5, <2>6, <2>7
  <2> QED
    BY <2>2, <2>3, <2>7, <2>8 DEF ProbeInv
<1>4. ASSUME NEW s \in Streams, CheckShed(s) \/ Retry(s) \/ Abandon(s)
      PROVE  ProbeInv'
  <2>1. TypeOK'
    BY <1>4 DEF ProbeInv, TypeOK, CheckShed, Retry, Abandon, breakerVars, StreamState
  <2>2. Fewer
    BY <1>4 DEF ProbeInv, TypeOK, CheckShed, Retry, Abandon, breakerVars, FreshProbes
  <2> QED
    BY <1>1, <1>4, <2>1, <2>2
    DEF ProbeInv, TypeOK, CheckShed, Retry, Abandon, breakerVars
<1>5. ASSUME NEW s \in Streams, NEW outcome \in Outcome, Record(s, outcome)
      PROVE  ProbeInv'
  <2> DEFINE w == Evict(window)
             pushed == Push(w, outcome = "FAILURE")
             ended == [stream EXCEPT ![s] = "idle"]
  <2>1. w \in Seq(Sample) /\ Len(w) <= MaxWindow
    <3>1. window \in Seq(Sample) /\ Len(window) <= MaxWindow
      BY DEF ProbeInv, TypeOK
    <3>2. w \in Seq(Sample) /\ Len(w) <= Len(window)
      BY <3>1, EvictType
    <3> HIDE DEF w
    <3> QED
      BY <3>1, <3>2
  <2>2. pushed \in Seq(Sample) /\ Len(pushed) <= MaxWindow
    <3>1. (outcome = "FAILURE") \in BOOLEAN
      OBVIOUS
    <3> HIDE DEF w
    <3> QED
      BY <2>1, <3>1, PushType
  <2>3. ended \in [Streams -> StreamState] /\ Retire(ended) \in [Streams -> StreamState]
    BY DEF ProbeInv, TypeOK, Retire, StreamState, InFlight
  <2>4. /\ leaseLeft' = leaseLeft /\ probeAge' = probeAge
        /\ \A t \in Streams : stream'[t] = "probe" => stream[t] = "probe"
        /\ stream' \in {ended, Retire(ended)}
    BY <1>5, <2>3 DEF Record, Retire, ProbeInv, TypeOK
  <2>5. Fewer
    BY <2>4 DEF FreshProbes
  <2> HIDE DEF w, pushed, ended
  <2>6. CASE Observed = "OPEN" /\ UNCHANGED <<state, openLeft, probes>> /\ window' = w
    <3>1. TypeOK'
      BY <2>1, <2>3, <2>4, <2>6 DEF ProbeInv, TypeOK
    <3> QED
      BY <1>1, <2>4, <2>5, <2>6, <3>1 DEF ProbeInv, TypeOK
  <2>7. CASE Observed = "HALF_OPEN" /\ stream' = Retire(ended) /\ (Close \/ Trip(w))
    <3>1. TypeOK'
      <4>1. << >> \in Seq(Sample) /\ Len(<< >>) <= MaxWindow
        OBVIOUS
      <4>2. window' \in Seq(Sample) /\ Len(window') <= MaxWindow
        BY <2>1, <2>7, <4>1 DEF Close, Trip
      <4>3. /\ state' \in BreakerState /\ probes' = 0
            /\ openLeft' \in 0 .. OpenDuration
        BY <2>7 DEF Close, Trip, ProbeInv, TypeOK, BreakerState
      <4> QED
        BY <2>3, <2>4, <2>7, <4>2, <4>3 DEF ProbeInv, TypeOK
    <3>2. state' # "HALF_OPEN"
      BY <2>7 DEF Close, Trip
    <3>3. \A t \in Streams : stream'[t] # "probe"
      BY <2>7 DEF Retire
    <3> QED
      BY <3>1, <3>2, <3>3 DEF ProbeInv
  <2>8. CASE /\ Observed = "CLOSED"
             /\ \/ Trip(pushed)
                \/ window' = pushed /\ UNCHANGED <<state, openLeft, probes>>
    <3>1. TypeOK'
      BY <2>2, <2>3, <2>4, <2>8 DEF ProbeInv, TypeOK, Trip, BreakerState
    <3>2. state # "HALF_OPEN" /\ state' # "HALF_OPEN"
      BY <2>8 DEF Observed, Trip
    <3> QED
      BY <2>4, <3>1, <3>2 DEF ProbeInv
  <2> QED
    BY <1>5, <2>6, <2>7, <2>8 DEF Record, w, pushed, ended
<1>6. CASE Tick
  <2>1. TypeOK'
    <3>1. window' \in Seq(Sample) /\ Len(window') = Len(window)
      <4>1. window \in Seq(Sample) /\ DOMAIN window = 1 .. Len(window) /\ Len(window) \in Nat
        BY DEF ProbeInv, TypeOK
      <4>2. \A i \in DOMAIN window :
              [age |-> Older(window[i].age, WindowDuration + 1),
               fail |-> window[i].fail] \in Sample
        <5> SUFFICES ASSUME NEW i \in DOMAIN window
                     PROVE  [age |-> Older(window[i].age, WindowDuration + 1),
                             fail |-> window[i].fail] \in Sample
          OBVIOUS
        <5>1. window[i] \in Sample
          BY <4>1
        <5>2. window[i].age \in 0 .. WindowDuration + 1 /\ window[i].fail \in BOOLEAN
          BY <5>1 DEF Sample
        <5>3. Older(window[i].age, WindowDuration + 1) \in 0 .. WindowDuration + 1
          BY <5>2 DEF Older
        <5> QED
          BY <5>2, <5>3 DEF Sample
      <4> QED
        BY <1>6, <4>1, <4>2 DEF Tick
    <3> QED
      BY <1>6, <3>1 DEF ProbeInv, TypeOK, Tick, Older, Sooner
  <2>2. Fewer
    BY <1>6 DEF ProbeInv, TypeOK, Tick, FreshProbes, Older
  <2>3. \A t \in Streams : (stream[t] = "probe")' => (probeAge[t] + leaseLeft >= OpenDuration)'
    BY <1>6 DEF ProbeInv, TypeOK, Tick, Older, Sooner
  <2> QED
    BY <1>1, <1>6, <2>1, <2>2, <2>3 DEF ProbeInv, TypeOK, Tick
<1>7. CASE UNCHANGED vars
  BY <1>7 DEF vars, ProbeInv, TypeOK, FreshProbes
<1> QED
  BY <1>2, <1>3, <1>4, <1>5, <1>6, <1>7 DEF Next

\* The invariant of every behaviour of the breaker.
LEMMA ProbeInvHolds == Spec => []ProbeInv
BY ProbeInvInit, ProbeInvNext, PTL DEF Spec

\* Every variable of the breaker keeps its type: in particular the window never
\* exceeds MAX_WINDOW_ENTRIES, and no slot beyond half_open_max_probes is claimed.
THEOREM TypeCorrect == Spec => []TypeOK
<1>1. ProbeInv => TypeOK
  BY DEF ProbeInv
<1> QED
  BY <1>1, ProbeInvHolds, PTL

\* check() and _try_half_open_probe(): however streams end, hang or are
\* abandoned, and whatever is reaped, at most half_open_max_probes probes of
\* the current HALF_OPEN period have been out for less than one lease.
THEOREM ProbeBudgetHolds == Spec => []ProbeBudget
<1>1. ProbeInv => ProbeBudget
  <2> SUFFICES ASSUME ProbeInv
               PROVE  ProbeBudget
    OBVIOUS
  <2>1. FreshProbes \in SUBSET Streams
    BY DEF FreshProbes
  <2>2. Cardinality(FreshProbes) \in Nat
    BY <2>1, FreshFinite
  <2>3. CASE state = "HALF_OPEN"
    BY <2>2, <2>3, BreakerAssumption DEF ProbeInv, TypeOK, ProbeBudget
  <2>4. CASE state # "HALF_OPEN"
    <3>1. FreshProbes = {}
      BY <2>4 DEF ProbeInv, FreshProbes
    <3> QED
      BY <3>1, FS_EmptySet, BreakerAssumption DEF ProbeBudget
  <2> QED
    BY <2>3, <2>4
<1> QED
  BY <1>1, ProbeInvHolds, PTL

\* Ageing the samples does not change what the thresholds see, closing leaves
\* none, and a CLOSED breaker that records a breach is not CLOSED afterwards.
LEMMA HealthNext == TypeOK /\ ClosedIsHealthy /\ [Next]_vars => ClosedIsHealthy'
<1> SUFFICES ASSUME TypeOK, ClosedIsHealthy, [Next]_vars, state' = "CLOSED"
             PROVE  ~Breached(window')
  BY DEF ClosedIsHealthy
<1> USE BreakerAssumption
<1>1. ASSUME NEW s \in Streams, CheckProbe(s)
      PROVE  FALSE
  BY <1>1 DEF CheckProbe
<1>2. ASSUME NEW s \in Streams,
             CheckClosed(s) \/ CheckShed(s) \/ Retry(s) \/ Abandon(s)
      PROVE  ~Breached(window')
  BY <1>2 DEF CheckClosed, CheckShed, Retry, Abandon, breakerVars, ClosedIsHealthy
<1>3. ASSUME NEW s \in Streams, NEW outcome \in Outcome, Record(s, outcome)
      PROVE  ~Breached(window')
  <2>1. CASE Observed = "OPEN"
    BY <1>3, <2>1 DEF Record, Observed
  <2>2. CASE Observed = "HALF_OPEN"
    <3>1. window' = << >>
      BY <1>3, <2>2 DEF Record, Close, Trip
    <3> QED
      BY <3>1 DEF Breached
  <2>3. CASE Observed = "CLOSED"
    BY <1>3, <2>3 DEF Record, Trip
  <2> QED
    BY <2>1, <2>2, <2>3 DEF Observed, TypeOK, BreakerState
<1>4. CASE Tick
  <2>1. /\ window \in Seq(Sample) /\ DOMAIN window = 1 .. Len(window) /\ Len(window) \in Nat
        /\ state = "CLOSED"
    BY <1>4 DEF TypeOK, Tick
  <2>2. DOMAIN window' = DOMAIN window /\ Len(window') = Len(window)
    BY <1>4, <2>1 DEF Tick
  <2>3. \A i \in DOMAIN window : window'[i].fail = window[i].fail
    BY <1>4 DEF Tick
  <2>4. {i \in DOMAIN window' : window'[i].fail} = {i \in DOMAIN window : window[i].fail}
    BY <2>2, <2>3
  <2>5. Failures(window') = Failures(window)
    BY <2>4 DEF Failures
  <2> QED
    BY <2>1, <2>2, <2>5 DEF Breached, ClosedIsHealthy
<1>5. CASE UNCHANGED vars
  BY <1>5 DEF vars, ClosedIsHealthy
<1> QED
  BY <1>1, <1>2, <1>3, <1>4, <1>5 DEF Next

\* record(), _close() and _trip(): a breaker that admits every call never sits
\* on a window that breaches its thresholds.
THEOREM ClosedIsHealthyHolds == Spec => []ClosedIsHealthy
<1>1. Init => ClosedIsHealthy
  BY DEF Init, ClosedIsHealthy, Breached
<1> QED
  BY <1>1, TypeCorrect, HealthNext, PTL DEF Spec

=============================================================================
