--------------------------- MODULE EventStreamProofs ---------------------------
(***************************************************************************)
(* Theorems about EventStream, for any number of clients, any ring and     *)
(* queue, and any number of events, lost connections and restarts.         *)
(*                                                                         *)
(* The promises to a live connection need their counterpart for one that   *)
(* is still being greeted: from its anchor on it misses nothing either.    *)
(***************************************************************************)
EXTENDS EventStream, TLAPS

\* An anchor is at most the number the next event will get.
AnchorsFollow == \A c \in Clients : anchor[c] <= Len(log) + 1

\* The number above which a registered connection has a claim to every event.
Claim(c) == IF phase[c] = "live" THEN Base(c) ELSE anchor[c] - 1
Served(c, s) == Delivered(c, s) \/ s \in Queued(c) \/ s \in skipped[c]
NoGap ==
    \A c \in Connected : \A s \in 1 .. Len(log) : s > Claim(c) => Served(c, s)

-----------------------------------------------------------------------------
(* The queue *)

\* Fit() keeps the end of a queue and Dropped() the rest.
LEMMA FitKeeps ==
    ASSUME NEW S, NEW q \in Seq(S)
    PROVE  /\ Fit(q) \in Seq(S)
           /\ Len(Fit(q)) = Len(q) - Overflow(q)
           /\ Len(Fit(q)) <= QueueDepth
           /\ \A i \in 1 .. Len(Fit(q)) : Fit(q)[i] = q[Overflow(q) + i]
<1>1. Overflow(q) \in 0 .. Len(q) /\ Len(q) - Overflow(q) <= QueueDepth
  BY StreamAssumption DEF Overflow
<1> QED BY <1>1 DEF Fit

\* Nothing vanishes from a queue without being counted as dropped.
LEMMA FitOrDropped ==
    ASSUME NEW S, NEW q \in Seq(S), NEW i \in 1 .. Len(q)
    PROVE  q[i] \in Dropped(q) \/ \E j \in 1 .. Len(Fit(q)) : Fit(q)[j] = q[i]
<1>1. Overflow(q) \in 0 .. Len(q)
  BY StreamAssumption DEF Overflow
<1>2. CASE i <= Overflow(q)
  BY <1>1, <1>2 DEF Dropped
<1>3. CASE i > Overflow(q)
  <2>1. i - Overflow(q) \in 1 .. Len(Fit(q))
    BY <1>1, <1>3, FitKeeps
  <2>2. Fit(q)[i - Overflow(q)] = q[i]
    BY <1>1, <1>3, <2>1, FitKeeps
  <2> QED BY <2>1, <2>2
<1> QED BY <1>1, <1>2, <1>3

\* The last entry of a queue is never the one to go.
LEMMA FitKeepsLast ==
    ASSUME NEW S, NEW q \in Seq(S), q # <<>>
    PROVE  /\ Len(Fit(q)) \in 1 .. Len(q)
           /\ Fit(q)[Len(Fit(q))] = q[Len(q)]
<1>1. Len(q) \in Nat \ {0}
  OBVIOUS
<1>2. Overflow(q) \in 0 .. Len(q) - 1
  BY <1>1, StreamAssumption DEF Overflow
<1> QED BY <1>1, <1>2, FitKeeps

\* What is above a cursor in the ring, as a sequence.
LEMMA AboveIs ==
    ASSUME TypeOK, NEW from \in Nat
    PROVE  /\ Above(from) \in Seq(1 .. MaxEvents)
           /\ \A i \in 1 .. Len(Above(from)) : Above(from)[i] <= Len(log)
           /\ \A s \in 1 .. Len(log) : s > from /\ s > RingStart =>
                \E i \in 1 .. Len(Above(from)) : Above(from)[i] = s
           /\ Above(from) # <<>> =>
                Above(from)[Len(Above(from))] = Len(log)
           /\ from < Len(log) => Above(from) # <<>>
<1> DEFINE first == IF from > RingStart THEN from ELSE RingStart
           n == IF Len(log) > first THEN Len(log) - first ELSE 0
<1>1. Len(log) \in 0 .. MaxEvents
  BY StreamAssumption DEF TypeOK
<1>2. first \in Nat /\ n \in Nat /\ (from < Len(log) => n > 0)
  BY <1>1, StreamAssumption DEF RingStart
<1>3. Above(from) = [i \in 1 .. n |-> first + i]
  <2>1. 1 .. Len(log) - first = 1 .. n
    BY <1>1, <1>2
  <2> QED BY <2>1 DEF Above
<1>4. \A i \in 1 .. n : first + i \in 1 .. MaxEvents /\ first + i <= Len(log)
  BY <1>1, <1>2, StreamAssumption
<1> HIDE DEF first, n
<1>5. Above(from) \in Seq(1 .. MaxEvents) /\ Len(Above(from)) = n
      /\ \A i \in 1 .. n : Above(from)[i] <= Len(log)
  BY <1>2, <1>3, <1>4
<1> USE DEF first, n
<1>6. ASSUME NEW s \in 1 .. Len(log), s > from, s > RingStart
      PROVE  \E i \in 1 .. Len(Above(from)) : Above(from)[i] = s
  <2>1. s - first \in 1 .. n /\ first + (s - first) = s
    BY <1>1, <1>2, <1>6
  <2> QED BY <1>3, <1>5, <2>1
<1>7. n > 0 => n \in 1 .. n /\ first + n = Len(log)
  BY <1>1, <1>2
<1>8. Above(from) # <<>> => n > 0
  BY <1>2, <1>5
<1>9. n > 0 => Above(from) # <<>>
  BY <1>5
<1> QED BY <1>2, <1>3, <1>5, <1>6, <1>7, <1>8, <1>9

-----------------------------------------------------------------------------
(* Types *)

\* The queue part of the type invariant.
QueueOK(q, top) ==
    /\ q \in Seq(1 .. MaxEvents) /\ Len(q) <= QueueDepth
    /\ \A i \in 1 .. Len(q) : q[i] <= top

\* Fit() makes a queue of any frames this process has stamped.
LEMMA FitQueueOK ==
    ASSUME NEW q \in Seq(1 .. MaxEvents), NEW top \in Nat,
           \A i \in 1 .. Len(q) : q[i] <= top
    PROVE  QueueOK(Fit(q), top)
<1>1. Overflow(q) \in 0 .. Len(q)
  BY StreamAssumption DEF Overflow
<1> QED BY <1>1, FitKeeps DEF QueueOK

\* So is an empty one.
LEMMA EmptyQueueOK == \A top : QueueOK(<<>>, top)
<1>1. <<>> \in Seq(1 .. MaxEvents) /\ Len(<<>>) = 0 /\ 0 <= QueueDepth
  BY StreamAssumption
<1> QED BY <1>1 DEF QueueOK

\* Dropped() consists of numbers of events.
LEMMA DroppedOK ==
    ASSUME NEW q \in Seq(1 .. MaxEvents)
    PROVE  Dropped(q) \subseteq 1 .. MaxEvents
<1> USE StreamAssumption
<1>1. Overflow(q) \in 0 .. Len(q)
  BY DEF Overflow
<1>2. \A i \in 1 .. Overflow(q) : q[i] \in 1 .. MaxEvents
  BY <1>1
<1> QED BY <1>2 DEF Dropped

\* The replay keeps the types.
LEMMA ReplayTyped ==
    ASSUME TypeOK, NEW c \in Clients, Replay(c)
    PROVE  TypeOK'
<1> USE StreamAssumption DEF TypeOK
<1>1. CASE since[c] = 0
  BY <1>1 DEF Replay, client, bounds, Phase
<1>2. CASE since[c] # 0
  <2> DEFINE all == queue[c] \o Above(since[c])
  <2>1. /\ Len(log) \in 0 .. MaxEvents /\ since[c] \in Nat
        /\ Above(since[c]) \in Seq(1 .. MaxEvents)
        /\ \A i \in 1 .. Len(Above(since[c])) : Above(since[c])[i] <= Len(log)
    <3>1. Len(log) \in 0 .. MaxEvents /\ since[c] \in Nat
      OBVIOUS
    <3> QED BY <3>1, AboveIs
  <2>2. all \in Seq(1 .. MaxEvents) /\ \A i \in 1 .. Len(all) : all[i] <= Len(log)
    BY <2>1
  <2> HIDE DEF all
  <2>3. QueueOK(Fit(all), Len(log)) /\ Dropped(all) \subseteq 1 .. MaxEvents
    <3> HIDE DEF TypeOK
    <3> QED BY <2>1, <2>2, FitQueueOK, DroppedOK
  <2> USE DEF all
  <2>4. since[c] + 1 .. RingStart \subseteq 1 .. MaxEvents
    <3>1. RingStart \in 0 .. MaxEvents
      BY <2>1, StreamAssumption DEF RingStart
    <3> QED BY <2>1, <3>1
  <2>5. /\ queue' = [queue EXCEPT ![c] = Fit(all)]
        /\ skipped' = [skipped EXCEPT ![c] = @ \cup Dropped(all) \cup (since[c] + 1 .. RingStart)]
        /\ phase' = [phase EXCEPT ![c] = "live"]
        /\ UNCHANGED <<published, log, listening, ghosts, since, anchor, ready, client, bounds>>
    BY <1>2 DEF Replay
  <2> HIDE DEF all
  <2>6. skipped' \in [Clients -> SUBSET (1 .. MaxEvents)]
    BY <2>3, <2>4, <2>5
  <2>7. /\ queue' \in [Clients -> Seq(1 .. MaxEvents)]
        /\ \A d \in Clients : QueueOK(queue'[d], Len(log))
    BY <2>3, <2>5 DEF QueueOK
  <2>8. phase' \in [Clients -> Phase]
    BY <2>5 DEF Phase
  <2> QED BY <2>5, <2>6, <2>7, <2>8 DEF QueueOK, client, bounds
<1> QED BY <1>1, <1>2

\* An event keeps the types.
LEMMA EmitTyped ==
    ASSUME TypeOK, Emit
    PROVE  TypeOK'
<1> USE StreamAssumption DEF TypeOK
<1>1. published + 1 \in 1 .. MaxEvents /\ published' = published + 1
  BY StreamAssumption DEF Emit
<1>2. UNCHANGED <<listening, ghosts, phase, since, anchor, ready, cursor, got, breaks, restarts>>
  BY DEF Emit, client, bounds
<1>3. CASE listening
  <2> DEFINE more(c) == Append(queue[c], Len(log) + 1)
  <2>1. /\ log' = Append(log, published + 1)
        /\ queue' = [c \in Clients |-> IF c \in Connected THEN Fit(more(c)) ELSE queue[c]]
        /\ skipped' = [c \in Clients |-> IF c \in Connected THEN skipped[c] \cup Dropped(more(c))
                                         ELSE skipped[c]]
    BY <1>3 DEF Emit, Broadcast
  <2>2. log' \in Seq(1 .. MaxEvents) /\ Len(log') = Len(log) + 1
        /\ Len(log') <= published' /\ Len(log') \in 1 .. MaxEvents
    BY <1>1, <2>1
  <2>3. ASSUME NEW c \in Clients
        PROVE  QueueOK(Fit(more(c)), Len(log')) /\ Dropped(more(c)) \subseteq 1 .. MaxEvents
               /\ QueueOK(queue[c], Len(log'))
    <3>1. more(c) \in Seq(1 .. MaxEvents) /\ \A i \in 1 .. Len(more(c)) : more(c)[i] <= Len(log')
      <4>1. Len(log) + 1 \in 1 .. MaxEvents /\ Len(log') = Len(log) + 1
        BY <2>2
      <4>2. queue[c] \in Seq(1 .. MaxEvents) /\ \A i \in 1 .. Len(queue[c]) : queue[c][i] <= Len(log)
        OBVIOUS
      <4> HIDE DEF TypeOK
      <4>3. /\ more(c) \in Seq(1 .. MaxEvents) /\ Len(more(c)) = Len(queue[c]) + 1
            /\ \A i \in 1 .. Len(queue[c]) : more(c)[i] = queue[c][i]
            /\ more(c)[Len(queue[c]) + 1] = Len(log) + 1
        BY <4>1, <4>2
      <4>4. ASSUME NEW i \in 1 .. Len(more(c)) PROVE more(c)[i] <= Len(log')
        <5>1. CASE i \in 1 .. Len(queue[c])
          BY <4>1, <4>2, <4>3, <5>1
        <5>2. CASE i = Len(queue[c]) + 1
          BY <4>1, <4>3, <5>2
        <5> QED BY <4>2, <4>3, <5>1, <5>2
      <4> QED BY <4>3, <4>4
    <3>2. QueueOK(queue[c], Len(log'))
      BY <2>2 DEF QueueOK
    <3>3. Len(log') \in Nat
      BY <2>2
    <3> HIDE DEF TypeOK, more
    <3> QED BY <3>1, <3>2, <3>3, FitQueueOK, DroppedOK
  <2> HIDE DEF more
  <2>4. /\ queue' \in [Clients -> Seq(1 .. MaxEvents)]
        /\ \A c \in Clients : QueueOK(queue'[c], Len(log'))
    BY <2>1, <2>3 DEF QueueOK
  <2>5. skipped' \in [Clients -> SUBSET (1 .. MaxEvents)]
    BY <2>1, <2>3
  <2> QED BY <1>1, <1>2, <2>2, <2>4, <2>5 DEF QueueOK
<1>4. CASE ~listening
  BY <1>1, <1>2, <1>4 DEF Emit
<1> QED BY <1>3, <1>4

\* A delivery keeps the types.
LEMMA DeliverTyped ==
    ASSUME TypeOK, NEW c \in Clients, Deliver(c)
    PROVE  TypeOK'
<1> USE StreamAssumption DEF TypeOK
<1> DEFINE s == Head(queue[c])
<1>1. queue[c] \in Seq(1 .. MaxEvents) /\ queue[c] # <<>>
  BY DEF Deliver
<1>2. s = queue[c][1] /\ s \in 1 .. Len(log) /\ s \in 1 .. MaxEvents
  BY <1>1
<1>3. QueueOK(Tail(queue[c]), Len(log))
  BY <1>1 DEF QueueOK
<1>4. /\ queue' = [queue EXCEPT ![c] = Tail(@)]
      /\ cursor' = [cursor EXCEPT ![c] = IF s > @ THEN s ELSE @]
      /\ got' = [got EXCEPT ![c] = @ \cup {log[s]}]
      /\ UNCHANGED <<published, log, listening, ghosts, phase, since, anchor,
                     skipped, ready, bounds>>
  BY DEF Deliver
<1> HIDE DEF s
<1>5. cursor' \in [Clients -> 0 .. MaxEvents]
  BY <1>2, <1>4
<1>7. got' \in [Clients -> SUBSET (1 .. MaxEvents)]
  <2>1. log \in Seq(1 .. MaxEvents)
    OBVIOUS
  <2> HIDE DEF TypeOK
  <2>2. log[s] \in 1 .. MaxEvents
    BY <1>2, <2>1
  <2> USE DEF TypeOK
  <2> QED BY <1>4, <2>2
<1>6. /\ queue' \in [Clients -> Seq(1 .. MaxEvents)]
      /\ \A d \in Clients : QueueOK(queue'[d], Len(log))
  BY <1>3, <1>4 DEF QueueOK
<1> QED BY <1>4, <1>5, <1>6, <1>7 DEF QueueOK, bounds

\* Connecting, greeting and losing a connection keep the types.
LEMMA ConnectionTyped ==
    ASSUME TypeOK, NEW c \in Clients, Connect(c) \/ HandleReady(c) \/ Break(c)
    PROVE  TypeOK'
<1> USE StreamAssumption DEF TypeOK, Phase, client, bounds, Drop
<1>1. QueueOK(<<>>, Len(log)) /\ 1 \in 1 .. MaxEvents + 1
  BY EmptyQueueOK
<1>2. CASE Connect(c)
  <2>1. Len(log) + 1 \in 1 .. MaxEvents + 1
    OBVIOUS
  <2> QED BY <1>2, <2>1 DEF Connect, Accept
<1>3. ASSUME Drop(c)
      PROVE  /\ queue' \in [Clients -> Seq(1 .. MaxEvents)]
             /\ \A d \in Clients : QueueOK(queue'[d], Len(log))
             /\ phase' \in [Clients -> Phase] /\ since' \in [Clients -> 0 .. MaxEvents]
             /\ anchor' \in [Clients -> 1 .. MaxEvents + 1] /\ ghosts' \in Nat
             /\ skipped' \in [Clients -> SUBSET (1 .. MaxEvents)]
             /\ ready' \in [Clients -> BOOLEAN]
  <2>1. queue' = [queue EXCEPT ![c] = <<>>]
    BY <1>3
  <2>2. /\ queue' \in [Clients -> Seq(1 .. MaxEvents)]
        /\ \A d \in Clients : QueueOK(queue'[d], Len(log))
    BY <2>1, <1>1 DEF QueueOK
  <2> QED BY <1>1, <1>3, <2>2
<1>4. CASE HandleReady(c)
  <2>1. CASE NewProcess(c)
    <3>1. Drop(c) /\ UNCHANGED <<published, log, listening, got, breaks, restarts>>
          /\ cursor' = [cursor EXCEPT ![c] = 0]
      BY <1>4, <2>1 DEF HandleReady
    <3>2. cursor' \in [Clients -> 0 .. MaxEvents]
      BY <3>1
    <3> QED BY <1>3, <3>1, <3>2 DEF QueueOK
  <2>2. CASE ~NewProcess(c)
    BY <1>4, <2>2 DEF HandleReady
  <2> QED BY <2>1, <2>2
<1>5. CASE Break(c)
  <2>1. Drop(c) /\ UNCHANGED <<published, log, listening, cursor, got, restarts>>
        /\ breaks' \in 0 .. MaxBreaks
    BY <1>5 DEF Break
  <2> QED BY <1>3, <1>5, <2>1 DEF QueueOK
<1> QED BY <1>2, <1>4, <1>5

\* So do the clean-up and a restart.
LEMMA ProcessTyped ==
    ASSUME TypeOK, Cleanup \/ Restart
    PROVE  TypeOK'
<1> USE StreamAssumption DEF TypeOK
<1>1. CASE Cleanup
  BY <1>1 DEF Cleanup, connection, client, bounds
<1>2. CASE Restart
  <2>1. /\ phase' = [c \in Clients |-> "none"] /\ since' = [c \in Clients |-> 0]
        /\ anchor' = [c \in Clients |-> 1] /\ queue' = [c \in Clients |-> <<>>]
        /\ skipped' = [c \in Clients |-> {}] /\ ready' = [c \in Clients |-> FALSE]
        /\ log' = <<>> /\ listening' = FALSE /\ ghosts' = 0 /\ restarts' = restarts + 1
        /\ restarts < MaxRestarts /\ UNCHANGED <<published, cursor, got, breaks>>
    BY <1>2 DEF Restart, All, client
  <2>2. log' \in Seq(1 .. MaxEvents) /\ Len(log') <= published' /\ restarts' \in 0 .. MaxRestarts
    BY <2>1
  <2>3. phase' \in [Clients -> Phase] /\ since' \in [Clients -> 0 .. MaxEvents]
        /\ anchor' \in [Clients -> 1 .. MaxEvents + 1]
    BY <2>1 DEF Phase
  <2>4. skipped' \in [Clients -> SUBSET (1 .. MaxEvents)] /\ ready' \in [Clients -> BOOLEAN]
    BY <2>1
  <2>5. /\ queue' \in [Clients -> Seq(1 .. MaxEvents)]
        /\ \A c \in Clients : QueueOK(queue'[c], Len(log'))
    BY <2>1, EmptyQueueOK DEF QueueOK
  <2> QED BY <2>1, <2>2, <2>3, <2>4, <2>5 DEF QueueOK
<1> QED BY <1>1, <1>2

ClientStep(c) == Connect(c) \/ Replay(c) \/ HandleReady(c) \/ Deliver(c) \/ Break(c)

\* What the next-state relation amounts to.
LEMMA NextCases ==
    ASSUME Next
    PROVE  Emit \/ Cleanup \/ Restart \/ \E c \in Clients : ClientStep(c)
BY DEF Next, ClientStep

\* Every variable keeps its type, whatever the sizes of ring and queue.
THEOREM TypeCorrect == Spec => []TypeOK
<1>1. Init => TypeOK
  <2> SUFFICES ASSUME Init PROVE TypeOK
    OBVIOUS
  <2>1. /\ queue \in [Clients -> Seq(1 .. MaxEvents)]
        /\ \A c \in Clients : QueueOK(queue[c], Len(log))
    BY EmptyQueueOK DEF Init, All, QueueOK
  <2>2. log \in Seq(1 .. MaxEvents) /\ Len(log) <= published
    BY DEF Init
  <2>3. /\ phase \in [Clients -> Phase] /\ since \in [Clients -> 0 .. MaxEvents]
        /\ anchor \in [Clients -> 1 .. MaxEvents + 1]
        /\ skipped \in [Clients -> SUBSET (1 .. MaxEvents)]
        /\ ready \in [Clients -> BOOLEAN] /\ cursor \in [Clients -> 0 .. MaxEvents]
        /\ got \in [Clients -> SUBSET (1 .. MaxEvents)]
    BY StreamAssumption DEF Init, All, Phase
  <2>4. /\ published \in 0 .. MaxEvents /\ ghosts \in Nat
        /\ breaks \in 0 .. MaxBreaks /\ restarts \in 0 .. MaxRestarts
    BY StreamAssumption DEF Init
  <2>5. listening \in BOOLEAN
    BY DEF Init
  <2> QED BY <2>1, <2>2, <2>3, <2>4, <2>5 DEF TypeOK, QueueOK
<1>2. TypeOK /\ [Next]_vars => TypeOK'
  <2> SUFFICES ASSUME TypeOK, [Next]_vars PROVE TypeOK'
    OBVIOUS
  <2>1. CASE Emit
    BY <2>1, EmitTyped
  <2>2. CASE Cleanup \/ Restart
    BY <2>2, ProcessTyped
  <2>3. ASSUME NEW c \in Clients, ClientStep(c) PROVE TypeOK'
    BY <2>3, ConnectionTyped, ReplayTyped, DeliverTyped DEF ClientStep
  <2>4. CASE UNCHANGED vars
    BY <2>4 DEF vars, connection, client, bounds, TypeOK
  <2> QED BY <2>1, <2>2, <2>3, <2>4, NextCases
<1> QED BY <1>1, <1>2, PTL DEF Spec

-----------------------------------------------------------------------------
(* The listener and the cursors *)

\* _cleanup_disconnect() never takes the listener from a connected client.
THEOREM ConnectedAreHeardHolds == Spec => []ConnectedAreHeard
<1> USE DEF ConnectedAreHeard, Connected
<1>1. Init => ConnectedAreHeard
  BY DEF Init, All
<1>2. TypeOK /\ ConnectedAreHeard /\ [Next]_vars => ConnectedAreHeard'
  <2> SUFFICES ASSUME TypeOK, ConnectedAreHeard, [Next]_vars PROVE ConnectedAreHeard'
    OBVIOUS
  <2>1. CASE Emit
    BY <2>1 DEF Emit
  <2>2. CASE Cleanup
    BY <2>2 DEF Cleanup, connection
  <2>3. CASE Restart
    BY <2>3 DEF Restart, All
  <2>4. ASSUME NEW c \in Clients, ClientStep(c) PROVE ConnectedAreHeard'
    <3>1. CASE Connect(c)
      BY <3>1 DEF Connect, Accept
    <3>2. CASE Replay(c) \/ Deliver(c)
      BY <3>2 DEF Replay, Deliver, TypeOK
    <3>3. CASE HandleReady(c) \/ Break(c)
      BY <3>3 DEF HandleReady, Break, Drop, TypeOK
    <3> QED BY <2>4, <3>1, <3>2, <3>3 DEF ClientStep
  <2>5. CASE UNCHANGED vars
    BY <2>5 DEF vars, connection
  <2> QED BY <2>1, <2>2, <2>3, <2>4, <2>5, NextCases
<1> QED BY <1>1, <1>2, TypeCorrect, PTL DEF Spec

\* What an event does to the log: at most one more entry.
LEMMA LogGrows ==
    ASSUME TypeOK, Emit
    PROVE  /\ Len(log) \in Nat /\ Len(log') \in {Len(log), Len(log) + 1}
           /\ \A s \in 1 .. Len(log) : log'[s] = log[s]
           /\ UNCHANGED <<phase, since, anchor, ready, cursor, got>>
<1>1. log \in Seq(1 .. MaxEvents) /\ published + 1 \in 1 .. MaxEvents
  BY StreamAssumption DEF TypeOK, Emit
<1>2. log' = log \/ log' = Append(log, published + 1)
  BY DEF Emit, Broadcast
<1>3. UNCHANGED <<phase, since, anchor, ready, cursor, got>>
  BY DEF Emit, client
<1> QED BY <1>1, <1>2, <1>3

\* An anchor stays behind the counter of its process.
LEMMA AnchorsHold == Spec => []AnchorsFollow
<1> USE DEF AnchorsFollow
<1>1. Init => AnchorsFollow
  <2> SUFFICES ASSUME Init PROVE AnchorsFollow
    OBVIOUS
  <2>1. Len(log) = 0
    BY DEF Init
  <2>2. \A c \in Clients : anchor[c] = 1
    BY DEF Init, All
  <2>3. Len(log) + 1 = 1 /\ 1 <= 1
    BY <2>1
  <2> QED BY <2>2, <2>3
<1>2. TypeOK /\ AnchorsFollow /\ [Next]_vars => AnchorsFollow'
  <2> SUFFICES ASSUME TypeOK, AnchorsFollow, [Next]_vars PROVE AnchorsFollow'
    OBVIOUS
  <2> USE DEF TypeOK
  <2>1. CASE Emit
    <3>1. anchor' = anchor /\ Len(log') \in {Len(log), Len(log) + 1} /\ Len(log) \in Nat
      BY <2>1, LogGrows
    <3> QED BY <3>1, StreamAssumption
  <2>2. CASE Cleanup \/ UNCHANGED vars
    BY <2>2 DEF Cleanup, connection, vars
  <2>3. CASE Restart
    BY <2>3 DEF Restart, All
  <2>4. ASSUME NEW c \in Clients, ClientStep(c) PROVE AnchorsFollow'
    <3>1. log' = log
      BY <2>4 DEF ClientStep, Connect, Replay, HandleReady, Deliver, Break
    <3>2. \/ anchor' = anchor \/ anchor' = [anchor EXCEPT ![c] = Len(log) + 1]
          \/ anchor' = [anchor EXCEPT ![c] = 1]
      BY <2>4 DEF ClientStep, Connect, Accept, Replay, HandleReady, Deliver, Break, Drop
    <3>3. Len(log) \in Nat /\ anchor \in [Clients -> 1 .. MaxEvents + 1]
      OBVIOUS
    <3> HIDE DEF TypeOK
    <3> QED BY <3>1, <3>2, <3>3, StreamAssumption
  <2> QED BY <2>1, <2>2, <2>3, <2>4, NextCases
<1> QED BY <1>1, <1>2, TypeCorrect, PTL DEF Spec

\* Behind the epoch check a cursor names an event of this process.
THEOREM CursorHolds == Spec => []CursorOfThisProcess
<1> USE DEF CursorOfThisProcess
<1>1. Init => CursorOfThisProcess
  BY DEF Init, All
<1>2. TypeOK /\ AnchorsFollow /\ CursorOfThisProcess /\ [Next]_vars => CursorOfThisProcess'
  <2> SUFFICES ASSUME TypeOK, AnchorsFollow, CursorOfThisProcess, [Next]_vars
               PROVE  CursorOfThisProcess'
    OBVIOUS
  <2> USE DEF TypeOK
  <2>1. CASE Emit
    <3>1. /\ cursor' = cursor /\ ready' = ready
          /\ Len(log') \in {Len(log), Len(log) + 1} /\ Len(log) \in Nat
      BY <2>1, LogGrows
    <3> QED BY <3>1, StreamAssumption
  <2>2. CASE Cleanup \/ UNCHANGED vars
    BY <2>2 DEF Cleanup, connection, client, vars
  <2>3. CASE Restart
    BY <2>3 DEF Restart, All
  <2>4. ASSUME NEW c \in Clients, ClientStep(c) PROVE CursorOfThisProcess'
    <3>1. log' = log
      BY <2>4 DEF ClientStep, Connect, Replay, HandleReady, Deliver, Break
    <3>2. CASE Connect(c) \/ Replay(c) \/ Break(c)
      <4>1. cursor' = cursor /\ (ready' = ready \/ ready' = [ready EXCEPT ![c] = FALSE])
        BY <3>2 DEF Connect, Replay, Break, Drop, client
      <4> QED BY <3>1, <4>1
    <3>3. CASE HandleReady(c)
      <4>1. CASE NewProcess(c)
        <5>1. cursor' = [cursor EXCEPT ![c] = 0] /\ ready' = [ready EXCEPT ![c] = FALSE]
          BY <3>3, <4>1 DEF HandleReady, Drop
        <5> QED BY <3>1, <5>1
      <4>2. CASE ~NewProcess(c)
        <5>1. cursor' = cursor /\ ready' = [ready EXCEPT ![c] = TRUE]
          BY <3>3, <4>2 DEF HandleReady
        <5>2. cursor[c] <= Len(log)
          BY <4>2, StreamAssumption DEF NewProcess, AnchorsFollow
        <5> QED BY <3>1, <5>1, <5>2
      <4> QED BY <4>1, <4>2
    <3>4. CASE Deliver(c)
      <4>1. Head(queue[c]) <= Len(log) /\ ready' = ready
            /\ cursor' = [cursor EXCEPT ![c] = IF Head(queue[c]) > @ THEN Head(queue[c]) ELSE @]
        BY <3>4 DEF Deliver
      <4> QED BY <3>1, <4>1
    <3> QED BY <2>4, <3>2, <3>3, <3>4 DEF ClientStep
  <2> QED BY <2>1, <2>2, <2>3, <2>4, NextCases
<1> QED BY <1>1, <1>2, TypeCorrect, AnchorsHold, PTL DEF Spec

-----------------------------------------------------------------------------
(* Nothing is lost without a trace *)

\* _enqueue() loses no entry without counting it.
LEMMA FitServes ==
    ASSUME NEW c \in Clients, NEW q \in Seq(1 .. MaxEvents), NEW i \in 1 .. Len(q),
           NEW s, s = q[i], queue'[c] = Fit(q), Dropped(q) \subseteq skipped'[c]
    PROVE  Served(c, s)'
<1>1. CASE s \in Dropped(q)
  BY <1>1 DEF Served
<1>2. CASE \E j \in 1 .. Len(Fit(q)) : Fit(q)[j] = s
  BY <1>2 DEF Served, Queued
<1> QED BY <1>1, <1>2, FitOrDropped

\* A broadcast serves the connections that are registered.
LEMMA EmitServes ==
    ASSUME TypeOK, NoGap, Emit
    PROVE  NoGap'
<1> USE StreamAssumption
<1>1. CASE ~listening
  <2>1. UNCHANGED <<log, queue, skipped, phase, since, anchor, got>>
    BY <1>1 DEF Emit, client
  <2> QED BY <2>1 DEF NoGap, Connected, Claim, Base, Served, Delivered, Queued
<1>2. CASE listening
  <2> SUFFICES ASSUME NEW c \in Connected, NEW s \in 1 .. Len(log'), s > Claim(c)
               PROVE  Served(c, s)'
    <3>1. UNCHANGED <<phase, since, anchor>>
      BY DEF Emit
    <3> QED BY <3>1 DEF NoGap, Connected, Claim, Base
  <2> DEFINE q == Append(queue[c], Len(log) + 1)
  <2>1. /\ log' = Append(log, published + 1) /\ got' = got
        /\ queue'[c] = Fit(q) /\ skipped'[c] = skipped[c] \cup Dropped(q)
    BY <1>2 DEF Emit, Broadcast, client, Connected
  <2>2. c \in Clients /\ log \in Seq(1 .. MaxEvents) /\ queue[c] \in Seq(1 .. MaxEvents)
        /\ Len(log) + 1 \in 1 .. MaxEvents
    <3>1. published + 1 \in 1 .. MaxEvents
      BY DEF Emit, TypeOK
    <3> QED BY <3>1 DEF TypeOK, Connected
  <2>3. q \in Seq(1 .. MaxEvents) /\ Len(q) = Len(queue[c]) + 1 /\ q[Len(q)] = Len(log) + 1
        /\ \A i \in 1 .. Len(queue[c]) : i \in 1 .. Len(q) /\ q[i] = queue[c][i]
        /\ Len(q) \in 1 .. Len(q)
    BY <2>2
  <2> HIDE DEF q
  <2>4. CASE s = Len(log) + 1
    <3>1. s = q[Len(q)] /\ Dropped(q) \subseteq skipped'[c]
      BY <2>1, <2>3, <2>4
    <3> DEFINE n == Len(q)
    <3>2. n \in 1 .. Len(q) /\ s = q[n]
      BY <2>3, <3>1
    <3>3. c \in Clients /\ q \in Seq(1 .. MaxEvents) /\ queue'[c] = Fit(q)
      BY <2>1, <2>2, <2>3
    <3> HIDE DEF n
    <3> QED BY <3>1, <3>2, <3>3, FitServes
  <2>5. CASE s # Len(log) + 1
    <3>1. s \in 1 .. Len(log) /\ log'[s] = log[s]
      BY <2>1, <2>2, <2>5
    <3>2. Served(c, s)
      BY <3>1 DEF NoGap
    <3>3. CASE Delivered(c, s) \/ s \in skipped[c]
      BY <2>1, <3>1, <3>3 DEF Served, Delivered
    <3>4. CASE s \in Queued(c)
      <4>1. PICK i \in 1 .. Len(queue[c]) : queue[c][i] = s
        BY <3>4 DEF Queued
      <4> QED BY <2>1, <2>2, <2>3, <4>1, FitServes
    <3> QED BY <3>2, <3>3, <3>4 DEF Served
  <2> QED BY <2>4, <2>5
<1> QED BY <1>1, <1>2

\* The replay serves what the ring has above the cursor.
LEMMA ReplayServes ==
    ASSUME TypeOK, NoGap, NEW c \in Clients, Replay(c)
    PROVE  NoGap'
<1> USE StreamAssumption
<1> SUFFICES ASSUME NEW d \in Connected, NEW s \in 1 .. Len(log), s > Claim(d)'
             PROVE  Served(d, s)'
  <2>1. log' = log /\ Connected' = Connected
    BY DEF Replay, Connected, TypeOK
  <2> QED BY <2>1 DEF NoGap
<1>1. /\ log' = log /\ got' = got /\ since' = since /\ anchor' = anchor
      /\ phase' = [phase EXCEPT ![c] = "live"] /\ phase[c] = "greeting"
      /\ c \in Clients /\ d \in Clients
  BY DEF Replay, client, Connected
<1>2. CASE d # c \/ since[c] = 0
  <2>1. queue'[d] = queue[d] /\ skipped'[d] = skipped[d]
    BY <1>1, <1>2 DEF Replay, TypeOK
  <2>2. Claim(d)' = Claim(d)
    <3>1. CASE d # c
      BY <1>1, <3>1 DEF Claim, Base, TypeOK
    <3>2. CASE d = c /\ since[c] = 0
      BY <1>1, <3>2 DEF Claim, Base, TypeOK
    <3> QED BY <1>2, <3>1, <3>2
  <2> QED BY <1>1, <2>1, <2>2 DEF NoGap, Served, Delivered, Queued
<1>3. CASE d = c /\ since[c] # 0
  <2> DEFINE all == queue[c] \o Above(since[c])
             more == Above(since[c])
  <2>1. /\ Claim(c)' = since[c] /\ queue'[c] = Fit(all)
        /\ skipped'[c] = skipped[c] \cup Dropped(all) \cup (since[c] + 1 .. RingStart)
    BY <1>1, <1>3 DEF Replay, Claim, Base, TypeOK
  <2>2. since[c] \in Nat /\ Len(log) \in Nat /\ RingStart \in Nat
        /\ queue[c] \in Seq(1 .. MaxEvents)
    BY DEF TypeOK, RingStart
  <2>3. /\ more \in Seq(1 .. MaxEvents)
        /\ s > RingStart => \E i \in 1 .. Len(more) : more[i] = s
    <3>1. s > since[c] /\ s \in 1 .. Len(log)
      BY <1>3, <2>1
    <3> QED BY <2>2, <3>1, AboveIs
  <2>4. CASE s <= RingStart
    BY <1>3, <2>1, <2>2, <2>4 DEF Served
  <2>5. CASE s > RingStart
    <3>1. PICK i \in 1 .. Len(more) : more[i] = s
      BY <2>3, <2>5
    <3> HIDE DEF more
    <3>2. /\ queue[c] \o more \in Seq(1 .. MaxEvents)
          /\ Len(queue[c]) + i \in 1 .. Len(queue[c] \o more)
          /\ (queue[c] \o more)[Len(queue[c]) + i] = s
      BY <2>2, <2>3, <3>1
    <3>3. all = queue[c] \o more
      BY DEF more
    <3> HIDE DEF all
    <3> QED BY <1>3, <2>1, <3>2, <3>3, FitServes
  <2> QED BY <2>2, <2>4, <2>5
<1> QED BY <1>2, <1>3

\* A delivery serves what it takes from the queue.
LEMMA DeliverServes ==
    ASSUME TypeOK, NoGap, NEW c \in Clients, Deliver(c)
    PROVE  NoGap'
<1> SUFFICES ASSUME NEW d \in Connected, NEW s \in 1 .. Len(log), s > Claim(d)
             PROVE  Served(d, s)'
  BY DEF Deliver, NoGap, Connected, Claim, Base
<1>1. Served(d, s) /\ d \in Clients
  BY DEF NoGap, Connected
<1>2. /\ log' = log /\ skipped' = skipped /\ got[d] \subseteq got'[d]
      /\ log[Head(queue[c])] \in got'[c]
      /\ queue'[c] = Tail(queue[c]) /\ (d # c => queue'[d] = queue[d])
      /\ queue[c] \in Seq(1 .. MaxEvents) /\ queue[c] # <<>>
  BY <1>1 DEF Deliver, TypeOK
<1>3. CASE Delivered(d, s) \/ s \in skipped[d] \/ d # c
  BY <1>1, <1>2, <1>3 DEF Served, Delivered, Queued
<1>4. CASE d = c /\ s \in Queued(c)
  <2>1. PICK i \in 1 .. Len(queue[c]) : queue[c][i] = s
    BY <1>4 DEF Queued
  <2>2. CASE i = 1
    BY <1>2, <1>4, <2>1, <2>2 DEF Served, Delivered
  <2>3. CASE i # 1
    <3>1. i - 1 \in 1 .. Len(Tail(queue[c])) /\ Tail(queue[c])[i - 1] = s
      BY <1>2, <2>1, <2>3
    <3> QED BY <1>2, <1>4, <3>1 DEF Served, Queued
  <2> QED BY <2>2, <2>3
<1> QED BY <1>1, <1>3, <1>4 DEF Served

\* The strengthening is inductive.
LEMMA NoGapHolds == Spec => []NoGap
<1>1. Init => NoGap
  BY DEF Init, NoGap, Connected, All
<1>2. TypeOK /\ NoGap /\ [Next]_vars => NoGap'
  <2> SUFFICES ASSUME TypeOK, NoGap, [Next]_vars PROVE NoGap'
    OBVIOUS
  <2>1. CASE Emit
    BY <2>1, EmitServes
  <2>2. CASE Cleanup \/ UNCHANGED vars
    BY <2>2 DEF Cleanup, connection, client, vars, NoGap, Connected, Claim, Base,
                Served, Delivered, Queued
  <2>3. CASE Restart
    BY <2>3 DEF Restart, All, NoGap, Connected
  <2>4. ASSUME NEW c \in Clients, ClientStep(c) PROVE NoGap'
    <3>1. CASE Replay(c)
      BY <3>1, ReplayServes
    <3>2. CASE Deliver(c)
      BY <3>2, DeliverServes
    <3>3. CASE Connect(c)
      <4>1. /\ UNCHANGED <<log, queue, skipped, got>>
            /\ phase' = [phase EXCEPT ![c] = "greeting"]
            /\ since' = [since EXCEPT ![c] = cursor[c]]
            /\ anchor' = [anchor EXCEPT ![c] = Len(log) + 1]
        BY <3>3 DEF Connect, Accept, client
      <4>2. ASSUME NEW d \in Connected', NEW s \in 1 .. Len(log), s > Claim(d)'
            PROVE  Served(d, s)'
        <5>1. CASE d = c
          <6>1. Claim(c)' = Len(log) + 1 - 1
            BY <4>1 DEF Claim, TypeOK
          <6>2. Len(log) \in Nat
            BY DEF TypeOK
          <6> QED BY <4>2, <5>1, <6>1, <6>2
        <5>2. CASE d # c
          BY <4>1, <4>2, <5>2 DEF NoGap, Connected, Claim, Base, Served, Delivered,
                                  Queued, TypeOK
        <5> QED BY <5>1, <5>2
      <4> QED BY <4>1, <4>2 DEF NoGap
    <3>4. CASE HandleReady(c) /\ ~NewProcess(c)
      BY <3>4 DEF HandleReady, NoGap, Connected, Claim, Base, Served, Delivered, Queued
    <3>5. CASE Drop(c) /\ log' = log /\ got' = got
      BY <3>5 DEF Drop, NoGap, Connected, Claim, Base, Served, Delivered, Queued, TypeOK
    <3> QED BY <2>4, <3>1, <3>2, <3>3, <3>4, <3>5 DEF ClientStep, HandleReady, Break, client
  <2> QED BY <2>1, <2>2, <2>3, <2>4, NextCases
<1> QED BY <1>1, <1>2, TypeCorrect, PTL DEF Spec

\* A live connection misses nothing above its cursor except what was counted.
THEOREM ResumeHasNoGapHolds == Spec => []ResumeHasNoGap
<1>1. NoGap => ResumeHasNoGap
  BY DEF NoGap, ResumeHasNoGap, Connected, Claim, Served
<1> QED BY <1>1, NoGapHolds, PTL

-----------------------------------------------------------------------------
(* The newest event *)

\* A queue that ends in the newest event still holds it after _enqueue().
LEMMA FitHoldsNewest ==
    ASSUME TypeOK, NEW c \in Clients, NEW q \in Seq(1 .. MaxEvents), q # <<>>,
           NEW s, s = q[Len(q)], queue'[c] = Fit(q)
    PROVE  \E j \in 1 .. Len(queue'[c]) : queue'[c][j] = s
<1>1. Len(Fit(q)) \in 1 .. Len(Fit(q)) /\ Fit(q)[Len(Fit(q))] = s
  BY FitKeepsLast
<1> QED BY <1>1

\* A broadcast leaves the newest event in every registered connection's queue.
LEMMA EmitKeepsNewest ==
    ASSUME TypeOK, NewestIsKept, Emit
    PROVE  NewestIsKept'
<1> USE StreamAssumption
<1>1. CASE ~listening
  <2>1. UNCHANGED <<log, queue, phase, anchor, got>>
    BY <1>1 DEF Emit, client
  <2> QED BY <2>1 DEF NewestIsKept, Connected, Delivered, Queued
<1>2. CASE listening
  <2> SUFFICES ASSUME NEW c \in Connected
               PROVE  Len(log') \in Queued(c)'
    <3>1. UNCHANGED phase
      BY DEF Emit
    <3> QED BY <3>1 DEF NewestIsKept, Connected
  <2> DEFINE q == Append(queue[c], Len(log) + 1)
  <2>1. log' = Append(log, published + 1) /\ queue'[c] = Fit(q) /\ c \in Clients
    BY <1>2 DEF Emit, Broadcast, Connected
  <2>2. log \in Seq(1 .. MaxEvents) /\ queue[c] \in Seq(1 .. MaxEvents)
        /\ Len(log) + 1 \in 1 .. MaxEvents
    <3>1. published + 1 \in 1 .. MaxEvents
      BY DEF Emit, TypeOK
    <3> QED BY <2>1, <3>1 DEF TypeOK
  <2>3. q \in Seq(1 .. MaxEvents) /\ q # <<>> /\ q[Len(q)] = Len(log) + 1
    BY <2>2
  <2>4. Len(log') = Len(log) + 1
    BY <2>1, <2>2
  <2> HIDE DEF q
  <2>5. \E j \in 1 .. Len(queue'[c]) : queue'[c][j] = Len(log) + 1
    BY <2>1, <2>3, FitHoldsNewest
  <2> QED BY <2>4, <2>5 DEF Queued
<1> QED BY <1>1, <1>2

\* So does the replay: the ring ends in the newest event.
LEMMA ReplayKeepsNewest ==
    ASSUME TypeOK, NewestIsKept, NEW c \in Clients, Replay(c)
    PROVE  NewestIsKept'
<1> USE StreamAssumption
<1> SUFFICES ASSUME NEW d \in Connected, Len(log) >= anchor[d]
             PROVE  Delivered(d, Len(log))' \/ Len(log) \in Queued(d)'
  <2>1. log' = log /\ anchor' = anchor /\ Connected' = Connected
    BY DEF Replay, Connected, TypeOK
  <2> QED BY <2>1 DEF NewestIsKept
<1>1. /\ log' = log /\ got' = got /\ d \in Clients
      /\ Delivered(d, Len(log)) \/ Len(log) \in Queued(d)
  BY DEF Replay, client, Connected, NewestIsKept
<1>2. CASE d # c \/ since[c] = 0
  <2>1. queue'[d] = queue[d]
    BY <1>1, <1>2 DEF Replay, TypeOK
  <2> QED BY <1>1, <2>1 DEF Delivered, Queued
<1>3. CASE d = c /\ since[c] # 0
  <2> DEFINE more == Above(since[c])
  <2>1. queue'[c] = Fit(queue[c] \o more)
    BY <1>3 DEF Replay, TypeOK
  <2>2. /\ since[c] \in Nat /\ queue[c] \in Seq(1 .. MaxEvents)
        /\ Len(queue[c]) <= QueueDepth
    BY DEF TypeOK
  <2>3. more \in Seq(1 .. MaxEvents) /\ (more # <<>> => more[Len(more)] = Len(log))
    BY <2>2, AboveIs
  <2> HIDE DEF more
  <2>4. CASE more # <<>>
    <3> DEFINE q == queue[c] \o more
    <3>1. q \in Seq(1 .. MaxEvents) /\ q # <<>> /\ q[Len(q)] = Len(log)
      BY <2>2, <2>3, <2>4
    <3>2. queue'[c] = Fit(q)
      BY <2>1
    <3> HIDE DEF q
    <3> QED BY <1>3, <3>1, <3>2, FitHoldsNewest DEF Queued
  <2>5. CASE more = <<>>
    <3>1. queue[c] \o more = queue[c] /\ Overflow(queue[c]) = 0
      BY <2>2, <2>5 DEF Overflow
    <3>2. queue'[c] = queue[c]
      BY <2>1, <2>2, <3>1 DEF Fit
    <3> QED BY <1>1, <1>3, <3>2 DEF Delivered, Queued
  <2> QED BY <2>4, <2>5
<1> QED BY <1>2, <1>3

\* A delivery takes it from the queue to the client.
LEMMA DeliverKeepsNewest ==
    ASSUME TypeOK, NewestIsKept, NEW c \in Clients, Deliver(c)
    PROVE  NewestIsKept'
<1> SUFFICES ASSUME NEW d \in Connected, Len(log) >= anchor[d]
             PROVE  Delivered(d, Len(log))' \/ Len(log) \in Queued(d)'
  BY DEF Deliver, NewestIsKept, Connected
<1>1. /\ d \in Clients
      /\ Delivered(d, Len(log)) \/ Len(log) \in Queued(d)
      /\ Len(log) \in Nat
  BY DEF NewestIsKept, Connected, TypeOK
<1>2. /\ log' = log /\ got[d] \subseteq got'[d]
      /\ log[Head(queue[c])] \in got'[c]
      /\ queue'[c] = Tail(queue[c]) /\ (d # c => queue'[d] = queue[d])
      /\ queue[c] \in Seq(1 .. MaxEvents) /\ queue[c] # <<>>
  BY <1>1 DEF Deliver, TypeOK
<1>3. CASE Delivered(d, Len(log)) \/ d # c
  BY <1>1, <1>2, <1>3 DEF Delivered, Queued
<1>4. CASE d = c /\ Len(log) \in Queued(c)
  <2>1. PICK i \in 1 .. Len(queue[c]) : queue[c][i] = Len(log)
    BY <1>4 DEF Queued
  <2>2. CASE i = 1
    BY <1>2, <1>4, <2>1, <2>2 DEF Delivered
  <2>3. CASE i # 1
    <3>1. i - 1 \in 1 .. Len(Tail(queue[c])) /\ Tail(queue[c])[i - 1] = Len(log)
      BY <1>2, <2>1, <2>3
    <3> QED BY <1>2, <1>4, <3>1 DEF Queued
  <2> QED BY <2>2, <2>3
<1> QED BY <1>1, <1>3, <1>4

\* Backpressure never costs the newest event.
THEOREM NewestIsKeptHolds == Spec => []NewestIsKept
<1>1. Init => NewestIsKept
  BY DEF Init, NewestIsKept, Connected, All
<1>2. TypeOK /\ NewestIsKept /\ [Next]_vars => NewestIsKept'
  <2> SUFFICES ASSUME TypeOK, NewestIsKept, [Next]_vars PROVE NewestIsKept'
    OBVIOUS
  <2>1. CASE Emit
    BY <2>1, EmitKeepsNewest
  <2>2. CASE Cleanup \/ UNCHANGED vars
    BY <2>2 DEF Cleanup, connection, client, vars, NewestIsKept, Connected,
                Delivered, Queued
  <2>3. CASE Restart
    BY <2>3 DEF Restart, All, NewestIsKept, Connected
  <2>4. ASSUME NEW c \in Clients, ClientStep(c) PROVE NewestIsKept'
    <3>1. CASE Replay(c)
      BY <3>1, ReplayKeepsNewest
    <3>2. CASE Deliver(c)
      BY <3>2, DeliverKeepsNewest
    <3>3. CASE Connect(c)
      <4>1. /\ UNCHANGED <<log, queue, got>> /\ Len(log) \in Nat
            /\ phase' = [phase EXCEPT ![c] = "greeting"]
            /\ anchor' = [anchor EXCEPT ![c] = Len(log) + 1]
            /\ anchor \in [Clients -> 1 .. MaxEvents + 1]
        BY <3>3 DEF Connect, Accept, client, TypeOK
      <4> QED BY <4>1 DEF NewestIsKept, Connected, Delivered, Queued
    <3>4. CASE HandleReady(c) /\ ~NewProcess(c)
      BY <3>4 DEF HandleReady, NewestIsKept, Connected, Delivered, Queued
    <3>5. CASE Drop(c) /\ log' = log /\ got' = got
      BY <3>5 DEF Drop, NewestIsKept, Connected, Delivered, Queued, TypeOK
    <3> QED BY <2>4, <3>1, <3>2, <3>3, <3>4, <3>5 DEF ClientStep, HandleReady, Break, client
  <2> QED BY <2>1, <2>2, <2>3, <2>4, NextCases
<1> QED BY <1>1, <1>2, TypeCorrect, PTL DEF Spec

-----------------------------------------------------------------------------
(* What a client missed *)

\* The events of a process are numbered in the order they were published in, so
\* none has two numbers, and no client has been called with one still to come.
LogFresh ==
    /\ \A i, j \in 1 .. Len(log) : i < j => log[i] < log[j]
    /\ \A i \in 1 .. Len(log) : log[i] <= published
    /\ \A c \in Clients : \A e \in got[c] : e <= published

\* Nothing above its cursor has been delivered to a client.
Unseen == \A c \in Clients : \A s \in 1 .. Len(log) : s > cursor[c] => ~Delivered(c, s)

\* A cursor this process did not give stands for no event of this process; one it
\* gave is behind the anchor of the agent.ready that is to be answered.
Unanswered(c) == phase[c] # "none" /\ ~ready[c]
NothingSeen(c) == \A s \in 1 .. Len(log) : ~Delivered(c, s)
OwnCursor ==
    \A c \in Clients :
        \/ NothingSeen(c)
        \/ cursor[c] <= Len(log) /\ (Unanswered(c) => cursor[c] < anchor[c])

\* Until the replay, the queue holds only what was broadcast since the connection
\* was opened, and what the replay will add has not been delivered.
Greeted ==
    \A c \in Clients :
        /\ phase[c] = "none" => queue[c] = <<>>
        /\ phase[c] = "greeting" =>
             /\ \A i \in 1 .. Len(queue[c]) : queue[c][i] >= anchor[c]
             /\ \A s \in 1 .. Len(log) :
                  since[c] < s /\ s < anchor[c] => ~Delivered(c, s)

\* What an event does: it is the newest of the log, or nobody listens.
LEMMA EmitIs ==
    ASSUME TypeOK, Emit
    PROVE  /\ published' = published + 1 /\ published \in Nat
           /\ UNCHANGED <<phase, since, anchor, ready, cursor, got>>
           /\ log \in Seq(1 .. MaxEvents) /\ Len(log) \in Nat
           /\ \/ UNCHANGED <<log, queue>>
              \/ /\ log' = Append(log, published + 1) /\ Len(log') = Len(log) + 1
                 /\ log'[Len(log) + 1] = published + 1
                 /\ \A s \in 1 .. Len(log) : log'[s] = log[s]
                 /\ queue' = [c \in Clients |->
                       IF c \in Connected THEN Fit(Append(queue[c], Len(log) + 1))
                       ELSE queue[c]]
<1> USE StreamAssumption
<1>1. published' = published + 1 /\ published \in Nat /\ published + 1 \in 1 .. MaxEvents
  BY DEF Emit, TypeOK
<1>2. UNCHANGED <<phase, since, anchor, ready, cursor, got>>
  BY DEF Emit, client
<1>3. log \in Seq(1 .. MaxEvents) /\ Len(log) \in Nat
  BY DEF TypeOK
<1>4. CASE ~listening
  BY <1>1, <1>2, <1>3, <1>4 DEF Emit
<1>5. CASE listening
  <2>1. /\ log' = Append(log, published + 1)
        /\ queue' = [c \in Clients |->
              IF c \in Connected THEN Fit(Append(queue[c], Len(log) + 1)) ELSE queue[c]]
    BY <1>5 DEF Emit, Broadcast
  <2>2. /\ Len(log') = Len(log) + 1 /\ log'[Len(log) + 1] = published + 1
        /\ \A s \in 1 .. Len(log) : log'[s] = log[s]
    BY <1>1, <1>3, <2>1
  <2> QED BY <1>1, <1>2, <1>3, <2>1, <2>2
<1> QED BY <1>4, <1>5

\* What a delivery does.
LEMMA DeliverIs ==
    ASSUME TypeOK, NEW c \in Clients, Deliver(c)
    PROVE  LET s == Head(queue[c])
           IN  /\ s \in 1 .. Len(log) /\ Len(log) \in Nat /\ s = queue[c][1]
               /\ queue[c] \in Seq(1 .. MaxEvents) /\ queue[c] # <<>> /\ ready[c]
               /\ queue' = [queue EXCEPT ![c] = Tail(queue[c])]
               /\ cursor' = [cursor EXCEPT ![c] = IF s > cursor[c] THEN s ELSE cursor[c]]
               /\ got' = [got EXCEPT ![c] = got[c] \cup {log[s]}]
               /\ UNCHANGED <<published, log, phase, since, anchor, ready>>
<1>1. queue[c] \in Seq(1 .. MaxEvents) /\ queue[c] # <<>> /\ ready[c] /\ Len(log) \in Nat
      /\ \A i \in 1 .. Len(queue[c]) : queue[c][i] <= Len(log)
  BY DEF Deliver, TypeOK
<1>2. Head(queue[c]) = queue[c][1] /\ 1 \in 1 .. Len(queue[c]) /\ queue[c][1] \in 1 .. MaxEvents
  <2> DEFINE q == queue[c]
  <2>1. q \in Seq(1 .. MaxEvents) /\ q # <<>>
    BY <1>1
  <2> HIDE DEF q
  <2>2. Head(q) = q[1] /\ 1 \in 1 .. Len(q)
    BY <2>1
  <2>3. q[1] \in 1 .. MaxEvents
    BY <2>1, <2>2, StreamAssumption
  <2> QED BY <2>2, <2>3 DEF q
<1>3. Head(queue[c]) \in 1 .. Len(log)
  BY <1>1, <1>2, StreamAssumption
<1>4. /\ queue' = [queue EXCEPT ![c] = Tail(queue[c])]
      /\ cursor' = [cursor EXCEPT
            ![c] = IF Head(queue[c]) > cursor[c] THEN Head(queue[c]) ELSE cursor[c]]
      /\ got' = [got EXCEPT ![c] = got[c] \cup {log[Head(queue[c])]}]
      /\ UNCHANGED <<published, log, phase, since, anchor, ready>>
  BY DEF Deliver, bounds
<1> QED BY <1>1, <1>2, <1>3, <1>4

\* The other steps of a connection call no listener.
LEMMA QuietClient ==
    ASSUME NEW c \in Clients, ClientStep(c), ~Deliver(c)
    PROVE  UNCHANGED <<published, log, got>>
BY DEF ClientStep, Connect, Replay, HandleReady, Break, client

\* Different numbers are different events.
LEMMA Distinct ==
    ASSUME TypeOK, LogFresh, NEW s \in 1 .. Len(log), NEW r \in 1 .. Len(log), s # r
    PROVE  log[s] # log[r]
<1>1. /\ \A i \in 1 .. Len(log) : log[i] \in 1 .. MaxEvents
      /\ Len(log) \in Nat
  <2>1. log \in Seq(1 .. MaxEvents)
    BY DEF TypeOK
  <2> QED BY <2>1, StreamAssumption
<1>2. s < r \/ r < s
  BY <1>1
<1>3. log[s] < log[r] \/ log[r] < log[s]
  BY <1>2 DEF LogFresh
<1> QED BY <1>1, <1>3, StreamAssumption

\* A delivery delivers one event.
LEMMA DeliversOne ==
    ASSUME TypeOK, LogFresh, NEW c \in Clients, Deliver(c), NEW d \in Clients,
           NEW s \in 1 .. Len(log), ~Delivered(d, s), d # c \/ s # Head(queue[c])
    PROVE  ~Delivered(d, s)'
<1>1. log' = log /\ Head(queue[c]) \in 1 .. Len(log)
      /\ got' = [got EXCEPT ![c] = got[c] \cup {log[Head(queue[c])]}]
  BY DeliverIs
<1>2. got \in [Clients -> SUBSET (1 .. MaxEvents)]
  BY DEF TypeOK
<1>3. CASE d # c
  BY <1>1, <1>2, <1>3 DEF Delivered
<1>4. CASE d = c
  <2>1. log[s] # log[Head(queue[c])]
    BY <1>1, <1>4, Distinct
  <2> QED BY <1>1, <1>2, <1>4, <2>1 DEF Delivered
<1> QED BY <1>3, <1>4

\* Numbers follow the order of publication.
LEMMA LogFreshStep ==
    ASSUME TypeOK, LogFresh, [Next]_vars
    PROVE  LogFresh'
<1> USE StreamAssumption
<1>1. CASE Emit
  <2>1. /\ published' = published + 1 /\ published \in Nat /\ got' = got
        /\ log \in Seq(1 .. MaxEvents) /\ Len(log) \in Nat
        /\ \/ log' = log
           \/ /\ Len(log') = Len(log) + 1 /\ log'[Len(log) + 1] = published + 1
              /\ \A s \in 1 .. Len(log) : log'[s] = log[s]
    BY <1>1, EmitIs
  <2>2. \A i \in 1 .. Len(log) : log[i] \in 1 .. MaxEvents /\ log[i] <= published
    BY <2>1 DEF LogFresh
  <2>3. \A c \in Clients : \A e \in got'[c] : e <= published'
    <3>1. \A c \in Clients : \A e \in got[c] : e \in 1 .. MaxEvents /\ e <= published
      BY DEF LogFresh, TypeOK
    <3> QED BY <2>1, <3>1
  <2>4. CASE log' = log
    BY <2>1, <2>2, <2>3, <2>4 DEF LogFresh
  <2>5. CASE log' # log
    <3>1. \A i \in 1 .. Len(log') : i \in 1 .. Len(log) \/ i = Len(log) + 1
      BY <2>1, <2>5
    <3>2. \A i \in 1 .. Len(log') : log'[i] <= published'
      BY <2>1, <2>2, <2>5, <3>1
    <3>3. ASSUME NEW i \in 1 .. Len(log'), NEW j \in 1 .. Len(log'), i < j
          PROVE  log'[i] < log'[j]
      <4>1. i \in 1 .. Len(log) /\ log'[i] = log[i] /\ log[i] <= published
            /\ log[i] \in 1 .. MaxEvents
        BY <2>1, <2>2, <2>5, <3>1, <3>3
      <4>2. CASE j \in 1 .. Len(log)
        BY <2>1, <2>5, <3>3, <4>1, <4>2 DEF LogFresh
      <4>3. CASE j = Len(log) + 1
        BY <2>1, <2>5, <4>1, <4>3
      <4> QED BY <3>1, <4>2, <4>3
    <3> QED BY <2>3, <3>2, <3>3 DEF LogFresh
  <2> QED BY <2>4, <2>5
<1>2. CASE Cleanup \/ UNCHANGED vars
  BY <1>2 DEF Cleanup, client, vars, LogFresh
<1>3. CASE Restart
  <2>1. log' = <<>> /\ UNCHANGED <<published, got>>
    BY <1>3 DEF Restart, client
  <2>2. Len(log') = 0 /\ \A i \in 1 .. 0 : FALSE
    BY <2>1
  <2> QED BY <2>1, <2>2 DEF LogFresh
<1>4. ASSUME NEW c \in Clients, Deliver(c) PROVE LogFresh'
  <2>1. /\ UNCHANGED <<published, log>> /\ Head(queue[c]) \in 1 .. Len(log)
        /\ got' = [got EXCEPT ![c] = got[c] \cup {log[Head(queue[c])]}]
    BY <1>4, DeliverIs
  <2>2. log[Head(queue[c])] <= published /\ got \in [Clients -> SUBSET (1 .. MaxEvents)]
    BY <2>1 DEF LogFresh, TypeOK
  <2> QED BY <2>1, <2>2 DEF LogFresh
<1>5. ASSUME NEW c \in Clients, ClientStep(c), ~Deliver(c) PROVE LogFresh'
  BY <1>5, QuietClient DEF LogFresh
<1> QED BY <1>1, <1>2, <1>3, <1>4, <1>5, NextCases

\* An event nobody has been called with yet.
LEMMA NewEvent ==
    ASSUME TypeOK, LogFresh, Emit, NEW c \in Clients, NEW s \in 1 .. Len(log'),
           s \notin 1 .. Len(log)
    PROVE  ~Delivered(c, s)' /\ s = Len(log) + 1
<1>1. s = Len(log) + 1 /\ log'[s] = published + 1 /\ got' = got /\ published \in Nat
  <2>1. Len(log) \in Nat /\ got' = got /\ published \in Nat
        /\ \/ log' = log
           \/ Len(log') = Len(log) + 1 /\ log'[Len(log) + 1] = published + 1
    BY EmitIs
  <2> QED BY <2>1
<1>2. \A e \in got[c] : e <= published /\ e \in 1 .. MaxEvents
  BY DEF LogFresh, TypeOK
<1>3. published + 1 \notin got[c]
  BY <1>1, <1>2, StreamAssumption
<1> QED BY <1>1, <1>3 DEF Delivered

\* An event delivers nothing.
LEMMA EmitDelivers ==
    ASSUME TypeOK, Emit, NEW c \in Clients, NEW s \in 1 .. Len(log)
    PROVE  Delivered(c, s)' <=> Delivered(c, s)
<1>1. got' = got /\ log'[s] = log[s]
  BY EmitIs
<1> QED BY <1>1 DEF Delivered

\* A cursor that agent.ready disowns stands for nothing of this process.
LEMMA DisownedSawNothing ==
    ASSUME TypeOK, OwnCursor, NEW c \in Clients, HandleReady(c), NewProcess(c)
    PROVE  NothingSeen(c)
<1>1. Unanswered(c) /\ anchor[c] <= cursor[c]
  BY DEF HandleReady, Unanswered, NewProcess
<1>2. anchor[c] \in Int /\ cursor[c] \in Int
  BY StreamAssumption DEF TypeOK
<1>3. ~(cursor[c] < anchor[c])
  BY <1>1, <1>2
<1> QED BY <1>1, <1>3 DEF OwnCursor

\* Only a delivery and a disowned cursor move a cursor.
LEMMA CursorMoves ==
    ASSUME NEW c \in Clients, ClientStep(c), ~Deliver(c)
    PROVE  \/ cursor' = cursor
           \/ HandleReady(c) /\ NewProcess(c) /\ cursor' = [cursor EXCEPT ![c] = 0]
BY DEF ClientStep, Connect, Replay, HandleReady, Break, client

\* What is above a cursor stays undelivered until the cursor passes it.
LEMMA UnseenStep ==
    ASSUME TypeOK, LogFresh, OwnCursor, Unseen, [Next]_vars
    PROVE  Unseen'
<1> USE StreamAssumption
<1>1. CASE Emit
  <2> SUFFICES ASSUME NEW c \in Clients, NEW s \in 1 .. Len(log'), s > cursor'[c]
               PROVE  ~Delivered(c, s)'
    BY DEF Unseen
  <2>1. cursor' = cursor
    BY <1>1, EmitIs
  <2>2. CASE s \in 1 .. Len(log)
    <3>1. ~Delivered(c, s)
      BY <2>1, <2>2 DEF Unseen
    <3> QED BY <1>1, <2>2, <3>1, EmitDelivers
  <2>3. CASE s \notin 1 .. Len(log)
    BY <1>1, <2>3, NewEvent
  <2> QED BY <2>2, <2>3
<1>2. CASE Cleanup \/ UNCHANGED vars
  BY <1>2 DEF Cleanup, client, vars, Unseen, Delivered
<1>3. CASE Restart
  <2>1. Len(log') = 0 /\ \A i \in 1 .. 0 : FALSE
    BY <1>3 DEF Restart
  <2> QED BY <2>1 DEF Unseen
<1>4. ASSUME NEW c \in Clients, Deliver(c) PROVE Unseen'
  <2> DEFINE h == Head(queue[c])
  <2>1. /\ log' = log /\ h \in 1 .. Len(log) /\ Len(log) \in Nat
        /\ cursor' = [cursor EXCEPT ![c] = IF h > cursor[c] THEN h ELSE cursor[c]]
    BY <1>4, DeliverIs
  <2>2. cursor \in [Clients -> 0 .. MaxEvents]
    BY DEF TypeOK
  <2>3. ASSUME NEW d \in Clients, NEW s \in 1 .. Len(log), s > cursor'[d]
        PROVE  ~Delivered(d, s)'
    <3> HIDE DEF h
    <3>1. s > cursor[d] /\ (d # c \/ s # h)
      <4>1. CASE d # c
        BY <2>1, <2>2, <2>3, <4>1
      <4>2. CASE d = c
        <5>1. cursor'[c] = IF h > cursor[c] THEN h ELSE cursor[c]
          BY <2>1, <2>2
        <5>2. cursor[c] \in Nat /\ h \in Nat /\ s \in Nat
          BY <2>1, <2>2
        <5> QED BY <2>3, <4>2, <5>1, <5>2
      <4> QED BY <4>1, <4>2
    <3>2. ~Delivered(d, s)
      BY <3>1 DEF Unseen
    <3> QED BY <1>4, <3>1, <3>2, DeliversOne DEF h
  <2> QED BY <2>1, <2>3 DEF Unseen
<1>5. ASSUME NEW c \in Clients, ClientStep(c), ~Deliver(c) PROVE Unseen'
  <2>1. log' = log /\ got' = got
    BY <1>5, QuietClient
  <2>2. CASE cursor' = cursor
    BY <2>1, <2>2 DEF Unseen, Delivered
  <2>3. CASE HandleReady(c) /\ NewProcess(c) /\ cursor' = [cursor EXCEPT ![c] = 0]
    <3>1. NothingSeen(c)
      BY <2>3, DisownedSawNothing
    <3>2. \A d \in Clients : d # c => cursor'[d] = cursor[d]
      BY <2>3 DEF TypeOK
    <3> QED BY <2>1, <3>1, <3>2 DEF Unseen, Delivered, NothingSeen
  <2> QED BY <1>5, <2>2, <2>3, CursorMoves
<1> QED BY <1>1, <1>2, <1>3, <1>4, <1>5, NextCases

\* Whoever has seen an event of this process has a cursor of this process.
LEMMA OwnCursorStep ==
    ASSUME TypeOK, LogFresh, CursorOfThisProcess, OwnCursor, [Next]_vars
    PROVE  OwnCursor'
<1> USE StreamAssumption
<1>1. CASE Emit
  <2> SUFFICES ASSUME NEW c \in Clients
               PROVE  \/ NothingSeen(c)'
                      \/ cursor'[c] <= Len(log') /\ (Unanswered(c)' => cursor'[c] < anchor'[c])
    BY DEF OwnCursor
  <2>1. UNCHANGED <<phase, ready, anchor, cursor>> /\ Len(log) \in Nat
        /\ (log' = log \/ Len(log') = Len(log) + 1)
    BY <1>1, EmitIs
  <2>2. cursor[c] \in Nat
    BY DEF TypeOK
  <2>3. CASE NothingSeen(c)
    <3>1. ASSUME NEW s \in 1 .. Len(log') PROVE ~Delivered(c, s)'
      <4>1. CASE s \in 1 .. Len(log)
        BY <1>1, <2>3, <4>1, EmitDelivers DEF NothingSeen
      <4>2. CASE s \notin 1 .. Len(log)
        BY <1>1, <4>2, NewEvent
      <4> QED BY <4>1, <4>2
    <3> QED BY <3>1 DEF NothingSeen
  <2>4. CASE ~NothingSeen(c)
    <3>1. cursor[c] <= Len(log) /\ (Unanswered(c) => cursor[c] < anchor[c])
      BY <2>4 DEF OwnCursor
    <3> QED BY <2>1, <2>2, <3>1 DEF Unanswered
  <2> QED BY <2>3, <2>4
<1>2. CASE Cleanup \/ UNCHANGED vars
  BY <1>2 DEF Cleanup, client, connection, vars, OwnCursor, NothingSeen, Delivered, Unanswered
<1>3. CASE Restart
  <2>1. Len(log') = 0 /\ \A i \in 1 .. 0 : FALSE
    BY <1>3 DEF Restart
  <2> QED BY <2>1 DEF OwnCursor, NothingSeen
<1>4. ASSUME NEW c \in Clients, Deliver(c) PROVE OwnCursor'
  <2> DEFINE h == Head(queue[c])
  <2>1. /\ log' = log /\ h \in 1 .. Len(log) /\ Len(log) \in Nat
        /\ ready[c] /\ UNCHANGED <<phase, ready, anchor>>
        /\ cursor' = [cursor EXCEPT ![c] = IF h > cursor[c] THEN h ELSE cursor[c]]
        /\ got' = [got EXCEPT ![c] = got[c] \cup {log[h]}]
    BY <1>4, DeliverIs
  <2> HIDE DEF h
  <2>2. cursor \in [Clients -> 0 .. MaxEvents] /\ got \in [Clients -> SUBSET (1 .. MaxEvents)]
    BY DEF TypeOK
  <2>3. cursor'[c] <= Len(log) /\ ~Unanswered(c)'
    <3>1. cursor[c] <= Len(log) /\ h <= Len(log)
      BY <2>1 DEF CursorOfThisProcess
    <3> QED BY <2>1, <2>2, <3>1 DEF Unanswered
  <2>4. \A d \in Clients : d # c => cursor'[d] = cursor[d] /\ got'[d] = got[d]
    BY <2>1, <2>2
  <2> QED BY <2>1, <2>3, <2>4 DEF OwnCursor, NothingSeen, Delivered, Unanswered
<1>5. ASSUME NEW c \in Clients, ClientStep(c), ~Deliver(c) PROVE OwnCursor'
  <2>1. log' = log /\ got' = got /\ Len(log) \in Nat
    BY <1>5, QuietClient DEF TypeOK
  <2>2. \A d \in Clients : NothingSeen(d)' <=> NothingSeen(d)
    BY <2>1 DEF NothingSeen, Delivered
  <2>3. CASE Connect(c)
    <3>1. /\ anchor' = [anchor EXCEPT ![c] = Len(log) + 1] /\ cursor' = cursor
          /\ UNCHANGED ready /\ phase' = [phase EXCEPT ![c] = "greeting"]
      BY <2>3 DEF Connect, Accept, client
    <3>2. /\ anchor \in [Clients -> 1 .. MaxEvents + 1] /\ cursor \in [Clients -> 0 .. MaxEvents]
          /\ phase \in [Clients -> Phase]
      BY DEF TypeOK
    <3>3. anchor'[c] = Len(log) + 1 /\ cursor[c] \in Nat
          /\ \A d \in Clients : d # c => anchor'[d] = anchor[d] /\ phase'[d] = phase[d]
      BY <3>1, <3>2
    <3>4. cursor[c] <= Len(log) => cursor'[c] < anchor'[c]
      BY <2>1, <3>1, <3>3
    <3> QED BY <2>1, <2>2, <3>1, <3>3, <3>4 DEF OwnCursor, Unanswered
  <2>4. CASE Replay(c)
    <3>1. /\ UNCHANGED <<anchor, cursor, ready>> /\ phase[c] = "greeting"
          /\ phase' = [phase EXCEPT ![c] = "live"] /\ phase \in [Clients -> Phase]
      BY <2>4 DEF Replay, client, TypeOK
    <3>2. \A d \in Clients : Unanswered(d)' <=> Unanswered(d)
      BY <3>1 DEF Unanswered
    <3> QED BY <2>1, <2>2, <3>1, <3>2 DEF OwnCursor
  <2>5. CASE HandleReady(c)
    <3>1. CASE NewProcess(c)
      <4>1. NothingSeen(c)
        BY <2>5, <3>1, DisownedSawNothing
      <4>2. \A d \in Clients : d # c => /\ cursor'[d] = cursor[d] /\ phase'[d] = phase[d]
                                        /\ ready'[d] = ready[d] /\ anchor'[d] = anchor[d]
        BY <2>5, <3>1 DEF HandleReady, Drop, TypeOK
      <4> QED BY <2>1, <2>2, <4>1, <4>2 DEF OwnCursor, Unanswered
    <3>2. CASE ~NewProcess(c)
      <4>1. /\ UNCHANGED <<cursor, phase, anchor>> /\ ready' = [ready EXCEPT ![c] = TRUE]
            /\ ready \in [Clients -> BOOLEAN]
        BY <2>5, <3>2 DEF HandleReady, TypeOK
      <4>2. \A d \in Clients : Unanswered(d)' => Unanswered(d)
        BY <4>1 DEF Unanswered
      <4> QED BY <2>1, <2>2, <4>1, <4>2 DEF OwnCursor
    <3> QED BY <3>1, <3>2
  <2>6. CASE Break(c)
    <3>1. /\ cursor' = cursor /\ phase'[c] = "none"
          /\ \A d \in Clients : d # c => /\ phase'[d] = phase[d] /\ ready'[d] = ready[d]
                                         /\ anchor'[d] = anchor[d]
      BY <2>6 DEF Break, Drop, client, TypeOK
    <3> QED BY <2>1, <2>2, <3>1 DEF OwnCursor, Unanswered
  <2> QED BY <1>5, <2>3, <2>4, <2>5, <2>6 DEF ClientStep
<1> QED BY <1>1, <1>2, <1>3, <1>4, <1>5, NextCases

\* _enqueue() adds nothing of its own.
LEMMA FitHolds ==
    ASSUME NEW q \in Seq(1 .. MaxEvents), NEW i \in 1 .. Len(Fit(q))
    PROVE  Overflow(q) + i \in 1 .. Len(q) /\ Fit(q)[i] = q[Overflow(q) + i]
<1>1. Overflow(q) \in 0 .. Len(q) /\ Len(q) \in Nat
  BY StreamAssumption DEF Overflow
<1>2. Len(Fit(q)) = Len(q) - Overflow(q) /\ Fit(q)[i] = q[Overflow(q) + i]
  BY FitKeeps
<1> QED BY <1>1, <1>2

\* A queue with the new number at its end.
LEMMA QueueAppend ==
    ASSUME TypeOK, NEW c \in Clients, Len(log) + 1 \in 1 .. MaxEvents
    PROVE  LET q == Append(queue[c], Len(log) + 1)
           IN  /\ q \in Seq(1 .. MaxEvents)
               /\ \A i \in 1 .. Len(q) : \/ i \in 1 .. Len(queue[c]) /\ q[i] = queue[c][i]
                                         \/ i = Len(queue[c]) + 1 /\ q[i] = Len(log) + 1
<1> DEFINE p == queue[c]
           n == Len(log) + 1
<1>1. p \in Seq(1 .. MaxEvents) /\ n \in 1 .. MaxEvents
  BY DEF TypeOK
<1> HIDE DEF p, n
<1>2. Append(p, n) \in Seq(1 .. MaxEvents) /\ Len(Append(p, n)) = Len(p) + 1 /\ Len(p) \in Nat
      /\ \A i \in 1 .. Len(p) : Append(p, n)[i] = p[i]
      /\ Append(p, n)[Len(p) + 1] = n
  BY <1>1
<1>3. \A i \in 1 .. Len(p) + 1 : i \in 1 .. Len(p) \/ i = Len(p) + 1
  BY <1>2
<1> QED BY <1>2, <1>3 DEF p, n

\* The new number fits the bound.
LEMMA NewNumber ==
    ASSUME TypeOK, Emit
    PROVE  Len(log) + 1 \in 1 .. MaxEvents
BY StreamAssumption DEF TypeOK, Emit

\* A connection is greeted before it is given what it missed.
LEMMA GreetedStep ==
    ASSUME TypeOK, LogFresh, AnchorsFollow, Unseen, Greeted, [Next]_vars
    PROVE  Greeted'
<1> USE StreamAssumption
<1>1. CASE Emit
  <2> SUFFICES ASSUME NEW c \in Clients
               PROVE  /\ phase'[c] = "none" => queue'[c] = <<>>
                      /\ phase'[c] = "greeting" =>
                           /\ \A i \in 1 .. Len(queue'[c]) : queue'[c][i] >= anchor'[c]
                           /\ \A s \in 1 .. Len(log') :
                                since'[c] < s /\ s < anchor'[c] => ~Delivered(c, s)'
    BY DEF Greeted
  <2> DEFINE q == Append(queue[c], Len(log) + 1)
  <2>1. /\ UNCHANGED <<phase, since, anchor>> /\ Len(log) \in Nat
        /\ queue'[c] = queue[c] \/ (queue'[c] = Fit(q) /\ phase[c] # "none")
    BY <1>1, EmitIs DEF Connected
  <2>2. anchor[c] <= Len(log) + 1 /\ anchor[c] \in Nat
    BY DEF AnchorsFollow, TypeOK
  <2>3. /\ q \in Seq(1 .. MaxEvents)
        /\ \A i \in 1 .. Len(q) : \/ i \in 1 .. Len(queue[c]) /\ q[i] = queue[c][i]
                                  \/ q[i] = Len(log) + 1
    BY <1>1, NewNumber, QueueAppend
  <2> HIDE DEF q
  <2>4. phase[c] = "none" => queue'[c] = <<>>
    BY <2>1 DEF Greeted
  <2>5. ASSUME phase[c] = "greeting", NEW i \in 1 .. Len(queue'[c])
        PROVE  queue'[c][i] >= anchor[c]
    <3>1. CASE queue'[c] = queue[c]
      BY <2>5, <3>1 DEF Greeted
    <3>2. CASE queue'[c] = Fit(q)
      <4>1. Overflow(q) + i \in 1 .. Len(q) /\ queue'[c][i] = q[Overflow(q) + i]
        BY <2>3, <3>2, FitHolds
      <4> DEFINE k == Overflow(q) + i
      <4>2. k \in 1 .. Len(q) /\ queue'[c][i] = q[k]
        BY <4>1
      <4> HIDE DEF k
      <4>3. CASE k \in 1 .. Len(queue[c]) /\ q[k] = queue[c][k]
        BY <2>5, <4>2, <4>3 DEF Greeted
      <4>4. CASE q[k] = Len(log) + 1
        BY <2>1, <2>2, <4>2, <4>4
      <4> QED BY <2>3, <4>2, <4>3, <4>4
    <3> QED BY <2>1, <3>1, <3>2
  <2>6. ASSUME phase[c] = "greeting", NEW s \in 1 .. Len(log'), since[c] < s, s < anchor[c]
        PROVE  ~Delivered(c, s)'
    <3>1. CASE s \in 1 .. Len(log)
      <4>1. ~Delivered(c, s)
        BY <2>6, <3>1 DEF Greeted
      <4> QED BY <1>1, <3>1, <4>1, EmitDelivers
    <3>2. CASE s \notin 1 .. Len(log)
      BY <1>1, <3>2, NewEvent
    <3> QED BY <3>1, <3>2
  <2> QED BY <2>1, <2>4, <2>5, <2>6
<1>2. CASE Cleanup \/ UNCHANGED vars
  BY <1>2 DEF Cleanup, client, connection, vars, Greeted, Delivered
<1>3. CASE Restart
  BY <1>3 DEF Restart, All, Greeted
<1>4. ASSUME NEW c \in Clients, Deliver(c) PROVE Greeted'
  <2> DEFINE h == Head(queue[c])
  <2>1. /\ UNCHANGED <<log, phase, since, anchor>> /\ h = queue[c][1]
        /\ queue[c] \in Seq(1 .. MaxEvents) /\ queue[c] # <<>>
        /\ queue' = [queue EXCEPT ![c] = Tail(queue[c])]
        /\ queue \in [Clients -> Seq(1 .. MaxEvents)]
    BY <1>4, DeliverIs DEF TypeOK
  <2>2. ASSUME NEW d \in Clients, phase[d] = "none" PROVE queue'[d] = <<>>
    BY <2>1, <2>2 DEF Greeted
  <2>3. /\ 1 \in 1 .. Len(queue[c])
        /\ \A i \in 1 .. Len(Tail(queue[c])) :
             i + 1 \in 1 .. Len(queue[c]) /\ Tail(queue[c])[i] = queue[c][i + 1]
    <3> DEFINE p == queue[c]
    <3>1. p \in Seq(1 .. MaxEvents) /\ p # <<>>
      BY <2>1
    <3> HIDE DEF p
    <3>2. /\ 1 \in 1 .. Len(p)
          /\ \A i \in 1 .. Len(Tail(p)) : i + 1 \in 1 .. Len(p) /\ Tail(p)[i] = p[i + 1]
      BY <3>1
    <3> QED BY <3>2 DEF p
  <2>4. ASSUME NEW d \in Clients, phase[d] = "greeting", NEW i \in 1 .. Len(queue'[d])
        PROVE  queue'[d][i] >= anchor[d]
    <3>1. CASE d # c
      BY <2>1, <2>4, <3>1 DEF Greeted
    <3>2. CASE d = c
      <4>1. i + 1 \in 1 .. Len(queue[c]) /\ queue'[c][i] = queue[c][i + 1]
        BY <2>1, <2>3, <2>4, <3>2
      <4> QED BY <2>4, <3>2, <4>1 DEF Greeted
    <3> QED BY <3>1, <3>2
  <2>5. ASSUME NEW d \in Clients, phase[d] = "greeting", NEW s \in 1 .. Len(log),
               since[d] < s, s < anchor[d]
        PROVE  ~Delivered(d, s)'
    <3>1. ~Delivered(d, s)
      BY <2>5 DEF Greeted
    <3>2. d # c \/ s # h
      <4>1. SUFFICES ASSUME d = c PROVE s # h
        OBVIOUS
      <4>2. h >= anchor[c] /\ anchor[c] \in Nat /\ h \in Nat
        <5>1. h \in Nat /\ anchor[c] \in Nat
          <6>1. h \in 1 .. Len(log)
            BY <1>4, DeliverIs
          <6>2. anchor[c] \in Nat
            BY DEF TypeOK
          <6> QED BY <6>1, <6>2
        <5>2. h >= anchor[c]
          BY <2>1, <2>3, <2>5, <4>1 DEF Greeted
        <5> QED BY <5>1, <5>2
      <4> HIDE DEF h
      <4> QED BY <2>5, <4>1, <4>2
    <3> QED BY <1>4, <3>1, <3>2, DeliversOne
  <2> QED BY <2>1, <2>2, <2>4, <2>5 DEF Greeted
<1>5. ASSUME NEW c \in Clients, Connect(c) PROVE Greeted'
  <2>1. /\ UNCHANGED <<log, got, queue>> /\ queue[c] = <<>>
        /\ phase' = [phase EXCEPT ![c] = "greeting"]
        /\ since' = [since EXCEPT ![c] = cursor[c]]
        /\ anchor' = [anchor EXCEPT ![c] = Len(log) + 1]
    BY <1>5 DEF Connect, Accept, client, Greeted
  <2>2. /\ \A d \in Clients : d # c => /\ phase'[d] = phase[d] /\ since'[d] = since[d]
                                       /\ anchor'[d] = anchor[d]
        /\ phase'[c] = "greeting" /\ since'[c] = cursor[c]
        /\ cursor[c] \in Nat /\ \A i \in 1 .. Len(queue[c]) : FALSE
    <3>1. Len(queue[c]) = 0 /\ \A i \in 1 .. 0 : FALSE
      BY <2>1
    <3> QED BY <2>1, <3>1 DEF TypeOK
  <2>3. \A s \in 1 .. Len(log) : cursor[c] < s => ~Delivered(c, s)
    BY <2>2 DEF Unseen
  <2> QED BY <2>1, <2>2, <2>3 DEF Greeted, Delivered
<1>6. ASSUME NEW c \in Clients, Replay(c) PROVE Greeted'
  <2>1. /\ UNCHANGED <<log, got, since, anchor>> /\ phase' = [phase EXCEPT ![c] = "live"]
        /\ \A d \in Clients : d # c => queue'[d] = queue[d]
        /\ phase \in [Clients -> Phase]
    BY <1>6 DEF Replay, client, TypeOK
  <2>2. phase'[c] = "live" /\ \A d \in Clients : d # c => phase'[d] = phase[d]
    BY <2>1
  <2> QED BY <2>1, <2>2 DEF Greeted, Delivered
<1>7. ASSUME NEW c \in Clients, HandleReady(c) \/ Break(c) PROVE Greeted'
  <2>1. log' = log /\ got' = got
    BY <1>7 DEF HandleReady, Break, client
  <2>2. CASE UNCHANGED <<phase, since, anchor, queue>>
    BY <2>1, <2>2 DEF Greeted, Delivered
  <2>3. CASE Drop(c)
    <3>1. /\ phase'[c] = "none" /\ queue'[c] = <<>>
          /\ \A d \in Clients : d # c => /\ phase'[d] = phase[d] /\ since'[d] = since[d]
                                         /\ anchor'[d] = anchor[d] /\ queue'[d] = queue[d]
      BY <2>3 DEF Drop, TypeOK
    <3> QED BY <2>1, <3>1 DEF Greeted, Delivered
  <2> QED BY <1>7, <2>2, <2>3 DEF HandleReady, Break
<1> QED BY <1>1, <1>2, <1>3, <1>4, <1>5, <1>6, <1>7, NextCases DEF ClientStep

\* The frames below an anchor, in order and each once.
Rising(q, a) ==
    \A i \in 1 .. Len(q) : q[i] < a => \A j \in 1 .. i - 1 : q[j] < a => q[j] < q[i]

\* _enqueue() keeps their order.
LEMMA FitRising ==
    ASSUME NEW q \in Seq(1 .. MaxEvents), NEW a, Rising(q, a)
    PROVE  Rising(Fit(q), a)
<1> SUFFICES ASSUME NEW i \in 1 .. Len(Fit(q)), Fit(q)[i] < a,
                    NEW j \in 1 .. i - 1, Fit(q)[j] < a
             PROVE  Fit(q)[j] < Fit(q)[i]
  BY DEF Rising
<1> DEFINE k == Overflow(q) + i
           l == Overflow(q) + j
<1>1. k \in 1 .. Len(q) /\ Fit(q)[i] = q[k]
  BY FitHolds
<1>2. l \in 1 .. Len(q) /\ Fit(q)[j] = q[l]
  <2>1. j \in 1 .. Len(Fit(q))
    <3>1. Len(Fit(q)) \in Nat
      BY FitKeeps
    <3> QED BY <3>1
  <2> QED BY <2>1, FitHolds
<1>3. l \in 1 .. k - 1
  <2>1. Overflow(q) \in Nat
    BY StreamAssumption DEF Overflow
  <2> QED BY <1>1, <1>2, <2>1
<1> HIDE DEF k, l
<1> QED BY <1>1, <1>2, <1>3 DEF Rising

\* So does the replay: all it adds comes behind what was broadcast meanwhile.
LEMMA ReplayRising ==
    ASSUME NEW p \in Seq(1 .. MaxEvents), NEW more \in Seq(1 .. MaxEvents), NEW a \in Nat,
           \A i \in 1 .. Len(p) : p[i] >= a,
           \A i \in 1 .. Len(more) : \A j \in 1 .. i - 1 : more[j] < more[i]
    PROVE  /\ p \o more \in Seq(1 .. MaxEvents) /\ Rising(p \o more, a)
           /\ \A i \in 1 .. Len(p \o more) : (p \o more)[i] < a =>
                \E k \in 1 .. Len(more) : (p \o more)[i] = more[k]
<1> USE StreamAssumption
<1> DEFINE q == p \o more
<1>1. /\ q \in Seq(1 .. MaxEvents) /\ Len(q) = Len(p) + Len(more)
      /\ Len(p) \in Nat /\ Len(more) \in Nat
      /\ \A i \in 1 .. Len(p) : q[i] = p[i]
      /\ \A i \in 1 .. Len(q) : i > Len(p) => i - Len(p) \in 1 .. Len(more)
                                              /\ q[i] = more[i - Len(p)]
  OBVIOUS
<1>2. \A i \in 1 .. Len(p) : p[i] \in Nat /\ ~(p[i] < a)
  <2>1. \A i \in 1 .. Len(p) : p[i] \in 1 .. MaxEvents
    OBVIOUS
  <2> QED BY <2>1
<1> HIDE DEF q
<1>3. ASSUME NEW i \in 1 .. Len(q), q[i] < a PROVE i > Len(p)
  <2>1. SUFFICES ASSUME ~(i > Len(p)) PROVE FALSE
    OBVIOUS
  <2>2. i \in 1 .. Len(p)
    BY <1>1, <2>1
  <2> QED BY <1>1, <1>2, <1>3, <2>2
<1>4. Rising(q, a)
  <2> SUFFICES ASSUME NEW i \in 1 .. Len(q), q[i] < a, NEW j \in 1 .. i - 1, q[j] < a
               PROVE  q[j] < q[i]
    BY DEF Rising
  <2>1. j \in 1 .. Len(q)
    BY <1>1
  <2>2. i > Len(p) /\ j > Len(p)
    BY <1>3, <2>1
  <2> DEFINE k == i - Len(p)
             l == j - Len(p)
  <2>3. k \in 1 .. Len(more) /\ q[i] = more[k] /\ l \in 1 .. Len(more) /\ q[j] = more[l]
    BY <1>1, <2>1, <2>2
  <2>4. l \in 1 .. k - 1
    BY <1>1, <2>2, <2>3
  <2> HIDE DEF k, l
  <2> QED BY <2>3, <2>4
<1>5. ASSUME NEW i \in 1 .. Len(q), q[i] < a
      PROVE  \E k \in 1 .. Len(more) : q[i] = more[k]
  BY <1>1, <1>3, <1>5
<1> QED BY <1>1, <1>4, <1>5 DEF q

\* The ring is in order, and all above the cursor.
LEMMA AboveRising ==
    ASSUME TypeOK, NEW from \in Nat
    PROVE  \A i \in 1 .. Len(Above(from)) :
             /\ Above(from)[i] \in 1 .. Len(log) /\ from < Above(from)[i]
             /\ \A j \in 1 .. i - 1 : Above(from)[j] < Above(from)[i]
<1> DEFINE first == IF from > RingStart THEN from ELSE RingStart
           n == IF Len(log) > first THEN Len(log) - first ELSE 0
<1>1. Len(log) \in Nat
  BY DEF TypeOK
<1>2. first \in Nat /\ n \in Nat /\ from <= first
  BY <1>1, StreamAssumption DEF RingStart
<1>3. Above(from) = [i \in 1 .. n |-> first + i]
  <2>1. 1 .. Len(log) - first = 1 .. n
    BY <1>1, <1>2
  <2> QED BY <2>1 DEF Above
<1>4. \A i \in 1 .. n : first + i \in 1 .. Len(log)
  BY <1>1, <1>2
<1> HIDE DEF first, n
<1>5. Len(Above(from)) = n /\ \A i \in 1 .. n : Above(from)[i] = first + i
  BY <1>2, <1>3
<1>6. ASSUME NEW i \in 1 .. n
      PROVE  /\ first + i \in 1 .. Len(log) /\ from < first + i
             /\ \A j \in 1 .. i - 1 : j \in 1 .. n /\ first + j < first + i
  BY <1>2, <1>4
<1> QED BY <1>5, <1>6

Missed(c, q) ==
    /\ \A i \in 1 .. Len(q) : q[i] < anchor[c] => ~Delivered(c, q[i])
    /\ Rising(q, anchor[c])

\* The property, client by client.
LEMMA MissedIs == MissedOnceInOrder <=> \A c \in Clients : Missed(c, queue[c])
BY DEF MissedOnceInOrder, Missed, Rising

\* What _enqueue() leaves of such a queue is such a queue.
LEMMA FitMissed ==
    ASSUME NEW c \in Clients, NEW q \in Seq(1 .. MaxEvents), Missed(c, q)
    PROVE  Missed(c, Fit(q))
<1>1. Rising(Fit(q), anchor[c])
  BY FitRising DEF Missed
<1>2. ASSUME NEW i \in 1 .. Len(Fit(q)), Fit(q)[i] < anchor[c]
      PROVE  ~Delivered(c, Fit(q)[i])
  <2> DEFINE k == Overflow(q) + i
  <2>1. k \in 1 .. Len(q) /\ Fit(q)[i] = q[k]
    BY FitHolds
  <2> HIDE DEF k
  <2> QED BY <1>2, <2>1 DEF Missed
<1> QED BY <1>1, <1>2 DEF Missed

\* A broadcast adds nothing below the anchor.
LEMMA EmitMissed ==
    ASSUME TypeOK, AnchorsFollow, MissedOnceInOrder, Emit
    PROVE  MissedOnceInOrder'
<1> SUFFICES ASSUME NEW c \in Clients PROVE Missed(c, queue[c])'
  BY MissedIs DEF MissedOnceInOrder, Missed, Rising
<1>1. Missed(c, queue[c])
  BY MissedIs
<1> DEFINE q == Append(queue[c], Len(log) + 1)
<1>2. /\ anchor' = anchor /\ Len(log) \in Nat /\ \A s \in 1 .. Len(log) : Delivered(c, s)' <=> Delivered(c, s)
      /\ queue'[c] = queue[c] \/ queue'[c] = Fit(q)
  BY EmitIs, EmitDelivers
<1>3. anchor[c] <= Len(log) + 1 /\ anchor[c] \in Nat
      /\ queue[c] \in Seq(1 .. MaxEvents)
      /\ \A i \in 1 .. Len(queue[c]) : queue[c][i] <= Len(log)
  BY DEF AnchorsFollow, TypeOK
<1>4. /\ q \in Seq(1 .. MaxEvents)
      /\ \A i \in 1 .. Len(q) : \/ i \in 1 .. Len(queue[c]) /\ q[i] = queue[c][i]
                                \/ i = Len(queue[c]) + 1 /\ q[i] = Len(log) + 1
  BY NewNumber, QueueAppend
<1> HIDE DEF q
<1>5. ASSUME NEW i \in 1 .. Len(q), q[i] < anchor[c]
      PROVE  i \in 1 .. Len(queue[c]) /\ q[i] = queue[c][i]
  BY <1>2, <1>3, <1>4, <1>5
<1>6. Rising(q, anchor[c])
  <2> SUFFICES ASSUME NEW i \in 1 .. Len(q), q[i] < anchor[c],
                      NEW j \in 1 .. i - 1, q[j] < anchor[c]
               PROVE  q[j] < q[i]
    BY DEF Rising
  <2>1. j \in 1 .. Len(q)
    <3>1. Len(q) \in Nat
      BY <1>4
    <3> QED BY <3>1
  <2> QED BY <1>1, <1>5, <2>1 DEF Missed, Rising
<1>7. Missed(c, q)
  BY <1>1, <1>5, <1>6 DEF Missed
<1>8. Missed(c, queue'[c])
  BY <1>1, <1>2, <1>4, <1>7, FitMissed
<1>9. ASSUME NEW i \in 1 .. Len(queue'[c]), queue'[c][i] < anchor[c]
      PROVE  queue'[c][i] \in 1 .. Len(log)
  <2>1. \A k \in 1 .. Len(queue[c]) : queue[c][k] \in 1 .. Len(log)
    BY <1>2, <1>3, StreamAssumption
  <2>2. CASE queue'[c] = queue[c]
    BY <2>1, <2>2
  <2>3. CASE queue'[c] = Fit(q)
    <3> DEFINE k == Overflow(q) + i
    <3>1. k \in 1 .. Len(q) /\ queue'[c][i] = q[k]
      BY <1>4, <2>3, FitHolds
    <3> HIDE DEF k
    <3> QED BY <1>5, <1>9, <2>1, <3>1
  <2> QED BY <1>2, <2>2, <2>3
<1> QED BY <1>2, <1>8, <1>9 DEF Missed

\* The replay adds what has not been delivered, in order.
LEMMA ReplayMissed ==
    ASSUME TypeOK, Greeted, MissedOnceInOrder, NEW c \in Clients, Replay(c)
    PROVE  MissedOnceInOrder'
<1> SUFFICES ASSUME NEW d \in Clients PROVE Missed(d, queue[d])'
  BY MissedIs DEF MissedOnceInOrder, Missed, Rising
<1>1. /\ UNCHANGED <<log, got, anchor, since>> /\ phase[c] = "greeting"
      /\ Missed(d, queue[d])
  BY MissedIs DEF Replay, client
<1>2. CASE d # c \/ since[c] = 0
  <2>1. queue'[d] = queue[d]
    BY <1>2 DEF Replay, TypeOK
  <2> QED BY <1>1, <2>1 DEF Missed, Delivered
<1>3. CASE d = c /\ since[c] # 0
  <2> DEFINE p == queue[c]
             more == Above(since[c])
  <2>1. queue'[c] = Fit(p \o more)
    BY <1>3 DEF Replay, TypeOK
  <2>2. since[c] \in Nat /\ anchor[c] \in Nat /\ p \in Seq(1 .. MaxEvents)
    BY StreamAssumption DEF TypeOK
  <2>3. \A i \in 1 .. Len(p) : p[i] >= anchor[c]
    BY <1>1 DEF Greeted
  <2>4. /\ more \in Seq(1 .. MaxEvents)
        /\ \A i \in 1 .. Len(more) : /\ more[i] \in 1 .. Len(log) /\ since[c] < more[i]
                                     /\ \A j \in 1 .. i - 1 : more[j] < more[i]
    BY <2>2, AboveIs, AboveRising
  <2>5. \A i \in 1 .. Len(more) : more[i] < anchor[c] => ~Delivered(c, more[i])
    BY <1>1, <2>4 DEF Greeted
  <2> HIDE DEF p, more
  <2>6. /\ p \o more \in Seq(1 .. MaxEvents) /\ Rising(p \o more, anchor[c])
        /\ \A i \in 1 .. Len(p \o more) : (p \o more)[i] < anchor[c] =>
             \E k \in 1 .. Len(more) : (p \o more)[i] = more[k]
    BY <2>2, <2>3, <2>4, ReplayRising
  <2>7. Missed(c, p \o more)
    BY <2>5, <2>6 DEF Missed
  <2>8. Missed(c, queue'[c])
    BY <2>1, <2>6, <2>7, FitMissed
  <2> QED BY <1>1, <1>3, <2>8 DEF Missed, Delivered
<1> QED BY <1>2, <1>3

\* A delivery takes the first of them, which the others are not.
LEMMA DeliverMissed ==
    ASSUME TypeOK, LogFresh, MissedOnceInOrder, NEW c \in Clients, Deliver(c)
    PROVE  MissedOnceInOrder'
<1> SUFFICES ASSUME NEW d \in Clients PROVE Missed(d, queue[d])'
  BY MissedIs DEF MissedOnceInOrder, Missed, Rising
<1> DEFINE h == Head(queue[c])
           p == queue[c]
<1>1. /\ UNCHANGED <<log, anchor>> /\ h \in 1 .. Len(log) /\ h = p[1]
      /\ p \in Seq(1 .. MaxEvents) /\ p # <<>>
      /\ queue' = [queue EXCEPT ![c] = Tail(p)]
      /\ queue \in [Clients -> Seq(1 .. MaxEvents)]
  BY DeliverIs DEF TypeOK
<1>2. /\ queue[d] \in Seq(1 .. MaxEvents) /\ Missed(d, queue[d])
      /\ anchor[d] \in Nat
      /\ \A i \in 1 .. Len(queue[d]) : queue[d][i] \in 1 .. Len(log)
  <2>1. Missed(d, queue[d])
    BY MissedIs
  <2>2. /\ queue[d] \in Seq(1 .. MaxEvents) /\ Len(log) \in Nat
        /\ \A i \in 1 .. Len(queue[d]) : queue[d][i] <= Len(log)
    BY DEF TypeOK
  <2>3. anchor[d] \in Nat
    BY StreamAssumption DEF TypeOK
  <2> QED BY <2>1, <2>2, <2>3, StreamAssumption
<1>3. CASE d # c
  <2>1. queue'[d] = queue[d] /\ anchor' = anchor
    BY <1>1, <1>3
  <2>2. \A s \in 1 .. Len(log) : ~Delivered(d, s) => ~Delivered(d, s)'
    BY <1>3, DeliversOne
  <2> QED BY <1>2, <2>1, <2>2 DEF Missed
<1>4. CASE d = c
  <2> HIDE DEF p
  <2>1. /\ 1 \in 1 .. Len(p) /\ Len(p) \in Nat
        /\ \A i \in 1 .. Len(Tail(p)) : i + 1 \in 1 .. Len(p) /\ Tail(p)[i] = p[i + 1]
    BY <1>1
  <2>2. queue'[d] = Tail(p) /\ anchor' = anchor
    BY <1>1, <1>4
  <2>3. ASSUME NEW i \in 1 .. Len(Tail(p)), Tail(p)[i] < anchor[c]
        PROVE  log'[Tail(p)[i]] \notin got'[c]
    <3>0. Tail(p)[i] \in 1 .. Len(log)
      BY <1>2, <1>4, <2>1 DEF p
    <3> PICK s \in 1 .. Len(log) : s = Tail(p)[i]
      BY <3>0
    <3>1. s = p[i + 1] /\ i + 1 \in 1 .. Len(p) /\ 1 \in 1 .. (i + 1) - 1
      BY <2>1
    <3>2. s \in 1 .. Len(log) /\ ~Delivered(c, s)
      BY <1>2, <1>4, <2>3, <3>1 DEF Missed, p
    <3>3. s # h
      <4>1. SUFFICES ASSUME s = h PROVE FALSE
        OBVIOUS
      <4>2. h < anchor[c] /\ p[i + 1] < anchor[c] /\ Rising(p, anchor[c])
        BY <1>2, <1>4, <2>3, <3>1, <4>1 DEF Missed, p
      <4> DEFINE k == i + 1
      <4>3. k \in 1 .. Len(p) /\ 1 \in 1 .. k - 1 /\ p[k] < anchor[c] /\ p[1] < anchor[c]
        BY <1>1, <3>1, <4>2
      <4> HIDE DEF k
      <4>4. p[1] < p[k]
        BY <4>2, <4>3 DEF Rising
      <4>5. p[1] = h /\ p[k] = h
        BY <1>1, <3>1, <4>1 DEF k
      <4>6. h \in Nat
        BY <1>1
      <4> HIDE DEF h
      <4> QED BY <4>4, <4>5, <4>6
    <3> HIDE DEF h
    <3>4. ~Delivered(c, s)'
      BY <3>2, <3>3, DeliversOne DEF h
    <3> QED BY <3>4 DEF Delivered
  <2>4. Rising(Tail(p), anchor[c])
    <3> SUFFICES ASSUME NEW i \in 1 .. Len(Tail(p)), Tail(p)[i] < anchor[c],
                        NEW j \in 1 .. i - 1, Tail(p)[j] < anchor[c]
                 PROVE  Tail(p)[j] < Tail(p)[i]
      BY DEF Rising
    <3> DEFINE k == i + 1
               l == j + 1
    <3>1. k \in 1 .. Len(p) /\ Tail(p)[i] = p[k]
      BY <2>1
    <3>2. j \in 1 .. Len(Tail(p)) /\ l \in 1 .. k - 1
      <4>1. Len(Tail(p)) \in Nat
        BY <1>1
      <4> QED BY <4>1
    <3>3. Tail(p)[j] = p[l]
      BY <2>1, <3>2
    <3> HIDE DEF k, l
    <3>4. Rising(p, anchor[c])
      BY <1>2, <1>4 DEF Missed, p
    <3> QED BY <3>1, <3>2, <3>3, <3>4 DEF Rising
  <2> QED BY <1>4, <2>2, <2>3, <2>4 DEF Missed, Delivered
<1> QED BY <1>3, <1>4

\* The invariant of what was missed is kept by every step.
LEMMA MissedStep ==
    ASSUME TypeOK, LogFresh, AnchorsFollow, Greeted, MissedOnceInOrder, [Next]_vars
    PROVE  MissedOnceInOrder'
<1>1. CASE Emit
  BY <1>1, EmitMissed
<1>2. CASE Cleanup \/ UNCHANGED vars
  BY <1>2 DEF Cleanup, client, connection, vars, MissedOnceInOrder, Delivered
<1>3. CASE Restart
  <2>1. \A c \in Clients : queue'[c] = <<>>
    BY <1>3 DEF Restart, All
  <2>2. \A c \in Clients : \A i \in 1 .. Len(queue'[c]) : FALSE
    <3>1. Len(<<>>) = 0 /\ \A i \in 1 .. 0 : FALSE
      OBVIOUS
    <3> QED BY <2>1, <3>1
  <2> QED BY <2>2 DEF MissedOnceInOrder
<1>4. ASSUME NEW c \in Clients, Connect(c) PROVE MissedOnceInOrder'
  <2>1. /\ UNCHANGED <<log, got, queue>> /\ queue[c] = <<>>
        /\ anchor' = [anchor EXCEPT ![c] = Len(log) + 1]
    BY <1>4 DEF Connect, Accept, client, Greeted
  <2>2. /\ \A d \in Clients : d # c => anchor'[d] = anchor[d]
        /\ \A i \in 1 .. Len(queue[c]) : FALSE
    <3>1. Len(queue[c]) = 0 /\ \A i \in 1 .. 0 : FALSE
      BY <2>1
    <3> QED BY <2>1, <3>1 DEF TypeOK
  <2> QED BY <2>1, <2>2 DEF MissedOnceInOrder, Delivered
<1>5. ASSUME NEW c \in Clients, HandleReady(c) \/ Break(c) PROVE MissedOnceInOrder'
  <2>1. log' = log /\ got' = got
    BY <1>5 DEF HandleReady, Break, client
  <2>2. CASE UNCHANGED <<anchor, queue>>
    BY <2>1, <2>2 DEF MissedOnceInOrder, Delivered
  <2>3. CASE Drop(c)
    <3>1. /\ \A d \in Clients : d # c => anchor'[d] = anchor[d] /\ queue'[d] = queue[d]
          /\ \A i \in 1 .. Len(queue'[c]) : FALSE
      <4>1. queue'[c] = <<>> /\ Len(<<>>) = 0 /\ \A i \in 1 .. 0 : FALSE
        BY <2>3 DEF Drop, TypeOK
      <4> QED BY <2>3, <4>1 DEF Drop, TypeOK
    <3> QED BY <2>1, <3>1 DEF MissedOnceInOrder, Delivered
  <2> QED BY <1>5, <2>2, <2>3 DEF HandleReady, Break
<1>6. ASSUME NEW c \in Clients, Replay(c) \/ Deliver(c) PROVE MissedOnceInOrder'
  BY <1>6, ReplayMissed, DeliverMissed
<1> QED BY <1>1, <1>2, <1>3, <1>4, <1>5, <1>6, NextCases DEF ClientStep

\* What a client missed is replayed to it in order, and nothing of it twice,
\* however often it reconnects and the process restarts.
THEOREM MissedOnceInOrderHolds == Spec => []MissedOnceInOrder
<1> DEFINE I == LogFresh /\ Unseen /\ OwnCursor /\ Greeted /\ MissedOnceInOrder
<1>1. Init => I
  <2> SUFFICES ASSUME Init PROVE I
    OBVIOUS
  <2>1. /\ Len(log) = 0 /\ \A i \in 1 .. 0 : FALSE
        /\ \A c \in Clients : got[c] = {} /\ phase[c] = "none" /\ queue[c] = <<>>
                              /\ Len(queue[c]) = 0
    BY DEF Init, All
  <2> QED BY <2>1 DEF LogFresh, Unseen, OwnCursor, NothingSeen, Greeted, MissedOnceInOrder
<1>2. TypeOK /\ AnchorsFollow /\ CursorOfThisProcess /\ I /\ [Next]_vars => I'
  BY LogFreshStep, UnseenStep, OwnCursorStep, GreetedStep, MissedStep
<1>3. I => MissedOnceInOrder
  OBVIOUS
<1> QED BY <1>1, <1>2, <1>3, TypeCorrect, AnchorsHold, CursorHolds, PTL DEF Spec
=============================================================================
