----------------------------- MODULE EventStream -----------------------------
(***************************************************************************)
(* The event stream between the agent and its web clients: _WSManager of   *)
(* src/agent/minimax_code/http_server.py and the WebSocket half of         *)
(* src/web/src/ipc/client.ts.                                              *)
(*                                                                         *)
(* Every broadcast event is stamped with the next number of this process,  *)
(* kept in a ring and put in the queue of every open connection, where the *)
(* oldest entry gives way when it is full.  A client remembers the highest *)
(* number it has seen and names it when it connects again; the server then *)
(* replays what the ring still holds above it.  The numbers of a restarted *)
(* process begin again.                                                    *)
(*                                                                         *)
(* A client has at most one connection, so the server's state of it is     *)
(* kept by client.  A connection whose peer is gone stays registered until *)
(* a send, the receive loop or the heartbeat fails; nothing of it matters  *)
(* but that it keeps the listener registered, so `ghosts` counts them.     *)
(*                                                                         *)
(* A frame is its number.  Sending and handling one is one step: what is   *)
(* on the wire when a connection breaks is lost exactly as what is queued. *)
(* The only order kept there is that agent.ready comes first.              *)
(***************************************************************************)
EXTENDS Integers, Sequences

CONSTANTS
    Clients,
    RingSize,    \* deque(maxlen=512)
    QueueDepth,  \* _max_queue_depth = 256
    MaxEvents,   \* bound: events published
    MaxBreaks,   \* bound: connections lost
    MaxRestarts  \* bound: restarts of the agent

ASSUME StreamAssumption ==
    /\ RingSize \in Nat \ {0} /\ QueueDepth \in Nat \ {0}
    /\ MaxEvents \in Nat /\ MaxBreaks \in Nat /\ MaxRestarts \in Nat

VARIABLES
    published, \* events the handlers have emitted
    log,       \* the events stamped by this process: event log[s] has number s
    listening, \* the manager's listener is registered with the IPCServer
    ghosts,    \* connections in _clients whose peer is gone
    phase,     \* of each client's connection, as the server has it
    since,     \* the cursor it was opened with, 0 for none
    anchor,    \* next_seq of its agent.ready
    queue,     \* its send queue
    skipped,   \* numbers that backpressure or the ring withheld from it
    ready,     \* the client has handled that connection's agent.ready
    cursor,    \* wsLastSeq
    got,       \* the events the client's listeners were called with
    breaks, restarts

connection == <<phase, since, anchor, queue, skipped, ready>>
client == <<cursor, got>>
bounds == <<breaks, restarts>>
vars == <<published, log, listening, ghosts, connection, client, bounds>>

\* "greeting": registered, agent.ready is being sent; "live": replay is done.
Phase == {"none", "greeting", "live"}
ConnectedOnceLive == {c \in Clients : phase[c] = "live"}
Connected == {c \in Clients : phase[c] # "none"}

\* Type invariant.  Numbers stay within what this process has stamped and queues
\* within their depth.
TypeOK ==
    /\ published \in 0 .. MaxEvents
    /\ log \in Seq(1 .. MaxEvents) /\ Len(log) <= published
    /\ listening \in BOOLEAN /\ ghosts \in Nat
    /\ phase \in [Clients -> Phase]
    /\ since \in [Clients -> 0 .. MaxEvents]
    /\ anchor \in [Clients -> 1 .. MaxEvents + 1]
    /\ queue \in [Clients -> Seq(1 .. MaxEvents)]
    /\ \A c \in Clients :
        /\ Len(queue[c]) <= QueueDepth
        /\ \A i \in 1 .. Len(queue[c]) : queue[c][i] <= Len(log)
    /\ skipped \in [Clients -> SUBSET (1 .. MaxEvents)]
    /\ ready \in [Clients -> BOOLEAN]
    /\ cursor \in [Clients -> 0 .. MaxEvents]
    /\ got \in [Clients -> SUBSET (1 .. MaxEvents)]
    /\ breaks \in 0 .. MaxBreaks /\ restarts \in 0 .. MaxRestarts

All(v) == [c \in Clients |-> v]

Init ==
    /\ published = 0 /\ log = <<>> /\ listening = FALSE /\ ghosts = 0
    /\ phase = All("none") /\ since = All(0) /\ anchor = All(1)
    /\ queue = All(<<>>) /\ skipped = All({}) /\ ready = All(FALSE)
    /\ cursor = All(0) /\ got = All({})
    /\ breaks = 0 /\ restarts = 0

-----------------------------------------------------------------------------
(* _WSManager *)

\* _enqueue(), for a run of frames: what does not fit is dropped oldest first.
Overflow(q) == IF Len(q) > QueueDepth THEN Len(q) - QueueDepth ELSE 0
FitUnbounded(q) == q
FitDroppingNewest(q) == SubSeq(q, 1, Len(q) - Overflow(q))
Fit(q) == SubSeq(q, Overflow(q) + 1, Len(q))
Dropped(q) == {q[i] : i \in 1 .. Overflow(q)}

\* The history ring: the numbers above RingStart.
RingStart == IF Len(log) > RingSize THEN Len(log) - RingSize ELSE 0
AboveInclusive(from) == LET first == IF from > RingStart THEN from ELSE RingStart
                        IN [i \in 1 .. Len(log) - first + 1 |-> first + i - 1]
Above(from) == LET first == IF from > RingStart THEN from ELSE RingStart
               IN [i \in 1 .. Len(log) - first |-> first + i]

\* on_connect() up to the point where agent.ready is on its way.
Accept(c) ==
    /\ phase' = [phase EXCEPT ![c] = "greeting"]
    /\ since' = [since EXCEPT ![c] = cursor[c]]
    /\ anchor' = [anchor EXCEPT ![c] = Len(log) + 1]
    /\ listening' = TRUE

\* The rest of on_connect(): the ring above the cursor goes into the queue,
\* behind whatever was broadcast while agent.ready was being sent.
Replay(c) ==
    /\ phase[c] = "greeting"
    /\ phase' = [phase EXCEPT ![c] = "live"]
    /\ IF since[c] = 0 THEN UNCHANGED <<queue, skipped>>
       ELSE LET all == queue[c] \o Above(since[c])
            IN /\ queue' = [queue EXCEPT ![c] = Fit(all)]
               /\ skipped' = [skipped EXCEPT
                    ![c] = @ \cup Dropped(all) \cup (since[c] + 1 .. RingStart)]
    /\ UNCHANGED <<published, log, listening, ghosts, since, anchor, ready,
                   client, bounds>>

\* _on_event(): stamp, keep, fan out.
Broadcast(e) ==
    LET more(c) == Append(queue[c], Len(log) + 1)
    IN /\ log' = Append(log, e)
       /\ queue' = [c \in Clients |->
            IF c \in Connected THEN Fit(more(c)) ELSE queue[c]]
       /\ skipped' = [c \in Clients |->
            IF c \in Connected THEN skipped[c] \cup Dropped(more(c))
                               ELSE skipped[c]]

\* A handler emits an event.  Nobody listens while no client is registered.
Emit ==
    /\ published < MaxEvents /\ published' = published + 1
    /\ IF listening THEN Broadcast(published + 1)
                    ELSE UNCHANGED <<log, queue, skipped>>
    /\ UNCHANGED <<listening, ghosts, phase, since, anchor, ready, client, bounds>>

\* _cleanup_disconnect(): the last registered connection takes the listener with it.
CleanupOfTheLastGhost ==
    /\ ghosts > 0 /\ ghosts' = ghosts - 1
    /\ listening' = (ghosts > 1)
    /\ UNCHANGED <<published, log, connection, client, bounds>>

Cleanup ==
    /\ ghosts > 0 /\ ghosts' = ghosts - 1
    /\ listening' = (ghosts > 1 \/ Connected # {})
    /\ UNCHANGED <<published, log, connection, client, bounds>>

-----------------------------------------------------------------------------
(* IPCClient *)

\* The peer of a connection goes; the server has not noticed yet.
Drop(c) ==
    /\ phase' = [phase EXCEPT ![c] = "none"] /\ since' = [since EXCEPT ![c] = 0]
    /\ anchor' = [anchor EXCEPT ![c] = 1] /\ queue' = [queue EXCEPT ![c] = <<>>]
    /\ skipped' = [skipped EXCEPT ![c] = {}] /\ ready' = [ready EXCEPT ![c] = FALSE]
    /\ ghosts' = ghosts + 1

\* connectWs(): the first one, and the reconnects of the timer.
Connect(c) ==
    /\ phase[c] = "none"
    /\ Accept(c)
    /\ UNCHANGED <<published, log, ghosts, queue, skipped, ready, client, bounds>>

\* agent.ready: a number at or behind the cursor tells that the process is new.
NewProcessStrictly(c) == anchor[c] < cursor[c]
NewProcess(c) == anchor[c] <= cursor[c]

HandleReady(c) ==
    /\ phase[c] # "none" /\ ~ready[c]
    /\ IF NewProcess(c)
       THEN cursor' = [cursor EXCEPT ![c] = 0] /\ Drop(c)
       ELSE /\ ready' = [ready EXCEPT ![c] = TRUE]
            /\ UNCHANGED <<cursor, phase, since, anchor, queue, skipped, ghosts>>
    /\ UNCHANGED <<published, log, listening, got, bounds>>

DeliverConsecutive(c) ==
    /\ ready[c] /\ queue[c] # <<>> /\ Head(queue[c]) <= cursor[c] + 1
    /\ LET s == Head(queue[c])
       IN /\ queue' = [queue EXCEPT ![c] = Tail(@)]
          /\ cursor' = [cursor EXCEPT ![c] = IF s > @ THEN s ELSE @]
          /\ got' = [got EXCEPT ![c] = @ \cup {log[s]}]
    /\ UNCHANGED <<published, log, listening, ghosts, phase, since, anchor,
                   skipped, ready, bounds>>

\* The sender of the connection sends its next frame and handleEnvelope() takes
\* it: the cursor only rises, the listeners are called whatever the number.
Deliver(c) ==
    /\ ready[c] /\ queue[c] # <<>>
    /\ LET s == Head(queue[c])
       IN /\ queue' = [queue EXCEPT ![c] = Tail(@)]
          /\ cursor' = [cursor EXCEPT ![c] = IF s > @ THEN s ELSE @]
          /\ got' = [got EXCEPT ![c] = @ \cup {log[s]}]
    /\ UNCHANGED <<published, log, listening, ghosts, phase, since, anchor,
                   skipped, ready, bounds>>

-----------------------------------------------------------------------------
(* The network and the process *)

Break(c) ==
    /\ breaks < MaxBreaks /\ breaks' = breaks + 1
    /\ phase[c] # "none" /\ Drop(c)
    /\ UNCHANGED <<published, log, listening, client, restarts>>

\* A new process: numbers begin again, the clients keep their cursors.
Restart ==
    /\ restarts < MaxRestarts /\ restarts' = restarts + 1
    /\ log' = <<>> /\ listening' = FALSE /\ ghosts' = 0
    /\ phase' = All("none") /\ since' = All(0) /\ anchor' = All(1)
    /\ queue' = All(<<>>) /\ skipped' = All({}) /\ ready' = All(FALSE)
    /\ UNCHANGED <<published, client, breaks>>

Next ==
    \/ Emit \/ Cleanup \/ Restart
    \/ \E c \in Clients :
        Connect(c) \/ Replay(c) \/ HandleReady(c) \/ Deliver(c) \/ Break(c)

Spec == Init /\ [][Next]_vars

\* Senders, timers and the disconnect handling run; events, breaks and restarts
\* are nobody's duty.
FairSpec ==
    /\ Spec /\ WF_vars(Cleanup)
    /\ \A c \in Clients : /\ WF_vars(Connect(c)) /\ WF_vars(Replay(c))
                          /\ WF_vars(HandleReady(c)) /\ WF_vars(Deliver(c))

-----------------------------------------------------------------------------
(* What the stream promises *)

Base(c) == IF since[c] = 0 THEN anchor[c] - 1 ELSE since[c]
Queued(c) == {queue[c][i] : i \in 1 .. Len(queue[c])}
Delivered(c, s) == log[s] \in got[c]

\* While a client is connected its events are listened to, whichever connections
\* come and go beside it.
ConnectedAreHeard == Connected # {} => listening

\* Once a connection is live, every event above its cursor has been delivered or
\* is queued for it, whichever of on_connect() and _on_event() saw it first,
\* unless the ring had forgotten it or backpressure dropped it.
ResumeHasNoGap ==
    \A c \in Clients : phase[c] = "live" =>
        \A s \in 1 .. Len(log) : s > Base(c) =>
            Delivered(c, s) \/ s \in Queued(c) \/ s \in skipped[c]

\* Backpressure costs old events, never the newest: whatever _enqueue() drops,
\* the last broadcast reaches every connection that was open for it.
NewestIsKept ==
    \A c \in Connected : Len(log) >= anchor[c] =>
        Delivered(c, Len(log)) \/ Len(log) \in Queued(c)

\* What a client missed while it was away comes in order and once.  (An event
\* broadcast while agent.ready is being sent may come twice: live and replayed.)
MissedOnceInOrder ==
    \A c \in Clients : \A i \in 1 .. Len(queue[c]) : queue[c][i] < anchor[c] =>
        /\ ~Delivered(c, queue[c][i])
        /\ \A j \in 1 .. i - 1 :
            queue[c][j] < anchor[c] => queue[c][j] < queue[c][i]

\* The epoch check of agent.ready: behind it a cursor is a number this process
\* has stamped, so that no later reconnect asks for the future.
CursorOfThisProcess == \A c \in Clients : ready[c] => cursor[c] <= Len(log)

CaughtUp(c) == phase[c] = "live" /\ ready[c] /\ queue[c] = <<>>

\* Breaks and restarts end some time; then every client is connected for good
\* (the epoch check does not make it reconnect for ever) and has been sent all.
StreamSettles == <>[](\A c \in Clients : CaughtUp(c))
=============================================================================
