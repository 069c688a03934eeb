---------------------------- MODULE AgentTurnProofs ----------------------------
(***************************************************************************)
(* Proofs about AgentTurn for every budget, batch, path and history.       *)
(*                                                                         *)
(* TypeOK is inductive once the event counters are tied to the state of    *)
(* the call they count for (Counted), and the hooks to the program counter *)
(* (Unfired).  The two lock properties follow from one invariant: a        *)
(* running write holds the lock of its path (Holds), and a running call    *)
(* belongs to the execution phase, where no call becomes ready any more    *)
(* (Phased), where WritesInCallOrder is inductive.                         *)
(*                                                                         *)
(* HistoryPaired is not inductive, since inside a batch the list is not    *)
(* paired: what every step keeps is that it becomes so by appending the    *)
(* results that are still owed (Settled).  A turn that raises takes its list with it.                                  *)
(***************************************************************************)
EXTENDS AgentTurn, TLAPS

\* What has been reported of a call that has not settled.
Counted ==
    \A i \in Slots :
        /\ st[i] \in {"todo", "taken"} => called[i] = 0
        /\ st[i] \in {"consent", "ready", "running", "waiting_user"} => called[i] = 1
        /\ st[i] \notin {"silent", "done"} => resulted[i] = 0 /\ audited[i] = 0

Unfired == ~Over => fired = << >>

TypeInv == TypeOK /\ Counted /\ Unfired

Holds == \A i \in Calls : (st[i] = "running" /\ IsWrite(i)) => holder[batch[i].path] = i

Phased == \A i \in Slots : st[i] = "running" => Executing /\ i \in Calls

LockInv == TypeOK /\ Holds /\ Phased /\ WritesInCallOrder

\* In _prepare_tool_call().
Busy(i) == st[i] \in {"taken", "consent"}

\* A call is taken up, and a consent pending, only while the batch is prepared; the
\* calls are prepared one after the other.
PrepareInOrder ==
    \A i \in Slots :
        /\ Busy(i) => pc = "prepare" /\ i \in Calls
        /\ ~Prepared(i) => \A j \in Slots : i < j => st[j] = "todo"

\* The calls still asked about or admitted after cancel() are one, and it is the one
\* in preparation if there is such a call.
LateInv ==
    /\ cancel => \A i, j \in Slots : (Busy(i) \/ i \in late) /\ (Busy(j) \/ j \in late) => i = j
    /\ ~cancel => late = {}

Asking == \E i \in Slots : st[i] = "consent"

-----------------------------------------------------------------------------

\* The batch a turn works on, if any, is one the model may answer with.
LEMMA BatchTyped == ASSUME TypeOK PROVE batch \in Seq(Call) /\ Calls \subseteq Slots
<1> USE TurnAssumption
<1>1. CASE batch = << >>
  <2>1. << >> \in Seq(Call)
    OBVIOUS
  <2>2. Len(<< >>) = 0
    OBVIOUS
  <2> QED  BY <1>1, <2>1, <2>2 DEF Calls, Slots
<1>2. CASE batch \in Batches
  <2>1. batch \in Seq(Call) /\ Len(batch) \in Slots
    BY <1>2
  <2> QED  BY <2>1 DEF Calls, Slots
<1> QED  BY <1>1, <1>2 DEF TypeOK

\* Every call of the batch has a path.
LEMMA PathTyped == ASSUME TypeOK, NEW j \in Calls PROVE batch[j].path \in Paths
<1>1. batch \in Seq(Call) /\ Len(batch) \in Nat /\ j \in 1 .. Len(batch)
  BY BatchTyped DEF Calls
<1>2. batch \in [1 .. Len(batch) -> Call]
  BY <1>1
<1>3. batch[j] \in Call
  BY <1>1, <1>2
<1> QED  BY <1>3 DEF Call

\* Settling a call keeps the types as long as its counters leave room.
LEMMA SettleTyped ==
    ASSUME TypeOK, NEW i \in Slots, NEW to \in CallState, NEW c, NEW r,
           called[i] + c \in 0 .. 2, resulted[i] + r \in 0 .. 1,
           audited[i] + r \in 0 .. 1, Settle(i, to, c, r)
    PROVE  /\ st' \in [Slots -> CallState]
           /\ called' \in [Slots -> 0 .. 2]
           /\ resulted' \in [Slots -> 0 .. 1] /\ audited' \in [Slots -> 0 .. 1]
BY DEF TypeOK, Settle

\* Settling call i keeps the counters in step with the states.
LEMMA SettleCounted ==
    ASSUME TypeOK, Counted, NEW i \in Slots,
           NEW to \in {"taken", "consent", "ready", "silent", "done", "raised"},
           NEW c \in 0 .. 1, NEW r \in 0 .. 1, st[i] \notin {"silent", "done", "raised"},
           to \in {"consent", "ready"} => called[i] + c = 1,
           to = "taken" => called[i] + c = 0,
           to \notin {"silent", "done"} => r = 0,
           Settle(i, to, c, r)
    PROVE  /\ st' \in [Slots -> CallState]
           /\ called' \in [Slots -> 0 .. 2]
           /\ resulted' \in [Slots -> 0 .. 1] /\ audited' \in [Slots -> 0 .. 1]
           /\ Counted'
<1>1. called[i] \in 0 .. 1 /\ resulted[i] = 0 /\ audited[i] = 0
  BY DEF TypeOK, Counted, CallState
<1>2. to \in CallState /\ called[i] + c \in 0 .. 2
  BY <1>1 DEF CallState
<1>3. /\ st' \in [Slots -> CallState]
      /\ called' \in [Slots -> 0 .. 2]
      /\ resulted' \in [Slots -> 0 .. 1] /\ audited' \in [Slots -> 0 .. 1]
  BY <1>1, <1>2, SettleTyped
<1>4. /\ st'[i] = to /\ called'[i] = called[i] + c
      /\ resulted'[i] = resulted[i] + r /\ audited'[i] = audited[i] + r
  BY DEF Settle, TypeOK
<1>5. ASSUME NEW j \in Slots, j # i
      PROVE  /\ st'[j] = st[j] /\ called'[j] = called[j]
             /\ resulted'[j] = resulted[j] /\ audited'[j] = audited[j]
  BY <1>5 DEF Settle, TypeOK
<1>6. Counted'
  BY <1>1, <1>4, <1>5 DEF Counted
<1> QED  BY <1>3, <1>6

\* Starting a batch, or none, resets every call.
LEMMA NoBatchCounted ==
    ASSUME NoBatch
    PROVE  /\ st' \in [Slots -> CallState]
           /\ called' \in [Slots -> 0 .. 2]
           /\ resulted' \in [Slots -> 0 .. 1] /\ audited' \in [Slots -> 0 .. 1]
           /\ woken' \subseteq Slots /\ Counted'
BY DEF NoBatch, Counted, CallState

\* A turn that ends fires the one hook it is given, whatever fired before.
LEMMA EndTyped ==
    ASSUME Unfired, ~Over, NEW how \in Ending,
           NEW hooks \in {<< >>, <<"done">>, <<"abort">>, <<"error">>}, End(how, hooks)
    PROVE  /\ pc' \in {"returned", "raised"} /\ ending' \in Ending
           /\ fired' \in {<< >>, <<"done">>, <<"abort">>, <<"error">>}
           /\ Unfired'
<1>1. fired = << >>
  BY DEF Unfired
<1>2. << >> \o hooks = hooks
  OBVIOUS
<1> QED  BY <1>1, <1>2 DEF End, Unfired, Over

\* The steps that resolve one call before the batch runs.
LEMMA PrepareTyped ==
    ASSUME TypeInv, NEW i \in Slots,
           \/ SkipCall(i) \/ TakeUp(i) \/ RejectMalformed(i) \/ DenyByPolicy(i)
           \/ Allow(i) \/ AskConsent(i) \/ ConsentGranted(i) \/ ConsentRefused(i)
    PROVE  TypeInv'
<1> USE DEF TypeInv
<1>1. UNCHANGED phase1Frame /\ late' \subseteq Slots
  BY DEF SkipCall, TakeUp, RejectMalformed, DenyByPolicy, Allow, AskConsent,
         ConsentGranted, ConsentRefused, Admit, NoteLate, TypeOK
<1>2. /\ (Turn(i) => called[i] = 0) /\ (Taken(i) => called[i] = 0)
      /\ (st[i] = "consent" => called[i] = 1)
  BY DEF Turn, Taken, Counted
<1>3. /\ st' \in [Slots -> CallState] /\ called' \in [Slots -> 0 .. 2]
      /\ resulted' \in [Slots -> 0 .. 1] /\ audited' \in [Slots -> 0 .. 1]
      /\ Counted'
  <2>1. CASE SkipCall(i)
    <3>1. Settle(i, "silent", 0, 0) /\ st[i] = "todo"
      BY <2>1 DEF SkipCall, Turn
    <3> QED  BY <3>1, SettleCounted
  <2>2. CASE TakeUp(i)
    <3>1. Settle(i, "taken", 0, 0) /\ st[i] = "todo" /\ called[i] = 0
      BY <1>2, <2>2 DEF TakeUp, TakesCall, Turn
    <3> QED  BY <3>1, SettleCounted
  <2>3. CASE RejectMalformed(i)
    <3>1. Settle(i, "silent", 1, 0) /\ st[i] = "taken"
      BY <2>3 DEF RejectMalformed, Taken
    <3> QED  BY <3>1, SettleCounted
  <2>4. CASE DenyByPolicy(i)
    <3>1. Settle(i, "done", 1, 1) /\ st[i] = "taken"
      BY <2>4 DEF DenyByPolicy, WellFormed, Taken
    <3> QED  BY <3>1, SettleCounted
  <2>5. CASE Allow(i)
    <3>1. st[i] = "taken" /\ called[i] = 0
      BY <1>2, <2>5 DEF Allow, WellFormed, Taken
    <3>2. Settle(i, "done", 1, 1) \/ Settle(i, "ready", 1, 0)
      BY <2>5 DEF Allow, Admit
    <3>3. CASE Settle(i, "done", 1, 1)
      BY <3>1, <3>3, SettleCounted
    <3>4. CASE Settle(i, "ready", 1, 0)
      BY <3>1, <3>4, SettleCounted
    <3> QED  BY <3>2, <3>3, <3>4
  <2>6. CASE AskConsent(i)
    <3>1. Settle(i, "consent", 1, 0) /\ st[i] = "taken" /\ called[i] = 0
      BY <1>2, <2>6 DEF AskConsent, WellFormed, Taken
    <3> QED  BY <3>1, SettleCounted
  <2>7. CASE ConsentGranted(i)
    <3>1. st[i] = "consent" /\ called[i] = 1
      BY <1>2, <2>7 DEF ConsentGranted
    <3>2. Settle(i, "done", 1, 1) \/ Settle(i, "done", 0, 1) \/ Settle(i, "ready", 0, 0)
      BY <2>7 DEF ConsentGranted, Admit
    <3>3. CASE Settle(i, "done", 1, 1)
      BY <3>1, <3>3, SettleCounted
    <3>4. CASE Settle(i, "done", 0, 1)
      BY <3>1, <3>4, SettleCounted
    <3>5. CASE Settle(i, "ready", 0, 0)
      BY <3>1, <3>5, SettleCounted
    <3> QED  BY <3>2, <3>3, <3>4, <3>5
  <2>8. CASE ConsentRefused(i)
    <3>1. Settle(i, "done", 0, 1) /\ st[i] = "consent"
      BY <2>8 DEF ConsentRefused
    <3> QED  BY <3>1, SettleCounted
  <2> QED  BY <2>1, <2>2, <2>3, <2>4, <2>5, <2>6, <2>7, <2>8
<1> QED  BY <1>1, <1>3 DEF phase1Frame, turnVars, TypeOK, Unfired, Over

\* The two places where run() raises inside a batch; the second again when a sibling
\* of a call that raised runs into the same.
LEMMA RaiseTyped ==
    ASSUME TypeInv, NEW i \in Slots, RaiseStep(i) PROVE TypeInv'
<1> USE DEF TypeInv
<1>1. UNCHANGED <<cancel, iteration, attempt, messages, batch, holder, woken, late>>
  BY DEF RaiseStep, ConsentRaises, LockRaises
<1>2. /\ st' \in [Slots -> CallState] /\ called' \in [Slots -> 0 .. 2]
      /\ resulted' \in [Slots -> 0 .. 1] /\ audited' \in [Slots -> 0 .. 1]
      /\ Counted'
  <2>1. CASE ConsentRaises(i)
    <3>1. Settle(i, "raised", 1, 0) /\ st[i] = "taken"
      BY <2>1 DEF ConsentRaises, WellFormed, Taken
    <3> QED  BY <3>1, SettleCounted
  <2>2. CASE LockRaises(i)
    <3>1. Settle(i, "raised", 0, 0) /\ st[i] = "ready"
      BY <2>2 DEF LockRaises
    <3> QED  BY <3>1, SettleCounted
  <2> QED  BY <2>1, <2>2 DEF RaiseStep
<1>3. /\ pc' \in {"returned", "raised"} /\ ending' \in Ending
      /\ fired' \in {<< >>, <<"done">>, <<"abort">>, <<"error">>} /\ Unfired'
  <2>1. CASE UNCHANGED <<pc, ending, fired>> /\ Over
    BY <2>1 DEF TypeOK, Over, Unfired
  <2>2. CASE ~Over /\ (End("other_error", << >>) \/ End("gather_error", << >>))
    BY <2>2, EndTyped DEF Ending
  <2> QED
    BY <2>1, <2>2 DEF RaiseStep, ConsentRaises, LockRaises, WellFormed, Taken, Over
<1> QED  BY <1>1, <1>2, <1>3 DEF TypeOK

\* The steps of a call that runs.
LEMMA ExecuteTyped ==
    ASSUME TypeInv, NEW i \in Slots,
           Dispatch(i) \/ DispatchEnds(i) \/ StartAskUser(i) \/ AskUserEnds(i)
    PROVE  TypeInv'
<1> USE DEF TypeInv
<1>1. UNCHANGED <<pc, cancel, turnVars, batch, woken, late>>
  BY DEF Dispatch, DispatchEnds, StartAskUser, AskUserEnds
<1>2. /\ st' \in [Slots -> CallState] /\ called' \in [Slots -> 0 .. 2]
      /\ resulted' \in [Slots -> 0 .. 1] /\ audited' \in [Slots -> 0 .. 1]
      /\ Counted'
  <2>1. CASE Dispatch(i)
    <3>1. /\ st[i] = "ready" /\ st' = [st EXCEPT ![i] = "running"]
          /\ UNCHANGED <<called, resulted, audited>>
      BY <2>1 DEF Dispatch
    <3> QED  BY <3>1 DEF TypeOK, Counted, CallState
  <2>2. CASE DispatchEnds(i)
    <3>1. Settle(i, "done", 0, 1) /\ st[i] = "running"
      BY <2>2 DEF DispatchEnds
    <3> QED  BY <3>1, SettleCounted
  <2>3. CASE StartAskUser(i)
    <3>1. /\ st[i] = "running" /\ st' = [st EXCEPT ![i] = "waiting_user"]
          /\ UNCHANGED <<called, resulted, audited>>
      BY <2>3 DEF StartAskUser
    <3> QED  BY <3>1 DEF TypeOK, Counted, CallState
  <2>4. CASE AskUserEnds(i)
    <3>1. Settle(i, "done", 0, 1) /\ st[i] = "waiting_user"
      BY <2>4 DEF AskUserEnds
    <3> QED  BY <3>1, SettleCounted
  <2> QED  BY <2>1, <2>2, <2>3, <2>4
<1>3. holder' \in [Paths -> 0 .. MaxBatch]
  <2>1. i \in 0 .. MaxBatch /\ 0 \in 0 .. MaxBatch
    BY TurnAssumption DEF Slots
  <2>2. CASE Release(i)
    BY <2>1, <2>2 DEF Release, TypeOK
  <2>3. CASE UNCHANGED holder
    BY <2>3 DEF TypeOK
  <2>4. CASE holder' = [holder EXCEPT ![batch[i].path] = i]
    BY <2>1, <2>4 DEF TypeOK
  <2> QED  BY <2>2, <2>3, <2>4 DEF Dispatch, DispatchEnds, StartAskUser, AskUserEnds
<1> QED  BY <1>1, <1>2, <1>3 DEF turnVars, TypeOK, Unfired, Over

\* The steps of the loop around the batch.
LEMMA LoopTyped ==
    ASSUME TypeInv,
           \/ StartIteration \/ StopCancelled \/ StopTruncated \/ StreamStep
           \/ Gather \/ CollectResults \/ Cancel
    PROVE  TypeInv'
<1> USE DEF TypeInv
<1>1. CASE StartIteration
  <2>1. iteration' \in 0 .. MaxIterations /\ 1 \in 1 .. MaxAttempts
    BY <1>1, TurnAssumption DEF StartIteration, TypeOK
  <2> QED  BY <1>1, <2>1 DEF StartIteration, batchVars, TypeOK, Counted, Unfired, Over
<1>2. CASE StopCancelled
  <2>1. iteration' \in 0 .. MaxIterations
    BY <1>2, TurnAssumption DEF StopCancelled, TypeOK
  <2>2. ~Over /\ End("cancelled", <<"abort">>)
    BY <1>2 DEF StopCancelled, Over
  <2>3. /\ pc' \in {"returned", "raised"} /\ ending' \in Ending
        /\ fired' \in {<< >>, <<"done">>, <<"abort">>, <<"error">>} /\ Unfired'
    BY <2>2, EndTyped DEF Ending
  <2> QED  BY <1>2, <2>1, <2>3 DEF StopCancelled, batchVars, TypeOK, Counted
<1>3. CASE StopTruncated
  <2>1. ~Over /\ End("truncated", <<"abort">>)
    BY <1>3 DEF StopTruncated, Over
  <2>2. /\ pc' \in {"returned", "raised"} /\ ending' \in Ending
        /\ fired' \in {<< >>, <<"done">>, <<"abort">>, <<"error">>} /\ Unfired'
    BY <2>1, EndTyped DEF Ending
  <2> QED  BY <1>3, <2>2 DEF StopTruncated, batchVars, TypeOK, Counted
<1>4. CASE StreamStep
  <2>1. pc = "llm" /\ ~Over
    BY <1>4 DEF StreamStep, StreamRetried, StreamFails, StreamCrashes, StreamEnds,
                StreamCut, Over
  <2>2. CASE StreamRetried
    <3>1. attempt' \in 1 .. MaxAttempts
      BY <2>2, TurnAssumption DEF StreamRetried, TypeOK
    <3> QED  BY <2>2, <3>1 DEF StreamRetried, batchVars, TypeOK, Counted, Unfired, Over
  <2>3. CASE StreamFails
    <3>1. /\ pc' \in {"returned", "raised"} /\ ending' \in Ending
          /\ fired' \in {<< >>, <<"done">>, <<"abort">>, <<"error">>} /\ Unfired'
      BY <2>1, <2>3, EndTyped DEF StreamFails, Ending
    <3> QED  BY <2>3, <3>1 DEF StreamFails, batchVars, TypeOK, Counted
  <2>4. CASE StreamCrashes
    <3>1. /\ pc' \in {"returned", "raised"} /\ ending' \in Ending
          /\ fired' \in {<< >>, <<"done">>, <<"abort">>, <<"error">>} /\ Unfired'
      BY <2>1, <2>4, EndTyped DEF StreamCrashes, Ending
    <3> QED  BY <2>4, <3>1 DEF StreamCrashes, batchVars, TypeOK, Counted
  <2>5. ASSUME NEW b \in Batches \cup {<< >>}, Respond(b)
        PROVE  TypeInv'
    <3>1. /\ st' \in [Slots -> CallState] /\ called' \in [Slots -> 0 .. 2]
          /\ resulted' \in [Slots -> 0 .. 1] /\ audited' \in [Slots -> 0 .. 1]
          /\ woken' \subseteq Slots /\ Counted'
      BY <2>5, NoBatchCounted DEF Respond
    <3>2. /\ pc' \in {"prepare", "returned", "raised"} /\ ending' \in Ending
          /\ fired' \in {<< >>, <<"done">>, <<"abort">>, <<"error">>} /\ Unfired'
      <4>1. CASE End("final", <<"done">>)
        BY <2>1, <4>1, EndTyped DEF Ending
      <4>2. CASE pc' = "prepare" /\ UNCHANGED <<ending, fired>>
        BY <2>1, <4>2 DEF Unfired, Over, TypeOK
      <4> QED  BY <2>5, <4>1, <4>2 DEF Respond
    <3> QED  BY <2>5, <3>1, <3>2 DEF Respond, TypeOK
  <2> QED  BY <1>4, <2>2, <2>3, <2>4, <2>5 DEF StreamStep, StreamEnds, StreamCut
<1>5. CASE Gather
  BY <1>5 DEF Gather, turnVars, batchVars, TypeOK, Counted, Unfired, Over
<1>6. CASE CollectResults
  <2>1. /\ pc' \in {"top", "returned", "raised"} /\ ending' \in Ending
        /\ fired' \in {<< >>, <<"done">>, <<"abort">>, <<"error">>} /\ Unfired'
    <3>1. ~Over
      BY <1>6 DEF CollectResults, Over
    <3>2. CASE End("cancelled", <<"abort">>)
      BY <3>1, <3>2, EndTyped DEF Ending
    <3>3. CASE pc' = "top" /\ UNCHANGED <<ending, fired>>
      BY <3>1, <3>3 DEF Unfired, Over, TypeOK
    <3> QED  BY <1>6, <3>2, <3>3 DEF CollectResults
  <2> QED  BY <1>6, <2>1 DEF CollectResults, batchVars, TypeOK, Counted
<1>7. CASE Cancel
  BY <1>7 DEF Cancel, turnVars, TypeOK, Counted, Unfired, Over
<1> QED  BY <1>1, <1>2, <1>3, <1>4, <1>5, <1>6, <1>7

\* Type correctness, for every constant the code admits: the counters of
\* on_tool_call, on_tool_result and audit stay within their ranges and at most
\* one terminal hook fires.
THEOREM TypeCorrect == Spec => []TypeOK
<1>1. Init => TypeInv
  <2> SUFFICES ASSUME Init PROVE TypeInv
    OBVIOUS
  <2>1. /\ pc = "top" /\ iteration = 0 /\ attempt = 1 /\ cancel = FALSE
        /\ batch = << >> /\ holder = [p \in Paths |-> 0] /\ woken = {}
        /\ ending = "none" /\ fired = << >> /\ late = {}
    BY DEF Init
  <2>2. /\ st = [i \in Slots |-> "todo"] /\ called = [i \in Slots |-> 0]
        /\ resulted = [i \in Slots |-> 0] /\ audited = [i \in Slots |-> 0]
    BY DEF Init
  <2>3. 0 \in 0 .. MaxIterations /\ 1 \in 1 .. MaxAttempts /\ 0 \in 0 .. MaxBatch
    BY TurnAssumption
  <2>4. /\ st \in [Slots -> CallState] /\ called \in [Slots -> 0 .. 2]
        /\ resulted \in [Slots -> 0 .. 1] /\ audited \in [Slots -> 0 .. 1] /\ Counted
    BY <2>2 DEF CallState, Counted
  <2> QED  BY <2>1, <2>3, <2>4 DEF TypeInv, TypeOK, Unfired, Ending
<1>2. TypeInv /\ [Next]_vars => TypeInv'
  <2> SUFFICES ASSUME TypeInv, [Next]_vars PROVE TypeInv'
    OBVIOUS
  <2>1. CASE UNCHANGED vars
    BY <2>1 DEF vars, TypeInv, TypeOK, Counted, Unfired, Over
  <2>2. CASE \E i \in Slots : CallStep(i)
    BY <2>2, PrepareTyped, ExecuteTyped DEF CallStep
  <2>3. CASE \E i \in Slots : RaiseStep(i)
    BY <2>3, RaiseTyped
  <2> QED  BY <2>1, <2>2, <2>3, LoopTyped DEF Next, ProgramStep
<1>3. TypeInv => TypeOK
  BY DEF TypeInv
<1> QED  BY <1>1, <1>2, <1>3, PTL DEF Spec

-----------------------------------------------------------------------------

\* Settling call i to a state in which it does not run disturbs neither lock
\* nor order, unless it makes the call ready.
LEMMA SettleLocks ==
    ASSUME LockInv, TypeOK', NEW i \in Slots,
           NEW to \in {"taken", "consent", "ready", "silent", "done", "raised"}, NEW c, NEW r,
           Settle(i, to, c, r), Executing => Executing', batch' = batch,
           to = "ready" => pc = "prepare",
           holder' = holder \/ (st[i] = "running" /\ Release(i))
    PROVE  LockInv'
<1> USE DEF LockInv
<1>1. Calls \subseteq Slots
  BY BatchTyped
<1>2. /\ st'[i] = to
      /\ \A j \in Slots : j # i => st'[j] = st[j]
  BY DEF Settle, TypeOK
<1>3. Phased'
  BY <1>2 DEF Phased, Calls
<1>4. ASSUME NEW j \in Calls, st'[j] = "running", IsWrite(j)
      PROVE  holder'[batch[j].path] = j
  <2>1. j # i /\ st[j] = "running" /\ holder[batch[j].path] = j
    BY <1>1, <1>2, <1>4 DEF Holds
  <2>2. CASE holder' = holder
    BY <2>1, <2>2
  <2>3. CASE Release(i)
    <3>1. batch[j].path \in Paths
      BY PathTyped
    <3> QED  BY <2>1, <2>3, <3>1 DEF Release
  <2> QED  BY <2>2, <2>3
<1>5. Holds'
  BY <1>4 DEF Holds, Calls, IsWrite
<1>6. ASSUME NEW k \in Calls, NEW j \in Calls, j < k, SamePath(k, j), st'[k] = "running"
      PROVE  st'[j] \notin {"ready", "running"}
  <2>1. k # i /\ st[k] = "running" /\ st[j] \notin {"ready", "running"}
    BY <1>1, <1>2, <1>6 DEF WritesInCallOrder
  <2>2. pc # "prepare"
    BY <1>1, <2>1 DEF Phased, Executing
  <2> QED  BY <1>1, <1>2, <2>1, <2>2
<1>7. WritesInCallOrder'
  BY <1>6 DEF WritesInCallOrder, Calls, SamePath, IsWrite
<1> QED  BY <1>3, <1>5, <1>7

\* Dispatching a call takes the lock of its path, which nobody holds.
LEMMA DispatchLocks ==
    ASSUME LockInv, TypeOK', NEW i \in Slots, Dispatch(i) PROVE LockInv'
<1> USE DEF LockInv
<1>1. Calls \subseteq Slots /\ batch \in Seq(Call) /\ batch' = batch /\ pc' = pc
  BY BatchTyped DEF Dispatch
<1>2. /\ i \in Calls /\ Executing' /\ st[i] = "ready" /\ st'[i] = "running"
      /\ \A j \in Slots : j # i => st'[j] = st[j]
  BY DEF Dispatch, TypeOK, Executing, turnVars
<1>3. Phased'
  BY <1>1, <1>2 DEF Phased, Calls
<1>4. ASSUME NEW j \in Calls, st'[j] = "running", IsWrite(j)
      PROVE  holder'[batch[j].path] = j
  <2>1. batch[j].path \in Paths
    BY PathTyped
  <2>2. CASE j = i
    BY <1>4, <2>1, <2>2 DEF Dispatch, TypeOK
  <2>3. CASE j # i
    <3>1. st[j] = "running" /\ holder[batch[j].path] = j
      BY <1>1, <1>2, <1>4, <2>3 DEF Holds
    <3>2. IsWrite(i) => batch[i].path # batch[j].path
      BY <1>1, <3>1 DEF Dispatch, LockFree, Slots
    <3> QED  BY <2>1, <3>1, <3>2 DEF Dispatch, TypeOK
  <2> QED  BY <2>2, <2>3
<1>5. Holds'
  BY <1>1, <1>4 DEF Holds, Calls, IsWrite
<1>6. ASSUME NEW k \in Calls, NEW j \in Calls, j < k, SamePath(k, j), st'[k] = "running"
      PROVE  st'[j] \notin {"ready", "running"}
  <2>1. k \in Slots /\ j \in Slots /\ j # k
    BY <1>1, <1>6 DEF Slots
  <2>2. st'[j] # "running"
    <3>1. SUFFICES ASSUME st'[j] = "running" PROVE FALSE
      OBVIOUS
    <3>2. holder'[batch[k].path] = k /\ holder'[batch[j].path] = j
      BY <1>4, <1>6, <3>1 DEF SamePath
    <3> QED  BY <1>6, <2>1, <3>2 DEF SamePath
  <2>3. CASE k = i
    <3>1. st[j] # "ready"
      BY <1>6, <2>1, <2>3, TurnAssumption DEF Dispatch, LockFree, SamePath, Slots
    <3> QED  BY <1>2, <2>1, <2>2, <2>3, <3>1
  <2>4. CASE k # i
    <3>1. st[k] = "running" /\ st[j] \notin {"ready", "running"}
      BY <1>2, <1>6, <2>1, <2>4 DEF WritesInCallOrder
    <3> QED  BY <1>2, <2>1, <2>2, <3>1
  <2> QED  BY <2>3, <2>4
<1>7. WritesInCallOrder'
  BY <1>1, <1>6 DEF WritesInCallOrder, Calls, SamePath, IsWrite
<1> QED  BY <1>3, <1>5, <1>7

\* While nothing runs, neither lock nor order can be wrong.
LEMMA IdleLocks ==
    ASSUME TypeOK, \A i \in Slots : st[i] # "running" PROVE LockInv
BY BatchTyped DEF LockInv, Holds, Phased, WritesInCallOrder

\* The steps of the loop leave no call running.
LEMMA LoopIdle ==
    ASSUME LockInv,
           \/ StartIteration \/ StopCancelled \/ StopTruncated \/ StreamStep
           \/ Gather \/ CollectResults
    PROVE  \A i \in Slots : st'[i] # "running"
<1> USE DEF LockInv
<1>1. CASE ~Executing
  <2>1. \A i \in Slots : st[i] # "running"
    BY <1>1 DEF Phased
  <2>2. CASE NoBatch
    BY <2>2 DEF NoBatch
  <2>3. CASE UNCHANGED st
    BY <2>1, <2>3
  <2> QED
    BY <1>1, <2>2, <2>3
    DEF StartIteration, StopCancelled, StopTruncated, StreamStep, StreamRetried,
        StreamFails, StreamCrashes, StreamEnds, StreamCut, Respond, Gather,
        CollectResults, batchVars, Executing
<1>2. CASE Executing
  <2>1. CollectResults
    BY <1>2 DEF Executing, StartIteration, StopCancelled, StopTruncated, StreamStep, StreamRetried,
        StreamFails, StreamCrashes, StreamEnds, StreamCut, Gather
  <2>2. UNCHANGED st /\ \A i \in Calls : st[i] # "running"
    BY <2>1 DEF CollectResults, Finished, batchVars
  <2> QED  BY <2>2 DEF Phased
<1> QED  BY <1>1, <1>2

\* Every step of one call keeps the lock invariant.
LEMMA CallLocks ==
    ASSUME LockInv, TypeOK', NEW i \in Slots, CallStep(i) PROVE LockInv'
<1>1. CASE Dispatch(i)
  BY <1>1, DispatchLocks
<1>2. CASE DispatchEnds(i)
  <2>1. /\ Settle(i, "done", 0, 1) /\ st[i] = "running" /\ Release(i)
        /\ pc' = pc /\ batch' = batch
    BY <1>2 DEF DispatchEnds
  <2>2. Executing => Executing'
    BY <1>2 DEF DispatchEnds, Executing, turnVars
  <2> QED  BY <2>1, <2>2, SettleLocks
<1>3. CASE AskUserEnds(i)
  <2>1. /\ Settle(i, "done", 0, 1) /\ holder' = holder /\ batch' = batch
        /\ Executing => Executing'
    BY <1>3 DEF AskUserEnds, Executing, turnVars
  <2> QED  BY <2>1, SettleLocks
<1>4. CASE StartAskUser(i)
  <2>1. /\ st[i] = "running" /\ Release(i) /\ batch' = batch
        /\ (Executing => Executing')
        /\ st'[i] = "waiting_user" /\ \A j \in Slots : j # i => st'[j] = st[j]
    BY <1>4 DEF StartAskUser, LockInv, TypeOK, Executing, turnVars
  <2>2. Calls \subseteq Slots /\ Calls' = Calls
    BY <2>1, BatchTyped DEF LockInv, Calls
  <2>3. Phased'
    BY <2>1, <2>2 DEF LockInv, Phased
  <2>4. ASSUME NEW j \in Calls, st'[j] = "running", IsWrite(j)
        PROVE  holder'[batch[j].path] = j
    <3>1. j # i /\ holder[batch[j].path] = j /\ batch[j].path \in Paths
      BY <2>1, <2>2, <2>4, PathTyped DEF LockInv, Holds
    <3> QED  BY <2>1, <3>1 DEF Release
  <2>5. Holds'
    BY <2>1, <2>2, <2>4 DEF Holds, IsWrite
  <2>6. WritesInCallOrder'
    BY <2>1, <2>2 DEF LockInv, WritesInCallOrder, SamePath, IsWrite
  <2> QED  BY <2>3, <2>5, <2>6 DEF LockInv
<1>5. CASE ~(Dispatch(i) \/ DispatchEnds(i) \/ StartAskUser(i) \/ AskUserEnds(i))
  <2>1. pc = "prepare" /\ UNCHANGED phase1Frame
    BY <1>5 DEF CallStep, SkipCall, TakeUp, RejectMalformed, DenyByPolicy, Allow, AskConsent,
                ConsentGranted, ConsentRefused, Admit, WellFormed, Taken, TakesCall, Turn
  <2>2. PICK to \in {"taken", "consent", "ready", "silent", "done"},
             c \in 0 .. 1, r \in 0 .. 1 : Settle(i, to, c, r)
    BY <1>5 DEF CallStep, SkipCall, TakeUp, RejectMalformed, DenyByPolicy, Allow, AskConsent,
                ConsentGranted, ConsentRefused, Admit
  <2> QED  BY <2>1, <2>2, SettleLocks DEF phase1Frame, Executing
<1> QED  BY <1>1, <1>2, <1>3, <1>4, <1>5

\* So does a call that makes run() raise.
LEMMA RaiseLocks ==
    ASSUME LockInv, TypeOK', NEW i \in Slots, RaiseStep(i) PROVE LockInv'
<1>1. CASE ConsentRaises(i)
  <2>1. /\ Settle(i, "raised", 1, 0) /\ pc = "prepare"
        /\ holder' = holder /\ batch' = batch
    BY <1>1 DEF ConsentRaises, WellFormed, Taken
  <2> QED BY <2>1, SettleLocks DEF Executing
<1>2. CASE LockRaises(i)
  <2>1. Settle(i, "raised", 0, 0) /\ holder' = holder /\ batch' = batch /\ Executing'
    BY <1>2 DEF LockRaises, End, Errors, Executing, Over
  <2> QED BY <2>1, SettleLocks
<1> QED BY <1>1, <1>2 DEF RaiseStep

\* The lock invariant holds throughout, next to the types.
LEMMA LockInvariance == Spec => []LockInv
<1>1. Init /\ TypeOK => LockInv
  <2> SUFFICES ASSUME Init, TypeOK PROVE LockInv
    OBVIOUS
  <2>1. st = [i \in Slots |-> "todo"]
    BY DEF Init
  <2> QED  BY <2>1, IdleLocks
<1>2. LockInv /\ TypeOK' /\ [Next]_vars => LockInv'
  <2> SUFFICES ASSUME LockInv, TypeOK', [Next]_vars PROVE LockInv'
    OBVIOUS
  <2>1. CASE \E i \in Slots : CallStep(i)
    BY <2>1, CallLocks
  <2>4. CASE \E i \in Slots : RaiseStep(i)
    BY <2>4, RaiseLocks
  <2>2. CASE \/ StartIteration \/ StopCancelled \/ StopTruncated \/ StreamStep
             \/ Gather \/ CollectResults
    <3>1. \A i \in Slots : st'[i] # "running"
      BY <2>2, LoopIdle
    <3>2. (Calls \subseteq Slots)'
      BY BatchTyped, PTL
    <3> QED  BY <3>1, <3>2 DEF LockInv, Holds, Phased, WritesInCallOrder
  <2>3. CASE Cancel \/ UNCHANGED vars
    <3>1. UNCHANGED <<pc, batch, st, holder, ending>>
      BY <2>3 DEF Cancel, vars, turnVars
    <3> QED
      BY <3>1 DEF LockInv, Holds, Phased, WritesInCallOrder, Calls, SamePath, IsWrite,
                  Executing
  <2> QED  BY <2>1, <2>2, <2>3, <2>4 DEF Next, ProgramStep
<1> QED  BY <1>1, <1>2, TypeCorrect, PTL DEF Spec

\* Two writes of one batch to one path never overlap, however many calls a
\* batch has and however dispatches fail or time out.
THEOREM WritesSerializedHolds == Spec => []WritesSerialized
<1>1. LockInv => WritesSerialized
  BY BatchTyped DEF LockInv, Holds, WritesSerialized, SamePath, Calls
<1> QED  BY <1>1, LockInvariance, PTL

\* And they run in the order the model asked for them.
THEOREM WritesInCallOrderHolds == Spec => []WritesInCallOrder
<1>1. LockInv => WritesInCallOrder
  BY DEF LockInv
<1> QED  BY <1>1, LockInvariance, PTL

\* Resolving call i to a state leaves the other calls what they were.
LEMMA OthersKept ==
    ASSUME TypeOK, NEW i \in Slots, NEW j \in Slots, j # i, CallStep(i) \/ RaiseStep(i)
    PROVE  st'[j] = st[j]
BY DEF CallStep, SkipCall, TakeUp, RejectMalformed, DenyByPolicy, Allow, AskConsent,
       ConsentGranted, ConsentRefused, Admit, Dispatch, DispatchEnds, StartAskUser,
       AskUserEnds, RaiseStep, ConsentRaises, LockRaises, Settle, TypeOK

-----------------------------------------------------------------------------
(* Preparation, and what cancel() still lets through *)

\* A step of one call leaves the loop where it is.
LEMMA CallStaysInBlock ==
    ASSUME NEW i \in Slots, CallStep(i)
    PROVE  UNCHANGED <<pc, iteration, cancel, ending, batch>>
BY DEF CallStep, SkipCall, TakeUp, RejectMalformed, DenyByPolicy, Allow, AskConsent,
       ConsentGranted, ConsentRefused, Admit, Dispatch, DispatchEnds, StartAskUser,
       AskUserEnds, phase1Frame, turnVars

\* A call that raises was taken up, or ready; the turn is over.
LEMMA RaiseEnds ==
    ASSUME TypeOK, NEW i \in Slots, RaiseStep(i)
    PROVE  /\ UNCHANGED <<iteration, cancel, batch, late>>
           /\ pc' = "raised" /\ ending' \in Errors
           /\ (pc = "prepare" /\ st[i] = "taken") \/ (Executing /\ st[i] = "ready")
           /\ st'[i] = "raised"
<1>1. CASE ConsentRaises(i)
  BY <1>1 DEF ConsentRaises, WellFormed, Taken, End, Errors, Settle, TypeOK
<1>2. CASE LockRaises(i)
  <2>1. /\ UNCHANGED <<iteration, cancel, batch, late>> /\ st'[i] = "raised"
        /\ Executing /\ st[i] = "ready"
    BY <1>2 DEF LockRaises, Settle, TypeOK
  <2>2. pc' = "raised" /\ ending' \in Errors
    BY <1>2 DEF LockRaises, End, Errors, Executing, Over
  <2> QED BY <2>1, <2>2
<1> QED BY <1>1, <1>2 DEF RaiseStep

\* What may become of a call.
LEMMA CallMoves ==
    ASSUME TypeOK, NEW i \in Slots, CallStep(i)
    PROVE  \/ /\ st[i] = "todo" /\ Turn(i) /\ late' = late
              /\ st'[i] = "silent" \/ (st'[i] = "taken" /\ ~cancel)
           \/ /\ Busy(i) /\ pc = "prepare" /\ late' = late
              /\ st'[i] \in {"silent", "done"}
           \/ /\ Busy(i) /\ pc = "prepare" /\ st'[i] \in {"consent", "ready"}
              /\ late' = IF cancel THEN late \cup {i} ELSE late
           \/ /\ Prepared(i) /\ late' = late
              /\ st'[i] \in {"running", "waiting_user", "done"}
<1> USE DEF Busy, Prepared, Settle, TypeOK
<1>1. CASE SkipCall(i) \/ TakeUp(i)
  BY <1>1 DEF SkipCall, TakeUp, TakesCall, Turn
<1>2. CASE RejectMalformed(i) \/ DenyByPolicy(i) \/ ConsentRefused(i)
  BY <1>2 DEF RejectMalformed, DenyByPolicy, ConsentRefused, WellFormed, Taken
<1>3. CASE Allow(i) \/ ConsentGranted(i) \/ AskConsent(i)
  BY <1>3 DEF Allow, ConsentGranted, AskConsent, Admit, NoteLate, WellFormed, Taken
<1>4. CASE Dispatch(i) \/ StartAskUser(i) \/ AskUserEnds(i) \/ DispatchEnds(i)
  BY <1>4 DEF Dispatch, StartAskUser, AskUserEnds, DispatchEnds
<1> QED BY <1>1, <1>2, <1>3, <1>4 DEF CallStep

\* The loop goes on only when no call is in preparation.
LEMMA LoopPreparesNothing ==
    ASSUME TypeOK, PrepareInOrder,
           StartIteration \/ StopCancelled \/ StopTruncated \/ StreamStep
           \/ Gather \/ CollectResults
    PROVE  /\ \A i \in Slots : ~Busy(i) /\ ~Busy(i)'
           /\ UNCHANGED <<st, batch>> \/ \A i \in Slots : st'[i] = "todo"
           /\ UNCHANGED <<cancel, late>>
<1>1. \A i \in Slots : ~Busy(i)
  <2>1. CASE Gather
    BY <2>1 DEF Gather, Prepared, PrepareInOrder, Busy
  <2>2. CASE pc # "prepare"
    BY <2>2 DEF PrepareInOrder
  <2> QED
    BY <2>1, <2>2 DEF StartIteration, StopCancelled, StopTruncated, StreamStep,
       StreamRetried, StreamFails, StreamCrashes, StreamEnds, StreamCut, CollectResults
<1>2. UNCHANGED <<st, batch>> \/ NoBatch
  BY DEF StartIteration, StopCancelled, StopTruncated, StreamStep, StreamRetried,
      StreamFails, StreamCrashes, StreamEnds, StreamCut, Respond, Gather,
      CollectResults, batchVars
<1>3. UNCHANGED <<cancel, late>>
  BY DEF StartIteration, StopCancelled, StopTruncated, StreamStep, StreamRetried,
      StreamFails, StreamCrashes, StreamEnds, StreamCut, Respond, Gather,
      CollectResults, batchVars
<1>4. CASE NoBatch
  BY <1>1, <1>3, <1>4 DEF NoBatch, Busy
<1>5. CASE UNCHANGED <<st, batch>>
  BY <1>1, <1>3, <1>5 DEF Busy
<1> QED BY <1>2, <1>4, <1>5

\* Calls are prepared in order, one at a time, and not while the batch runs.
LEMMA PrepareInOrderHolds == Spec => []PrepareInOrder
<1>1. Init => PrepareInOrder
  BY DEF Init, PrepareInOrder, Busy
<1>2. TypeOK /\ TypeOK' /\ PrepareInOrder /\ [Next]_vars => PrepareInOrder'
  <2> SUFFICES ASSUME TypeOK, TypeOK', PrepareInOrder, [Next]_vars PROVE PrepareInOrder'
    OBVIOUS
  <2>1. CASE \E i \in Slots : CallStep(i)
    <3>1. PICK i \in Slots : CallStep(i)
      BY <2>1
    <3>2. /\ UNCHANGED <<pc, batch>> /\ Calls' = Calls
          /\ \A j \in Slots : j # i => st'[j] = st[j]
      BY <3>1, CallStaysInBlock, OthersKept DEF Calls
    <3>3. CASE st[i] = "todo" /\ Turn(i) /\ st'[i] \in {"silent", "taken"}
      <4>1. pc = "prepare" /\ i \in Calls /\ \A j \in Slots : j < i => Prepared(j)
        BY <3>3 DEF Turn, Slots
      <4>2. \A j \in Slots : i < j => st[j] = "todo"
        BY <3>3 DEF PrepareInOrder, Prepared
      <4>3. \A j \in Slots : Busy(j)' => pc' = "prepare" /\ j \in Calls'
        BY <3>2, <4>1 DEF PrepareInOrder, Busy
      <4>4. ASSUME NEW j \in Slots, ~Prepared(j)', NEW k \in Slots, j < k
            PROVE  st'[k] = "todo"
        BY <3>2, <3>3, <4>1, <4>2, <4>4 DEF PrepareInOrder, Prepared, Slots
      <4> QED BY <4>3, <4>4 DEF PrepareInOrder
    <3>4. CASE /\ st[i] # "todo" /\ (Busy(i)' => Busy(i))
               /\ (~Prepared(i)' => ~Prepared(i)) /\ st'[i] # "todo"
      <4>1. \A j \in Slots : Busy(j)' => pc' = "prepare" /\ j \in Calls'
        BY <3>2, <3>4 DEF PrepareInOrder, Busy
      <4>2. ASSUME NEW j \in Slots, ~Prepared(j)', NEW k \in Slots, j < k
            PROVE  st'[k] = "todo"
        BY <3>2, <3>4, <4>2 DEF PrepareInOrder, Prepared, Slots
      <4> QED BY <4>1, <4>2 DEF PrepareInOrder
    <3> QED BY <3>1, <3>3, <3>4, CallMoves DEF Busy, Prepared
  <2>2. CASE \E i \in Slots : RaiseStep(i)
    <3>1. PICK i \in Slots : RaiseStep(i)
      BY <2>2
    <3>2. /\ (pc = "prepare" /\ st[i] = "taken") \/ (Executing /\ st[i] = "ready")
          /\ st'[i] = "raised" /\ \A j \in Slots : j # i => st'[j] = st[j]
      BY <3>1, RaiseEnds, OthersKept
    <3>3. \A j \in Slots : ~Busy(j)'
      <4>1. CASE Executing
        BY <3>2, <4>1 DEF PrepareInOrder, Busy, Executing
      <4>2. CASE st[i] = "taken"
        <5>1. ASSUME NEW j \in Slots, j # i, Busy(j) PROVE FALSE
          <6>1. i \in Nat /\ j \in Nat
            BY DEF Slots
          <6>2. CASE i < j
            BY <4>2, <5>1, <6>2 DEF PrepareInOrder, Prepared, Busy
          <6>3. CASE j < i
            BY <4>2, <5>1, <6>3 DEF PrepareInOrder, Prepared, Busy
          <6> QED BY <5>1, <6>1, <6>2, <6>3
        <5> QED BY <3>2, <5>1 DEF Busy
      <4> QED BY <3>2, <4>1, <4>2
    <3>4. ASSUME NEW j \in Slots, ~Prepared(j)', NEW k \in Slots, j < k
          PROVE  st'[k] = "todo"
      BY <3>2, <3>4 DEF PrepareInOrder, Prepared, Slots
    <3> QED BY <3>3, <3>4 DEF PrepareInOrder
  <2>3. CASE StartIteration \/ StopCancelled \/ StopTruncated \/ StreamStep
             \/ Gather \/ CollectResults
    BY <2>3, LoopPreparesNothing DEF PrepareInOrder, Prepared
  <2>4. CASE Cancel \/ UNCHANGED vars
    BY <2>4 DEF Cancel, vars, PrepareInOrder, Busy, Prepared, Calls
  <2> QED BY <2>1, <2>2, <2>3, <2>4 DEF Next, ProgramStep
<1> QED BY <1>1, <1>2, TypeCorrect, PTL DEF Spec

\* Two calls are never in preparation at once.
LEMMA OneInPreparation ==
    ASSUME PrepareInOrder, NEW i \in Slots, NEW j \in Slots, Busy(i), Busy(j)
    PROVE  i = j
BY DEF PrepareInOrder, Busy, Prepared, Slots

\* After cancel() at most one call, the one it found in preparation, is still asked
\* about or admitted: the flag is tested before the awaits of _prepare_tool_call(),
\* which are many steps of the turn, and every later call meets the test.
THEOREM OneCallAfterCancelHolds == Spec => []OneCallAfterCancel
<1>1. Init => LateInv
  BY DEF Init, LateInv
<1>2. TypeOK /\ PrepareInOrder /\ LateInv /\ [Next]_vars => LateInv'
  <2> SUFFICES ASSUME TypeOK, PrepareInOrder, LateInv, [Next]_vars PROVE LateInv'
    OBVIOUS
  <2>1. CASE \E i \in Slots : CallStep(i)
    <3>1. PICK i \in Slots : CallStep(i)
      BY <2>1
    <3>2. cancel' = cancel /\ \A j \in Slots : j # i => st'[j] = st[j]
      BY <3>1, CallStaysInBlock, OthersKept
    <3>3. ~cancel => late' = {}
      BY <3>1, CallMoves DEF LateInv
    <3>4. ASSUME cancel, NEW j \in Slots, Busy(j)' \/ j \in late'
          PROVE  Busy(j) \/ j \in late
      BY <3>1, <3>2, <3>4, CallMoves DEF Busy
    <3> QED BY <3>2, <3>3, <3>4 DEF LateInv
  <2>2. CASE \E i \in Slots : RaiseStep(i)
    <3>1. PICK i \in Slots : RaiseStep(i)
      BY <2>2
    <3>2. \A j \in Slots : Busy(j)' => Busy(j)
      BY <3>1, RaiseEnds, OthersKept DEF Busy
    <3> QED BY <3>1, <3>2, RaiseEnds DEF LateInv
  <2>3. CASE StartIteration \/ StopCancelled \/ StopTruncated \/ StreamStep
             \/ Gather \/ CollectResults
    BY <2>3, LoopPreparesNothing DEF LateInv
  <2>4. CASE Cancel
    <3>1. cancel' = TRUE /\ late = {} /\ UNCHANGED <<late, st>>
      BY <2>4 DEF Cancel, LateInv
    <3> QED BY <3>1, OneInPreparation DEF LateInv, Busy
  <2>5. CASE UNCHANGED vars
    BY <2>5 DEF vars, LateInv, Busy
  <2> QED BY <2>1, <2>2, <2>3, <2>4, <2>5 DEF Next, ProgramStep
<1>3. TypeOK /\ LateInv => OneCallAfterCancel
  BY DEF LateInv, OneCallAfterCancel, TypeOK
<1> QED BY <1>1, <1>2, <1>3, TypeCorrect, PrepareInOrderHolds, PTL DEF Spec

-----------------------------------------------------------------------------
(* The turn is a block *)

\* One step of the loop is one of the block, or none of its business.
LEMMA LoopIsBlockStep ==
    ASSUME TypeOK, ~Asking, ~Asking',
           StartIteration \/ StopCancelled \/ StopTruncated \/ StreamStep
           \/ Gather \/ CollectResults
    PROVE  TheBlock!SpendBudget \/ TheBlock!End \/ TheBlock!EndCancelled
           \/ UNCHANGED TheBlock!vars
<1> USE DEF Asking, BlockPhase, Over
<1>1. CASE StartIteration \/ StreamRetried \/ Gather
  <2>1. iteration \in Nat /\ MaxIterations \in Nat
    BY TurnAssumption DEF TypeOK
  <2>2. BlockPhase = "running" /\ BlockPhase' = "running" /\ cancel' = cancel
    BY <1>1, <2>1 DEF StartIteration, StreamRetried, Gather, batchVars, turnVars
  <2> QED BY <2>2 DEF TheBlock!vars
<1>2. CASE StopCancelled
  <2>1. BlockPhase = "running" /\ BlockPhase' = "cancelled" /\ cancel /\ cancel' = cancel
    BY <1>2, TurnAssumption DEF StopCancelled, End, TypeOK
  <2> QED BY <2>1 DEF TheBlock!EndCancelled
<1>3. CASE StopTruncated
  <2>1. BlockPhase = "winding" /\ BlockPhase' = "ended" /\ cancel' = cancel
    BY <1>3 DEF StopTruncated, End
  <2> QED BY <2>1 DEF TheBlock!End
<1>4. CASE StreamFails \/ StreamCrashes
  <2>1. BlockPhase = "running" /\ BlockPhase' = "ended" /\ cancel' = cancel
    BY <1>4 DEF StreamFails, StreamCrashes, End
  <2> QED BY <2>1 DEF TheBlock!End
<1>5. ASSUME NEW b, StreamEnds(b) \/ StreamCut(b) PROVE TheBlock!End \/ UNCHANGED TheBlock!vars
  <2>1. BlockPhase = "running" /\ cancel' = cancel
    BY <1>5 DEF StreamEnds, StreamCut, Respond
  <2>2. BlockPhase' \in {"running", "ended"}
    BY <1>5 DEF StreamEnds, StreamCut, Respond, End
  <2> QED BY <2>1, <2>2 DEF TheBlock!End, TheBlock!vars
<1>6. CASE CollectResults
  <2>1. BlockPhase = "running" /\ cancel' = cancel /\ cancel \in BOOLEAN
    BY <1>6 DEF CollectResults, TypeOK
  <2>2. CASE cancel
    <3>1. BlockPhase' = "cancelled"
      BY <1>6, <2>2 DEF CollectResults, End
    <3> QED BY <2>1, <2>2, <3>1 DEF TheBlock!EndCancelled
  <2>3. CASE ~cancel
    <3>1. BlockPhase' \in {"winding", "running"}
      BY <1>6, <2>3 DEF CollectResults
    <3> QED BY <2>1, <2>3, <3>1 DEF TheBlock!SpendBudget, TheBlock!vars
  <2> QED BY <2>2, <2>3
<1> QED BY <1>1, <1>2, <1>3, <1>4, <1>5, <1>6 DEF StreamStep

\* AgentCore.run() implements the block that agent.send_message counts on.
THEOREM TurnImplementsBlock == Spec => TurnIsABlock
<1>1. Init => TheBlock!Init
  <2> SUFFICES ASSUME Init PROVE TheBlock!Init
    OBVIOUS
  <2>1. BlockPhase \in {"running", "winding"} /\ cancel = FALSE
    BY DEF Init, BlockPhase, Over
  <2>2. ~(\E i \in Slots : st[i] = "consent")
    BY DEF Init
  <2> QED BY <2>1, <2>2 DEF TheBlock!Init
<1>2. TypeOK /\ PrepareInOrder /\ PrepareInOrder' /\ [Next]_vars
        => [TheBlock!Next]_(TheBlock!vars)
  <2> SUFFICES ASSUME TypeOK, PrepareInOrder, PrepareInOrder', [Next]_vars
               PROVE  TheBlock!Next \/ UNCHANGED TheBlock!vars
    OBVIOUS
  <2>1. CASE \E i \in Slots : CallStep(i)
    <3>1. PICK i \in Slots : CallStep(i)
      BY <2>1
    <3>2. UNCHANGED <<pc, iteration, cancel, ending>>
      BY <3>1, CallStaysInBlock
    <3>3. BlockPhase' = BlockPhase /\ cancel' = cancel
      BY <3>2 DEF BlockPhase, Over
    <3>4. Asking \/ Asking' => BlockPhase = "running"
      BY <3>2 DEF PrepareInOrder, Busy, Asking, BlockPhase, Over
    <3>5. CASE ~Asking /\ Asking'
      BY <3>3, <3>4, <3>5 DEF TheBlock!Next, TheBlock!Ask, Asking
    <3>6. CASE Asking /\ ~Asking'
      BY <3>3, <3>6 DEF TheBlock!Next, TheBlock!Answered, Asking
    <3>7. CASE Asking' = Asking
      BY <3>3, <3>7 DEF TheBlock!vars, Asking
    <3> QED BY <3>5, <3>6, <3>7 DEF Asking
  <2>2. CASE \E i \in Slots : RaiseStep(i)
    <3>1. PICK i \in Slots : RaiseStep(i)
      BY <2>2
    <3>2. /\ UNCHANGED <<iteration, cancel>> /\ pc' = "raised" /\ ending' \in Errors
          /\ (pc = "prepare" /\ st[i] = "taken") \/ Executing
      BY <3>1, RaiseEnds
    <3>3. ~Asking'
      BY <3>2 DEF PrepareInOrder, Busy, Asking
    <3>4. ~Asking
      <4>1. CASE Executing
        BY <4>1 DEF Executing, PrepareInOrder, Busy, Asking
      <4>2. CASE pc = "prepare" /\ st[i] = "taken"
        BY <4>2, OneInPreparation DEF Busy, Asking
      <4> QED BY <3>2, <4>1, <4>2
    <3>5. BlockPhase' = "ended" /\ BlockPhase \in {"running", "ended"}
      BY <3>2 DEF BlockPhase, Over, Errors, Executing
    <3> QED BY <3>2, <3>3, <3>4, <3>5 DEF TheBlock!Next, TheBlock!End, TheBlock!vars, Asking
  <2>3. CASE StartIteration \/ StopCancelled \/ StopTruncated \/ StreamStep
             \/ Gather \/ CollectResults
    <3>1. ~Asking /\ ~Asking'
      BY <2>3, LoopPreparesNothing DEF Asking, Busy
    <3> QED BY <2>3, <3>1, LoopIsBlockStep DEF TheBlock!Next
  <2>4. CASE Cancel
    <3>1. cancel' = TRUE /\ BlockPhase' = BlockPhase /\ st' = st
      BY <2>4 DEF Cancel, turnVars, BlockPhase, Over
    <3> QED BY <3>1 DEF TheBlock!Next, TheBlock!Cancel
  <2>5. CASE UNCHANGED vars
    BY <2>5 DEF vars, TheBlock!vars, BlockPhase, Over
  <2> QED BY <2>1, <2>2, <2>3, <2>4, <2>5 DEF Next, ProgramStep
<1> QED BY <1>1, <1>2, TypeCorrect, PrepareInOrderHolds, PTL
        DEF Spec, TurnIsABlock, TheBlock!Spec

-----------------------------------------------------------------------------
(* The message list *)

\* The lemmas about lists, for the list of a turn.  (They do not depend on the
\* rest of what is substituted: it belongs to the conversations of that module.)
Lists == INSTANCE CompactionProofs
    WITH ms <- messages, owed <- Len(batch), MaxLen <- 0, MaxCalls <- 0, Keep <- KeepRecent

\* They speak of the same compact_history().
LEMMA SameCompaction ==
    ASSUME NEW h, NEW k, NEW s
    PROVE  /\ Lists!CompactHistory(h, k, s) = CompactHistory(h, k, s)
           /\ Lists!PairedHistory(h) <=> PairedHistory(h)
<1>1. Lists!PairedHistory(h) <=> PairedHistory(h)
  BY DEF PairedHistory, Lists!PairedHistory
<1>2. ASSUME NEW t, NEW P PROVE Lists!Subsequence(t, P) = Subsequence(t, P)
  BY DEF Subsequence, Lists!Subsequence
<1>3. Lists!System(h) = System(h) /\ Lists!Turns(h) = Turns(h)
  BY <1>2 DEF System, Turns, Lists!System, Lists!Turns
<1>4. ASSUME NEW t PROVE Lists!TurnStarts(t) = TurnStarts(t)
  BY DEF TurnStarts, Lists!TurnStarts
<1>5. ASSUME NEW S PROVE Lists!Cardinality(S) = Cardinality(S)
  BY DEF Cardinality, Lists!Cardinality
<1>6. ASSUME NEW t
      PROVE  Lists!Cut(t, k) = Cut(t, k)
  BY DEF Cut, KeepFrom, TurnStarts, Lists!Cut, Lists!KeepFrom,
         Lists!TurnStarts, Cardinality, Lists!Cardinality
<1>7. Lists!CompactHistory(h, k, s) = CompactHistory(h, k, s)
  <2> DEFINE t == Turns(h)
  <2>1. /\ Lists!Cut(t, k) = Cut(t, k)
        /\ Lists!TurnStarts(t) = TurnStarts(t)
        /\ Lists!Turns(h) = t /\ Lists!System(h) = System(h)
    BY <1>3, <1>4, <1>6
  <2> HIDE DEF t
  <2>2. CompactHistory(h, k, s) =
            IF Cardinality(TurnStarts(t)) <= k THEN System(h) \o t
            ELSE System(h) \o <<s>> \o SubSeq(t, Cut(t, k), Len(t))
    BY DEF CompactHistory, t
  <2> QED BY <1>5, <2>1, <2>2 DEF Lists!CompactHistory
<1> QED BY <1>1, <1>7

Counts(M) == \A m \in M : m.calls \in Nat

\* Two paired lists make a paired list.
LEMMA PairedConcat ==
    ASSUME NEW M, NEW s \in Seq(M), NEW t \in Seq(M), PairedHistory(s), PairedHistory(t)
    PROVE  s \o t \in Seq(M) /\ PairedHistory(s \o t)
BY Lists!PairedConcat, SameCompaction

\* So is an assistant message with one result for each of its calls.
LEMMA GroupPaired ==
    ASSUME NEW M, NEW a \in M, a.role = "assistant", NEW r \in Seq(M), Len(r) = a.calls,
           \A i \in 1 .. Len(r) : r[i].role = "tool"
    PROVE  <<a>> \o r \in Seq(M) /\ PairedHistory(<<a>> \o r)
BY Lists!GroupPaired, SameCompaction

\* And what compact_history() makes of a paired list.
LEMMA CompactedPaired ==
    ASSUME NEW M, Counts(M), NEW h \in Seq(M), PairedHistory(h), NEW keep \in Nat \ {0},
           NEW summary \in M, summary.role = "user"
    PROVE  /\ CompactHistory(h, keep, summary) \in Seq(M)
           /\ PairedHistory(CompactHistory(h, keep, summary))
<1>1. Lists!Counts(M)
  BY DEF Counts, Lists!Counts
<1> QED BY <1>1, Lists!CompactedPaired, SameCompaction

Message == [role : {"system", "user", "assistant", "tool"}, calls : Nat]

\* The stored conversations are paired, as those that turns leave behind are.
PairedStore == \A h \in Histories : h \in Seq(Message) /\ PairedHistory(h)

Resolving == pc \in {"prepare", "execute"}

\* The list, with the results that are still owed.
Settled == IF Resolving THEN messages \o ResultRows ELSE messages

HistoryInv == pc # "raised" => messages \in Seq(Message) /\ PairedHistory(Settled)

\* The rows a turn appends.
LEMMA RowsTyped ==
    /\ \A role \in {"system", "user", "assistant", "tool"}, n \in Nat : Row(role, n) \in Message
    /\ \A role, n : Row(role, n).role = role /\ Row(role, n).calls = n
    /\ Counts(Message)
BY DEF Row, Message, Counts

\* A user or system message, or an answer without calls, is paired by itself.
LEMMA LoneRow ==
    ASSUME NEW m \in Message,
           m.role \in {"system", "user"} \/ (m.role = "assistant" /\ m.calls = 0)
    PROVE  <<m>> \in Seq(Message) /\ PairedHistory(<<m>>)
<1>1. <<m>> \in Seq(Message) /\ DOMAIN <<m>> = {1} /\ <<m>>[1] = m
  OBVIOUS
<1>2. \A k \in 1 .. 0 : FALSE
  OBVIOUS
<1>3. m.role # "tool" /\ (m.role = "assistant" => m.calls = 0)
  OBVIOUS
<1> QED BY <1>1, <1>2, <1>3 DEF PairedHistory

\* One result for each call of a batch.
LEMMA ResultsTyped ==
    ASSUME NEW n \in Nat
    PROVE  LET r == [i \in 1 .. n |-> Row("tool", 0)]
           IN  r \in Seq(Message) /\ Len(r) = n /\ \A i \in 1 .. n : r[i].role = "tool"
<1>1. Row("tool", 0) \in Message /\ Row("tool", 0).role = "tool"
  BY RowsTyped
<1> DEFINE r == [i \in 1 .. n |-> Row("tool", 0)]
<1>2. r \in Seq(Message) /\ Len(r) = n
  BY <1>1
<1> QED BY <1>1, <1>2

\* A turn starts from a paired list.
LEMMA HistoryInit == ASSUME PairedStore, Init PROVE HistoryInv
<1>1. PICK h \in Histories : messages = <<Row("system", 0)>> \o h \o <<Row("user", 0)>>
  BY DEF Init
<1>2. h \in Seq(Message) /\ PairedHistory(h)
  BY DEF PairedStore
<1>3. /\ <<Row("system", 0)>> \in Seq(Message) /\ PairedHistory(<<Row("system", 0)>>)
      /\ <<Row("user", 0)>> \in Seq(Message) /\ PairedHistory(<<Row("user", 0)>>)
  BY RowsTyped, LoneRow
<1>4. LET p == <<Row("system", 0)>> \o h IN p \in Seq(Message) /\ PairedHistory(p)
  BY <1>2, <1>3, PairedConcat
<1>5. messages \in Seq(Message) /\ PairedHistory(messages)
  BY <1>1, <1>3, <1>4, PairedConcat
<1>6. Settled = messages
  BY DEF Settled, Resolving, Init
<1> QED BY <1>5, <1>6 DEF HistoryInv

\* An answer is appended: the results of its calls, if any, are owed.
LEMMA RespondHistory ==
    ASSUME TypeOK, HistoryInv, pc = "llm", NEW b \in Batches \cup {<< >>}, Respond(b)
    PROVE  HistoryInv'
<1>1. messages \in Seq(Message) /\ PairedHistory(messages)
  BY DEF HistoryInv, Settled, Resolving
<1>2. b \in Seq(Call) /\ Len(b) \in Nat
  <2>1. CASE b = << >>
    BY <2>1
  <2>2. CASE b \in Batches
    <3>1. b \in Seq(Call)
      BY <2>2, TurnAssumption
    <3> QED BY <3>1
  <2> QED BY <2>1, <2>2
<1> DEFINE a == Row("assistant", Len(b))
           r == [i \in 1 .. Len(b) |-> Row("tool", 0)]
<1>3. a \in Message /\ a.role = "assistant" /\ a.calls = Len(b)
  BY <1>2, RowsTyped
<1>4. r \in Seq(Message) /\ Len(r) = Len(b) /\ \A i \in 1 .. Len(r) : r[i].role = "tool"
  BY <1>2, ResultsTyped
<1>5. messages' = Append(messages, a) /\ batch' = b
  BY DEF Respond
<1>6. ResultRows' = r
  BY <1>5 DEF ResultRows, Calls
<1> HIDE DEF a, r
<1>7. messages' = messages \o <<a>> /\ messages' \in Seq(Message)
  BY <1>1, <1>3, <1>5
<1>8. CASE b = << >>
  <2>1. ~Resolving'
    BY <1>8 DEF Respond, End, Resolving
  <2>2. a.calls = 0
    BY <1>3, <1>8
  <2>3. PairedHistory(messages')
    BY <1>1, <1>3, <1>7, <2>2, LoneRow, PairedConcat
  <2> QED BY <1>7, <2>1, <2>3 DEF HistoryInv, Settled
<1>9. CASE b # << >>
  <2>1. Resolving'
    BY <1>9 DEF Respond, Resolving
  <2>2. <<a>> \o r \in Seq(Message) /\ PairedHistory(<<a>> \o r)
    BY <1>3, <1>4, GroupPaired
  <2>3. PairedHistory(messages \o (<<a>> \o r))
    BY <1>1, <2>2, PairedConcat
  <2>4. messages' \o r = messages \o (<<a>> \o r)
    BY <1>1, <1>3, <1>4, <1>7
  <2> QED BY <1>6, <1>7, <2>1, <2>3, <2>4 DEF HistoryInv, Settled
<1> QED BY <1>8, <1>9

\* The results of the batch are appended: nothing is owed any more.
LEMMA CollectHistory ==
    ASSUME TypeOK, HistoryInv, CollectResults
    PROVE  HistoryInv'
<1>1. messages \in Seq(Message) /\ PairedHistory(messages \o ResultRows)
  BY DEF HistoryInv, Settled, Resolving, CollectResults
<1>2. Len(batch) \in Nat
  BY BatchTyped
<1>3. ResultRows \in Seq(Message)
  BY <1>2, ResultsTyped DEF ResultRows, Calls
<1>4. messages' = messages \o ResultRows
  BY DEF CollectResults
<1>5. ~Resolving'
  BY DEF CollectResults, End, Resolving
<1> QED BY <1>1, <1>3, <1>4, <1>5 DEF HistoryInv, Settled

\* The calls of a batch leave the list and the batch alone.
LEMMA CallHistory ==
    ASSUME NEW i \in Slots, CallStep(i)
    PROVE  UNCHANGED <<pc, messages, batch>>
BY DEF CallStep, SkipCall, TakeUp, RejectMalformed, DenyByPolicy, Allow, AskConsent,
       ConsentGranted, ConsentRefused, Admit, phase1Frame, Dispatch, DispatchEnds,
       StartAskUser, AskUserEnds, turnVars

\* A step that moves neither the list nor the batch, in or out of a batch.
LEMMA SameHistory ==
    ASSUME HistoryInv, UNCHANGED <<messages, batch>>, Resolving' = Resolving,
           pc = "raised" => pc' = "raised"
    PROVE  HistoryInv'
BY DEF HistoryInv, Settled, ResultRows, Calls

\* Every step keeps the list paired.
LEMMA HistoryStep ==
    ASSUME TypeOK, HistoryInv, [Next]_vars
    PROVE  HistoryInv'
<1>1. CASE StartIteration
  <2>1. messages \in Seq(Message) /\ PairedHistory(messages) /\ ~Resolving /\ ~Resolving'
    BY <1>1 DEF StartIteration, HistoryInv, Settled, Resolving
  <2>2. CASE UNCHANGED messages
    BY <2>1, <2>2 DEF HistoryInv, Settled
  <2>3. CASE messages' = CompactHistory(messages, KeepRecent, Summary)
    <3>1. Counts(Message) /\ Summary \in Message /\ Summary.role = "user"
      BY RowsTyped DEF Summary
    <3>2. messages' \in Seq(Message) /\ PairedHistory(messages')
      BY <2>1, <2>3, <3>1, CompactedPaired, TurnAssumption
    <3> QED BY <2>1, <3>2 DEF HistoryInv, Settled
  <2> QED BY <1>1, <2>2, <2>3 DEF StartIteration
<1>2. CASE StopTruncated
  <2>1. messages \in Seq(Message) /\ PairedHistory(messages) /\ ~Resolving'
    BY <1>2 DEF StopTruncated, End, HistoryInv, Settled, Resolving
  <2>2. <<Row("assistant", 0)>> \in Seq(Message) /\ PairedHistory(<<Row("assistant", 0)>>)
    BY RowsTyped, LoneRow
  <2>3. messages' = messages \o <<Row("assistant", 0)>>
    BY <1>2, <2>1 DEF StopTruncated
  <2>4. messages' \in Seq(Message) /\ PairedHistory(messages')
    BY <2>1, <2>2, <2>3, PairedConcat
  <2> QED BY <2>1, <2>4 DEF HistoryInv, Settled
<1>3. CASE \E b \in Batches \cup {<< >>} : StreamEnds(b) \/ StreamCut(b)
  BY <1>3, RespondHistory DEF StreamEnds, StreamCut
<1>4. CASE StopCancelled \/ StreamRetried \/ StreamFails \/ StreamCrashes
  <2>1. UNCHANGED <<messages, batch>> /\ ~Resolving /\ ~Resolving'
    BY <1>4 DEF StopCancelled, StreamRetried, StreamFails, StreamCrashes, End, batchVars,
                Resolving
  <2>2. Resolving' = Resolving /\ pc # "raised"
    BY <1>4, <2>1 DEF Resolving, StopCancelled, StreamRetried, StreamFails, StreamCrashes
  <2> QED BY <2>1, <2>2, SameHistory
<1>5. CASE \E i \in Slots : CallStep(i)
  <2>1. UNCHANGED <<pc, messages, batch>>
    BY <1>5, CallHistory
  <2> QED BY <2>1, SameHistory DEF Resolving
<1>8. CASE \E i \in Slots : RaiseStep(i)
  <2>1. pc' = "raised"
    BY <1>8, RaiseEnds
  <2> QED BY <2>1 DEF HistoryInv
<1>6. CASE Gather \/ Cancel \/ UNCHANGED vars
  <2>1. /\ UNCHANGED <<messages, batch>> /\ Resolving' = Resolving
        /\ pc = "raised" => pc' = "raised"
    BY <1>6 DEF Gather, Cancel, vars, turnVars, batchVars, Resolving
  <2> QED BY <2>1, SameHistory
<1>7. CASE CollectResults
  BY <1>7, CollectHistory
<1> QED BY <1>1, <1>2, <1>3, <1>4, <1>5, <1>6, <1>7, <1>8 DEF Next, ProgramStep, StreamStep

\* From a paired stored conversation, each request to the model and the list a
\* turn returns pair every tool call with its result, however the turn is
\* cancelled, truncated, compacted or cut short.
THEOREM HistoryPairedHolds == PairedStore => (Spec => []HistoryPaired)
<1> SUFFICES ASSUME PairedStore PROVE Spec => []HistoryPaired
  OBVIOUS
<1>1. Init => HistoryInv
  BY HistoryInit
<1>2. TypeOK /\ HistoryInv /\ [Next]_vars => HistoryInv'
  BY HistoryStep
<1>3. HistoryInv => HistoryPaired
  BY DEF HistoryInv, Settled, Resolving, HistoryPaired, Over
<1> QED BY <1>1, <1>2, <1>3, TypeCorrect, PTL DEF Spec
=============================================================================
