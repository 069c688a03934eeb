------------------------------- MODULE AgentTurn -------------------------------
(***************************************************************************)
(* One turn of src/agent/minimax_code/agent/core.py: AgentCore.run().      *)
(*                                                                         *)
(* The loop asks the model, runs the batch of tool calls it answers with,  *)
(* appends one result for each call and asks again, until a text answer,   *)
(* a cancellation, the iteration budget or an error ends the turn.  A      *)
(* batch is prepared one call at a time (permission, consent, hook, tool   *)
(* breaker) and then executed concurrently by asyncio.gather(), with one   *)
(* lock per written path.  AgentCore.cancel() may be called between any    *)
(* two steps; the loop looks at its flag only at a few places.             *)
(*                                                                         *)
(* Left out: text and token counts, the ephemeral notes (they reach one    *)
(* model call and are never stored), tracing, and queue_interjection(),    *)
(* which nothing in the program calls.                                     *)
(***************************************************************************)
EXTENDS Compaction

CONSTANTS
    MaxIterations,   \* AgentConfig.max_iterations
    MaxAttempts,     \* RetryPolicy.llm().max_attempts
    MaxBatch,        \* bound: the longest batch of tool calls
    Paths,           \* what the file tools write to
    Batches,         \* the batches of tool calls the model may answer with
    Histories,       \* the stored conversations a turn may start from
    KeepRecent,      \* keep_recent of compact_history()
    Interactive      \* a permission gater and an on_ask_user callback are wired

Slots == 1 .. MaxBatch
\* Arguments are a JSON object, cut off by the token limit, or valid JSON that is
\* no object: nothing looks at what json.loads() returned.
Call == [tool : {"plain", "write", "ask_user"}, args : {"object", "cut", "other"},
         path : Paths]

ASSUME TurnAssumption ==
    /\ MaxIterations \in Nat /\ MaxAttempts \in Nat \ {0} /\ MaxBatch \in Nat
    /\ Batches \subseteq Seq(Call)
    /\ \A b \in Batches : Len(b) \in Slots
    /\ KeepRecent \in Nat \ {0}
    /\ Interactive \in BOOLEAN

VARIABLES
    pc,         \* where run() is
    iteration,  \* iterations started
    attempt,    \* with_retry()'s attempt at the current model call
    cancel,     \* AgentCore._cancel
    messages,   \* the conversation sent to the model
    batch,      \* the tool calls being resolved
    st,         \* what became of each call of the batch
    called, resulted, audited,  \* on_tool_call, on_tool_result, audit records
    holder,     \* the call that holds the write lock of a path, or 0
    woken,      \* ask_user waits that cancel() resolved with None
    ending,     \* how the turn ended
    fired,      \* terminal lifecycle hooks, in order
    late        \* history: calls asked about or admitted while the flag was up

turnVars == <<iteration, attempt, messages, ending, fired>>
batchVars == <<batch, st, called, resulted, audited, holder, woken, late>>
vars == <<pc, iteration, attempt, cancel, messages, batch, st, called,
          resulted, audited, holder, woken, ending, fired, late>>

\* "taken": in _prepare_tool_call(), which awaits.  "silent", "done" and "raised"
\* are the ends of a call; only "done" reports a result.
CallState == {"todo", "taken", "consent", "ready", "running", "waiting_user",
              "silent", "done", "raised"}
\* "gather_error": a task of gather() raised; its siblings go on without run().
Ending == {"none", "final", "cancelled", "truncated", "llm_error", "other_error",
           "gather_error"}
Errors == {"llm_error", "other_error", "gather_error"}

Row(role, calls) == [role |-> role, calls |-> calls]
Summary == Row("user", 0)

Calls == 1 .. Len(batch)
IsWrite(i) == batch[i].tool = "write" /\ batch[i].args = "object"
SamePath(i, j) == IsWrite(i) /\ IsWrite(j) /\ batch[i].path = batch[j].path
Over == pc \in {"returned", "raised"}
Executing == pc = "execute" \/ (pc = "raised" /\ ending = "gather_error")

\* Type invariant.  A turn of run() fires at most one terminal hook, and no call
\* gets a second on_tool_result or audit record.
TypeOK ==
    /\ pc \in {"top", "llm", "prepare", "execute", "returned", "raised"}
    /\ iteration \in 0 .. MaxIterations
    /\ attempt \in 1 .. MaxAttempts
    /\ cancel \in BOOLEAN
    /\ batch \in Batches \cup {<< >>}
    /\ st \in [Slots -> CallState]
    /\ called \in [Slots -> 0 .. 2]
    /\ resulted \in [Slots -> 0 .. 1] /\ audited \in [Slots -> 0 .. 1]
    /\ holder \in [Paths -> 0 .. MaxBatch]
    /\ woken \subseteq Slots
    /\ ending \in Ending
    /\ fired \in {<< >>, <<"done">>, <<"abort">>, <<"error">>}
    /\ late \subseteq Slots

NoBatch ==
    /\ st' = [i \in Slots |-> "todo"]
    /\ called' = [i \in Slots |-> 0]
    /\ resulted' = [i \in Slots |-> 0] /\ audited' = [i \in Slots |-> 0]
    /\ woken' = {}

Init ==
    /\ pc = "top" /\ iteration = 0 /\ attempt = 1 /\ cancel = FALSE
    /\ messages \in {<<Row("system", 0)>> \o h \o <<Row("user", 0)>> : h \in Histories}
    /\ batch = << >> /\ st = [i \in Slots |-> "todo"]
    /\ called = [i \in Slots |-> 0]
    /\ resulted = [i \in Slots |-> 0] /\ audited = [i \in Slots |-> 0]
    /\ holder = [p \in Paths |-> 0] /\ woken = {}
    /\ ending = "none" /\ fired = << >> /\ late = {}

EndFiringTwice(how, hooks) ==
    /\ ending' = how
    /\ fired' = fired \o hooks \o hooks
    /\ pc' = IF how \in Errors THEN "raised" ELSE "returned"

\* The turn is over; its terminal hooks fire.
End(how, hooks) ==
    /\ ending' = how
    /\ fired' = fired \o hooks
    /\ pc' = IF how \in Errors THEN "raised" ELSE "returned"

-----------------------------------------------------------------------------
(* The loop *)

\* The flag is tested once, at the head of the iteration.
StartIteration ==
    /\ pc = "top" /\ iteration < MaxIterations /\ ~cancel
    /\ iteration' = iteration + 1 /\ attempt' = 1
    /\ \/ UNCHANGED messages
       \/ LET compacted == CompactHistory(messages, KeepRecent, Summary)
          IN  /\ iteration > 0 /\ Len(compacted) < Len(messages)
              /\ messages' = compacted
    /\ pc' = "llm"
    /\ UNCHANGED <<cancel, batchVars, ending, fired>>

StopCancelled ==
    /\ pc = "top" /\ iteration < MaxIterations /\ cancel
    /\ iteration' = iteration + 1
    /\ End("cancelled", <<"abort">>)
    /\ UNCHANGED <<attempt, cancel, messages, batchVars>>

\* The for loop ran out: the notice that says so is the last message.
StopTruncated ==
    /\ pc = "top" /\ iteration = MaxIterations
    /\ messages' = Append(messages, Row("assistant", 0))
    /\ End("truncated", <<"abort">>)
    /\ UNCHANGED <<iteration, attempt, cancel, batchVars>>

\* What follows a stream that ended, whole or cut: a text is the final answer,
\* tool calls are resolved.
Respond(b) ==
    /\ messages' = Append(messages, Row("assistant", Len(b)))
    /\ batch' = b
    /\ NoBatch
    /\ IF b = << >>
         THEN End("final", <<"done">>)
         ELSE pc' = "prepare" /\ UNCHANGED <<ending, fired>>
    /\ UNCHANGED <<iteration, attempt, cancel, holder, late>>

StreamEnds(b) == pc = "llm" /\ Respond(b)

\* _stream_turn() breaks at the chunk that follows a cancellation and keeps
\* what arrived before: some text, or the calls begun so far.
StreamCut(b) == pc = "llm" /\ cancel /\ Respond(b)

\* A retryable failure (a stall, a dropped connection, a 5xx) streams again,
\* cancelled or not.
StreamRetried ==
    /\ pc = "llm" /\ attempt < MaxAttempts
    /\ attempt' = attempt + 1
    /\ UNCHANGED <<pc, iteration, cancel, messages, batchVars, ending, fired>>

\* An LLMError that is terminal, or the last attempt's.
StreamFails ==
    /\ pc = "llm"
    /\ End("llm_error", <<"error">>)
    /\ UNCHANGED <<iteration, attempt, cancel, messages, batchVars>>

\* Any other exception passes the loop's only handler by.
StreamCrashes ==
    /\ pc = "llm"
    /\ End("other_error", << >>)
    /\ UNCHANGED <<iteration, attempt, cancel, messages, batchVars>>

-----------------------------------------------------------------------------
(* _run_tool_batch(), phase 1: one call after the other *)

Settle(i, to, c, r) ==
    /\ st' = [st EXCEPT ![i] = to]
    /\ called' = [called EXCEPT ![i] = @ + c]
    /\ resulted' = [resulted EXCEPT ![i] = @ + r]
    /\ audited' = [audited EXCEPT ![i] = @ + r]

Prepared(i) == st[i] \notin {"todo", "taken", "consent"}

\* It is the turn of call i.
Turn(i) ==
    /\ pc = "prepare" /\ i \in Calls /\ st[i] = "todo"
    /\ \A j \in 1 .. i - 1 : Prepared(j)

TakesCallAnyway(i) == Turn(i)

\* _prepare_tool_call() is entered only while the flag is down.
TakesCall(i) == Turn(i) /\ ~cancel

phase1Frame == <<pc, cancel, turnVars, batch, holder, woken>>

\* _cancel_prepared(): neither emitted nor audited, yet it has a result.
SkipCall(i) ==
    /\ Turn(i) /\ cancel
    /\ Settle(i, "silent", 0, 0)
    /\ UNCHANGED <<phase1Frame, late>>

\* The announcement, the hooks and the breaker are awaited from here on, and the
\* flag is not looked at again before the next call.
TakeUp(i) ==
    /\ TakesCall(i)
    /\ Settle(i, "taken", 0, 0)
    /\ UNCHANGED <<phase1Frame, late>>

Taken(i) == pc = "prepare" /\ st[i] = "taken"

NoteLate(i) == late' = IF cancel THEN late \cup {i} ELSE late

\* Arguments that are not JSON: only on_tool_call is told.
RejectMalformed(i) ==
    /\ Taken(i) /\ batch[i].args = "cut"
    /\ Settle(i, "silent", 1, 0)
    /\ UNCHANGED <<phase1Frame, late>>

WellFormed(i) == Taken(i) /\ batch[i].args # "cut"

DenyByPolicy(i) ==
    /\ WellFormed(i)
    /\ Settle(i, "done", 1, 1)
    /\ UNCHANGED <<phase1Frame, late>>

\* The rest of _prepare_tool_call() once permission is given: the hook may
\* block (and emits the call whether or not it was emitted), the tool's
\* breaker may be open, or the call is ready.
Admit(i, announced) ==
    LET announce == IF announced THEN 0 ELSE 1
    IN  /\ \/ Settle(i, "done", 1, 1) /\ UNCHANGED late
           \/ Settle(i, "done", announce, 1) /\ UNCHANGED late
           \/ Settle(i, "ready", announce, 0) /\ NoteLate(i)
        /\ UNCHANGED phase1Frame

\* The rule allows, or says "ask" and nobody can be asked.
Allow(i) == WellFormed(i) /\ Admit(i, FALSE)

AskConsent(i) ==
    /\ WellFormed(i) /\ Interactive
    /\ Settle(i, "consent", 1, 0) /\ NoteLate(i)
    /\ UNCHANGED phase1Frame

\* request_consent() copies the arguments with dict(), which most values that are
\* no object refuse: run() raises, and what was ready never runs.
ConsentRaises(i) ==
    /\ WellFormed(i) /\ Interactive /\ batch[i].args = "other"
    /\ Settle(i, "raised", 1, 0)
    /\ End("other_error", << >>)
    /\ UNCHANGED <<cancel, iteration, attempt, messages, batch, holder, woken, late>>

ConsentGranted(i) == pc = "prepare" /\ st[i] = "consent" /\ Admit(i, TRUE)

\* Denied, or not answered within 300 s.
ConsentRefused(i) ==
    /\ pc = "prepare" /\ st[i] = "consent"
    /\ Settle(i, "done", 0, 1)
    /\ UNCHANGED <<phase1Frame, late>>

Gather ==
    /\ pc = "prepare" /\ \A i \in Calls : Prepared(i)
    /\ pc' = "execute"
    /\ UNCHANGED <<cancel, turnVars, batchVars>>

-----------------------------------------------------------------------------
(* _run_tool_batch(), phase 2: the calls overlap *)

LockNeverTaken(i) == IsWrite(i) => \A j \in 1 .. i - 1 : ~(SamePath(i, j) /\ st[j] = "ready")
LockBarging(i) == IsWrite(i) => holder[batch[i].path] = 0

\* The asyncio.Lock of the path is free and no earlier call waits for it: the
\* tasks of gather() reach `async with' in call order.
LockFree(i) ==
    IsWrite(i) =>
        /\ holder[batch[i].path] = 0
        /\ \A j \in 1 .. i - 1 : ~(SamePath(i, j) /\ st[j] = "ready")

\* _write_lock_for() looks for a path in what is no object.
LockRefused(i) == batch[i].tool = "write" /\ batch[i].args = "other"

Dispatch(i) ==
    /\ Executing /\ i \in Calls /\ st[i] = "ready" /\ LockFree(i) /\ ~LockRefused(i)
    /\ st' = [st EXCEPT ![i] = "running"]
    /\ holder' = IF IsWrite(i) THEN [holder EXCEPT ![batch[i].path] = i] ELSE holder
    /\ UNCHANGED <<pc, cancel, turnVars, batch, called, resulted, audited, woken,
                   late>>

\* gather() hands the exception to run(), which raises it; the other tasks of the
\* batch are not cancelled.
LockRaises(i) ==
    /\ Executing /\ i \in Calls /\ st[i] = "ready" /\ LockRefused(i)
    /\ Settle(i, "raised", 0, 0)
    /\ IF Over THEN UNCHANGED <<pc, ending, fired>> ELSE End("gather_error", << >>)
    /\ UNCHANGED <<cancel, iteration, attempt, messages, batch, holder, woken, late>>

ReleaseForgotten(i) == holder' = holder

\* Leaving the `async with' block.
Release(i) == holder' = [p \in Paths |-> IF holder[p] = i THEN 0 ELSE holder[p]]

\* The dispatch returned, failed or ran into tool_timeout.
DispatchEnds(i) ==
    /\ Executing /\ st[i] = "running"
    /\ Release(i)
    /\ Settle(i, "done", 0, 1)
    /\ UNCHANGED <<pc, cancel, turnVars, batch, woken, late>>

\* ask_user returned its marker: the call waits for the user, lock released.
StartAskUser(i) ==
    /\ Executing /\ st[i] = "running" /\ Interactive
    /\ batch[i].tool = "ask_user" /\ batch[i].args = "object"
    /\ Release(i)
    /\ st' = [st EXCEPT ![i] = "waiting_user"]
    /\ UNCHANGED <<pc, cancel, turnVars, batch, called, resulted, audited, woken,
                   late>>

\* Answered, woken by cancel(), or not answered within 600 s.
AskUserEnds(i) ==
    /\ Executing /\ st[i] = "waiting_user"
    /\ Settle(i, "done", 0, 1)
    /\ UNCHANGED <<pc, cancel, turnVars, batch, holder, woken, late>>

Finished(i) == st[i] \in {"silent", "done"}

RowsOfReportedCalls ==
    SelectSeq([i \in Calls |-> Row("tool", i)], LAMBDA r : st[r.calls] = "done")

\* One tool message for each call, in call order.
ResultRows == [i \in Calls |-> Row("tool", 0)]

CollectWithoutLook ==
    /\ pc = "execute" /\ \A i \in Calls : Finished(i)
    /\ messages' = messages \o ResultRows
    /\ pc' = "top"
    /\ UNCHANGED <<cancel, iteration, attempt, batchVars, ending, fired>>

CollectResults ==
    /\ pc = "execute" /\ \A i \in Calls : Finished(i)
    /\ messages' = messages \o ResultRows
    /\ IF cancel
         THEN End("cancelled", <<"abort">>)
         ELSE pc' = "top" /\ UNCHANGED <<ending, fired>>
    /\ UNCHANGED <<cancel, iteration, attempt, batchVars>>

-----------------------------------------------------------------------------

\* AgentCore.cancel(): raises the flag and wakes the ask_user waits there are.
Cancel ==
    /\ ~Over /\ ~cancel
    /\ cancel' = TRUE
    /\ woken' = {i \in Slots : st[i] = "waiting_user"}
    /\ UNCHANGED <<pc, turnVars, batch, st, called, resulted, audited, holder, late>>

StreamStep ==
    \/ StreamRetried \/ StreamFails \/ StreamCrashes
    \/ \E b \in Batches \cup {<< >>} : StreamEnds(b) \/ StreamCut(b)

CallStep(i) ==
    \/ SkipCall(i) \/ TakeUp(i) \/ RejectMalformed(i) \/ DenyByPolicy(i) \/ Allow(i)
    \/ AskConsent(i) \/ ConsentGranted(i) \/ ConsentRefused(i)
    \/ Dispatch(i) \/ DispatchEnds(i) \/ StartAskUser(i) \/ AskUserEnds(i)

RaiseStep(i) == ConsentRaises(i) \/ LockRaises(i)

ProgramStep ==
    \/ StartIteration \/ StopCancelled \/ StopTruncated
    \/ StreamStep
    \/ \E i \in Slots : CallStep(i) \/ RaiseStep(i)
    \/ Gather \/ CollectResults

Next == ProgramStep \/ Cancel

Spec == Init /\ [][Next]_vars

\* Every await of the turn is bounded: the stall timeout and the retry budget
\* for the stream, 300 s for a consent, tool_timeout for a dispatch (or the
\* tool's own wall clock where dispatch_timeout disables it), 600 s for an
\* answer.  Nobody has to cancel.
FairSpec == Spec /\ WF_vars(ProgramStep)

-----------------------------------------------------------------------------
(* Properties *)

\* run() appends the result of every call, cancelled ones included, and
\* compacts only whole turns: each request to the model, and the list a turn
\* returns, pairs every tool call with its result.  (A turn that raises returns none.)
HistoryPaired == pc \in {"llm", "returned"} => PairedHistory(messages)

\* The per-path asyncio.Lock of _execute_tool_call(): two writes of one batch
\* to the same path never overlap, whatever times out or fails.
WritesSerialized ==
    \A i, j \in Calls :
        (i # j /\ SamePath(i, j)) => ~(st[i] = "running" /\ st[j] = "running")

\* The same writes also take effect in the order the model asked for them.
WritesInCallOrder ==
    \A i, j \in Calls :
        (j < i /\ SamePath(i, j) /\ st[i] = "running") => st[j] \notin {"ready", "running"}

\* _run_tool_batch() looks at the flag once per call and awaits a consent, hooks and
\* a breaker after it: of all that a turn still does after cancel(), at most one
\* call, the one in preparation, is asked about or admitted, however many follow.
OneCallAfterCancel == \A i, j \in late : i = j

\* A turn ends, cancelled or not: no lock, consent or question blocks it for
\* good, and the budget bounds the model's loop.
TurnEnds == <>Over

\* What agent.send_message takes a block for.
BlockPhase ==
    CASE Over -> IF ending = "cancelled" THEN "cancelled" ELSE "ended"
      [] pc = "top" /\ iteration = MaxIterations -> "winding"
      [] OTHER -> "running"

TheBlock == INSTANCE Block WITH
    phase <- BlockPhase, asking <- \E i \in Slots : st[i] = "consent"

\* run() is such a block: it never ends or spends its budget with a consent pending,
\* and calls itself cancelled only if it was told so.
TurnIsABlock == TheBlock!Spec
=============================================================================
