------------------------------ MODULE RunTimeline ------------------------------
(***************************************************************************)
(* The execution timeline of one run: _RunRecorder of                      *)
(* src/agent/minimax_code/ipc/builtins.py writing agent_run_steps through  *)
(* storage/dao/runs.py, driven by the callbacks of AgentCore.run().        *)
(*                                                                         *)
(* A callback is a job: a list of DAO calls made one after the other, each *)
(* its own database section, between which other callbacks and a crash may *)
(* come.  create_step() is two of them: it reads the next ordinal, then    *)
(* inserts.  The loop awaits its callbacks one by one, but the calls of a  *)
(* batch report their results at the same time, and go on doing so when    *)
(* run() has raised out of gather().  An exception ends the callback and   *)
(* is swallowed by it.                                                     *)
(*                                                                         *)
(* A tool call is named by its iteration and its place in the batch: ids   *)
(* are taken to be fresh.  Left out: titles, payloads, the events, the     *)
(* memories of a completed run, and a run whose row cannot be created,     *)
(* which has no timeline.                                                  *)
(***************************************************************************)
EXTENDS Integers, Sequences, FiniteSets

CONSTANTS
    MaxIterations,  \* bound: iterations of the send, all blocks together
    MaxBatch,       \* bound: the longest batch of tool calls
    MaxFaults,      \* bound: DAO calls that raise
    MaxCrashes      \* bound: process crashes

ASSUME TimelineAssumption ==
    /\ MaxIterations \in Nat /\ MaxBatch \in Nat
    /\ MaxFaults \in Nat /\ MaxCrashes \in Nat

Slots == 1 .. MaxBatch
Procs == 0 .. MaxBatch                      \* 0: the loop itself
Calls == (1 .. MaxIterations) \X Slots
NoCall == <<0, 0>>

VARIABLES
    pc,         \* where the send is
    iteration,
    size,       \* length of the current batch
    next,       \* the call of the batch being prepared
    fate,       \* what became of every tool call
    job,        \* the DAO calls each callback still has to make
    ordinal,    \* the ordinal create_step() has read
    latest,     \* the step create_step() has returned
    thinking,   \* _status_steps["thinking"], or 0
    toolSteps,  \* _tool_steps, or 0
    steps,      \* agent_run_steps, in the order of insertion
    run,        \* status of the agent_runs row
    faults, crashes

loopVars == <<pc, iteration, size, next, fate>>
jobVars == <<job, ordinal, latest>>
vars == <<loopVars, jobVars, thinking, toolSteps, steps, run, faults, crashes>>

Kind == {"thought", "status", "tool_call", "observation", "final", "none"}
StepStatus == {"running", "completed", "failed"}
RunStatus == {"running", "completed", "failed", "cancelled"}
Fate == {"todo", "malformed", "refused", "denied", "granted", "blocked",
         "raised", "ready", "settled"}

\* Only a run may be "cancelled".
Op == {o \in [do : {"close", "close_latest", "read", "insert", "finish"}, kind : Kind,
              status : RunStatus, call : Calls \cup {NoCall}, step : Nat] :
           o.status \in StepStatus \/ o.do = "finish"}
Step == [kind : Kind, status : StepStatus, call : Calls \cup {NoCall},
         parent : Nat, ordinal : Nat]

\* Type invariant.  Every pending DAO call and every row is well-formed.
TypeOK ==
    /\ pc \in {"top", "answer", "prepare", "execute", "raised", "left", "failing",
               "closing", "cancelled", "over", "down"}
    /\ iteration \in 0 .. MaxIterations
    /\ size \in Procs /\ next \in 1 .. MaxBatch + 1
    /\ fate \in [Calls -> Fate]
    /\ job \in [Procs -> Seq(Op)]
    /\ ordinal \in [Procs -> Nat] /\ latest \in [Procs -> Nat]
    /\ thinking \in Nat /\ toolSteps \in [Calls -> Nat]
    /\ steps \in Seq(Step)
    /\ run \in RunStatus
    /\ faults \in 0 .. MaxFaults /\ crashes \in 0 .. MaxCrashes

-----------------------------------------------------------------------------
(* The recorder's callbacks, as lists of DAO calls *)

Close(step, status) ==
    <<[do |-> "close", kind |-> "none", status |-> status, call |-> NoCall, step |-> step]>>
CloseLatest(status) ==
    <<[do |-> "close_latest", kind |-> "none", status |-> status, call |-> NoCall, step |-> 0]>>
Create(kind, status, call, parent) ==
    <<[do |-> "read", kind |-> kind, status |-> status, call |-> call, step |-> parent],
      [do |-> "insert", kind |-> kind, status |-> status, call |-> call, step |-> parent]>>
Finish(status) ==
    <<[do |-> "finish", kind |-> "none", status |-> status, call |-> NoCall, step |-> 0]>>

CloseThought == IF thinking = 0 THEN << >> ELSE Close(thinking, "completed")
StatusStep(status) == Create("status", status, NoCall, 0)

CallJobUnguarded(c) == Create("tool_call", "running", c, 0)

\* tool_call() reuses the step of a call it has already seen.
CallJob(c) ==
    IF toolSteps[c] # 0 THEN << >> ELSE Create("tool_call", "running", c, 0)

ResultJobObservingFirst(c, status) ==
    Create("observation", "running", c, toolSteps[c]) \o CloseLatest(status)
    \o (IF toolSteps[c] = 0 THEN << >> ELSE Close(toolSteps[c], status))

\* tool_result(): the call's step is closed, then its observation is written.
ResultJob(c, status) ==
    (IF toolSteps[c] = 0 THEN << >> ELSE Close(toolSteps[c], status))
    \o Create("observation", "running", c, toolSteps[c]) \o CloseLatest(status)

CompleteJobAsDone(status) ==
    Create("final", "running", NoCall, 0) \o CloseLatest("completed") \o Finish("done")

\* complete(): the final step, then the status of the run.
CompleteJob(status) ==
    Create("final", "running", NoCall, 0) \o CloseLatest("completed") \o Finish(status)

-----------------------------------------------------------------------------
(* The DAO *)

NextOrdinalReused ==
    IF steps = << >> THEN 1
    ELSE CHOOSE m \in {steps[i].ordinal : i \in DOMAIN steps} :
             \A i \in DOMAIN steps : steps[i].ordinal <= m

\* COALESCE(MAX(ordinal), 0) + 1
NextOrdinal ==
    IF steps = << >> THEN 1
    ELSE 1 + CHOOSE m \in {steps[i].ordinal : i \in DOMAIN steps} :
                 \A i \in DOMAIN steps : steps[i].ordinal <= m

Closed(i, status) == [steps EXCEPT ![i].status = status]

\* What a DAO call does to the rows.
Apply(p, op) ==
    /\ steps' = CASE op.do = "close" -> Closed(op.step, op.status)
                  [] op.do = "close_latest" -> Closed(latest[p], op.status)
                  [] op.do = "insert" ->
                        Append(steps, [kind |-> op.kind, status |-> op.status,
                                       call |-> op.call, parent |-> op.step,
                                       ordinal |-> ordinal[p]])
                  [] OTHER -> steps
    /\ run' = IF op.do = "finish" THEN op.status ELSE run

\* The DAO call returns: its result is kept and the callback goes on.
DaoCall(p) ==
    /\ job[p] # << >>
    /\ LET op == Head(job[p]) IN
        /\ Apply(p, op)
        /\ ordinal' = IF op.do = "read" THEN [ordinal EXCEPT ![p] = NextOrdinal] ELSE ordinal
        /\ latest' = IF op.do = "insert" THEN [latest EXCEPT ![p] = Len(steps) + 1] ELSE latest
        /\ thinking' = IF op.do = "insert" /\ op.kind = "thought" THEN Len(steps) + 1 ELSE thinking
        /\ toolSteps' = IF op.do = "insert" /\ op.kind = "tool_call"
                        THEN [toolSteps EXCEPT ![op.call] = Len(steps) + 1] ELSE toolSteps
    /\ job' = [job EXCEPT ![p] = Tail(@)]
    /\ UNCHANGED <<loopVars, faults, crashes>>

\* The DAO call raises, before or after it has written: the rest of the callback
\* is lost.
DaoFails(p) ==
    /\ job[p] # << >> /\ faults < MaxFaults
    /\ faults' = faults + 1
    /\ \/ Apply(p, Head(job[p]))
       \/ UNCHANGED <<steps, run>>
    /\ job' = [job EXCEPT ![p] = << >>]
    /\ UNCHANGED <<loopVars, ordinal, latest, thinking, toolSteps, crashes>>

-----------------------------------------------------------------------------
(* The send: AgentCore.run() calling back *)

\* The loop is at pc = where and its last callback has returned.
At(where) == pc = where /\ job[0] = << >>
Callback(j) == job' = [job EXCEPT ![0] = j]
Rest == UNCHANGED <<ordinal, latest, toolSteps, steps, run, faults, crashes>>

\* status("thinking"): the thought of the iteration before is closed first.
StartIteration ==
    /\ At("top") /\ iteration < MaxIterations
    /\ iteration' = iteration + 1 /\ pc' = "answer"
    /\ Callback(CloseThought \o Create("thought", "running", NoCall, 0))
    /\ thinking' = 0
    /\ UNCHANGED <<size, next, fate>> /\ Rest

\* status("max_iterations"); auto-continue may start another block.
EndBlock ==
    /\ At("top") /\ iteration > 0
    /\ pc' \in {"top", "closing"}
    /\ Callback(CloseThought) /\ thinking' = 0
    /\ UNCHANGED <<iteration, size, next, fate>> /\ Rest

StopCancelled ==
    /\ At("top") /\ pc' = "cancelled"
    /\ UNCHANGED <<iteration, size, next, fate, job, thinking>> /\ Rest

\* status("done")
AnswerText ==
    /\ At("answer") /\ pc' = "closing"
    /\ Callback(CloseThought) /\ thinking' = 0
    /\ UNCHANGED <<iteration, size, next, fate>> /\ Rest

AnswerCalls ==
    /\ At("answer") /\ pc' = "prepare"
    /\ size' \in Slots /\ next' = 1
    /\ UNCHANGED <<iteration, fate, job, thinking>> /\ Rest

\* An LLMError is announced with status("error"), other exceptions are not.
AnswerFails ==
    /\ At("answer") /\ pc' = "failing"
    /\ \/ Callback(StatusStep("failed"))
       \/ UNCHANGED job
    /\ UNCHANGED <<iteration, size, next, fate, thinking>> /\ Rest

-----------------------------------------------------------------------------
(* Phase 1 of a batch: the calls are prepared one by one *)

This == <<iteration, next>>
Preparing(f) == At("prepare") /\ next <= size /\ fate[This] = f
Becomes(f) == fate' = [fate EXCEPT ![This] = f]
Move == next' = next + 1
Stay == UNCHANGED next
PrepareRest == UNCHANGED <<pc, iteration, size, thinking>> /\ Rest

\* Cut-off arguments: the call is announced and never reports a result.
Malformed ==
    /\ Preparing("todo") /\ Callback(CallJob(This))
    /\ Becomes("malformed") /\ Move /\ PrepareRest

\* Announced: refused by the policy or the user, granted by the user, blocked by
\* a hook or an open breaker, or admitted.
Announce ==
    /\ Preparing("todo") /\ Callback(CallJob(This))
    /\ fate' \in {[fate EXCEPT ![This] = f] : f \in {"refused", "granted", "blocked", "ready"}}
    /\ next' = IF fate'[This] = "ready" THEN next + 1 ELSE next
    /\ PrepareRest

\* After a consent: a hook blocks the call and announces it again, the tool's
\* breaker is open, or it may run.
Consented ==
    /\ Preparing("granted")
    /\ \/ Callback(CallJob(This)) /\ Becomes("blocked") /\ Stay
       \/ UNCHANGED job /\ Becomes("blocked") /\ Stay
       \/ UNCHANGED job /\ Becomes("ready") /\ Move
    /\ PrepareRest

\* The result of a call that does not run; a refusal adds a status step.
ReportRefusal ==
    /\ Preparing("refused") /\ Callback(ResultJob(This, "failed"))
    /\ Becomes("denied") /\ Stay /\ PrepareRest

Denied ==
    /\ Preparing("denied") /\ Callback(StatusStep("completed"))
    /\ Becomes("settled") /\ Move /\ PrepareRest

ReportBlock ==
    /\ Preparing("blocked") /\ Callback(ResultJob(This, "failed"))
    /\ Becomes("settled") /\ Move /\ PrepareRest

\* _cancel_prepared(): nothing is announced.
SkipCall ==
    /\ Preparing("todo") /\ UNCHANGED job
    /\ Becomes("settled") /\ Move /\ PrepareRest

\* Arguments that are JSON but no object: request_consent() takes dict(args), and
\* run() raises before the batch has run.
ConsentRaises ==
    /\ Preparing("todo") /\ Callback(CallJob(This))
    /\ Becomes("raised") /\ Stay /\ pc' = "failing"
    /\ UNCHANGED <<iteration, size, thinking>> /\ Rest

Gather ==
    /\ At("prepare") /\ next > size /\ pc' = "execute"
    /\ UNCHANGED <<iteration, size, next, fate, job, thinking>> /\ Rest

\* The same arguments in a call that writes: _write_lock_for() asks them for a
\* path before the call runs, and run() raises out of gather().
GatherRaises ==
    /\ At("prepare") /\ next > size /\ pc' = "raised"
    /\ \E R \in SUBSET {i \in 1 .. size : fate[<<iteration, i>>] = "ready"} :
        /\ R # {}
        /\ fate' = [c \in Calls |->
                      IF c[1] = iteration /\ c[2] \in R THEN "raised" ELSE fate[c]]
    /\ UNCHANGED <<iteration, size, next, job, thinking>> /\ Rest

-----------------------------------------------------------------------------
(* Phase 2: the admitted calls run and report at the same time.  gather()   *)
(* does not cancel the siblings of a call that raises.                      *)

Running == pc \in {"execute", "raised", "left"}

ReportResult(i) ==
    /\ Running /\ i <= size /\ fate[<<iteration, i>>] = "ready"
    /\ \E status \in {"completed", "failed"} :
           job' = [job EXCEPT ![i] = ResultJob(<<iteration, i>>, status)]
    /\ fate' = [fate EXCEPT ![<<iteration, i>>] = "settled"]
    /\ UNCHANGED <<pc, iteration, size, next, thinking>> /\ Rest

CollectResults ==
    /\ At("execute")
    /\ \A i \in Slots : job[i] = << >> /\ (i <= size => fate[<<iteration, i>>] # "ready")
    /\ pc' = "top"
    /\ UNCHANGED <<iteration, size, next, fate, job, thinking>> /\ Rest

-----------------------------------------------------------------------------
(* The end of the send, crashes and recovery *)

\* recorder.complete() and recorder.fail()
EndRun ==
    /\ \/ At("closing") /\ Callback(CompleteJob("completed"))
       \/ At("cancelled") /\ Callback(CompleteJob("cancelled"))
       \/ At("failing") /\ Callback(Finish("failed"))
    /\ pc' = "over"
    /\ UNCHANGED <<iteration, size, next, fate, thinking>> /\ Rest

\* recorder.fail() while calls of the batch may still run.
LeaveRun ==
    /\ At("raised") /\ Callback(Finish("failed")) /\ pc' = "left"
    /\ UNCHANGED <<iteration, size, next, fate, thinking>> /\ Rest

Crash ==
    /\ crashes < MaxCrashes /\ pc # "down"
    /\ crashes' = crashes + 1 /\ pc' = "down"
    /\ job' = [p \in Procs |-> << >>]
    /\ ordinal' = [p \in Procs |-> 0] /\ latest' = [p \in Procs |-> 0]
    /\ thinking' = 0 /\ toolSteps' = [c \in Calls |-> 0]
    /\ UNCHANGED <<iteration, size, next, fate, steps, run, faults>>

\* recover_orphans(): a run still in flight is failed; a step says so.
Recover ==
    /\ At("down") /\ pc' = "over"
    /\ IF run = "running"
       THEN run' = "failed" /\ Callback(StatusStep("completed"))
       ELSE UNCHANGED <<run, job>>
    /\ UNCHANGED <<iteration, size, next, fate, thinking,
                   ordinal, latest, toolSteps, steps, faults, crashes>>

Done == (At("over") \/ At("left")) /\ UNCHANGED vars

Init ==
    /\ pc = "top" /\ iteration = 0 /\ size = 0 /\ next = 1
    /\ fate = [c \in Calls |-> "todo"]
    /\ job = [p \in Procs |-> << >>]
    /\ ordinal = [p \in Procs |-> 0] /\ latest = [p \in Procs |-> 0]
    /\ thinking = 0 /\ toolSteps = [c \in Calls |-> 0]
    /\ steps = << >> /\ run = "running" /\ faults = 0 /\ crashes = 0

Next ==
    \/ StartIteration \/ EndBlock \/ StopCancelled
    \/ AnswerText \/ AnswerCalls \/ AnswerFails
    \/ Malformed \/ Announce \/ Consented \/ ReportRefusal \/ Denied
    \/ ReportBlock \/ SkipCall \/ ConsentRaises \/ Gather \/ GatherRaises
    \/ \E i \in Slots : ReportResult(i)
    \/ CollectResults \/ EndRun \/ LeaveRun \/ Crash \/ Recover \/ Done
    \/ \E p \in Procs : DaoCall(p) \/ DaoFails(p)

Spec == Init /\ [][Next]_vars

-----------------------------------------------------------------------------
(* Properties *)

Siblings(s, t) ==
    /\ s.kind = "observation" /\ t.kind = "observation"
    /\ s.call[1] = t.call[1] /\ s.call[2] # t.call[2]

\* list_steps() orders by ordinal.  A step stored before another comes before it
\* in the timeline, whatever overtakes whom between MAX(ordinal) and the insert;
\* only the observations of one batch may tie or swap.
TimelineInOrder ==
    \A i, j \in DOMAIN steps :
        i < j => steps[i].ordinal < steps[j].ordinal \/ Siblings(steps[i], steps[j])

\* run() raised in the batch of call c, and c never ran or has not reported yet.
CutShort(c) ==
    /\ fate[c] \in {"raised", "ready"}
    /\ \E d \in Calls : d[1] = c[1] /\ fate[d] = "raised"

\* A step the timeline may leave spinning: the announcement of a malformed call,
\* of a call whose batch run() raised in before the call had reported, and the
\* last thought of a run that was cancelled or failed.
MaySpinOn(i) ==
    \/ /\ steps[i].kind = "tool_call"
       /\ fate[steps[i].call] = "malformed" \/ CutShort(steps[i].call)
    \/ /\ steps[i].kind = "thought" /\ run # "completed"
       /\ \A j \in DOMAIN steps : steps[j].kind = "thought" => j <= i

\* When a run has been closed by its own process and no callback is under way, no
\* other step is "running", up to one for each DAO call that raised: callbacks
\* that swallow their errors do not add up, a call that reports late, after
\* run() has raised beside it, still closes its step, and no announcement of a
\* call opens a step that nobody closes.
SpinnersExplained ==
    run # "running" /\ crashes = 0 /\ (\A p \in Procs : job[p] = << >>) =>
        Cardinality({i \in DOMAIN steps : steps[i].status = "running" /\ ~MaySpinOn(i)})
            <= faults

\* While no write is lost, a result hangs under the step of its own call, which
\* was closed before it, and no call has two results.
ObservationUnderItsCall ==
    faults = 0 => \A i \in DOMAIN steps : steps[i].kind = "observation" =>
        /\ steps[i].parent \in 1 .. i - 1
        /\ LET p == steps[steps[i].parent]
           IN  p.kind = "tool_call" /\ p.call = steps[i].call /\ p.status # "running"
        /\ \A j \in DOMAIN steps : j # i /\ steps[j].kind = "observation"
                                       => steps[j].call # steps[i].call
=============================================================================
