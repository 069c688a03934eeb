------------------------------ MODULE Scheduler ------------------------------
(***************************************************************************)
(* Scheduled jobs: JobScheduler of                                         *)
(* src/agent/minimax_code/scheduler/__init__.py over the scheduled_jobs,   *)
(* tasks and sessions tables.                                              *)
(*                                                                         *)
(* A job is a row and, when it is enabled, a timer of the in-memory        *)
(* APScheduler.  The handlers of schedule.create, .delete, .enable and     *)
(* .disable change both with awaits in between, and run interleaved.       *)
(* Timers are only loaded from the rows by start(), which the first        *)
(* schedule.* request of a process calls under the lock of                 *)
(* get_scheduler(): no mutator runs before it is done, and it is one step. *)
(*                                                                         *)
(* A timer's tick runs _fire() to its end on the private loop of its       *)
(* worker thread, so that max_instances=1 allows one at a time: the slot   *)
(* of those fires is the job.  The fires of run_now() are tasks of the     *)
(* main loop and have slots of their own.  The columns last_run_at and     *)
(* next_run_at are left out: no step reads them.                           *)
(*                                                                         *)
(* Storage calls may fail: by themselves, or because a fire's private loop *)
(* meets the storage lock while the main loop holds it.  stop() has no     *)
(* caller (the shutdown hook calls a method that does not exist), so a     *)
(* process ends as if it crashed.                                          *)
(***************************************************************************)
EXTENDS Integers, FiniteSets

CONSTANTS
    Jobs, Handlers,
    Manual,      \* slots for the fires of run_now()
    Sessions,    \* ids that session rows may get
    None,
    MaxFaults,   \* bound: storage calls that fail
    MaxRestarts, \* bound: restarts of the agent
    MaxDeletes   \* bound: sessions the user deletes

ASSUME SchedulerAssumption ==
    /\ IsFiniteSet(Jobs) /\ IsFiniteSet(Manual)
    /\ Jobs # {} /\ Jobs \cap Manual = {} /\ None \notin Sessions
    /\ MaxFaults \in Nat /\ MaxRestarts \in Nat /\ MaxDeletes \in Nat

VARIABLES
    row,     \* of each job: "new" before it is created, "gone" once deleted
    timers,  \* the jobs APScheduler has
    started,
    kind, about, on, \* each handler: its stage, its job, the enabled flag it holds
    session, \* the session rows
    cached,  \* _scheduled_session_id
    at, parent, task, \* each slot: its fire's stage, the session, and the status
                      \* of its task row
    outcome, \* what the payload came to; "lost" once a storage call failed
    broken,  \* history: jobs a mutator of which failed half way
    minted,  \* history: sessions this process has created
    overlapped, \* history: jobs two mutators worked on at the same time
    faults, restarts, deletes

registry == <<row, timers, started>>
handlers == <<kind, about, on>>
owners == <<session, cached, minted>>
fires == <<at, parent, task, outcome>>
history == <<broken, overlapped>>
vars == <<registry, handlers, owners, fires, history, faults, restarts, deletes>>

Slots == Jobs \cup Manual
Free == {"idle", "ended"}

\* Type invariant.
TypeOK ==
    /\ row \in [Jobs -> {"new", "on", "off", "gone"}]
    /\ timers \subseteq Jobs /\ started \in BOOLEAN
    /\ kind \in [Handlers -> {"none", "create", "remove", "disable", "enable", "enabled"}]
    /\ about \in [Handlers -> Jobs] /\ on \in [Handlers -> BOOLEAN]
    /\ session \in [Sessions -> {"new", "there", "gone"}]
    /\ cached \in Sessions \cup {None}
    /\ at \in [Slots -> {"idle", "session", "mint", "create", "payload", "raised",
                         "returned", "mark", "ended"}]
    /\ parent \in [Slots -> Sessions \cup {None}]
    /\ task \in [Slots -> {"none", "running", "completed", "failed"}]
    /\ outcome \in [Slots -> {"none", "ok", "bad", "lost"}]
    /\ broken \subseteq Jobs /\ overlapped \subseteq Jobs /\ minted \in Nat
    /\ faults \in 0 .. MaxFaults /\ restarts \in 0 .. MaxRestarts /\ deletes \in 0 .. MaxDeletes

AnyJob == CHOOSE j \in Jobs : TRUE

Init ==
    /\ row = [j \in Jobs |-> "new"] /\ timers = {} /\ started = FALSE
    /\ kind = [h \in Handlers |-> "none"]
    /\ about = [h \in Handlers |-> AnyJob]
    /\ on = [h \in Handlers |-> FALSE]
    /\ session = [x \in Sessions |-> "new"] /\ cached = None
    /\ at = [s \in Slots |-> "idle"] /\ parent = [s \in Slots |-> None]
    /\ task = [s \in Slots |-> "none"] /\ outcome = [s \in Slots |-> "none"]
    /\ broken = {} /\ overlapped = {} /\ minted = 0
    /\ faults = 0 /\ restarts = 0 /\ deletes = 0

Fault == faults < MaxFaults /\ faults' = faults + 1
NoFault == faults' = faults

-----------------------------------------------------------------------------
(* get_scheduler() and the mutators *)

ReloadNothing == {}
Reload == {j \in Jobs : row[j] = "on"}

Start ==
    /\ ~started
    /\ started' = TRUE /\ timers' = Reload
    /\ UNCHANGED <<row, handlers, owners, fires, history, faults, restarts, deletes>>

Elsewhere == UNCHANGED <<started, owners, fires, restarts, deletes>>

Working(j) == \E h \in Handlers : kind[h] # "none" /\ about[h] = j

\* Handler h goes on to stage k of its work on j, or is done ("none").
Stage(h, k, j, e) ==
    /\ kind' = [kind EXCEPT ![h] = k]
    /\ about' = [about EXCEPT ![h] = j]
    /\ on' = [on EXCEPT ![h] = e]

Begin(h, k, j, e) ==
    /\ started /\ kind[h] = "none"
    /\ Stage(h, k, j, e)
    /\ overlapped' = IF Working(j) THEN overlapped \cup {j} ELSE overlapped
    /\ UNCHANGED broken /\ NoFault /\ Elsewhere

Resume(h, k) ==
    /\ kind[h] = k
    /\ UNCHANGED history /\ NoFault /\ Elsewhere

Done(h) == Stage(h, "none", about[h], FALSE)
Known(j) == row[j] \in {"on", "off"}
Write(j, v) == row' = IF Known(j) THEN [row EXCEPT ![j] = v] ELSE row

\* add_job(): the row, then update_next_run(), then the timer of the row as created.
AddJob(h, j) ==
    \/ \E e \in BOOLEAN :
        /\ row[j] = "new"
        /\ Begin(h, "create", j, e)
        /\ row' = [row EXCEPT ![j] = IF e THEN "on" ELSE "off"]
        /\ UNCHANGED timers
    \/ /\ Resume(h, "create") /\ about[h] = j
       /\ timers' = IF on[h] THEN timers \cup {j} ELSE timers
       /\ Done(h) /\ UNCHANGED row

\* remove_job(): the timer goes first, then the row.
RemoveRowOnly(h, j) ==
    \/ /\ row[j] # "new"
       /\ Begin(h, "remove", j, FALSE) /\ UNCHANGED <<row, timers>>
    \/ /\ Resume(h, "remove") /\ about[h] = j
       /\ Write(j, "gone") /\ Done(h) /\ UNCHANGED timers
RemoveJob(h, j) ==
    \/ /\ row[j] # "new"
       /\ Begin(h, "remove", j, FALSE)
       /\ timers' = timers \ {j} /\ UNCHANGED row
    \/ /\ Resume(h, "remove") /\ about[h] = j
       /\ Write(j, "gone") /\ Done(h) /\ UNCHANGED timers

\* disable(): the timer goes first, then the flag.
DisableThenUnregister(h, j) ==
    \/ /\ row[j] # "new"
       /\ Begin(h, "disable", j, FALSE)
       /\ Write(j, "off") /\ UNCHANGED timers
    \/ /\ Resume(h, "disable") /\ about[h] = j
       /\ timers' = timers \ {j} /\ Done(h) /\ UNCHANGED row
Disable(h, j) ==
    \/ /\ row[j] # "new"
       /\ Begin(h, "disable", j, FALSE)
       /\ timers' = timers \ {j} /\ UNCHANGED row
    \/ /\ Resume(h, "disable") /\ about[h] = j
       /\ Write(j, "off") /\ Done(h) /\ UNCHANGED timers

\* enable(): the flag, the row as it is read back, then the timer if it says so.
Enable(h, j) ==
    \/ /\ row[j] # "new"
       /\ Begin(h, "enable", j, FALSE)
       /\ Write(j, "on") /\ UNCHANGED timers
    \/ /\ Resume(h, "enable") /\ about[h] = j
       /\ Stage(h, "enabled", j, row[j] = "on")
       /\ UNCHANGED <<row, timers>>
    \/ /\ Resume(h, "enabled") /\ about[h] = j
       /\ timers' = IF on[h] THEN timers \cup {j} ELSE timers
       /\ Done(h) /\ UNCHANGED row

\* The storage call a mutator waits for raises, and with it the handler.
MutatorFails(h) ==
    /\ kind[h] \in {"create", "remove", "disable", "enable"}
    /\ Fault
    /\ broken' = broken \cup {about[h]}
    /\ Done(h)
    /\ UNCHANGED <<row, timers, overlapped>> /\ Elsewhere

-----------------------------------------------------------------------------
(* _fire() *)

FireFrame == UNCHANGED <<registry, handlers, history, restarts, deletes>>
Go(s, a) == at' = [at EXCEPT ![s] = a]
Comes(s, o) == outcome' = [outcome EXCEPT ![s] = o]
Ignite(s) ==
    /\ started /\ at[s] \in Free
    /\ Go(s, "session")
    /\ parent' = [parent EXCEPT ![s] = None]
    /\ task' = [task EXCEPT ![s] = "none"] /\ Comes(s, "none")
    /\ UNCHANGED owners /\ NoFault /\ FireFrame

\* _tick() of a timer; when it goes off is APScheduler's business.
Tick(j) == j \in timers /\ Ignite(j)
RunNow(m) == (\E j \in Jobs : Known(j)) /\ Ignite(m)

\* _ensure_scheduled_session(): the cached id, or one that is found, or a new one.
\* Only 200 sessions are looked through, so one that exists may not be found.
FindSession(s) ==
    /\ at[s] = "session"
    /\ \/ /\ cached # None
          /\ parent' = [parent EXCEPT ![s] = cached]
          /\ Go(s, "create") /\ UNCHANGED cached
       \/ /\ cached = None
          /\ \E x \in Sessions :
                /\ session[x] = "there"
                /\ parent' = [parent EXCEPT ![s] = x] /\ cached' = x
          /\ Go(s, "create")
       \/ /\ cached = None
          /\ Go(s, "mint") /\ UNCHANGED <<parent, cached>>
    /\ UNCHANGED <<session, minted, task, outcome>> /\ NoFault /\ FireFrame

Fresh == CHOOSE x \in Sessions : session[x] = "new"
MintUncached(s) ==
    /\ at[s] = "mint"
    /\ \E x \in Sessions :
        /\ x = Fresh /\ session[x] = "new"
        /\ session' = [session EXCEPT ![x] = "there"] /\ cached' = cached
        /\ parent' = [parent EXCEPT ![s] = x]
    /\ minted' = minted + 1
    /\ Go(s, "create")
    /\ UNCHANGED <<task, outcome>> /\ NoFault /\ FireFrame
MintSession(s) ==
    /\ at[s] = "mint"
    /\ \E x \in Sessions :
        /\ x = Fresh /\ session[x] = "new"
        /\ session' = [session EXCEPT ![x] = "there"] /\ cached' = x
        /\ parent' = [parent EXCEPT ![s] = x]
    /\ minted' = minted + 1
    /\ Go(s, "create")
    /\ UNCHANGED <<task, outcome>> /\ NoFault /\ FireFrame

\* The row is refused (foreign key) when its session has been deleted.
CreateTask(s) ==
    /\ at[s] = "create"
    /\ \/ /\ session[parent[s]] = "there"
          /\ task' = [task EXCEPT ![s] = "running"] /\ Go(s, "payload")
       \/ session[parent[s]] # "there" /\ Go(s, "ended") /\ UNCHANGED task
    /\ UNCHANGED <<owners, parent, outcome>> /\ NoFault /\ FireFrame

\* One of those calls raises: the fire ends without a task row.
FireFails(s) ==
    /\ at[s] \in {"session", "mint", "create"}
    /\ at[s] = "session" => cached = None
    /\ Fault
    /\ Comes(s, "lost") /\ Go(s, "ended")
    /\ UNCHANGED <<owners, parent, task>> /\ FireFrame

\* The payload returns, returns a dict with "error", or raises (at the latest
\* after _PAYLOAD_TIMEOUT_S).
Payload(s) ==
    /\ at[s] = "payload"
    /\ \/ \E o \in {"ok", "bad"} : Comes(s, o) /\ Go(s, "returned")
       \/ Comes(s, "bad") /\ Go(s, "raised")
    /\ UNCHANGED <<owners, parent, task>> /\ NoFault /\ FireFrame

\* update_status() of the task row, which may be gone; its failure is swallowed.
Report(s, v) ==
    /\ \/ /\ task' = IF task[s] = "none" THEN task ELSE [task EXCEPT ![s] = v]
          /\ UNCHANGED outcome /\ NoFault
       \/ Fault /\ Comes(s, "lost") /\ UNCHANGED task
    /\ UNCHANGED <<owners, parent>> /\ FireFrame

FailTask(s) == at[s] = "raised" /\ Report(s, "failed") /\ Go(s, "ended")
CompleteAnyway(s) ==
    /\ at[s] = "returned"
    /\ Report(s, "completed") /\ Go(s, "ended")
CompleteAsDone(s) == at[s] = "returned" /\ Report(s, "done") /\ Go(s, "ended")
CompleteTask(s) ==
    /\ at[s] = "returned"
    /\ Report(s, "completed")
    /\ Go(s, IF outcome[s] = "bad" THEN "mark" ELSE "ended")
MarkFailed(s) == at[s] = "mark" /\ Report(s, "failed") /\ Go(s, "ended")

\* session.delete of a session whose tasks go with it (ON DELETE CASCADE).
DeleteSession(x) ==
    /\ deletes < MaxDeletes /\ deletes' = deletes + 1
    /\ session[x] = "there"
    /\ session' = [session EXCEPT ![x] = "gone"]
    /\ task' = [s \in Slots |-> IF parent[s] = x THEN "none" ELSE task[s]]
    /\ UNCHANGED <<registry, handlers, cached, minted, at, parent, outcome, history, faults, restarts>>

\* The process ends and another begins: the rows stay, everything else is gone.
Restart ==
    /\ restarts < MaxRestarts /\ restarts' = restarts + 1
    /\ timers' = {} /\ started' = FALSE
    /\ kind' = [h \in Handlers |-> "none"] /\ on' = [h \in Handlers |-> FALSE]
    /\ cached' = None
    /\ at' = [s \in Slots |-> "idle"] /\ parent' = [s \in Slots |-> None]
    /\ task' = [s \in Slots |-> "none"] /\ outcome' = [s \in Slots |-> "none"]
    /\ broken' = {} /\ overlapped' = {} /\ minted' = 0
    /\ UNCHANGED <<row, about, session, faults, deletes>>

-----------------------------------------------------------------------------
Mutate(h) == \E j \in Jobs : AddJob(h, j) \/ RemoveJob(h, j) \/ Disable(h, j) \/ Enable(h, j)
Fire(s) ==
    \/ FindSession(s) \/ MintSession(s) \/ CreateTask(s)
    \/ Payload(s) \/ FailTask(s) \/ CompleteTask(s) \/ MarkFailed(s)

Next ==
    \/ Start \/ Restart
    \/ \E h \in Handlers : Mutate(h) \/ MutatorFails(h)
    \/ \E j \in Jobs : Tick(j)
    \/ \E m \in Manual : RunNow(m)
    \/ \E s \in Slots : Fire(s) \/ FireFails(s)
    \/ \E x \in Sessions : DeleteSession(x)

Spec == Init /\ [][Next]_vars

\* The loop and the worker threads go on; a payload returns or is timed out; a
\* timer goes off again and again.  Nobody has to send a request.
Proceed(h) == kind[h] # "none" /\ Mutate(h)
Fairness ==
    /\ \A h \in Handlers : WF_vars(Proceed(h))
    /\ \A s \in Slots : WF_vars(Fire(s))
    /\ \A j \in Jobs : WF_vars(Tick(j))
FairSpec == Spec /\ Fairness

-----------------------------------------------------------------------------
(* Properties *)

\* However the mutators interleave, a job whose row says enabled has its timer,
\* once nobody is working on it: the row is written after the timer is taken away,
\* and the timer is set after the row is written (remove_job, disable, enable,
\* add_job).  Only a storage call that failed half way can take its timer.
EnabledHasTimer ==
    \A j \in Jobs : started /\ row[j] = "on" /\ j \notin broken /\ ~Working(j) => j \in timers

\* A timer without an enabled row is left behind by overlapping mutators only.
GhostsNeedOverlap ==
    \A j \in timers : row[j] = "on" \/ Working(j) \/ j \in overlapped

\* A fire that lost no write leaves its task row with the payload's outcome: failed
\* exactly when it raised or returned an error, though the row of the latter is
\* completed first (_fire).
TaskTellsOutcome ==
    \A s \in Slots :
        at[s] = "ended" /\ outcome[s] \in {"ok", "bad"} =>
            task[s] = IF session[parent[s]] # "there" THEN "none"
                      ELSE IF outcome[s] = "ok" THEN "completed" ELSE "failed"

\* _ensure_scheduled_session() checks, awaits and only then assigns, so fires that
\* start together may create a session each.  But a process never creates more of
\* them than it has fires at one time, however many it runs.
SessionsStayFew == minted <= Cardinality(Slots)

\* A job that stays enabled runs its payload again and again, unless a mutator of it
\* failed half way or the cached session was deleted.  A storage failure costs a fire
\* its run: that there are finitely many of them (MaxFaults) is assumed.
Healthy(j) ==
    /\ started /\ row[j] = "on" /\ j \notin broken
    /\ cached # None => session[cached] = "there"
JobsKeepRunning == \A j \in Jobs : <>[]Healthy(j) => []<>(at[j] = "payload")
=============================================================================
