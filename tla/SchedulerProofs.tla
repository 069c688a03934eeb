--------------------------- MODULE SchedulerProofs ---------------------------
(***************************************************************************)
(* Proofs about Scheduler, for any jobs, handlers, slots and bounds.       *)
(***************************************************************************)
EXTENDS Scheduler, FiniteSetTheorems, TLAPS

\* The disjuncts of Next that leave the mutators' state alone.
FireStep ==
    \/ \E j \in Jobs : Tick(j)
    \/ \E m \in Manual : RunNow(m)
    \/ \E s \in Slots : Fire(s) \/ FireFails(s)
    \/ \E x \in Sessions : DeleteSession(x)

-----------------------------------------------------------------------------
\* A fire's steps change neither rows nor timers nor the mutators: _fire() only
\* reads the job it was given.
LEMMA FiresLeaveRegistry == FireStep => UNCHANGED <<registry, handlers, history>>
  BY DEF FireStep, Tick, RunNow, Ignite, Fire, FindSession, MintSession, CreateTask,
         Payload, FailTask, CompleteTask, MarkFailed, Report, FireFails, FireFrame,
         DeleteSession

\* The mutators change nothing of a fire.
LEMMA MutatorsLeaveFires ==
    ASSUME NEW h \in Handlers, Mutate(h) \/ MutatorFails(h)
    PROVE  UNCHANGED <<owners, fires, started, restarts, deletes>>
  BY DEF Mutate, AddJob, RemoveJob, Disable, Enable, Begin, Resume, MutatorFails, Elsewhere

\* What a fault or its absence does to the counter.
LEMMA FaultsCounted ==
    ASSUME faults \in 0 .. MaxFaults, Fault \/ NoFault
    PROVE  faults' \in 0 .. MaxFaults
  BY SchedulerAssumption DEF Fault, NoFault

-----------------------------------------------------------------------------
\* Typing, the mutators' half and the fires' half.
TypeOfRegistry ==
    /\ row \in [Jobs -> {"new", "on", "off", "gone"}]
    /\ timers \subseteq Jobs /\ started \in BOOLEAN
    /\ kind \in [Handlers -> {"none", "create", "remove", "disable", "enable", "enabled"}]
    /\ about \in [Handlers -> Jobs] /\ on \in [Handlers -> BOOLEAN]
    /\ broken \subseteq Jobs /\ overlapped \subseteq Jobs

\* A handler at work keeps the types of jobs and timers.
LEMMA MutatorTyped ==
    ASSUME TypeOfRegistry, NEW h \in Handlers, Mutate(h) \/ MutatorFails(h)
    PROVE  TypeOfRegistry'
<1>1. CASE MutatorFails(h)
  BY <1>1 DEF TypeOfRegistry, MutatorFails, Done, Stage, Elsewhere
<1>2. CASE Mutate(h)
  <2>1. PICK j \in Jobs : AddJob(h, j) \/ RemoveJob(h, j) \/ Disable(h, j) \/ Enable(h, j)
    BY <1>2 DEF Mutate
  <2>2. /\ kind' \in [Handlers -> {"none", "create", "remove", "disable", "enable", "enabled"}]
        /\ about' \in [Handlers -> Jobs] /\ on' \in [Handlers -> BOOLEAN]
    <3>1. PICK k \in {"none", "create", "remove", "disable", "enable", "enabled"},
               i \in Jobs, e \in BOOLEAN : Stage(h, k, i, e)
      <4>1. about[h] \in Jobs
        BY DEF TypeOfRegistry
      <4> QED BY <2>1, <4>1 DEF AddJob, RemoveJob, Disable, Enable, Begin, Done
    <3> QED BY <3>1 DEF Stage, TypeOfRegistry
  <2>3. row' \in [Jobs -> {"new", "on", "off", "gone"}] /\ timers' \subseteq Jobs
    BY <2>1 DEF TypeOfRegistry, AddJob, RemoveJob, Disable, Enable, Write
  <2>4. started' \in BOOLEAN /\ broken' \subseteq Jobs /\ overlapped' \subseteq Jobs
    BY <2>1 DEF TypeOfRegistry, AddJob, RemoveJob, Disable, Enable, Begin, Resume,
                Elsewhere, history
  <2> QED BY <2>2, <2>3, <2>4 DEF TypeOfRegistry
<1> QED BY <1>1, <1>2

\* Every step keeps the types of jobs and timers.
LEMMA RegistryTyped ==
    ASSUME TypeOfRegistry, [Next]_vars
    PROVE  TypeOfRegistry'
<1>1. CASE Start
  BY <1>1 DEF Start, TypeOfRegistry, handlers, history, Reload
<1>2. CASE Restart
  BY <1>2 DEF Restart, TypeOfRegistry
<1>3. CASE \E h \in Handlers : Mutate(h) \/ MutatorFails(h)
  BY <1>3, MutatorTyped
<1>4. CASE FireStep \/ UNCHANGED vars
  BY <1>4, FiresLeaveRegistry DEF TypeOfRegistry, registry, handlers, history, vars
<1> QED BY <1>1, <1>2, <1>3, <1>4 DEF Next, FireStep

TypeOfFires ==
    /\ session \in [Sessions -> {"new", "there", "gone"}]
    /\ cached \in Sessions \cup {None} /\ minted \in Nat
    /\ at \in [Slots -> {"idle", "session", "mint", "create", "payload", "raised",
                         "returned", "mark", "ended"}]
    /\ parent \in [Slots -> Sessions \cup {None}]
    /\ task \in [Slots -> {"none", "running", "completed", "failed"}]
    /\ outcome \in [Slots -> {"none", "ok", "bad", "lost"}]

\* A fire keeps the types of fires and sessions.
LEMMA FireTyped ==
    ASSUME TypeOfFires, FireStep
    PROVE  TypeOfFires'
<1>1. ASSUME NEW s \in Slots, Ignite(s) PROVE TypeOfFires'
  BY <1>1 DEF TypeOfFires, Ignite, Go, Comes, owners
<1>2. ASSUME NEW s \in Slots, FindSession(s) PROVE TypeOfFires'
  BY <1>2 DEF TypeOfFires, FindSession, Go
<1>3. ASSUME NEW s \in Slots, MintSession(s) PROVE TypeOfFires'
  BY <1>3 DEF TypeOfFires, MintSession, Go
<1>4. ASSUME NEW s \in Slots, CreateTask(s) PROVE TypeOfFires'
  BY <1>4 DEF TypeOfFires, CreateTask, Go, owners
<1>5. ASSUME NEW s \in Slots, Payload(s) PROVE TypeOfFires'
  BY <1>5 DEF TypeOfFires, Payload, Go, Comes, owners
<1>6. ASSUME NEW s \in Slots, FailTask(s) \/ CompleteTask(s) \/ MarkFailed(s)
      PROVE  TypeOfFires'
  BY <1>6 DEF TypeOfFires, FailTask, CompleteTask, MarkFailed, Report, Go, Comes, owners
<1>7. ASSUME NEW s \in Slots, FireFails(s) PROVE TypeOfFires'
  BY <1>7 DEF TypeOfFires, FireFails, Go, Comes, owners
<1>8. ASSUME NEW x \in Sessions, DeleteSession(x) PROVE TypeOfFires'
  BY <1>8 DEF TypeOfFires, DeleteSession
<1> QED
  BY <1>1, <1>2, <1>3, <1>4, <1>5, <1>6, <1>7, <1>8
  DEF FireStep, Tick, RunNow, Fire, Slots

\* Every step keeps the types of fires and sessions.
LEMMA FiresTyped ==
    ASSUME TypeOfFires, [Next]_vars
    PROVE  TypeOfFires'
<1>1. CASE Start
  BY <1>1 DEF Start, TypeOfFires, owners, fires
<1>2. CASE Restart
  BY <1>2 DEF Restart, TypeOfFires
<1>3. CASE (\E h \in Handlers : Mutate(h) \/ MutatorFails(h)) \/ UNCHANGED vars
  BY <1>3, MutatorsLeaveFires DEF TypeOfFires, owners, fires, vars
<1>4. CASE FireStep
  BY <1>4, FireTyped
<1> QED BY <1>1, <1>2, <1>3, <1>4 DEF Next, FireStep

Counters ==
    /\ faults \in 0 .. MaxFaults /\ restarts \in 0 .. MaxRestarts
    /\ deletes \in 0 .. MaxDeletes

\* The counters stay within their bounds.
LEMMA StaysCounted ==
    ASSUME Counters, [Next]_vars
    PROVE  Counters'
<1>1. Fault \/ NoFault \/ faults' = faults
  BY DEF Next, vars, Start, Restart, Mutate, AddJob, RemoveJob, Disable, Enable, Begin,
         Resume, MutatorFails, Tick, RunNow, Ignite, Fire, FindSession, MintSession,
         CreateTask, Payload, FailTask, CompleteTask, MarkFailed, Report, FireFails,
         DeleteSession
<1>2. \/ restarts' = restarts
      \/ restarts < MaxRestarts /\ restarts' = restarts + 1
  <2>1. CASE \E h \in Handlers : Mutate(h) \/ MutatorFails(h)
    BY <2>1, MutatorsLeaveFires
  <2> QED
    BY <2>1 DEF Next, vars, Start, Restart, Tick, RunNow, Ignite, Fire, FindSession,
         MintSession, CreateTask, Payload, FailTask, CompleteTask, MarkFailed, Report,
         FireFails, FireFrame, DeleteSession
<1>3. deletes' = deletes \/ (deletes < MaxDeletes /\ deletes' = deletes + 1)
  <2>1. CASE \E h \in Handlers : Mutate(h) \/ MutatorFails(h)
    BY <2>1, MutatorsLeaveFires
  <2> QED
    BY <2>1 DEF Next, vars, Start, Restart, Tick, RunNow, Ignite, Fire, FindSession,
         MintSession, CreateTask, Payload, FailTask, CompleteTask, MarkFailed, Report,
         FireFails, FireFrame, DeleteSession
<1>4. faults' \in 0 .. MaxFaults
  BY <1>1, FaultsCounted DEF Counters, NoFault
<1>5. restarts' \in 0 .. MaxRestarts
  BY <1>2, SchedulerAssumption DEF Counters
<1>6. deletes' \in 0 .. MaxDeletes
  BY <1>3, SchedulerAssumption DEF Counters
<1> QED BY <1>4, <1>5, <1>6 DEF Counters

\* The scheduler starts with its types.
LEMMA InitTyped == Init => TypeOfRegistry /\ TypeOfFires /\ Counters
<1>1. AnyJob \in Jobs
  BY SchedulerAssumption DEF AnyJob
<1>2. Init => TypeOfRegistry
  <2>1. Init => about \in [Handlers -> Jobs]
    BY <1>1 DEF Init
  <2>2. Init => row \in [Jobs -> {"new", "on", "off", "gone"}]
    BY DEF Init
  <2>3. Init => kind \in [Handlers -> {"none", "create", "remove", "disable", "enable",
                                      "enabled"}]
    BY DEF Init
  <2>4. Init => on \in [Handlers -> BOOLEAN]
    BY DEF Init
  <2>5. Init => /\ timers \subseteq Jobs /\ started \in BOOLEAN
                /\ broken \subseteq Jobs /\ overlapped \subseteq Jobs
    BY DEF Init
  <2> QED BY <2>1, <2>2, <2>3, <2>4, <2>5 DEF TypeOfRegistry
<1>3. Init => TypeOfFires
  BY DEF Init, TypeOfFires
<1>4. Init => Counters
  BY SchedulerAssumption DEF Init, Counters
<1> QED BY <1>2, <1>3, <1>4

\* All types are kept.
LEMMA TypedAlways == Spec => [](TypeOfRegistry /\ TypeOfFires /\ Counters)
<1>1. TypeOfRegistry /\ TypeOfFires /\ Counters /\ [Next]_vars
        => (TypeOfRegistry /\ TypeOfFires /\ Counters)'
  BY RegistryTyped, FiresTyped, StaysCounted
<1> QED BY <1>1, InitTyped, PTL DEF Spec

\* Every variable keeps its type (JobScheduler, _fire).
THEOREM TypeCorrect == Spec => []TypeOK
<1>1. TypeOfRegistry /\ TypeOfFires /\ Counters => TypeOK
  BY DEF TypeOfRegistry, TypeOfFires, Counters, TypeOK
<1> QED BY <1>1, TypedAlways, PTL

-----------------------------------------------------------------------------
\* EnabledHasTimer, strengthened to the states inside a mutator: whoever works on an
\* enabled job that has no timer will give it one, disable it or delete it.
Owes(h, j) ==
    /\ about[h] = j
    /\ \/ kind[h] \in {"remove", "disable", "enable"}
       \/ kind[h] \in {"create", "enabled"} /\ on[h]
Covered ==
    \A j \in Jobs :
        started /\ row[j] = "on" /\ j \notin broken =>
            j \in timers \/ \E h \in Handlers : Owes(h, j)

\* A mutator's step on one job leaves what the others owe to it and to other jobs.
LEMMA OthersOwe ==
    ASSUME TypeOfRegistry, NEW h \in Handlers, NEW k, NEW i, NEW e, Stage(h, k, i, e),
           NEW g \in Handlers, g # h, NEW j, Owes(g, j)
    PROVE  Owes(g, j)'
<1>1. kind'[g] = kind[g] /\ about'[g] = about[g] /\ on'[g] = on[g]
  BY DEF Stage, TypeOfRegistry
<1> QED BY <1>1 DEF Owes

\* A handler that works on a job leaves it covered.
LEMMA MutatorCovers ==
    ASSUME TypeOfRegistry, Covered, NEW h \in Handlers, NEW i \in Jobs,
           AddJob(h, i) \/ RemoveJob(h, i) \/ Disable(h, i) \/ Enable(h, i)
    PROVE  Covered'
<1> SUFFICES ASSUME NEW j \in Jobs, started', row'[j] = "on", j \notin broken'
             PROVE  j \in timers' \/ \E g \in Handlers : Owes(g, j)'
  BY DEF Covered
<1>1. /\ started /\ broken' = broken
      /\ \E k, e : Stage(h, k, i, e)
  BY DEF AddJob, RemoveJob, Disable, Enable, Begin, Resume, Done, Elsewhere, history
<1>2. CASE j # i
  <2>1. row'[j] = row[j] /\ (j \in timers => j \in timers')
    BY <1>2 DEF AddJob, RemoveJob, Disable, Enable, Write, TypeOfRegistry
  <2>2. CASE j \in timers
    BY <2>1, <2>2
  <2>3. CASE j \notin timers
    <3>1. PICK g \in Handlers : Owes(g, j)
      BY <1>1, <2>1, <2>3 DEF Covered
    <3>2. g # h
      BY <3>1, <1>2 DEF Owes, AddJob, RemoveJob, Disable, Enable, Begin, Resume
    <3> QED BY <1>1, <3>1, <3>2, OthersOwe
  <2> QED BY <2>2, <2>3
<1>3. CASE j = i
  <2>1. CASE AddJob(h, i)
    <3>1. CASE kind[h] = "none"
      <4>1. PICK e \in BOOLEAN :
                /\ Stage(h, "create", i, e)
                /\ row' = [row EXCEPT ![i] = IF e THEN "on" ELSE "off"]
        BY <2>1, <3>1 DEF AddJob, Begin, Resume
      <4>2. e = TRUE
        BY <4>1, <1>3 DEF TypeOfRegistry
      <4>3. kind'[h] = "create" /\ about'[h] = i /\ on'[h] = TRUE
        BY <4>1, <4>2 DEF Stage, TypeOfRegistry
      <4> QED BY <4>3, <1>3 DEF Owes
    <3>2. CASE kind[h] # "none"
      <4>1. /\ timers' = IF on[h] THEN timers \cup {i} ELSE timers
            /\ row' = row /\ kind[h] = "create"
        BY <2>1, <3>2 DEF AddJob, Begin, Resume
      <4>2. CASE on[h] \/ j \in timers
        BY <4>1, <4>2, <1>3
      <4>3. CASE ~on[h] /\ j \notin timers
        <5>1. PICK g \in Handlers : Owes(g, j)
          BY <1>1, <4>1, <4>3 DEF Covered
        <5>2. g # h
          BY <5>1, <4>1, <4>3 DEF Owes
        <5> QED BY <1>1, <5>1, <5>2, OthersOwe
      <4> QED BY <4>2, <4>3
    <3> QED BY <3>1, <3>2
  <2>2. CASE RemoveJob(h, i)
    <3>1. CASE kind[h] = "none"
      <4>1. Stage(h, "remove", i, FALSE)
        BY <2>2, <3>1 DEF RemoveJob, Begin, Resume
      <4>2. kind'[h] = "remove" /\ about'[h] = i
        BY <4>1 DEF Stage, TypeOfRegistry
      <4> QED BY <4>2, <1>3 DEF Owes
    <3>2. CASE kind[h] # "none"
      BY <2>2, <3>2, <1>3 DEF RemoveJob, Begin, Write, Known, TypeOfRegistry
    <3> QED BY <3>1, <3>2
  <2>3. CASE Disable(h, i)
    <3>1. CASE kind[h] = "none"
      <4>1. Stage(h, "disable", i, FALSE)
        BY <2>3, <3>1 DEF Disable, Begin, Resume
      <4>2. kind'[h] = "disable" /\ about'[h] = i
        BY <4>1 DEF Stage, TypeOfRegistry
      <4> QED BY <4>2, <1>3 DEF Owes
    <3>2. CASE kind[h] # "none"
      BY <2>3, <3>2, <1>3 DEF Disable, Begin, Write, Known, TypeOfRegistry
    <3> QED BY <3>1, <3>2
  <2>4. CASE Enable(h, i)
    <3>1. CASE kind[h] = "none"
      <4>1. Stage(h, "enable", i, FALSE)
        BY <2>4, <3>1 DEF Enable, Begin, Resume
      <4>2. kind'[h] = "enable" /\ about'[h] = i
        BY <4>1 DEF Stage, TypeOfRegistry
      <4> QED BY <4>2, <1>3 DEF Owes
    <3>2. CASE kind[h] = "enable"
      <4>1. Stage(h, "enabled", i, row[i] = "on") /\ row' = row
        BY <2>4, <3>2 DEF Enable, Begin, Resume
      <4>2. kind'[h] = "enabled" /\ about'[h] = i
        BY <4>1 DEF Stage, TypeOfRegistry
      <4>3. on'[h] = (row[i] = "on")
        BY <4>1 DEF Stage, TypeOfRegistry
      <4>4. on'[h]
        BY <4>1, <4>3, <1>3
      <4> QED BY <4>2, <4>4, <1>3 DEF Owes
    <3>3. CASE kind[h] \notin {"none", "enable"}
      <4>1. /\ timers' = IF on[h] THEN timers \cup {i} ELSE timers
            /\ row' = row /\ kind[h] = "enabled"
        BY <2>4, <3>3 DEF Enable, Begin, Resume
      <4>2. CASE on[h] \/ j \in timers
        BY <4>1, <4>2, <1>3
      <4>3. CASE ~on[h] /\ j \notin timers
        <5>1. PICK g \in Handlers : Owes(g, j)
          BY <1>1, <4>1, <4>3 DEF Covered
        <5>2. g # h
          BY <5>1, <4>1, <4>3 DEF Owes
        <5> QED BY <1>1, <5>1, <5>2, OthersOwe
      <4> QED BY <4>2, <4>3
    <3> QED BY <3>1, <3>2, <3>3
  <2> QED BY <2>1, <2>2, <2>3, <2>4
<1> QED BY <1>2, <1>3

\* Every step leaves the jobs covered.
LEMMA StaysCovered ==
    ASSUME TypeOfRegistry, Covered, [Next]_vars
    PROVE  Covered'
<1>1. CASE Start
  BY <1>1 DEF Start, Covered, Reload
<1>2. CASE Restart
  BY <1>2 DEF Restart, Covered
<1>3. ASSUME NEW h \in Handlers, Mutate(h) PROVE Covered'
  BY <1>3, MutatorCovers DEF Mutate
<1>4. ASSUME NEW h \in Handlers, MutatorFails(h) PROVE Covered'
  <2> SUFFICES ASSUME NEW j \in Jobs, started', row'[j] = "on", j \notin broken'
               PROVE  j \in timers' \/ \E g \in Handlers : Owes(g, j)'
    BY DEF Covered
  <2>1. /\ started /\ row[j] = "on" /\ j \notin broken /\ j # about[h]
        /\ timers' = timers /\ Stage(h, "none", about[h], FALSE)
    BY <1>4 DEF MutatorFails, Done, Elsewhere
  <2>2. CASE j \in timers
    BY <2>1, <2>2
  <2>3. CASE j \notin timers
    <3>1. PICK g \in Handlers : Owes(g, j)
      BY <2>1, <2>3 DEF Covered
    <3>2. g # h
      BY <2>1, <3>1 DEF Owes
    <3> QED BY <2>1, <3>1, <3>2, OthersOwe
  <2> QED BY <2>2, <2>3
<1>5. CASE FireStep \/ UNCHANGED vars
  <2>1. UNCHANGED <<registry, handlers, history>>
    BY <1>5, FiresLeaveRegistry DEF vars
  <2> QED BY <2>1 DEF registry, handlers, history, Covered, Owes
<1> QED BY <1>1, <1>2, <1>3, <1>4, <1>5 DEF Next, FireStep

\* EnabledHasTimer: no interleaving of add_job, remove_job, enable and disable, and
\* no restart, leaves an enabled job without its timer.
THEOREM EnabledHasTimerHolds == Spec => []EnabledHasTimer
<1>1. Init => Covered
  BY DEF Init, Covered
<1>2. TypeOfRegistry /\ Covered /\ [Next]_vars => Covered'
  BY StaysCovered
<1>3. Spec => []TypeOfRegistry
  BY TypedAlways, PTL
<1>4. Covered => EnabledHasTimer
  BY DEF Covered, EnabledHasTimer, Owes, Working
<1> QED BY <1>1, <1>2, <1>3, <1>4, PTL DEF Spec

-----------------------------------------------------------------------------
\* TaskTellsOutcome, strengthened to every stage of a fire.
Alive(s) == session[parent[s]] = "there"
Told(s) ==
    /\ at[s] \in {"session", "mint", "create"} => outcome[s] = "none"
    /\ at[s] \in {"create", "payload", "raised", "returned", "mark"} => parent[s] # None
    /\ at[s] \in {"payload", "raised", "returned"} =>
          task[s] = IF Alive(s) THEN "running" ELSE "none"
    /\ at[s] = "raised" => outcome[s] = "bad"
    /\ at[s] = "returned" => outcome[s] \in {"ok", "bad"}
    /\ at[s] = "mark" => outcome[s] \in {"bad", "lost"}
    /\ at[s] = "mark" /\ outcome[s] = "bad" =>
          task[s] = IF Alive(s) THEN "completed" ELSE "none"
    /\ at[s] = "ended" /\ outcome[s] \in {"ok", "bad"} =>
          /\ parent[s] # None
          /\ task[s] = IF ~Alive(s) THEN "none"
                       ELSE IF outcome[s] = "ok" THEN "completed" ELSE "failed"
\* A session that is named exists or has existed.
Named ==
    /\ cached # None => session[cached] # "new"
    /\ \A s \in Slots : parent[s] # None => session[parent[s]] # "new"
TellInv == Named /\ \A s \in Slots : Told(s)

\* A fire's own step keeps what holds of it.
LEMMA OwnStepTells ==
    ASSUME TypeOfFires, TellInv, NEW s \in Slots,
           Ignite(s) \/ Fire(s) \/ FireFails(s)
    PROVE  Told(s)'
<1> USE DEF Told, Alive, Go, Comes
<1>0. Told(s) /\ Named
  BY DEF TellInv
<1>1. CASE Ignite(s)
  BY <1>1 DEF Ignite, TypeOfFires
<1>2. CASE FindSession(s)
  <2>1. at'[s] = "mint" \/ (at'[s] = "create" /\ parent'[s] # None)
    BY <1>2, SchedulerAssumption DEF FindSession, TypeOfFires
  <2> QED BY <1>0, <1>2, <2>1 DEF FindSession
<1>3. CASE MintSession(s)
  BY <1>0, <1>3, SchedulerAssumption DEF MintSession, TypeOfFires
<1>4. CASE CreateTask(s)
  BY <1>0, <1>4 DEF CreateTask, TypeOfFires, owners
<1>5. CASE Payload(s)
  BY <1>0, <1>5 DEF Payload, TypeOfFires, owners
<1>6. CASE FailTask(s)
  BY <1>0, <1>6 DEF FailTask, Report, TypeOfFires, owners
<1>7. CASE CompleteTask(s)
  <2>1. /\ outcome[s] \in {"ok", "bad"} /\ parent[s] # None
        /\ task[s] = IF Alive(s) THEN "running" ELSE "none"
        /\ parent' = parent /\ session' = session
        /\ at'[s] = IF outcome[s] = "bad" THEN "mark" ELSE "ended"
    BY <1>0, <1>7 DEF CompleteTask, Report, TypeOfFires, owners
  <2>2. \/ /\ outcome'[s] = outcome[s]
           /\ task'[s] = IF Alive(s) THEN "completed" ELSE "none"
        \/ outcome'[s] = "lost"
    BY <1>7, <2>1 DEF CompleteTask, Report, TypeOfFires
  <2> QED BY <2>1, <2>2
<1>8. CASE MarkFailed(s)
  BY <1>0, <1>8 DEF MarkFailed, Report, TypeOfFires, owners
<1>9. CASE FireFails(s)
  BY <1>9 DEF FireFails, TypeOfFires
<1> QED BY <1>1, <1>2, <1>3, <1>4, <1>5, <1>6, <1>7, <1>8, <1>9 DEF Fire

\* ... and what holds of the others: only a session it mints is new to them.
LEMMA OtherStepTells ==
    ASSUME TypeOfFires, TellInv, NEW s \in Slots, NEW r \in Slots, r # s,
           Ignite(s) \/ Fire(s) \/ FireFails(s)
    PROVE  Told(r)'
<1>1. /\ at'[r] = at[r] /\ parent'[r] = parent[r]
      /\ task'[r] = task[r] /\ outcome'[r] = outcome[r]
  BY DEF Ignite, Fire, FindSession, MintSession, CreateTask, Payload, FailTask,
         CompleteTask, MarkFailed, Report, FireFails, Go, Comes, TypeOfFires
<1>2. parent[r] # None => (session'[parent[r]] = "there") = (session[parent[r]] = "there")
  <2>1. CASE MintSession(s)
    <3>1. PICK x \in Sessions : session[x] = "new" /\ session' = [session EXCEPT ![x] = "there"]
      BY <2>1 DEF MintSession
    <3>2. parent[r] # None => parent[r] # x
      BY <3>1 DEF TellInv, Named
    <3> QED BY <3>1, <3>2 DEF TypeOfFires
  <2>2. CASE ~MintSession(s)
    <3>1. session' = session
      BY <2>2 DEF Ignite, Fire, FindSession, CreateTask, Payload, FailTask, CompleteTask,
                  MarkFailed, Report, FireFails, owners
    <3> QED BY <3>1
  <2> QED BY <2>1, <2>2
<1> QED BY <1>1, <1>2 DEF TellInv, Told, Alive

\* A fire refers to sessions that were created.
LEMMA FireStepNames ==
    ASSUME TypeOfFires, Named, NEW s \in Slots, Ignite(s) \/ Fire(s) \/ FireFails(s)
    PROVE  Named'
<1>1. CASE FindSession(s)
  BY <1>1 DEF FindSession, Named, TypeOfFires
<1>2. CASE MintSession(s)
  BY <1>2 DEF MintSession, Named, TypeOfFires
<1>3. CASE Ignite(s)
  BY <1>3 DEF Ignite, Named, TypeOfFires, owners
<1>4. CASE ~FindSession(s) /\ ~MintSession(s) /\ ~Ignite(s)
  <2>1. session' = session /\ cached' = cached /\ parent' = parent
    BY <1>4 DEF Fire, CreateTask, Payload, FailTask, CompleteTask, MarkFailed, Report,
                FireFails, owners
  <2> QED BY <2>1 DEF Named
<1> QED BY <1>1, <1>2, <1>3, <1>4

\* Deleting a session takes its task rows along.
LEMMA DeleteTells ==
    ASSUME TypeOfFires, TellInv, NEW x \in Sessions, DeleteSession(x)
    PROVE  TellInv'
<1>1. Named'
  BY DEF TellInv, Named, DeleteSession, TypeOfFires
<1>2. ASSUME NEW s \in Slots PROVE Told(s)'
  <2>1. /\ at'[s] = at[s] /\ parent'[s] = parent[s] /\ outcome'[s] = outcome[s]
        /\ task'[s] = IF parent[s] = x THEN "none" ELSE task[s]
        /\ parent[s] = x => session'[parent[s]] = "gone"
        /\ parent[s] # x => session'[parent[s]] = session[parent[s]]
    BY DEF DeleteSession, TypeOfFires
  <2> QED BY <2>1 DEF TellInv, Told, Alive
<1> QED BY <1>1, <1>2 DEF TellInv

\* Task rows go on telling their outcome.
LEMMA StaysTold ==
    ASSUME TypeOfFires, TellInv, [Next]_vars
    PROVE  TellInv'
<1>1. CASE Start \/ UNCHANGED vars \/ \E h \in Handlers : Mutate(h) \/ MutatorFails(h)
  <2>1. UNCHANGED <<owners, fires>>
    BY <1>1, MutatorsLeaveFires DEF Start, vars
  <2> QED BY <2>1 DEF owners, fires, TellInv, Named, Told, Alive
<1>2. CASE Restart
  BY <1>2 DEF Restart, TellInv, Named, Told
<1>3. ASSUME NEW s \in Slots, Ignite(s) \/ Fire(s) \/ FireFails(s)
      PROVE  TellInv'
  <2>1. Named'
    BY <1>3, FireStepNames DEF TellInv
  <2>2. ASSUME NEW r \in Slots PROVE Told(r)'
    BY <1>3, OwnStepTells, OtherStepTells
  <2> QED BY <2>1, <2>2 DEF TellInv
<1>4. ASSUME NEW x \in Sessions, DeleteSession(x) PROVE TellInv'
  BY <1>4, DeleteTells
<1> QED BY <1>1, <1>2, <1>3, <1>4 DEF Next, Tick, RunNow, Slots

\* TaskTellsOutcome: however fires, failing writes and deleted sessions interleave, a
\* task row that lost no write says what came of its payload (_fire).
THEOREM TaskTellsOutcomeHolds == Spec => []TaskTellsOutcome
<1>1. Init => TellInv
  BY DEF Init, TellInv, Named, Told
<1>2. TypeOfFires /\ TellInv /\ [Next]_vars => TellInv'
  BY StaysTold
<1>3. Spec => []TypeOfFires
  BY TypedAlways, PTL
<1>4. TellInv => TaskTellsOutcome
  BY DEF TellInv, Told, Alive, TaskTellsOutcome
<1> QED BY <1>1, <1>2, <1>3, <1>4, PTL DEF Spec

-----------------------------------------------------------------------------
\* GhostsNeedOverlap, strengthened: a mutator that has its job to itself knows what
\* the row and the timer are.
Alone ==
    \A g, h \in Handlers :
        g # h /\ kind[g] # "none" /\ kind[h] # "none" /\ about[g] = about[h] =>
            about[h] \in overlapped
Holds(h) ==
    kind[h] # "none" /\ about[h] \notin overlapped =>
        /\ kind[h] \in {"create", "remove", "disable"} => about[h] \notin timers
        /\ kind[h] = "create" /\ on[h] => row[about[h]] = "on"
        /\ kind[h] = "enable" => row[about[h]] = "on" \/ about[h] \notin timers
        /\ kind[h] = "enabled" /\ (on[h] \/ about[h] \in timers) => row[about[h]] = "on"
GhostInv == GhostsNeedOverlap /\ Alone /\ \A h \in Handlers : Holds(h)

\* Nobody works before get_scheduler() has returned.
NobodyYet == ~started => \A h \in Handlers : kind[h] = "none"

\* No handler is at work before the scheduler has started.
LEMMA NobodyWorksBeforeStart == Spec => []NobodyYet
<1>1. Init => NobodyYet
  BY DEF Init, NobodyYet
<1>2. TypeOfRegistry /\ NobodyYet /\ [Next]_vars => NobodyYet'
  <2> SUFFICES ASSUME TypeOfRegistry, NobodyYet, [Next]_vars PROVE NobodyYet'
    OBVIOUS
  <2>1. CASE Start \/ Restart
    BY <2>1 DEF Start, Restart, NobodyYet
  <2>2. ASSUME NEW h \in Handlers, Mutate(h) \/ MutatorFails(h) PROVE NobodyYet'
    <3>1. started' = started
      BY <2>2, MutatorsLeaveFires
    <3>2. started
      BY <2>2 DEF NobodyYet, Mutate, AddJob, RemoveJob, Disable, Enable, Begin, Resume,
                  MutatorFails
    <3> QED BY <3>1, <3>2 DEF NobodyYet
  <2>3. CASE FireStep \/ UNCHANGED vars
    <3>1. UNCHANGED <<registry, handlers, history>>
      BY <2>3, FiresLeaveRegistry DEF vars
    <3> QED BY <3>1 DEF registry, handlers, NobodyYet
  <2> QED BY <2>1, <2>2, <2>3 DEF Next, FireStep
<1>3. Spec => []TypeOfRegistry
  BY TypedAlways, PTL
<1> QED BY <1>1, <1>2, <1>3, PTL DEF Spec

\* What a mutator's step on job i leaves alone: the other handlers, the other jobs, and
\* the mark of an overlap, which it sets when it begins on a job somebody works on.
LEMMA StepFrame ==
    ASSUME TypeOfRegistry, NEW h \in Handlers, NEW i \in Jobs,
           AddJob(h, i) \/ RemoveJob(h, i) \/ Disable(h, i) \/ Enable(h, i)
    PROVE  /\ about'[h] = i
           /\ kind[h] # "none" => about[h] = i /\ overlapped' = overlapped
           /\ kind[h] = "none" /\ Working(i) => i \in overlapped'
           /\ overlapped \subseteq overlapped' /\ overlapped' \subseteq overlapped \cup {i}
           /\ \A g \in Handlers : g # h =>
                 kind'[g] = kind[g] /\ about'[g] = about[g] /\ on'[g] = on[g]
           /\ \A j \in Jobs : j # i => row'[j] = row[j] /\ (j \in timers' <=> j \in timers)
<1>1. PICK k, e : Stage(h, k, i, e)
  BY DEF AddJob, RemoveJob, Disable, Enable, Begin, Resume, Done
<1>2. /\ about'[h] = i
      /\ \A g \in Handlers : g # h =>
            kind'[g] = kind[g] /\ about'[g] = about[g] /\ on'[g] = on[g]
  BY <1>1 DEF Stage, TypeOfRegistry
<1>3. /\ kind[h] # "none" => about[h] = i /\ overlapped' = overlapped
      /\ kind[h] = "none" /\ Working(i) => i \in overlapped'
      /\ overlapped \subseteq overlapped' /\ overlapped' \subseteq overlapped \cup {i}
  BY DEF AddJob, RemoveJob, Disable, Enable, Begin, Resume, history
<1>4. \A j \in Jobs : j # i => row'[j] = row[j] /\ (j \in timers' <=> j \in timers)
  BY DEF AddJob, RemoveJob, Disable, Enable, Write, TypeOfRegistry
<1> QED BY <1>2, <1>3, <1>4

\* With its job to itself, a mutator still knows it after its step.
LEMMA OwnStepHolds ==
    ASSUME TypeOfRegistry, GhostInv, NEW h \in Handlers, NEW i \in Jobs,
           AddJob(h, i) \/ RemoveJob(h, i) \/ Disable(h, i) \/ Enable(h, i),
           i \notin overlapped'
    PROVE  /\ Holds(h)'
           /\ i \in timers' => row'[i] = "on" \/ kind'[h] # "none"
<1>1. about'[h] = i /\ i \notin overlapped
  BY StepFrame
<1>2. CASE kind[h] = "none"
  <2>1. i \in timers => row[i] = "on"
    BY <1>1, <1>2, StepFrame DEF GhostInv, GhostsNeedOverlap
  <2>2. CASE AddJob(h, i)
    <3>1. PICK e \in BOOLEAN :
              /\ Stage(h, "create", i, e) /\ row[i] = "new"
              /\ row' = [row EXCEPT ![i] = IF e THEN "on" ELSE "off"]
              /\ timers' = timers
      BY <1>2, <2>2 DEF AddJob, Begin, Resume
    <3>2. kind'[h] = "create" /\ on'[h] = e
      BY <3>1 DEF Stage, TypeOfRegistry
    <3>3. row'[i] = IF e THEN "on" ELSE "off"
      BY <3>1 DEF TypeOfRegistry
    <3> QED BY <1>1, <2>1, <3>1, <3>2, <3>3 DEF Holds
  <2>3. CASE RemoveJob(h, i) \/ Disable(h, i)
    <3>1. PICK k \in {"remove", "disable"} : Stage(h, k, i, FALSE) /\ timers' = timers \ {i}
      BY <1>2, <2>3 DEF RemoveJob, Disable, Begin, Resume
    <3>2. kind'[h] \in {"remove", "disable"}
      BY <3>1 DEF Stage, TypeOfRegistry
    <3> QED BY <1>1, <3>1, <3>2 DEF Holds
  <2>4. CASE Enable(h, i)
    <3>1. Stage(h, "enable", i, FALSE) /\ Write(i, "on") /\ timers' = timers
      BY <1>2, <2>4 DEF Enable, Begin, Resume
    <3>2. kind'[h] = "enable"
      BY <3>1 DEF Stage, TypeOfRegistry
    <3>3. row[i] = "on" => row'[i] = "on"
      BY <3>1 DEF Write, Known, TypeOfRegistry
    <3> QED BY <1>1, <2>1, <3>1, <3>2, <3>3 DEF Holds
  <2> QED BY <2>2, <2>3, <2>4
<1>3. CASE kind[h] # "none"
  <2>1. about[h] = i /\ Holds(h)
    BY <1>3, StepFrame DEF GhostInv
  <2>2. CASE AddJob(h, i) \/ (Enable(h, i) /\ kind[h] # "enable")
    <3>1. /\ Stage(h, "none", i, FALSE) /\ row' = row /\ kind[h] \in {"create", "enabled"}
          /\ timers' = IF on[h] THEN timers \cup {i} ELSE timers
      BY <1>3, <2>1, <2>2 DEF AddJob, Enable, Begin, Resume, Done
    <3>2. kind'[h] = "none"
      BY <3>1 DEF Stage, TypeOfRegistry
    <3>3. i \in timers' => row[i] = "on"
      BY <1>1, <2>1, <3>1 DEF Holds
    <3> QED BY <3>1, <3>2, <3>3 DEF Holds
  <2>3. CASE Enable(h, i) /\ kind[h] = "enable"
    <3>1. Stage(h, "enabled", i, row[i] = "on") /\ row' = row /\ timers' = timers
      BY <2>3 DEF Enable, Begin, Resume
    <3>2. kind'[h] = "enabled"
      BY <3>1 DEF Stage, TypeOfRegistry
    <3>3. on'[h] = (row[i] = "on")
      BY <3>1 DEF Stage, TypeOfRegistry
    <3>4. on'[h] => row'[i] = "on"
      BY <3>1, <3>3
    <3>5. i \in timers' => row'[i] = "on"
      BY <1>1, <2>1, <2>3, <3>1 DEF Holds
    <3> QED BY <1>1, <3>2, <3>4, <3>5 DEF Holds
  <2>4. CASE RemoveJob(h, i) \/ Disable(h, i)
    <3>1. Stage(h, "none", i, FALSE) /\ timers' = timers /\ kind[h] \in {"remove", "disable"}
      BY <1>3, <2>1, <2>4 DEF RemoveJob, Disable, Begin, Resume, Done
    <3>2. kind'[h] = "none"
      BY <3>1 DEF Stage, TypeOfRegistry
    <3>3. i \notin timers'
      BY <1>1, <2>1, <3>1 DEF Holds
    <3> QED BY <3>2, <3>3 DEF Holds
  <2> QED BY <2>2, <2>3, <2>4
<1> QED BY <1>2, <1>3

\* A handler leaves no ghost timer unless it met another.
LEMMA MutatorKeepsGhostInv ==
    ASSUME TypeOfRegistry, GhostInv, NEW h \in Handlers, NEW i \in Jobs,
           AddJob(h, i) \/ RemoveJob(h, i) \/ Disable(h, i) \/ Enable(h, i)
    PROVE  GhostInv'
<1> USE StepFrame
<1>1. Alone'
  <2> SUFFICES ASSUME NEW f \in Handlers, NEW g \in Handlers, f # g,
                      kind'[f] # "none", kind'[g] # "none", about'[f] = about'[g]
               PROVE  about'[g] \in overlapped'
    BY DEF Alone
  <2>1. CASE f # h /\ g # h
    BY <2>1 DEF GhostInv, Alone
  <2>2. CASE f = h \/ g = h
    <3>1. PICK o \in Handlers : o # h /\ kind[o] # "none" /\ about[o] = i
      BY <2>2
    <3>2. CASE kind[h] = "none"
      BY <3>1, <3>2, <2>2 DEF Working
    <3>3. CASE kind[h] # "none"
      BY <3>1, <3>3, <2>2 DEF GhostInv, Alone
    <3> QED BY <3>2, <3>3
  <2> QED BY <2>1, <2>2
<1>2. ASSUME NEW g \in Handlers PROVE Holds(g)'
  <2>1. CASE g = h
    <3>1. CASE i \in overlapped'
      BY <2>1, <3>1 DEF Holds
    <3>2. CASE i \notin overlapped'
      BY <2>1, <3>2, OwnStepHolds
    <3> QED BY <3>1, <3>2
  <2>2. CASE g # h /\ about[g] = i
    <3>1. kind[g] # "none" => i \in overlapped'
      <4>1. CASE kind[h] = "none"
        BY <2>2, <4>1 DEF Working
      <4>2. CASE kind[h] # "none"
        BY <2>2, <4>2 DEF GhostInv, Alone
      <4> QED BY <4>1, <4>2
    <3> QED BY <2>2, <3>1 DEF Holds
  <2>3. CASE g # h /\ about[g] # i
    <3>1. about[g] \in Jobs /\ Holds(g)
      BY DEF TypeOfRegistry, GhostInv
    <3>2. /\ row'[about[g]] = row[about[g]] /\ (about[g] \in timers' <=> about[g] \in timers)
          /\ kind'[g] = kind[g] /\ about'[g] = about[g] /\ (on'[g] <=> on[g])
          /\ about[g] \in overlapped => about[g] \in overlapped'
      BY <2>3, <3>1
    <3> QED BY <3>1, <3>2 DEF Holds
  <2> QED BY <2>1, <2>2, <2>3
<1>3. GhostsNeedOverlap'
  <2> SUFFICES ASSUME NEW j \in timers', j \notin overlapped', row'[j] # "on"
               PROVE  Working(j)'
    BY DEF GhostsNeedOverlap
  <2>0. j \in Jobs
    BY MutatorTyped DEF TypeOfRegistry, Mutate
  <2>1. CASE j = i
    <3>1. kind'[h] # "none" /\ about'[h] = i
      BY <2>1, OwnStepHolds
    <3> QED BY <2>1, <3>1 DEF Working
  <2>2. CASE j # i
    <3>1. PICK g \in Handlers : kind[g] # "none" /\ about[g] = j
      BY <2>0, <2>2 DEF GhostInv, GhostsNeedOverlap, Working
    <3>2. g # h
      <4>1. kind[h] # "none" => about[h] = i
        OBVIOUS
      <4> QED BY <3>1, <4>1, <2>2
    <3> QED BY <3>1, <3>2 DEF Working
  <2> QED BY <2>1, <2>2
<1> QED BY <1>1, <1>2, <1>3 DEF GhostInv

\* No step leaves a ghost timer unless handlers met.
LEMMA StaysGhostInv ==
    ASSUME TypeOfRegistry, NobodyYet, GhostInv, [Next]_vars
    PROVE  GhostInv'
<1>1. CASE Start
  <2>1. timers' = {j \in Jobs : row[j] = "on"} /\ row' = row /\ overlapped' = overlapped
        /\ kind' = kind /\ about' = about /\ on' = on
    BY <1>1 DEF Start, Reload, handlers, history
  <2>2. \A h \in Handlers : kind[h] = "none"
    BY <1>1 DEF Start, NobodyYet
  <2> QED BY <2>1, <2>2 DEF GhostInv, GhostsNeedOverlap, Alone, Holds
<1>2. CASE Restart
  BY <1>2 DEF Restart, GhostInv, GhostsNeedOverlap, Alone, Holds
<1>3. ASSUME NEW h \in Handlers, Mutate(h) PROVE GhostInv'
  BY <1>3, MutatorKeepsGhostInv DEF Mutate
<1>4. ASSUME NEW h \in Handlers, MutatorFails(h) PROVE GhostInv'
  <2>1. /\ row' = row /\ timers' = timers /\ overlapped' = overlapped
        /\ kind[h] \in {"create", "remove", "disable", "enable"}
        /\ kind' = [kind EXCEPT ![h] = "none"] /\ about' = [about EXCEPT ![h] = about[h]]
        /\ on' = [on EXCEPT ![h] = FALSE]
    BY <1>4 DEF MutatorFails, Done, Stage
  <2>2. about' = about /\ kind'[h] = "none"
        /\ \A g \in Handlers : g # h => kind'[g] = kind[g] /\ on'[g] = on[g]
    BY <2>1 DEF TypeOfRegistry
  <2>3. Alone'
    BY <2>1, <2>2 DEF GhostInv, Alone
  <2>4. ASSUME NEW g \in Handlers PROVE Holds(g)'
    <3>1. CASE g = h
      BY <2>2, <3>1 DEF Holds
    <3>2. CASE g # h
      BY <2>1, <2>2, <3>2 DEF GhostInv, Holds
    <3> QED BY <3>1, <3>2
  <2>5. GhostsNeedOverlap'
    <3> SUFFICES ASSUME NEW j \in timers, j \notin overlapped, row[j] # "on"
                 PROVE  \E g \in Handlers : g # h /\ kind[g] # "none" /\ about[g] = j
      BY <2>1, <2>2 DEF GhostsNeedOverlap, Working
    <3>1. about[h] # j
      BY <2>1 DEF GhostInv, Holds
    <3> QED BY <3>1 DEF GhostInv, GhostsNeedOverlap, Working
  <2> QED BY <2>3, <2>4, <2>5 DEF GhostInv
<1>5. CASE FireStep \/ UNCHANGED vars
  <2>1. UNCHANGED <<registry, handlers, history>>
    BY <1>5, FiresLeaveRegistry DEF vars
  <2> QED BY <2>1 DEF registry, handlers, history, GhostInv, GhostsNeedOverlap, Alone,
                     Holds, Working
<1> QED BY <1>1, <1>2, <1>3, <1>4, <1>5 DEF Next, FireStep

\* GhostsNeedOverlap: a timer outlives its enabled row only where two of add_job,
\* remove_job, enable and disable of that job overlapped.
THEOREM GhostsNeedOverlapHolds == Spec => []GhostsNeedOverlap
<1>1. Init => GhostInv
  BY DEF Init, GhostInv, GhostsNeedOverlap, Alone, Holds
<1>2. TypeOfRegistry /\ NobodyYet /\ GhostInv /\ [Next]_vars => GhostInv'
  BY StaysGhostInv
<1>3. Spec => [](TypeOfRegistry /\ NobodyYet)
  BY TypedAlways, NobodyWorksBeforeStart, PTL
<1>4. GhostInv => GhostsNeedOverlap
  BY DEF GhostInv
<1> QED BY <1>1, <1>2, <1>3, <1>4, PTL DEF Spec

-----------------------------------------------------------------------------
\* SessionsStayFew, strengthened: nothing is minted once a session is cached but by the
\* fires that had found none before.
Minting == {s \in Slots : at[s] = "mint"}
Few ==
    /\ cached = None => minted = 0
    /\ minted + Cardinality(Minting) <= Cardinality(Slots)

\* The fires that may create a session can be counted.
LEMMA MintingIsFinite ==
    /\ IsFiniteSet(Slots) /\ IsFiniteSet(Minting)
    /\ Cardinality(Slots) \in Nat
    /\ Cardinality(Minting) \in Nat /\ Cardinality(Minting) <= Cardinality(Slots)
<1>1. IsFiniteSet(Slots)
  BY SchedulerAssumption, FS_Union DEF Slots
<1>2. Minting \subseteq Slots
  BY DEF Minting
<1> QED BY <1>1, <1>2, FS_Subset, FS_CardinalityType

\* Where no fire turns to minting and nothing is minted, the sum does not grow.
LEMMA QuietStepStaysFew ==
    ASSUME Few, minted \in Nat, Minting' \subseteq Minting, minted' = minted,
           cached' = None => cached = None
    PROVE  Few'
<1>1. /\ Cardinality(Minting) \in Nat /\ Cardinality(Slots) \in Nat
      /\ Cardinality(Minting') \in Nat /\ Cardinality(Minting') <= Cardinality(Minting)
  BY MintingIsFinite, FS_Subset, FS_CardinalityType
<1>2. minted + Cardinality(Minting') <= Cardinality(Slots)
  BY <1>1 DEF Few
<1> QED BY <1>2 DEF Few, Slots

\* No step creates more sessions than fires may.
LEMMA StaysFew ==
    ASSUME TypeOfFires, Few, [Next]_vars
    PROVE  Few'
<1>0. minted \in Nat
  BY DEF TypeOfFires
<1>1. CASE Start \/ UNCHANGED vars \/ \E h \in Handlers : Mutate(h) \/ MutatorFails(h)
  <2>1. UNCHANGED <<owners, fires>>
    BY <1>1, MutatorsLeaveFires DEF Start, vars
  <2>2. Minting' \subseteq Minting
    BY <2>1 DEF fires, Minting, Slots
  <2> QED BY <1>0, <2>1, <2>2, QuietStepStaysFew DEF owners
<1>2. CASE Restart
  <2>1. minted' = 0 /\ \A s \in Slots : at'[s] = "idle"
    BY <1>2 DEF Restart
  <2>2. Minting' = {}
    BY <2>1 DEF Minting, Slots
  <2>3. Cardinality(Minting') = 0
    BY <2>2, FS_EmptySet
  <2> QED BY <2>1, <2>3, MintingIsFinite DEF Few, Slots
<1>3. ASSUME NEW s \in Slots, FindSession(s) PROVE Few'
  <2>1. CASE cached = None
    <3>1. minted' = 0
      BY <1>3, <2>1 DEF FindSession, Few
    <3>2. Minting' \subseteq Slots
      BY DEF Minting, Slots
    <3>3. Cardinality(Minting') \in Nat /\ Cardinality(Minting') <= Cardinality(Slots)
      BY <3>2, MintingIsFinite, FS_Subset, FS_CardinalityType
    <3>4. minted' + Cardinality(Minting') <= Cardinality(Slots)
      BY <3>1, <3>3
    <3> QED BY <3>1, <3>4 DEF Few, Slots
  <2>2. CASE cached # None
    <3>1. minted' = minted /\ cached' = cached /\ at' = [at EXCEPT ![s] = "create"]
      BY <1>3, <2>2 DEF FindSession, Go
    <3>2. Minting' \subseteq Minting
      BY <3>1 DEF Minting, Slots, TypeOfFires
    <3> QED BY <1>0, <3>1, <3>2, QuietStepStaysFew
  <2> QED BY <2>1, <2>2
<1>4. ASSUME NEW s \in Slots, MintSession(s) PROVE Few'
  <2>1. /\ minted' = minted + 1 /\ cached' # None
        /\ at[s] = "mint" /\ at' = [at EXCEPT ![s] = "create"]
    BY <1>4, SchedulerAssumption DEF MintSession, Go
  <2>2. s \in Minting /\ Minting' = Minting \ {s}
    BY <2>1 DEF Minting, Slots, TypeOfFires
  <2>3. Cardinality(Minting') = Cardinality(Minting) - 1
    BY <2>2, MintingIsFinite, FS_RemoveElement
  <2>4. minted' + Cardinality(Minting') <= Cardinality(Slots)
    BY <1>0, <2>1, <2>3, MintingIsFinite DEF Few
  <2> QED BY <2>1, <2>4 DEF Few, Slots
<1>5. ASSUME NEW s \in Slots,
             \/ Ignite(s) \/ CreateTask(s) \/ Payload(s) \/ FailTask(s)
             \/ CompleteTask(s) \/ MarkFailed(s) \/ FireFails(s)
      PROVE  Few'
  <2>1. UNCHANGED owners /\ \E a : a # "mint" /\ at' = [at EXCEPT ![s] = a]
    BY <1>5 DEF Ignite, CreateTask, Payload, FailTask, CompleteTask, MarkFailed, Report,
                FireFails, Go
  <2>2. Minting' \subseteq Minting
    BY <2>1 DEF Minting, Slots, TypeOfFires
  <2> QED BY <1>0, <2>1, <2>2, QuietStepStaysFew DEF owners
<1>6. ASSUME NEW x \in Sessions, DeleteSession(x) PROVE Few'
  <2>1. minted' = minted /\ cached' = cached /\ at' = at
    BY <1>6 DEF DeleteSession
  <2>2. Minting' \subseteq Minting
    BY <2>1 DEF Minting, Slots
  <2> QED BY <1>0, <2>1, <2>2, QuietStepStaysFew
<1> QED
  BY <1>1, <1>2, <1>3, <1>4, <1>5, <1>6 DEF Next, Tick, RunNow, Slots, Fire

\* SessionsStayFew: a process creates at most one scheduled-tasks session for each fire
\* that may run at one time (_ensure_scheduled_session).
THEOREM SessionsStayFewHolds == Spec => []SessionsStayFew
<1>1. Init => Few
  <2> SUFFICES ASSUME Init PROVE Few
    OBVIOUS
  <2>1. Minting = {} /\ minted = 0
    BY DEF Init, Minting
  <2>2. Cardinality(Minting) = 0
    BY <2>1, FS_EmptySet
  <2> QED BY <2>1, <2>2, MintingIsFinite DEF Few
<1>2. TypeOfFires /\ Few /\ [Next]_vars => Few'
  BY StaysFew
<1>3. Spec => []TypeOfFires
  BY TypedAlways, PTL
<1>4. TypeOfFires /\ Few => SessionsStayFew
  <2> SUFFICES ASSUME TypeOfFires, Few PROVE SessionsStayFew
    OBVIOUS
  <2>1. minted \in Nat
    BY DEF TypeOfFires
  <2> QED BY <2>1, MintingIsFinite DEF Few, SessionsStayFew
<1> QED BY <1>1, <1>2, <1>3, <1>4, PTL DEF Spec
=============================================================================
