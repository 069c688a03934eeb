-------------------------------- MODULE TeamRun --------------------------------
(***************************************************************************)
(* A sandboxed team run: TeamOrchestrator.run() of                         *)
(* src/agent/minimax_code/orchestrator/team_orchestrator.py over the       *)
(* members' sandboxes.  The modes "round-robin" and "vote" are "parallel". *)
(*                                                                         *)
(* Slots 1 .. NMembers are the members in the order of the team; the last  *)
(* slot is the reviewer.  Left out: the texts, prompts and progress        *)
(* events, and a team run without sandboxes, which has no state beyond its *)
(* row.                                                                    *)
(***************************************************************************)
EXTENDS Sandbox

CONSTANTS
    NMembers,
    Limits,         \* MINIMAX_CODE_TEAM_MAX_CONCURRENCY, read by _run_parallel(); 0: no cap
    Modes,
    MaxWork         \* bound: file operations of all members together

ASSUME TeamAssumption ==
    /\ NMembers \in Nat \ {0} /\ NRuns = NMembers + 1
    /\ Limits \subseteq Nat
    /\ Modes \subseteq {"parallel", "sequential", "review"}
    /\ MaxWork \in Nat

Members == 1 .. NMembers
Reviewer == NMembers + 1

VARIABLES
    mode, limit,
    phase,      \* where run() is
    member,     \* where each slot is
    processed,  \* collect_state["processed"]
    row,        \* status of the agent_runs row
    unwritten,  \* the row's last update was lost
    raised,     \* run() has raised
    work        \* file operations so far

teamVars == <<mode, limit, phase, member, processed, row, unwritten, raised, work>>
vars == <<sandboxVars, teamVars>>

TypeOK ==
    /\ SandboxTypeOK
    /\ mode \in Modes /\ limit \in Limits \cup {0}
    /\ phase \in {"start", "members", "review", "closing", "done", "down"}
    /\ member \in [Runs -> {"waiting", "running", "ended", "refused"}]
    /\ processed \subseteq Runs
    /\ row \in {"none", "running", "completed", "failed"}
    /\ unwritten \in BOOLEAN /\ raised \in BOOLEAN
    /\ work \in 0 .. MaxWork

Init ==
    /\ SandboxInit
    /\ mode \in Modes /\ limit \in IF mode = "sequential" THEN {0} ELSE Limits
    /\ phase = "start"
    /\ member = [i \in Runs |-> "waiting"]
    /\ processed = {}
    /\ row = "none" /\ unwritten = FALSE /\ raised = FALSE
    /\ work = 0

-----------------------------------------------------------------------------
(* run() *)

\* The row is created, or run() goes on without one.  The team may be unknown,
\* disabled or without valid agents.
Begin ==
    /\ phase = "start"
    /\ \/ row' = "running" /\ UNCHANGED sandboxVars
       \/ row' = "none" /\ Fault(1)
          /\ UNCHANGED <<diskVars, report, seen, userSteps, wrote, dropped, lost, late, again>>
    /\ phase' \in {"members", "closing"}
    /\ UNCHANGED <<mode, limit, member, processed, unwritten, raised, work>>

Activated(i) == member[i] = "ended"     \* its result has a run_id
Ended(i) == member[i] \in {"ended", "refused"}
Running == {i \in Runs : member[i] = "running"}
WritersEnded == \A i \in Members : Ended(i)

\* The semaphore of _run_parallel() lets the members in by their order.
Room == limit = 0 \/ Cardinality(Running) < limit

SettledWhenCollected(i) == i \in processed

\* There is nothing left to collect from the slot.
Settled(i) == member[i] = "refused" \/ i \in processed

HasTurnBeforeCollect(i) ==
    \/ phase = "members" /\ i \in Members /\ \A j \in 1 .. i - 1 : Ended(j)
    \/ phase = "review" /\ i = Reviewer

HasTurn(i) ==
    \/ /\ phase = "members" /\ i \in Members /\ mode = "sequential"
       /\ \A j \in 1 .. i - 1 : Settled(j)
    \/ /\ phase = "members" /\ i \in Members /\ mode # "sequential"
       /\ Room /\ \A j \in 1 .. i - 1 : member[j] # "waiting"
    \/ phase = "review" /\ i = Reviewer

\* A member runs in a sandbox, or not at all.
StartMember(i) ==
    /\ member[i] = "waiting" /\ HasTurn(i)
    /\ \/ MakeTree(i) /\ member' = [member EXCEPT ![i] = "running"]
       \/ /\ Fault(1) /\ member' = [member EXCEPT ![i] = "refused"]
          /\ UNCHANGED <<diskVars, report, seen, userSteps, wrote, dropped, lost, late, again>>
    /\ UNCHANGED <<mode, limit, phase, processed, row, unwritten, raised, work>>

Work(i) ==
    /\ member[i] = "running" /\ phase # "down"
    /\ \E f \in Files :
          \/ ReadFile(i, f)
          \/ \E checked \in BOOLEAN : WriteFile(i, f, checked)
          \/ EditFile(i, f)
          \/ AppendFile(i, f)
    /\ work < MaxWork /\ work' = work + 1
    /\ UNCHANGED <<mode, limit, phase, member, processed, row, unwritten, raised>>

\* The member answers, raises, or runs into the wall clock.
EndMember(i) ==
    /\ member[i] = "running" /\ phase # "down"
    /\ member' = [member EXCEPT ![i] = "ended"]
    /\ Forget(i)
    /\ UNCHANGED <<mode, limit, phase, processed, row, unwritten, raised, work>>

\* Sequential members are collected as they end, writers once all have ended,
\* both by their order.
Due(i) ==
    /\ phase \in {"members", "review"} /\ Activated(i) /\ i \notin processed
    /\ i \in Members /\ mode # "sequential" => WritersEnded
    /\ \A j \in 1 .. i - 1 : Settled(j)

\* _collect_one()
CollectOne(i) ==
    /\ Due(i)
    /\ Collect(i, "skip")
    /\ processed' = processed \cup {i}
    /\ UNCHANGED <<mode, limit, phase, member, row, unwritten, raised, work>>

Advance ==
    /\ \/ phase = "members" /\ \A i \in Members : Settled(i)
       \/ phase = "review" /\ Settled(Reviewer)
    /\ phase' = IF phase = "members" /\ mode = "review" THEN "review" ELSE "closing"
    /\ UNCHANGED <<sandboxVars, mode, limit, member, processed, row, unwritten, raised, work>>

\* One healthy agent makes the run a success, and any that was activated may
\* be healthy; without agents the answer decides (a team that has none
\* succeeds, an unknown one does not).
Finish ==
    /\ phase = "closing" /\ phase' = "done"
    /\ \/ \E status \in {"completed", "failed"} :
             /\ status = "completed" /\ (\E i \in Runs : Ended(i)) =>
                   \E i \in Runs : Activated(i)
             /\ row' = IF row = "running" THEN status ELSE row
          /\ UNCHANGED <<unwritten, sandboxVars>>
       \/ /\ row = "running" /\ Fault(1) /\ unwritten' = TRUE /\ row' = row
          /\ UNCHANGED <<diskVars, report, seen, userSteps, wrote, dropped, lost, late, again>>
    /\ UNCHANGED <<mode, limit, member, processed, raised, work>>

\* The team or an agent of it cannot be read, or a member's CancelledError is
\* in the way once the members have ended: nothing catches it in run(), and the
\* handler only logs it.
RunRaises ==
    /\ phase \in {"members", "review"} /\ Running = {}
    /\ phase = "members" /\ mode # "sequential" =>
          WritersEnded \/ \A i \in Members : member[i] = "waiting"
    /\ Fault(1)
    /\ phase' = "done" /\ raised' = TRUE
    /\ UNCHANGED <<diskVars, report, seen, userSteps, wrote, dropped, lost, late, again,
                   mode, limit, member, processed, row, unwritten, work>>

-----------------------------------------------------------------------------
(* Around it *)

Outside == \E f \in Files : (UserEdits(f) \/ UserDeletes(f)) /\ UNCHANGED teamVars

\* The process ends, maybe inside the collection that is due.
Crash ==
    /\ phase \notin {"start", "done", "down"} /\ phase' = "down"
    /\ Fault(1)
    /\ \/ UNCHANGED <<diskVars, report, seen, userSteps, wrote, dropped, lost, late, again>>
       \/ \E i \in Runs : Due(i) /\ CutCollect(i, "skip")
    /\ UNCHANGED <<mode, limit, member, processed, row, unwritten, raised, work>>

RecoverAsInterrupted ==
    /\ phase = "down" /\ row = "running" /\ row' = "interrupted"
    /\ UNCHANGED <<sandboxVars, mode, limit, phase, member, processed, unwritten, raised, work>>

\* recover_orphans(), at the next start.
Recover ==
    /\ phase = "down" /\ row = "running" /\ row' = "failed"
    /\ UNCHANGED <<sandboxVars, mode, limit, phase, member, processed, unwritten, raised, work>>

\* collect_subagent, called for a run of the team once the team run is over.
\* Its guard only knows the background runs and would let it in before.
CollectByHand(i) ==
    /\ phase \in {"done", "down"} /\ member[i] # "waiting"
    /\ \E policy \in {"fail", "skip", "overwrite"} : Collect(i, policy)
    /\ UNCHANGED teamVars

Next ==
    \/ Begin \/ Advance \/ Finish \/ RunRaises \/ Outside \/ Crash \/ Recover
    \/ \E i \in Runs : StartMember(i) \/ Work(i) \/ EndMember(i) \/ CollectOne(i)
                       \/ CollectByHand(i)

Spec == Init /\ [][Next]_vars

\* run() is awaited to its end, the wall clock ends every member, and the
\* process is started again after a crash.
Progress ==
    \/ Begin \/ Advance \/ Finish \/ Recover
    \/ \E i \in Runs : StartMember(i) \/ EndMember(i) \/ CollectOne(i)

FairSpec == Spec /\ WF_vars(Progress)

-----------------------------------------------------------------------------
(* Properties *)

InWorkspaceOrReported(i) ==
    \A f \in Files : <<i, f>> \in wrote /\ ~Late(f) =>
        i \in ws[f] \cup dropped[f] \cup lost[f] \/ f \in report[i]

\* Whoever builds on a member's work finds it in the workspace, or the summary
\* says that it is not there: the next sequential member, the reviewer, and
\* the reader of the result.
SuccessorSeesWork ==
    \A i \in Members :
        \/ phase = "review" /\ member[Reviewer] # "waiting"
        \/ phase = "closing"
        \/ mode = "sequential" /\ \E j \in i + 1 .. NMembers : member[j] = "running"
        => InWorkspaceOrReported(i)

\* A team run comes to its end, and its row does not stay "running", unless
\* the row could not be written or run() raised.
TeamSettles ==
    /\ <>(phase \in {"done", "down"})
    /\ <>[](row = "running" => unwritten \/ raised)
=============================================================================
