------------------------------ MODULE SendMessage ------------------------------
(***************************************************************************)
(* agent.send_message, agent.cancel and permission.resolve of one process: *)
(* src/agent/minimax_code/ipc/builtins.py, perm_consent.py and             *)
(* storage/dao/runs.py.                                                    *)
(*                                                                         *)
(* Every agent.send_message is a handler of its own; nothing stops two of  *)
(* them from running in one session.  They share _ACTIVE_RUNS, through     *)
(* which agent.cancel finds a core, and the server's consent gaters,       *)
(* through which permission.resolve finds a waiting tool call; both are    *)
(* keyed by the session.  A send runs one block of AgentCore.run(), and    *)
(* with auto-continue further blocks while the budget truncates them.      *)
(*                                                                         *)
(* A block is only what the registries see of it: it asks for consent, it  *)
(* looks at the cancel flag, it ends.  AgentTurn has the rest.             *)
(***************************************************************************)
EXTENDS Integers, FiniteSets

CONSTANTS
    Sends,       \* the agent.send_message calls of the process
    Sessions,
    None,
    MaxBlocks,   \* config.auto_continue_max_blocks, 1 when auto-continue is off
    MaxConsents, \* bound: consents asked for by one send
    MaxCrashes   \* bound: process crashes

ASSUME SendAssumption ==
    /\ None \notin Sends
    /\ MaxBlocks \in Nat \ {0} /\ MaxConsents \in Nat /\ MaxCrashes \in Nat

VARIABLES
    session,   \* the session each send names
    stage,     \* where each send is
    blocks,    \* blocks started
    cancel,    \* the core's cancel flag
    active,    \* _ACTIVE_RUNS: session -> send
    gaters,    \* server._permission_gaters: session -> send
    legacy,    \* server._permission_gater
    asked,     \* the consent future of each send
    consents,  \* consents asked for
    row,       \* status of the agent_runs row
    crashes

registry == <<active, gaters, legacy>>
consent == <<asked, consents>>
vars == <<session, stage, blocks, cancel, active, gaters, legacy, asked,
          consents, row, crashes>>

\* "gated": the gater is registered; "active": so is the core; "winding": past
\* the last look at the flag, out of iterations; "leaving": the result is known;
\* "left": out of the registries, the row still to be completed.
Live == {"gated", "active", "running", "winding", "failing"}
Leaving == {"final", "cancelled", "truncated", "failed"}
Left == {"left", "left_cancelled"}
Stage == {"new"} \cup Live \cup Leaving \cup Left \cup {"closed"}
Consent == {"none", "pending", "resolved"}
RowStatus == {"none", "running", "completed", "cancelled", "failed"}

\* Type invariant.  The registries name sends, a send runs at most its blocks,
\* and its run row has one of the statuses of the DAO.
TypeOK ==
    /\ session \in [Sends -> Sessions]
    /\ stage \in [Sends -> Stage]
    /\ blocks \in [Sends -> 0 .. MaxBlocks]
    /\ cancel \in [Sends -> BOOLEAN]
    /\ active \in [Sessions -> Sends \cup {None}]
    /\ gaters \in [Sessions -> Sends \cup {None}]
    /\ legacy \in Sends \cup {None}
    /\ asked \in [Sends -> Consent]
    /\ consents \in [Sends -> 0 .. MaxConsents]
    /\ row \in [Sends -> RowStatus]
    /\ crashes \in 0 .. MaxCrashes

Init ==
    /\ session \in [Sends -> Sessions]
    /\ stage = [s \in Sends |-> "new"] /\ blocks = [s \in Sends |-> 0]
    /\ cancel = [s \in Sends |-> FALSE]
    /\ active = [x \in Sessions |-> None] /\ gaters = [x \in Sessions |-> None]
    /\ legacy = None
    /\ asked = [s \in Sends |-> "none"] /\ consents = [s \in Sends |-> 0]
    /\ row = [s \in Sends |-> "none"] /\ crashes = 0

Goto(s, from, to) == stage[s] = from /\ stage' = [stage EXCEPT ![s] = to]

-----------------------------------------------------------------------------
(* handle_agent_send_message() *)

\* register_gater()
RegisterGater(s) ==
    /\ Goto(s, "new", "gated")
    /\ gaters' = [gaters EXCEPT ![session[s]] = s]
    /\ legacy' = s
    /\ UNCHANGED <<session, blocks, cancel, active, consent, row, crashes>>

\* The row is created, unless storage fails; then the core can be found.
Activate(s) ==
    /\ Goto(s, "gated", "active")
    /\ row' \in {row, [row EXCEPT ![s] = "running"]}
    /\ active' = [active EXCEPT ![session[s]] = s]
    /\ UNCHANGED <<session, blocks, cancel, gaters, legacy, consent, crashes>>

\* AgentCore.run() begins by lowering the flag.
StartBlock(s) ==
    /\ blocks' = [blocks EXCEPT ![s] = @ + 1]
    /\ cancel' = [cancel EXCEPT ![s] = FALSE]
    /\ UNCHANGED <<session, registry, consent, row, crashes>>

FirstBlock(s) == Goto(s, "active", "running") /\ StartBlock(s)

\* The iteration budget is spent: what is left of run() does not look at the
\* flag any more.
RunOutOfBudget(s) ==
    /\ asked[s] = "none" /\ ~cancel[s]
    /\ Goto(s, "running", "winding")
    /\ UNCHANGED <<session, blocks, cancel, registry, consent, row, crashes>>

NextBlockOffByOne(s) ==
    /\ blocks[s] <= MaxBlocks
    /\ Goto(s, "winding", "running") /\ StartBlock(s)

\* _run_with_auto_continue(): the block was truncated, the next one starts.
NextBlock(s) ==
    /\ blocks[s] < MaxBlocks
    /\ Goto(s, "winding", "running") /\ StartBlock(s)

StopTruncated(s) ==
    /\ blocks[s] = MaxBlocks
    /\ Goto(s, "winding", "truncated")
    /\ UNCHANGED <<session, blocks, cancel, registry, consent, row, crashes>>

BlockEndsAsking(s, how) ==
    /\ how = "cancelled" => cancel[s]
    /\ Goto(s, "running", how)
    /\ UNCHANGED <<session, blocks, cancel, registry, consent, row, crashes>>

\* run() returns a final answer, or notices the cancellation; or it raises.
BlockEnds(s, how) ==
    /\ asked[s] = "none"
    /\ how = "cancelled" => cancel[s]
    /\ Goto(s, "running", how)
    /\ UNCHANGED <<session, blocks, cancel, registry, consent, row, crashes>>

\* recorder.fail() in the except clause; a storage error goes the same way.
FailRow(s) ==
    /\ Goto(s, "failing", "failed")
    /\ row' \in {row, [row EXCEPT ![s] = IF @ = "none" THEN @ ELSE "failed"]}
    /\ UNCHANGED <<session, blocks, cancel, registry, consent, crashes>>

UnregisterKeepingLegacy(s) ==
    /\ gaters' = [gaters EXCEPT ![session[s]] = None]
    /\ UNCHANGED legacy

\* unregister_gater(): whatever gater the session has now, and the legacy slot
\* if it is the same.
Unregister(s) ==
    LET gater == gaters[session[s]]
    IN  /\ gaters' = [gaters EXCEPT ![session[s]] = None]
        /\ legacy' = IF gater # None /\ legacy = gater THEN None ELSE legacy

AfterLeavingFallsThrough(how) == IF how = "cancelled" THEN "left_cancelled" ELSE "left"

\* The except clause returns: a failed send has no row left to complete.
AfterLeaving(how) ==
    CASE how = "failed" -> "closed"
      [] how = "cancelled" -> "left_cancelled"
      [] OTHER -> "left"

\* The finally clause: the session's entries go, whosever they are.
Leave(s) ==
    /\ stage[s] \in Leaving
    /\ stage' = [stage EXCEPT ![s] = AfterLeaving(@)]
    /\ active' = [active EXCEPT ![session[s]] = None]
    /\ Unregister(s)
    /\ UNCHANGED <<session, blocks, cancel, consent, row, crashes>>

\* recorder.complete(); a storage error leaves the row as it is.
CompleteRow(s) ==
    /\ stage[s] \in Left
    /\ stage' = [stage EXCEPT ![s] = "closed"]
    /\ row' \in {row, [row EXCEPT ![s] =
                         IF @ = "none" THEN @
                         ELSE IF stage[s] = "left" THEN "completed" ELSE "cancelled"]}
    /\ UNCHANGED <<session, blocks, cancel, registry, consent, crashes>>

-----------------------------------------------------------------------------
(* PermissionGater.request_consent() *)

AskConsent(s) ==
    /\ stage[s] = "running" /\ asked[s] = "none" /\ consents[s] < MaxConsents
    /\ asked' = [asked EXCEPT ![s] = "pending"]
    /\ consents' = [consents EXCEPT ![s] = @ + 1]
    /\ UNCHANGED <<session, stage, blocks, cancel, registry, row, crashes>>

\* The future was set, to either answer, and the waiter runs.
ConsentReturns(s) ==
    /\ asked[s] = "resolved"
    /\ asked' = [asked EXCEPT ![s] = "none"]
    /\ UNCHANGED <<session, stage, blocks, cancel, registry, consents, row, crashes>>

ConsentWaitsForUser(s) == ConsentReturns(s)

\* 300 s without an answer count as a denial.
ConsentExpires(s) ==
    /\ asked[s] = "pending"
    /\ asked' = [asked EXCEPT ![s] = "none"]
    /\ UNCHANGED <<session, stage, blocks, cancel, registry, consents, row, crashes>>

ReachableInLegacySlot(s) == s = legacy

\* resolve_any_gater() comes across the gater of s.
Reachable(s) == s \in {gaters[x] : x \in Sessions} \cup {legacy}

\* PermissionGater.resolve(): a future that is already set stays as it is.
Resolve(s) ==
    /\ asked[s] # "none" /\ Reachable(s)
    /\ asked' = [asked EXCEPT ![s] = "resolved"]
    /\ UNCHANGED <<session, stage, blocks, cancel, registry, consents, row, crashes>>

-----------------------------------------------------------------------------

\* handle_agent_cancel(): the entry is popped and its core told.
CancelSession(x) ==
    /\ active[x] # None
    /\ cancel' = [cancel EXCEPT ![active[x]] = TRUE]
    /\ active' = [active EXCEPT ![x] = None]
    /\ UNCHANGED <<session, stage, blocks, gaters, legacy, consent, row, crashes>>

\* The process dies; recover_orphans() runs before the next send.
CrashAndRestart ==
    /\ crashes < MaxCrashes
    /\ crashes' = crashes + 1
    /\ stage' = [s \in Sends |-> IF stage[s] = "new" THEN "new" ELSE "closed"]
    /\ cancel' = [s \in Sends |-> FALSE]
    /\ asked' = [s \in Sends |-> "none"]
    /\ active' = [x \in Sessions |-> None] /\ gaters' = [x \in Sessions |-> None]
    /\ legacy' = None
    /\ row' = [s \in Sends |-> IF row[s] = "running" THEN "failed" ELSE row[s]]
    /\ blocks' = [s \in Sends |-> 0] /\ consents' = [s \in Sends |-> 0]
    /\ UNCHANGED session

HandlerStep(s) ==
    \/ RegisterGater(s) \/ Activate(s) \/ FirstBlock(s) \/ RunOutOfBudget(s)
    \/ NextBlock(s) \/ StopTruncated(s)
    \/ \E how \in {"final", "cancelled", "failing"} : BlockEnds(s, how)
    \/ FailRow(s) \/ Leave(s) \/ CompleteRow(s)
    \/ ConsentReturns(s) \/ ConsentExpires(s)

Next ==
    \/ \E s \in Sends : HandlerStep(s) \/ AskConsent(s) \/ Resolve(s)
    \/ \E x \in Sessions : CancelSession(x)
    \/ CrashAndRestart

Spec == Init /\ [][Next]_vars

\* A handler that can go on does: a turn ends (AgentTurn!TurnEnds) and a
\* consent is answered or times out.  Clients need not cancel or resolve.
FairSpec == Spec /\ \A s \in Sends : WF_vars(HandlerStep(s))

-----------------------------------------------------------------------------
(* Properties *)

\* The block of send s, as Block has it.
BlockPhase(s) ==
    CASE stage[s] \in {"new", "gated", "active"} -> "idle"
      [] stage[s] \in {"running", "winding"} -> stage[s]
      [] stage[s] \in {"cancelled", "left_cancelled"} -> "cancelled"
      [] stage[s] = "closed" -> "gone"
      [] OTHER -> "ended"

TheBlock(s) == INSTANCE Block WITH
    phase <- BlockPhase(s), cancel <- cancel[s], asking <- asked[s] # "none"

\* Every send treats its blocks the way AgentCore.run() behaves, whatever other
\* sends, answers, cancellations and crashes do in between.
BlocksAreBlocks ==
    /\ \A s \in Sends : TheBlock(s)!Init
    /\ [][ \A s \in Sends : [TheBlock(s)!Next]_(TheBlock(s)!vars) ]_vars

\* _run_with_auto_continue(): "a user cancel between blocks stops the loop".  The flag
\* raised during the last awaits of a truncated block is not followed by another one.
CancelBetweenBlocksStops ==
    [][ \A s \in Sends : stage[s] = "winding" /\ cancel[s] => stage'[s] # "running" ]_vars

\* unregister_gater(): "a finished run's gater must stop claiming resolves from
\* every path".  However sends of one session overlap, no registry names a
\* send that has left or has not begun.
NoDeadEntry ==
    \A s \in Sends :
        /\ Reachable(s) => stage[s] \in Live \cup Leaving
        /\ s \in {active[x] : x \in Sessions} => stage[s] \in Live \cup Leaving

\* A run row never leaves a terminal status for another one, whatever crashes,
\* storage errors and overlapping sends there are.
RowSettlesOnce ==
    [][ \A s \in Sends : row[s] \in {"completed", "cancelled", "failed"} => row'[s] = row[s] ]_vars

\* A send that started ends, even if nobody answers its consents, as long as
\* the process does not crash (then it is closed at once).
SendEnds == \A s \in Sends : stage[s] = "gated" ~> stage[s] = "closed"

Alone(s) == \A t \in Sends : t # s => session[t] # session[s]

\* What the registry was introduced for: a send whose session no other send
\* shares can be answered as long as it lives, whatever the sends of other
\* sessions do to the legacy slot.
AloneIsReachable == \A s \in Sends : (Alone(s) /\ stage[s] \in Live) => Reachable(s)

\* register_gater(): "The registry keeps every live gater reachable".
LiveGaterReachable == \A s \in Sends : stage[s] \in Live => Reachable(s)
=============================================================================
