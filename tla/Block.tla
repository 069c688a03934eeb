--------------------------------- MODULE Block ---------------------------------
(***************************************************************************)
(* What agent.send_message may rely on in AgentCore.run(), and in what     *)
(* _run_with_auto_continue() makes of it: the contract between SendMessage *)
(* (where a block is a few steps) and AgentTurn (where it is the loop).    *)
(*                                                                         *)
(* A block never lowers the flag on its way.  While it waits for a consent *)
(* it neither ends nor goes on to its last answer, so that a consent is    *)
(* always somebody's.  It calls itself cancelled only if it was told so.   *)
(* Once its iterations are spent it does not look at the flag any more and *)
(* asks for nothing: it ends as truncated, or is continued.  The contract  *)
(* leaves open whether a continuation keeps a cancellation it finds:       *)
(* builtins.py says it stops the loop, core.py clears it.  SendMessage has *)
(* the question as a property of its own, CancelBetweenBlocksStops.        *)
(***************************************************************************)
VARIABLES
    phase,   \* where the block is
    cancel,  \* AgentCore._cancel
    asking   \* a request_consent() is pending

vars == <<phase, cancel, asking>>

\* "winding": out of iterations; "ended": with an answer, the truncation notice or
\* an exception; "gone": nobody will look at how it ended any more.
Phase == {"idle", "running", "winding", "ended", "cancelled", "gone"}

Init == phase \in {"idle", "running", "winding"} /\ cancel = FALSE /\ asking = FALSE

Begin ==
    /\ phase = "idle" /\ ~asking
    /\ phase' = "running" /\ cancel' = FALSE /\ UNCHANGED asking

Continue ==
    /\ phase = "winding" /\ ~asking
    /\ phase' = "running" /\ cancel' \in {FALSE, cancel} /\ UNCHANGED asking

Ask == phase = "running" /\ ~asking /\ asking' = TRUE /\ UNCHANGED <<phase, cancel>>
Answered == asking /\ asking' = FALSE /\ UNCHANGED <<phase, cancel>>

SpendBudget ==
    /\ phase = "running" /\ ~asking /\ ~cancel
    /\ phase' = "winding" /\ UNCHANGED <<cancel, asking>>

End ==
    /\ phase \in {"running", "winding"} /\ ~asking
    /\ phase' = "ended" /\ UNCHANGED <<cancel, asking>>

EndCancelled ==
    /\ phase = "running" /\ ~asking /\ cancel
    /\ phase' = "cancelled" /\ UNCHANGED <<cancel, asking>>

Settle ==
    /\ phase \in {"ended", "cancelled"}
    /\ phase' = "gone" /\ UNCHANGED <<cancel, asking>>

\* AgentCore.cancel(), also of a block that has not begun or is over.
Cancel == cancel' = TRUE /\ UNCHANGED <<phase, asking>>

\* The process goes down; a block that has not begun may still do so after it.
Die ==
    /\ phase' \in {"gone"} \cup ({phase} \cap {"idle"})
    /\ cancel' = FALSE /\ asking' = FALSE

Next ==
    \/ Begin \/ Continue \/ Ask \/ Answered \/ SpendBudget \/ End \/ EndCancelled \/ Settle
    \/ Cancel \/ Die

Spec == Init /\ [][Next]_vars
================================================================================
