----------------------------- MODULE MCCompaction -----------------------------
(***************************************************************************)
(* Every history a conversation can build up to MaxLen messages, compacted *)
(* at any point where AgentCore calls compact_history(): before a model    *)
(* call, when every tool call has its result.                              *)
(***************************************************************************)
EXTENDS Compaction, SequencesExt

CONSTANTS MaxLen, MaxCalls, Keep

VARIABLES ms, owed   \* the message list; tool results still to be appended

vars == <<ms, owed>>

Msg(role, calls, tag) == [role |-> role, calls |-> calls, tag |-> tag]
Summary == Msg("user", 0, "summary")
Said == Msg("user", 0, "said")

\* run() opens every list with the system prompt and ends it with the request.
Init ==
    /\ ms = <<Msg("system", 0, "prompt"), Said>>
    /\ owed = 0

UserSpeaks ==
    /\ owed = 0 /\ Len(ms) < MaxLen
    /\ ms' = Append(ms, Said) /\ UNCHANGED owed

AssistantReplies ==
    /\ owed = 0
    /\ \E calls \in 0 .. MaxCalls :
         /\ Len(ms) + calls < MaxLen
         /\ ms' = Append(ms, Msg("assistant", calls, "reply")) /\ owed' = calls

ToolAnswers ==
    /\ owed > 0
    /\ ms' = Append(ms, Msg("tool", 0, "result")) /\ owed' = owed - 1

Compact ==
    /\ owed = 0
    /\ ms' = CompactHistory(ms, Keep, Summary) /\ UNCHANGED owed

Next == UserSpeaks \/ AssistantReplies \/ ToolAnswers \/ Compact

Spec == Init /\ [][Next]_vars

-----------------------------------------------------------------------------

\* compact_history() never separates an assistant message from its tool results,
\* and never loses or repeats the system prompt: whatever the model is sent is a
\* list the chat API accepts.
CompactionKeepsPairs ==
    owed = 0 => PairedHistory(ms) /\ \A i \in DOMAIN ms : ms[i].role = "system" <=> i = 1

\* The turns that at most Keep turns, themselves included, follow to the end.
RecentStarts(ts) ==
    {i \in TurnStarts(ts) : Cardinality({j \in TurnStarts(ts) : j >= i}) <= Keep}
FirstOf(starts) == CHOOSE i \in starts : \A j \in starts : i <= j

RecentTurns(s) ==
    LET ts == Turns(s)
    IN  IF RecentStarts(ts) = {} THEN << >>
        ELSE SubSeq(ts, FirstOf(RecentStarts(ts)), Len(ts))

\* compact_history()'s contract: "the most recent keep_recent user/assistant
\* turns are kept verbatim", at the end of the list.
RecentTurnsKept == [][ Compact => IsSuffix(RecentTurns(ms), ms') ]_vars
=============================================================================
