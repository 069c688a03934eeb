------------------------------ MODULE Compaction ------------------------------
(***************************************************************************)
(* History compaction, src/agent/minimax_code/agent/compaction.py: when    *)
(* the estimated tokens exceed the budget, old turns are replaced by one   *)
(* summary message and the recent turns are kept verbatim.                 *)
(*                                                                         *)
(* A message is a record with at least the fields                          *)
(*    role    "system", "user", "assistant" or "tool"                      *)
(*    calls   how many tool calls an assistant message carries             *)
(* Text and token counts are left out: whether the budget is exceeded is   *)
(* the caller's choice.                                                    *)
(***************************************************************************)
EXTENDS Integers, Sequences, FiniteSets

\* The messages at the places S, in order.
Subsequence(ms, S) ==
    LET kept[i \in 0 .. Len(ms)] ==
            IF i = 0 THEN << >>
            ELSE IF i \in S THEN Append(kept[i - 1], ms[i]) ELSE kept[i - 1]
    IN  kept[Len(ms)]

System(ms) == Subsequence(ms, {i \in DOMAIN ms : ms[i].role = "system"})
Turns(ms) == Subsequence(ms, {i \in DOMAIN ms : ms[i].role # "system"})

\* _find_turn_boundaries(): a turn starts at each user message and runs to
\* the next one; what precedes the first user message belongs to no turn.
TurnStarts(ts) == {i \in DOMAIN ts : ts[i].role = "user"}

KeepFromNextTurn(ts, keep) ==
    {i \in TurnStarts(ts) : Cardinality({j \in TurnStarts(ts) : j >= i}) = keep - 1}
KeepFromMessage(ts, keep) == {Len(ts) - keep + 1}

\* Where the recent part begins: the start of the keep-th turn from the end.
KeepFrom(ts, keep) ==
    {i \in TurnStarts(ts) : Cardinality({j \in TurnStarts(ts) : j >= i}) = keep}
Cut(ts, keep) == CHOOSE i \in KeepFrom(ts, keep) : TRUE

\* compact_history() once the budget is exceeded.  With at most `keep' turns
\* everything is recent and only the system messages move to the front.
CompactHistory(ms, keep, summary) ==
    LET ts == Turns(ms)
    IN  IF Cardinality(TurnStarts(ts)) <= keep
          THEN System(ms) \o ts
          ELSE System(ms) \o <<summary>> \o SubSeq(ts, Cut(ts, keep), Len(ts))

-----------------------------------------------------------------------------
(* Properties of histories *)

\* What the chat APIs require of a message list: the results of an assistant
\* message's tool calls follow it immediately, one for each call, and a tool
\* message never stands anywhere else.
PairedHistory(ms) ==
    \A i \in DOMAIN ms :
        /\ ms[i].role = "assistant" =>
             \A k \in 1 .. ms[i].calls : i + k \in DOMAIN ms /\ ms[i + k].role = "tool"
        /\ ms[i].role = "tool" =>
             \E a \in 1 .. i - 1 : ms[a].role = "assistant" /\ i - a <= ms[a].calls

=============================================================================
