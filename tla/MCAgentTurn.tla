----------------------------- MODULE MCAgentTurn -----------------------------
(* Small instances of AgentTurn: the batches and stored conversations.      *)
EXTENDS AgentTurn

CONSTANTS p1, p2

MCPaths == {p1, p2}

C(tool, path) == [tool |-> tool, args |-> "object", path |-> path]
CutOff(tool, path) == [C(tool, path) EXCEPT !.args = "cut"]
Other(tool, path) == [C(tool, path) EXCEPT !.args = "other"]

\* Three writes of which two collide.
WriteBatch == <<C("write", p1), C("write", p2), C("write", p1)>>
\* A question, a call that may need consent, a call cut off by the token limit.
AskBatch == <<C("ask_user", p1), C("plain", p1)>>
MalformedBatch == <<C("plain", p1), CutOff("plain", p1)>>
\* Two calls whose arguments are no object, the write between two writes.
OtherBatch == <<C("write", p1), Other("write", p1), C("write", p1)>>
ListBatch == <<C("plain", p1), Other("plain", p1)>>

MCBatches == {WriteBatch, AskBatch, MalformedBatch, OtherBatch, ListBatch}

\* A new conversation, and one with an earlier turn that used a tool.
MCHistories ==
    {<< >>, <<Row("user", 0), Row("assistant", 1), Row("tool", 0), Row("assistant", 0)>>}
=============================================================================
