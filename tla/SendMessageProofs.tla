--------------------------- MODULE SendMessageProofs ---------------------------
(***************************************************************************)
(* Theorems about SendMessage, for any number of sends, sessions, blocks,  *)
(* consents and crashes.                                                   *)
(*                                                                         *)
(* What the registries promise does not follow from itself: a handler      *)
(* that leaves clears whatever its session's entries hold.  Owned says     *)
(* whose entries those can be, and that the legacy slot is never the last  *)
(* place that knows a gater.                                               *)
(***************************************************************************)
EXTENDS SendMessage, TLAPS

Holding == Live \cup Leaving

\* An entry belongs to a send of its session that has not left yet; the legacy
\* slot repeats an entry of the registry.
Owned ==
    /\ \A x \in Sessions : gaters[x] # None =>
         session[gaters[x]] = x /\ stage[gaters[x]] \in Holding
    /\ \A x \in Sessions : active[x] # None =>
         session[active[x]] = x /\ stage[active[x]] \in Holding
    /\ legacy # None => gaters[session[legacy]] = legacy

\* A send alone in its session finds its own gater there until it leaves.
AloneOwns ==
    \A s \in Sends : (Alone(s) /\ stage[s] \in Holding) => gaters[session[s]] = s

Settled == {"completed", "cancelled", "failed"}

\* A row exists only once the send is active, and is settled only when nothing
\* will write to it again.
RowsFollow ==
    \A s \in Sends :
        /\ row[s] # "none" => stage[s] \notin {"new", "gated"}
        /\ row[s] \in Settled => stage[s] \in {"failed", "closed"}

-----------------------------------------------------------------------------

\* The steps that move a send between stages.
StageStep(s) ==
    \/ RegisterGater(s) \/ Activate(s) \/ FirstBlock(s) \/ RunOutOfBudget(s)
    \/ NextBlock(s) \/ StopTruncated(s)
    \/ \E how \in {"final", "cancelled", "failing"} : BlockEnds(s, how)
    \/ FailRow(s) \/ Leave(s) \/ CompleteRow(s)

\* The steps of a consent.
ConsentStep(s) ==
    AskConsent(s) \/ ConsentReturns(s) \/ ConsentExpires(s) \/ Resolve(s)

\* What the next-state relation amounts to.
LEMMA NextCases ==
    ASSUME Next
    PROVE  \/ \E s \in Sends : StageStep(s) \/ ConsentStep(s)
           \/ \E x \in Sessions : CancelSession(x)
           \/ CrashAndRestart
BY DEF Next, HandlerStep, StageStep, ConsentStep

\* A step of a send moves it along the stages and leaves the others where they are.
LEMMA StageMoves ==
    ASSUME TypeOK, NEW s \in Sends, StageStep(s)
    PROVE  /\ stage' \in [Sends -> Stage]
           /\ stage' = [stage EXCEPT ![s] = stage'[s]]
           /\ session' = session
BY DEF StageStep, RegisterGater, Activate, FirstBlock, StartBlock, RunOutOfBudget,
       NextBlock, StopTruncated, BlockEnds, FailRow, Leave, AfterLeaving, CompleteRow,
       Goto, TypeOK, Stage, Live, Leaving, Left

\* A send that has not begun its first block has run none: this is what bounds
\* the number of blocks when the first one starts.
Unstarted == \A s \in Sends : stage[s] \in {"new", "gated", "active"} => blocks[s] = 0

\* A step of a send keeps types and block counts.
LEMMA StageTyped ==
    ASSUME TypeOK, Unstarted, NEW s \in Sends, StageStep(s)
    PROVE  TypeOK' /\ Unstarted'
<1> USE SendAssumption
<1>1. blocks' \in [Sends -> 0 .. MaxBlocks] /\ Unstarted'
  <2>1. CASE FirstBlock(s)
    <3>1. blocks[s] = 0 /\ stage'[s] = "running"
      BY <2>1 DEF FirstBlock, Goto, Unstarted, TypeOK
    <3>2. blocks' = [blocks EXCEPT ![s] = 1]
      BY <2>1, <3>1 DEF FirstBlock, StartBlock, TypeOK
    <3> QED  BY <3>1, <3>2, StageMoves DEF Unstarted, TypeOK
  <2>2. CASE NextBlock(s)
    <3>1. blocks' = [blocks EXCEPT ![s] = @ + 1] /\ stage'[s] = "running"
      BY <2>2 DEF NextBlock, Goto, StartBlock, TypeOK
    <3>2. blocks[s] + 1 \in 0 .. MaxBlocks
      BY <2>2 DEF NextBlock, TypeOK
    <3> QED  BY <3>1, <3>2, StageMoves DEF Unstarted, TypeOK
  <2>3. CASE ~FirstBlock(s) /\ ~NextBlock(s)
    <3>1. blocks' = blocks
      BY <2>3 DEF StageStep, RegisterGater, Activate, RunOutOfBudget, StopTruncated,
                  BlockEnds, FailRow, Leave, CompleteRow
    <3>2. stage'[s] \in {"new", "gated", "active"} => stage[s] \in {"new", "gated", "active"}
      BY <2>3 DEF StageStep, RegisterGater, Activate, RunOutOfBudget, StopTruncated,
                  BlockEnds, FailRow, Leave, AfterLeaving, CompleteRow, Goto, TypeOK,
                  Leaving
    <3> QED  BY <3>1, <3>2, StageMoves DEF Unstarted, TypeOK
  <2> QED  BY <2>1, <2>2, <2>3
<1>2. /\ active' \in [Sessions -> Sends \cup {None}]
      /\ gaters' \in [Sessions -> Sends \cup {None}]
      /\ legacy' \in Sends \cup {None}
  BY DEF StageStep, RegisterGater, Activate, FirstBlock, StartBlock, RunOutOfBudget,
         NextBlock, StopTruncated, BlockEnds, FailRow, Leave, Unregister, CompleteRow,
         registry, TypeOK
<1>3. row' \in [Sends -> RowStatus]
  BY DEF StageStep, RegisterGater, Activate, FirstBlock, StartBlock, RunOutOfBudget,
         NextBlock, StopTruncated, BlockEnds, FailRow, Leave, CompleteRow, RowStatus,
         TypeOK
<1>4. cancel' \in [Sends -> BOOLEAN]
  BY DEF StageStep, RegisterGater, Activate, FirstBlock, StartBlock, RunOutOfBudget,
         NextBlock, StopTruncated, BlockEnds, FailRow, Leave, CompleteRow, TypeOK
<1>5. UNCHANGED <<asked, consents, crashes>>
  BY DEF StageStep, RegisterGater, Activate, FirstBlock, StartBlock, RunOutOfBudget,
         NextBlock, StopTruncated, BlockEnds, FailRow, Leave, CompleteRow, consent
<1> QED  BY <1>1, <1>2, <1>3, <1>4, <1>5, StageMoves DEF TypeOK

\* Consents leave the stages, the registries and the rows alone.
LEMMA ConsentTyped ==
    ASSUME TypeOK, NEW s \in Sends, ConsentStep(s)
    PROVE  /\ TypeOK'
           /\ UNCHANGED <<session, stage, blocks, cancel, registry, row, crashes>>
<1> USE SendAssumption
<1>1. UNCHANGED <<session, stage, blocks, cancel, registry, row, crashes>>
  BY DEF ConsentStep, AskConsent, ConsentReturns, ConsentExpires, Resolve
<1>2. asked' \in [Sends -> Consent]
  BY DEF Consent, ConsentStep, AskConsent, ConsentReturns, ConsentExpires, Resolve, TypeOK
<1>3. consents' \in [Sends -> 0 .. MaxConsents]
  <2>1. CASE AskConsent(s)
    BY <2>1 DEF AskConsent, TypeOK
  <2>2. CASE ~AskConsent(s)
    BY <2>2 DEF ConsentStep, ConsentReturns, ConsentExpires, Resolve, TypeOK
  <2> QED  BY <2>1, <2>2
<1> QED  BY <1>1, <1>2, <1>3 DEF registry, TypeOK

\* Type correctness, whatever storage does: a row only gets the statuses of
\* _VALID_RUN_STATUS, and no send runs more blocks than
\* auto_continue_max_blocks.
THEOREM TypeCorrect == Spec => []TypeOK
<1>1. Init => TypeOK /\ Unstarted
  BY SendAssumption DEF Init, TypeOK, Unstarted, Stage, RowStatus, Consent
<1>2. TypeOK /\ Unstarted /\ [Next]_vars => TypeOK' /\ Unstarted'
  <2> SUFFICES ASSUME TypeOK, Unstarted, [Next]_vars PROVE TypeOK' /\ Unstarted'
    OBVIOUS
  <2>1. ASSUME NEW s \in Sends, StageStep(s) PROVE TypeOK' /\ Unstarted'
    BY <2>1, StageTyped
  <2>2. ASSUME NEW s \in Sends, ConsentStep(s) PROVE TypeOK' /\ Unstarted'
    BY <2>2, ConsentTyped DEF Unstarted
  <2>3. ASSUME NEW x \in Sessions, CancelSession(x) PROVE TypeOK' /\ Unstarted'
    BY <2>3 DEF CancelSession, consent, TypeOK, Unstarted
  <2>4. ASSUME CrashAndRestart PROVE TypeOK' /\ Unstarted'
    BY <2>4, SendAssumption DEF CrashAndRestart, TypeOK, Unstarted, Stage, RowStatus,
       Consent
  <2>5. ASSUME UNCHANGED vars PROVE TypeOK' /\ Unstarted'
    BY <2>5 DEF vars, TypeOK, Unstarted
  <2> QED  BY <2>1, <2>2, <2>3, <2>4, <2>5, NextCases
<1> QED  BY <1>1, <1>2, PTL DEF Spec

-----------------------------------------------------------------------------
(* The registries *)

\* A step of a send other than RegisterGater, Activate and Leave touches no
\* entry, and the send goes on holding its entries if it held any.
LEMMA QuietStep ==
    ASSUME TypeOK, NEW s \in Sends, StageStep(s),
           ~RegisterGater(s), ~Activate(s), ~Leave(s)
    PROVE  /\ UNCHANGED <<session, registry>>
           /\ stage[s] \in Holding <=> stage'[s] \in Holding
BY DEF StageStep, FirstBlock, StartBlock, RunOutOfBudget, NextBlock, StopTruncated,
       BlockEnds, FailRow, CompleteRow, registry, Goto, TypeOK, Holding, Live, Leaving,
       Left

\* A send that leaves drops its session's entries; the other sends stay.
LEMMA LeavingSend ==
    ASSUME TypeOK, NEW s \in Sends, Leave(s)
    PROVE  /\ session' = session
           /\ \A t \in Sends : t # s => stage'[t] = stage[t]
           /\ active' = [active EXCEPT ![session[s]] = None]
           /\ gaters' = [gaters EXCEPT ![session[s]] = None]
           /\ legacy' \in {legacy, None}
           /\ (legacy = gaters[session[s]] => legacy' = None)
BY DEF Leave, Unregister, TypeOK

\* Every step of a send keeps the ownership of the entries.
LEMMA StageOwned ==
    ASSUME TypeOK, Owned, NEW s \in Sends, StageStep(s)
    PROVE  Owned'
<1> USE SendAssumption
<1>1. CASE RegisterGater(s)
  <2>1. stage' = [stage EXCEPT ![s] = "gated"] /\ "gated" \in Holding
    BY <1>1 DEF RegisterGater, Goto, Holding, Live
  <2> QED  BY <1>1, <2>1 DEF RegisterGater, Owned, TypeOK
<1>2. CASE Activate(s)
  <2>1. stage' = [stage EXCEPT ![s] = "active"] /\ "active" \in Holding
    BY <1>2 DEF Activate, Goto, Holding, Live
  <2> QED  BY <1>2, <2>1 DEF Activate, Owned, TypeOK
<1>3. CASE Leave(s)
  <2> USE LeavingSend
  <2>1. ASSUME NEW x \in Sessions, gaters'[x] # None
        PROVE  session'[gaters'[x]] = x /\ stage'[gaters'[x]] \in Holding
    <3>1. x # session[s] /\ gaters'[x] = gaters[x]
      BY <1>3, <2>1 DEF TypeOK
    <3>2. session[gaters[x]] = x /\ gaters[x] \in Sends /\ gaters[x] # s
      BY <2>1, <3>1 DEF Owned, TypeOK
    <3> QED  BY <1>3, <2>1, <3>1, <3>2 DEF Owned
  <2>2. ASSUME NEW x \in Sessions, active'[x] # None
        PROVE  session'[active'[x]] = x /\ stage'[active'[x]] \in Holding
    <3>1. x # session[s] /\ active'[x] = active[x]
      BY <1>3, <2>2 DEF TypeOK
    <3>2. session[active[x]] = x /\ active[x] \in Sends /\ active[x] # s
      BY <2>2, <3>1 DEF Owned, TypeOK
    <3> QED  BY <1>3, <2>2, <3>1, <3>2 DEF Owned
  <2>3. ASSUME legacy' # None PROVE gaters'[session'[legacy']] = legacy'
    <3>1. legacy' = legacy /\ gaters[session[legacy]] = legacy /\ legacy \in Sends
      BY <1>3, <2>3 DEF Owned, TypeOK
    <3>2. session[legacy] # session[s]
      BY <1>3, <2>3, <3>1
    <3> QED  BY <1>3, <3>1, <3>2 DEF TypeOK
  <2> QED  BY <2>1, <2>2, <2>3 DEF Owned
<1>4. CASE ~RegisterGater(s) /\ ~Activate(s) /\ ~Leave(s)
  <2>1. \A t \in Sends : stage[t] \in Holding => stage'[t] \in Holding
    BY <1>4, QuietStep, StageMoves DEF TypeOK
  <2> QED  BY <1>4, <2>1, QuietStep DEF Owned, registry, TypeOK
<1> QED  BY <1>1, <1>2, <1>3, <1>4

\* The entries stay owned throughout.
LEMMA OwnedAlways == Spec => []Owned
<1>1. Init => Owned
  BY DEF Init, Owned
<1>2. TypeOK /\ Owned /\ [Next]_vars => Owned'
  <2> SUFFICES ASSUME TypeOK, Owned, [Next]_vars PROVE Owned'
    OBVIOUS
  <2>1. ASSUME NEW s \in Sends, StageStep(s) PROVE Owned'
    BY <2>1, StageOwned
  <2>2. ASSUME NEW s \in Sends, ConsentStep(s) PROVE Owned'
    BY <2>2, ConsentTyped DEF registry, Owned
  <2>3. ASSUME NEW x \in Sessions, CancelSession(x) PROVE Owned'
    BY <2>3 DEF CancelSession, Owned, TypeOK
  <2>4. ASSUME CrashAndRestart PROVE Owned'
    BY <2>4 DEF CrashAndRestart, Owned
  <2>5. ASSUME UNCHANGED vars PROVE Owned'
    BY <2>5 DEF vars, Owned
  <2> QED  BY <2>1, <2>2, <2>3, <2>4, <2>5, NextCases
<1> QED  BY <1>1, <1>2, TypeCorrect, PTL DEF Spec

\* unregister_gater() and the pop of _ACTIVE_RUNS take whatever the session
\* holds, and still no registry ever names a send that left or never began,
\* for any number of overlapping sends.
THEOREM NoDeadEntryHolds == Spec => []NoDeadEntry
<1>1. TypeOK /\ Owned => NoDeadEntry
  <2> SUFFICES ASSUME TypeOK, Owned, NEW s \in Sends
               PROVE  /\ Reachable(s) => stage[s] \in Holding
                      /\ s \in {active[x] : x \in Sessions} => stage[s] \in Holding
    BY DEF NoDeadEntry, Holding
  <2>1. ASSUME NEW x \in Sessions, s = gaters[x] PROVE stage[s] \in Holding
    BY <2>1, SendAssumption DEF Owned
  <2>2. ASSUME s = legacy PROVE stage[s] \in Holding
    BY <2>1, <2>2, SendAssumption DEF Owned, TypeOK
  <2>3. ASSUME NEW x \in Sessions, s = active[x] PROVE stage[s] \in Holding
    BY <2>3, SendAssumption DEF Owned
  <2> QED  BY <2>1, <2>2, <2>3 DEF Reachable
<1> QED  BY <1>1, TypeCorrect, OwnedAlways, PTL

\* A send alone in its session keeps its own gater in the registry.
LEMMA StageAlone ==
    ASSUME TypeOK, AloneOwns, NEW s \in Sends, StageStep(s)
    PROVE  AloneOwns'
<1> SUFFICES ASSUME NEW t \in Sends, Alone(t)', stage'[t] \in Holding
             PROVE  gaters'[session'[t]] = t
  BY DEF AloneOwns
<1>1. session' = session /\ Alone(t) /\ session[t] \in Sessions
  BY StageMoves DEF Alone, TypeOK
<1>2. CASE RegisterGater(s)
  <2>1. gaters' = [gaters EXCEPT ![session[s]] = s]
    BY <1>2 DEF RegisterGater
  <2>2. CASE t = s
    BY <1>1, <2>1, <2>2 DEF TypeOK
  <2>3. CASE t # s
    BY <1>1, <2>1, <2>3, StageMoves DEF Alone, AloneOwns, TypeOK
  <2> QED  BY <2>2, <2>3
<1>3. CASE Activate(s)
  BY <1>1, <1>3 DEF Activate, Goto, Holding, Live, AloneOwns, TypeOK
<1>4. CASE Leave(s)
  <2>1. t # s
    BY <1>4 DEF Leave, AfterLeaving, Holding, Live, Leaving, TypeOK
  <2>2. stage'[t] = stage[t] /\ gaters' = [gaters EXCEPT ![session[s]] = None]
    BY <1>4, <2>1, LeavingSend
  <2> QED  BY <1>1, <2>1, <2>2 DEF Alone, AloneOwns, TypeOK
<1>5. CASE ~RegisterGater(s) /\ ~Activate(s) /\ ~Leave(s)
  <2>1. stage[t] \in Holding
    BY <1>5, QuietStep, StageMoves DEF TypeOK
  <2> QED  BY <1>1, <1>5, <2>1, QuietStep DEF AloneOwns, registry
<1> QED  BY <1>2, <1>3, <1>4, <1>5

\* register_gater() keeps what it was introduced for: the consents of a send
\* that shares its session with nobody can be answered, however many sends of
\* other sessions come and go.
THEOREM AloneIsReachableHolds == Spec => []AloneIsReachable
<1>1. Init => AloneOwns
  BY DEF Init, AloneOwns, Holding, Live, Leaving
<1>2. TypeOK /\ AloneOwns /\ [Next]_vars => AloneOwns'
  <2> SUFFICES ASSUME TypeOK, AloneOwns, [Next]_vars PROVE AloneOwns'
    OBVIOUS
  <2>1. ASSUME NEW s \in Sends, StageStep(s) PROVE AloneOwns'
    BY <2>1, StageAlone
  <2>2. ASSUME NEW s \in Sends, ConsentStep(s) PROVE AloneOwns'
    BY <2>2, ConsentTyped DEF registry, AloneOwns, Alone
  <2>3. ASSUME NEW x \in Sessions, CancelSession(x) PROVE AloneOwns'
    BY <2>3 DEF CancelSession, AloneOwns, Alone
  <2>4. ASSUME CrashAndRestart PROVE AloneOwns'
    BY <2>4 DEF CrashAndRestart, AloneOwns, Holding, Live, Leaving
  <2>5. ASSUME UNCHANGED vars PROVE AloneOwns'
    BY <2>5 DEF vars, AloneOwns, Alone
  <2> QED  BY <2>1, <2>2, <2>3, <2>4, <2>5, NextCases
<1>3. TypeOK /\ AloneOwns => AloneIsReachable
  BY DEF TypeOK, AloneOwns, AloneIsReachable, Reachable, Holding
<1> QED  BY <1>1, <1>2, <1>3, TypeCorrect, PTL DEF Spec

-----------------------------------------------------------------------------
(* The run rows *)

\* A step of a send writes to its own row only, and not once it is settled.
LEMMA StageRows ==
    ASSUME TypeOK, RowsFollow, NEW s \in Sends, StageStep(s)
    PROVE  /\ RowsFollow'
           /\ \A t \in Sends : row[t] \in Settled => row'[t] = row[t]
<1>1. /\ \A t \in Sends : t # s => row'[t] = row[t] /\ stage'[t] = stage[t]
  BY StageMoves DEF StageStep, RegisterGater, Activate, FirstBlock, StartBlock,
     RunOutOfBudget, NextBlock, StopTruncated, BlockEnds, FailRow, Leave, CompleteRow,
     TypeOK
<1>2. CASE Activate(s)
  <2>1. stage[s] = "gated" /\ row[s] = "none" /\ stage'[s] = "active"
    BY <1>2 DEF Activate, Goto, RowsFollow, TypeOK
  <2>2. row'[s] \in {"none", "running"}
    BY <1>2, <2>1 DEF Activate, TypeOK
  <2> QED  BY <1>1, <2>1, <2>2 DEF RowsFollow, Settled
<1>3. CASE FailRow(s)
  <2>1. stage[s] = "failing" /\ row[s] \notin Settled /\ stage'[s] = "failed"
    BY <1>3 DEF FailRow, Goto, RowsFollow, TypeOK
  <2> QED  BY <1>1, <2>1 DEF RowsFollow
<1>4. CASE CompleteRow(s)
  <2>1. stage[s] \in Left /\ row[s] \notin Settled /\ stage'[s] = "closed"
    BY <1>4 DEF CompleteRow, Left, RowsFollow, TypeOK
  <2> QED  BY <1>1, <2>1 DEF RowsFollow
<1>5. CASE ~Activate(s) /\ ~FailRow(s) /\ ~CompleteRow(s)
  <2>1. row' = row
    BY <1>5 DEF StageStep, RegisterGater, FirstBlock, StartBlock, RunOutOfBudget,
                NextBlock, StopTruncated, BlockEnds, Leave
  <2>2. /\ stage[s] \notin {"new", "gated"} => stage'[s] \notin {"new", "gated"}
        /\ stage[s] = "new" => row[s] = "none"
        /\ stage[s] \in {"failed", "closed"} => stage'[s] \in {"failed", "closed"}
    BY <1>5 DEF StageStep, RegisterGater, FirstBlock, RunOutOfBudget, NextBlock,
                StopTruncated, BlockEnds, Leave, AfterLeaving, Goto, RowsFollow,
                Leaving, TypeOK
  <2> QED  BY <1>1, <2>1, <2>2 DEF RowsFollow, Settled
<1> QED  BY <1>2, <1>3, <1>4, <1>5

\* No storage error, no crash with recover_orphans() and no overlap of sends
\* turns a settled run row into anything else.
THEOREM RowSettlesOnceHolds == Spec => RowSettlesOnce
<1> DEFINE Kept == \A s \in Sends : row[s] \in Settled => row'[s] = row[s]
<1>1. Init => RowsFollow
  BY DEF Init, RowsFollow, Settled
<1>2. TypeOK /\ RowsFollow /\ [Next]_vars => RowsFollow' /\ Kept
  <2> SUFFICES ASSUME TypeOK, RowsFollow, [Next]_vars PROVE RowsFollow' /\ Kept
    OBVIOUS
  <2>1. ASSUME NEW s \in Sends, StageStep(s) PROVE RowsFollow' /\ Kept
    BY <2>1, StageRows
  <2>2. ASSUME NEW s \in Sends, ConsentStep(s) PROVE RowsFollow' /\ Kept
    BY <2>2, ConsentTyped DEF RowsFollow
  <2>3. ASSUME NEW x \in Sessions, CancelSession(x) PROVE RowsFollow' /\ Kept
    BY <2>3 DEF CancelSession, RowsFollow
  <2>4. ASSUME CrashAndRestart PROVE RowsFollow' /\ Kept
    BY <2>4 DEF CrashAndRestart, RowsFollow, Settled, TypeOK, RowStatus
  <2>5. ASSUME UNCHANGED vars PROVE RowsFollow' /\ Kept
    BY <2>5 DEF vars, RowsFollow
  <2> QED  BY <2>1, <2>2, <2>3, <2>4, <2>5, NextCases
<1>3. TypeOK /\ RowsFollow /\ [Next]_vars
        => [\A s \in Sends : row[s] \in {"completed", "cancelled", "failed"}
              => row'[s] = row[s]]_vars
  BY <1>2 DEF Settled
<1> QED  BY <1>1, <1>2, <1>3, TypeCorrect, PTL DEF Spec, RowSettlesOnce

-----------------------------------------------------------------------------
(* Sends and their blocks *)

\* A consent is pending only while the block runs.
AskedInBlock == \A s \in Sends : asked[s] # "none" => stage[s] = "running"

\* A step of a send touches the block of no other.
LEMMA OtherBlocksStay ==
    ASSUME TypeOK, NEW s \in Sends, StageStep(s) \/ ConsentStep(s),
           NEW t \in Sends, t # s
    PROVE  UNCHANGED <<stage[t], cancel[t], asked[t]>>
BY DEF StageStep, RegisterGater, Activate, FirstBlock, StartBlock, RunOutOfBudget,
       NextBlock, StopTruncated, BlockEnds, FailRow, Leave, AfterLeaving, CompleteRow,
       ConsentStep, AskConsent, ConsentReturns, ConsentExpires, Resolve, Goto, consent,
       TypeOK

\* Every step keeps consents within blocks.
LEMMA AskedInBlockHolds == Spec => []AskedInBlock
<1>1. Init => AskedInBlock
  BY DEF Init, AskedInBlock
<1>2. TypeOK /\ AskedInBlock /\ [Next]_vars => AskedInBlock'
  <2> SUFFICES ASSUME TypeOK, AskedInBlock, [Next]_vars PROVE AskedInBlock'
    OBVIOUS
  <2>1. ASSUME NEW s \in Sends, StageStep(s) \/ ConsentStep(s) PROVE AskedInBlock'
    <3>1. asked'[s] # "none" => stage'[s] = "running"
      BY <2>1 DEF StageStep, RegisterGater, Activate, FirstBlock, StartBlock,
         RunOutOfBudget, NextBlock, StopTruncated, BlockEnds, FailRow, Leave,
         CompleteRow, ConsentStep, AskConsent, ConsentReturns, ConsentExpires, Resolve,
         Goto, consent, TypeOK, AskedInBlock, Leaving, Left
    <3> QED BY <2>1, <3>1, OtherBlocksStay DEF AskedInBlock
  <2>2. CASE (\E x \in Sessions : CancelSession(x)) \/ UNCHANGED vars
    BY <2>2 DEF CancelSession, vars, consent, AskedInBlock
  <2>3. CASE CrashAndRestart
    BY <2>3 DEF CrashAndRestart, AskedInBlock
  <2> QED BY <2>1, <2>2, <2>3, NextCases
<1> QED BY <1>1, <1>2, TypeCorrect, PTL DEF Spec

\* The stage steps of a send are steps of its block.
LEMMA StageIsBlockStep ==
    ASSUME TypeOK, TypeOK', AskedInBlock, NEW s \in Sends, StageStep(s)
    PROVE  TheBlock(s)!Next \/ UNCHANGED TheBlock(s)!vars
<1>1. /\ stage'[s] \in Stage /\ stage[s] \in Stage
      /\ asked' = asked
  BY DEF TypeOK, StageStep, RegisterGater, Activate, FirstBlock, StartBlock,
         RunOutOfBudget, NextBlock, StopTruncated, BlockEnds, FailRow, Leave,
         CompleteRow, consent
<1>2. CASE FirstBlock(s) \/ NextBlock(s)
  <2>1. /\ stage[s] \in {"active", "winding"} /\ stage'[s] = "running"
        /\ cancel'[s] = FALSE
    BY <1>2 DEF FirstBlock, NextBlock, StartBlock, Goto, TypeOK
  <2>2. BlockPhase(s) \in {"idle", "winding"} /\ BlockPhase(s)' = "running"
    BY <2>1 DEF BlockPhase
  <2>3. asked[s] = "none"
    BY <2>1 DEF AskedInBlock
  <2> QED BY <1>1, <2>1, <2>2, <2>3 DEF TheBlock!Next, TheBlock!Begin, TheBlock!Continue
<1>3. CASE ~FirstBlock(s) /\ ~NextBlock(s)
  <2>1. cancel' = cancel
    BY <1>3 DEF StageStep, RegisterGater, Activate, RunOutOfBudget, StopTruncated,
       BlockEnds, FailRow, Leave, CompleteRow
  <2>2. CASE RegisterGater(s) \/ Activate(s) \/ FailRow(s)
    <3>1. BlockPhase(s)' = BlockPhase(s)
      BY <2>2 DEF RegisterGater, Activate, FailRow, Goto, BlockPhase, TypeOK
    <3> QED BY <1>1, <2>1, <3>1 DEF TheBlock!vars
  <2>3. CASE RunOutOfBudget(s)
    <3>1. BlockPhase(s) = "running" /\ BlockPhase(s)' = "winding"
          /\ asked[s] = "none" /\ ~cancel[s]
      BY <2>3 DEF RunOutOfBudget, Goto, BlockPhase, TypeOK
    <3> QED BY <1>1, <2>1, <3>1 DEF TheBlock!Next, TheBlock!SpendBudget
  <2>4. CASE StopTruncated(s)
    <3>1. stage[s] = "winding" /\ BlockPhase(s) = "winding" /\ BlockPhase(s)' = "ended"
      BY <2>4 DEF StopTruncated, Goto, BlockPhase, TypeOK
    <3>2. asked[s] = "none"
      BY <3>1 DEF AskedInBlock
    <3> QED BY <1>1, <2>1, <3>1, <3>2 DEF TheBlock!Next, TheBlock!End
  <2>5. ASSUME NEW how \in {"final", "failing"}, BlockEnds(s, how)
        PROVE  TheBlock(s)!Next \/ UNCHANGED TheBlock(s)!vars
    <3>1. BlockPhase(s) = "running" /\ BlockPhase(s)' = "ended" /\ asked[s] = "none"
      BY <2>5 DEF BlockEnds, Goto, BlockPhase, TypeOK
    <3> QED BY <1>1, <2>1, <3>1 DEF TheBlock!Next, TheBlock!End
  <2>6. CASE BlockEnds(s, "cancelled")
    <3>1. BlockPhase(s) = "running" /\ BlockPhase(s)' = "cancelled"
          /\ asked[s] = "none" /\ cancel[s]
      BY <2>6 DEF BlockEnds, Goto, BlockPhase, TypeOK
    <3> QED BY <1>1, <2>1, <3>1 DEF TheBlock!Next, TheBlock!EndCancelled
  <2>7. CASE Leave(s) \/ CompleteRow(s)
    <3>1. stage'[s] # stage[s]
          /\ \/ BlockPhase(s)' = BlockPhase(s)
             \/ BlockPhase(s) \in {"ended", "cancelled"} /\ BlockPhase(s)' = "gone"
      BY <2>7 DEF Leave, CompleteRow, AfterLeaving, BlockPhase, Leaving, Left, TypeOK
    <3> QED BY <1>1, <2>1, <3>1 DEF TheBlock!Next, TheBlock!Settle, TheBlock!vars
  <2> QED BY <1>3, <2>2, <2>3, <2>4, <2>5, <2>6, <2>7 DEF StageStep
<1> QED BY <1>2, <1>3

\* So are its consents.
LEMMA ConsentIsBlockStep ==
    ASSUME TypeOK, AskedInBlock, NEW s \in Sends, ConsentStep(s)
    PROVE  TheBlock(s)!Next \/ UNCHANGED TheBlock(s)!vars
<1>1. BlockPhase(s)' = BlockPhase(s) /\ cancel' = cancel
  BY ConsentTyped DEF BlockPhase
<1>2. CASE AskConsent(s)
  <2>1. BlockPhase(s) = "running" /\ asked[s] = "none" /\ asked'[s] # "none"
    BY <1>2 DEF AskConsent, BlockPhase, TypeOK
  <2> QED BY <1>1, <2>1 DEF TheBlock!Next, TheBlock!Ask
<1>3. CASE ConsentReturns(s) \/ ConsentExpires(s)
  <2>1. asked[s] # "none" /\ asked'[s] = "none"
    BY <1>3 DEF ConsentReturns, ConsentExpires, TypeOK
  <2> QED BY <1>1, <2>1 DEF TheBlock!Next, TheBlock!Answered
<1>4. CASE Resolve(s)
  <2>1. asked[s] # "none" /\ asked'[s] # "none"
    BY <1>4 DEF Resolve, TypeOK
  <2> QED BY <1>1, <2>1 DEF TheBlock!vars
<1> QED BY <1>2, <1>3, <1>4 DEF ConsentStep

\* Every send makes of its blocks what a block allows, crashes included.
THEOREM SendsImplementBlock == Spec => BlocksAreBlocks
<1> DEFINE Steps == \A s \in Sends : TheBlock(s)!Next \/ UNCHANGED TheBlock(s)!vars
<1>1. Init => \A s \in Sends : TheBlock(s)!Init
  BY DEF Init, TheBlock!Init, BlockPhase
<1>2. TypeOK /\ TypeOK' /\ AskedInBlock /\ [Next]_vars => Steps
  <2> SUFFICES ASSUME TypeOK, TypeOK', AskedInBlock, [Next]_vars, NEW s \in Sends
               PROVE  TheBlock(s)!Next \/ UNCHANGED TheBlock(s)!vars
    OBVIOUS
  <2>1. ASSUME NEW t \in Sends, StageStep(t) \/ ConsentStep(t)
        PROVE  TheBlock(s)!Next \/ UNCHANGED TheBlock(s)!vars
    <3>1. CASE t = s
      BY <2>1, <3>1, StageIsBlockStep, ConsentIsBlockStep
    <3>2. CASE t # s
      <4>1. UNCHANGED <<stage[s], cancel[s], asked[s]>>
        BY <2>1, <3>2, OtherBlocksStay
      <4> QED BY <4>1 DEF TheBlock!vars, BlockPhase
    <3> QED BY <3>1, <3>2
  <2>2. ASSUME NEW x \in Sessions, CancelSession(x)
        PROVE  TheBlock(s)!Next \/ UNCHANGED TheBlock(s)!vars
    <3>1. BlockPhase(s)' = BlockPhase(s) /\ asked' = asked
      BY <2>2 DEF CancelSession, BlockPhase, consent
    <3>2. cancel'[s] = cancel[s] \/ cancel'[s] = TRUE
      BY <2>2 DEF CancelSession, TypeOK
    <3> QED BY <3>1, <3>2 DEF TheBlock!Next, TheBlock!Cancel, TheBlock!vars
  <2>3. CASE CrashAndRestart
    <3>1. cancel'[s] = FALSE /\ asked'[s] = "none"
      BY <2>3 DEF CrashAndRestart
    <3>2. stage'[s] = IF stage[s] = "new" THEN "new" ELSE "closed"
      BY <2>3 DEF CrashAndRestart
    <3>3. \/ BlockPhase(s) = "idle" /\ BlockPhase(s)' = "idle"
          \/ BlockPhase(s)' = "gone"
      BY <3>2 DEF BlockPhase
    <3> QED BY <3>1, <3>3 DEF TheBlock!Next, TheBlock!Die
  <2>4. CASE UNCHANGED vars
    BY <2>4 DEF vars, BlockPhase, TheBlock!vars
  <2> QED BY <2>1, <2>2, <2>3, <2>4, NextCases
<1>3. TypeOK /\ TypeOK' /\ AskedInBlock /\ [Next]_vars =>
        \A s \in Sends : [TheBlock(s)!Next]_(TheBlock(s)!vars)
  BY <1>2
<1>4. Spec => [][\A s \in Sends : [TheBlock(s)!Next]_(TheBlock(s)!vars)]_vars
  BY <1>3, TypeCorrect, AskedInBlockHolds, PTL DEF Spec
<1> QED BY <1>1, <1>4, PTL DEF Spec, BlocksAreBlocks
=============================================================================
