----------------------------- MODULE TeamRunProofs -----------------------------
(***************************************************************************)
(* Proofs about TeamRun and the sandboxes under it.                        *)
(*                                                                         *)
(* Whatever a step of a team run does to the disk is a SandboxStep, so     *)
(* what holds of the disk is proved once for all of them.  That a merge    *)
(* takes nothing out of the workspace rests on Baselines: a baseline holds *)
(* no contribution that the copy made from it has not kept, dropped or     *)
(* lost to a write that broke off.                                         *)
(* WorkKept is then inductive, and SuccessorSeesWork needs in addition who *)
(* may have written and who has been collected when (Ordered).             *)
(***************************************************************************)
EXTENDS TeamRun, TLAPS

FaultOnly ==
    Fault(1) /\ UNCHANGED <<diskVars, report, seen, userSteps, wrote, dropped, lost, late, again>>

FileStep(i, f) ==
    \/ ReadFile(i, f)
    \/ \E checked \in BOOLEAN : WriteFile(i, f, checked)
    \/ EditFile(i, f)
    \/ AppendFile(i, f)

Policies == {"fail", "skip", "overwrite"}

CollectStep(i) ==
    \E policy \in Policies : Collect(i, policy) \/ (Fault(1) /\ CutCollect(i, policy))

SandboxStep ==
    \/ UNCHANGED sandboxVars
    \/ FaultOnly
    \/ \E i \in Runs : MakeTree(i) \/ Forget(i) \/ CollectStep(i)
    \/ \E i \in Runs, f \in Files : FileStep(i, f)
    \/ \E f \in Files : UserEdits(f) \/ UserDeletes(f)

\* Every step of a team run is a step of the sandboxes.
LEMMA StepsAreSandboxSteps == [Next]_vars => SandboxStep
<1> SUFFICES ASSUME [Next]_vars PROVE SandboxStep
  OBVIOUS
<1>1. CASE Begin \/ Advance \/ Finish \/ RunRaises \/ Recover
  BY <1>1 DEF Begin, Advance, Finish, RunRaises, Recover, SandboxStep, FaultOnly, diskVars
<1>2. CASE Outside
  BY <1>2 DEF Outside, SandboxStep
<1>3. CASE Crash
  <2>1. FaultOnly \/ \E i \in Runs : Fault(1) /\ CutCollect(i, "skip")
    BY <1>3 DEF Crash, FaultOnly
  <2> QED  BY <2>1 DEF SandboxStep, CollectStep, Policies
<1>4. ASSUME NEW i \in Runs, StartMember(i) PROVE SandboxStep
  BY <1>4 DEF StartMember, SandboxStep, FaultOnly
<1>5. ASSUME NEW i \in Runs, Work(i) PROVE SandboxStep
  BY <1>5 DEF Work, SandboxStep, FileStep
<1>6. ASSUME NEW i \in Runs, EndMember(i) PROVE SandboxStep
  BY <1>6 DEF EndMember, SandboxStep
<1>7. ASSUME NEW i \in Runs, CollectOne(i) \/ CollectByHand(i) PROVE SandboxStep
  BY <1>7 DEF CollectOne, CollectByHand, SandboxStep, CollectStep, Policies
<1>8. CASE UNCHANGED vars
  BY <1>8 DEF vars, SandboxStep
<1> QED  BY <1>1, <1>2, <1>3, <1>4, <1>5, <1>6, <1>7, <1>8 DEF Next

-----------------------------------------------------------------------------
(* Types *)

Trees == [Runs -> [Files -> Content]]

\* Writing one file of one tree keeps the type of the trees.
LEMMA TreesUpdated ==
    ASSUME NEW g \in Trees, NEW i \in Runs, NEW f \in Files, NEW c \in Content
    PROVE  [g EXCEPT ![i][f] = c] \in Trees
<1>1. [g[i] EXCEPT ![f] = c] \in [Files -> Content]
  BY DEF Trees
<1> QED  BY <1>1 DEF Trees

\* The trees are functions of runs and files.
LEMMA TreesTyped == SandboxTypeOK => base \in Trees /\ mirror \in Trees /\ seen \in Trees
BY DEF SandboxTypeOK, Trees

\* A snapshot takes the workspace's file or a piece of it as the baseline.
Snapshots(i, f) ==
    \/ base' = base /\ late' = late
    \/ /\ \/ base' = [base EXCEPT ![i][f] = ws[f]]
          \/ base' = [base EXCEPT ![i][f] = Piece] /\ Piece \subseteq Pieces
       /\ late' = IF base' # base /\ mirror[i][f] # Absent THEN late \cup {<<i, f>>} ELSE late

\* A tool leaves the file as it is, writes it whole, or leaves a piece of it.
Writes(i, f) ==
    \/ /\ mirror' = mirror /\ UNCHANGED <<wrote, seen, dropped, lost>>
    \/ /\ mirror' = [mirror EXCEPT ![i][f] = seen[i][f] \cup {i}]
       /\ wrote' = wrote \cup {<<i, f>>} /\ lost' = lost
       /\ seen' = [seen EXCEPT ![i][f] = @ \cup {i}]
       /\ dropped' = [dropped EXCEPT ![f] = @ \cup (View(i, f) \ seen[i][f])]
    \/ /\ mirror' = [mirror EXCEPT ![i][f] = View(i, f) \cup {i}]
       /\ wrote' = wrote \cup {<<i, f>>} /\ UNCHANGED <<seen, dropped, lost>>
    \/ /\ \E part \in {{}, Piece} : mirror' = [mirror EXCEPT ![i][f] = View(i, f) \cup part]
       /\ UNCHANGED <<wrote, seen, dropped, lost>>
    \/ /\ mirror' = [mirror EXCEPT ![i][f] = Piece]
       /\ lost' = [lost EXCEPT ![f] = @ \cup View(i, f)]
       /\ UNCHANGED <<wrote, seen, dropped>>

\* The piece of a fault is a piece.
LEMMA PieceIsPiece ==
    ASSUME SandboxTypeOK, NEW n \in Nat \ {0}, Fault(n)
    PROVE  Piece \subseteq Pieces
BY SandboxAssumption DEF SandboxTypeOK, Fault, Piece, Pieces

\* Taking a baseline.
LEMMA SnapshotTakes ==
    ASSUME SandboxTypeOK, NEW i \in Runs, NEW f \in Files, NEW copy \in Copies,
           NEW broken \in BOOLEAN, Fault(Cost(copy # "done") + Cost(broken)),
           Snapshot(i, f, copy)
    PROVE  Snapshots(i, f)
<1>1. CASE base[i][f] # Absent \/ copy = "failed"
  BY <1>1 DEF Snapshot, Snapshots
<1>2. CASE base[i][f] = Absent /\ copy = "broken"
  <2>1. Cost(copy # "done") + Cost(broken) \in Nat \ {0}
    BY <1>2 DEF Cost
  <2>2. Piece \subseteq Pieces
    BY <2>1, PieceIsPiece
  <2> QED  BY <1>2, <2>2 DEF Snapshot, Snapshots
<1>3. CASE base[i][f] = Absent /\ copy = "done"
  BY <1>3 DEF Snapshot, Snapshots
<1> QED  BY <1>1, <1>2, <1>3 DEF Copies

\* What the file tools do, but for reading.
LEMMA ToolEffects ==
    ASSUME SandboxTypeOK, NEW i \in Runs, NEW f \in Files,
           \/ \E checked \in BOOLEAN : WriteFile(i, f, checked)
           \/ EditFile(i, f)
           \/ AppendFile(i, f)
    PROVE  /\ Snapshots(i, f) /\ Writes(i, f)
           /\ faults' \in 0 .. MaxFaults
           /\ UNCHANGED <<ws, trees, receipts, report, userSteps, again>>
<1>1. ASSUME NEW copy \in Copies, NEW broken \in BOOLEAN,
             Fault(Cost(copy # "done") + Cost(broken)), Snapshot(i, f, copy)
      PROVE  Snapshots(i, f) /\ faults' \in 0 .. MaxFaults
  <2>1. Snapshots(i, f)
    BY <1>1, SnapshotTakes
  <2>2. Cost(copy # "done") + Cost(broken) \in Nat
    BY DEF Cost
  <2>3. faults' \in 0 .. MaxFaults
    BY <1>1, <2>2, SandboxAssumption DEF SandboxTypeOK, Fault
  <2> QED  BY <2>1, <2>3
<1>2. ASSUME NEW checked \in BOOLEAN, WriteFile(i, f, checked)
      PROVE  /\ Snapshots(i, f) /\ Writes(i, f) /\ faults' \in 0 .. MaxFaults
             /\ UNCHANGED <<ws, trees, receipts, report, userSteps, again>>
  <2>1. Snapshots(i, f) /\ faults' \in 0 .. MaxFaults
    BY <1>1, <1>2 DEF WriteFile
  <2>2. Writes(i, f)
    BY <1>2 DEF WriteFile, Writes, Put, BreakOff
  <2> QED  BY <1>2, <2>1, <2>2 DEF WriteFile
<1>3. CASE EditFile(i, f)
  <2>1. Snapshots(i, f) /\ faults' \in 0 .. MaxFaults
    BY <1>1, <1>3 DEF EditFile
  <2>2. Writes(i, f)
    BY <1>3 DEF EditFile, Writes, Put, BreakOff
  <2> QED  BY <1>3, <2>1, <2>2 DEF EditFile
<1>4. CASE AppendFile(i, f)
  <2>1. Snapshots(i, f) /\ faults' \in 0 .. MaxFaults
    BY <1>1, <1>4 DEF AppendFile
  <2>2. Writes(i, f)
    BY <1>4 DEF AppendFile, Writes, Put, Stage, BreakOff
  <2> QED  BY <1>4, <2>1, <2>2 DEF AppendFile
<1> QED  BY <1>2, <1>3, <1>4

\* ... and reading.
LEMMA FileStepEffects ==
    ASSUME SandboxTypeOK, NEW i \in Runs, NEW f \in Files, FileStep(i, f)
    PROVE  \/ ReadFile(i, f)
           \/ /\ Snapshots(i, f) /\ Writes(i, f)
              /\ faults' \in 0 .. MaxFaults
              /\ UNCHANGED <<ws, trees, receipts, report, userSteps, again>>
BY ToolEffects DEF FileStep

\* A run is a contribution, and no piece; a piece is a content.
LEMMA RunIsContent == \A i \in Runs : i \in 0 .. NRuns + MaxUserSteps + MaxFaults /\ i \notin Pieces
BY SandboxAssumption DEF Runs, Pieces

LEMMA PieceTyped == faults' \in 0 .. MaxFaults => Piece \in Content
<1> SUFFICES ASSUME NEW n \in 0 .. MaxFaults, faults' = n PROVE Piece \in Content
  OBVIOUS
<1>1. NRuns + MaxUserSteps + n \in 0 .. NRuns + MaxUserSteps + MaxFaults
  BY SandboxAssumption
<1>2. Piece = {NRuns + MaxUserSteps + n}
  BY DEF Piece
<1> QED  BY <1>1, <1>2 DEF Content

\* What a run sees of a file is a content.
LEMMA ViewTyped ==
    ASSUME SandboxTypeOK, NEW i \in Runs, NEW f \in Files
    PROVE  View(i, f) \in Content
BY DEF SandboxTypeOK, View

\* The file tools keep the types.
LEMMA FileStepTyped ==
    ASSUME SandboxTypeOK, NEW i \in Runs, NEW f \in Files, FileStep(i, f)
    PROVE  SandboxTypeOK'
<1>0. View(i, f) \in Content /\ {i} \in Content
  BY ViewTyped, RunIsContent DEF Content
<1>1. CASE ReadFile(i, f)
  BY <1>0, <1>1 DEF SandboxTypeOK, ReadFile, diskVars
<1>2. CASE /\ Snapshots(i, f) /\ Writes(i, f)
           /\ faults' \in 0 .. MaxFaults
           /\ UNCHANGED <<ws, trees, receipts, report, userSteps, again>>
  <2>0. Piece \in Content /\ ws[f] \in Content /\ seen[i][f] \in Content
    BY <1>2, PieceTyped DEF SandboxTypeOK
  <2>1. base' \in Trees
    <3>1. \/ base' = base \/ base' = [base EXCEPT ![i][f] = ws[f]]
          \/ base' = [base EXCEPT ![i][f] = Piece]
      BY <1>2 DEF Snapshots
    <3> QED  BY <2>0, <3>1, TreesUpdated, TreesTyped
  <2>2. late' \in SUBSET (Runs \X Files)
    BY <1>2 DEF Snapshots, SandboxTypeOK
  <2>3. mirror' \in Trees
    <3>1. /\ seen[i][f] \cup {i} \in Content /\ View(i, f) \cup {i} \in Content
          /\ View(i, f) \cup Piece \in Content /\ View(i, f) \cup {} \in Content
      BY <1>0, <2>0 DEF Content
    <3>2. mirror' = mirror \/ \E c \in Content : mirror' = [mirror EXCEPT ![i][f] = c]
      BY <1>2, <2>0, <3>1 DEF Writes
    <3> QED  BY <3>2, TreesUpdated, TreesTyped
  <2>4. seen' \in Trees
    <3>1. seen[i][f] \cup {i} \in Content
      BY <1>0, <2>0 DEF Content
    <3>2. seen' = seen \/ seen' = [seen EXCEPT ![i][f] = seen[i][f] \cup {i}]
      BY <1>2 DEF Writes
    <3>3. [seen EXCEPT ![i][f] = seen[i][f] \cup {i}] \in Trees
      BY <3>1, TreesUpdated, TreesTyped
    <3> QED  BY <3>2, <3>3, TreesTyped
  <2>5. wrote' \in SUBSET (Runs \X Files)
    BY <1>2 DEF SandboxTypeOK, Writes
  <2>6. dropped' \in [Files -> Content]
    <3>1. dropped[f] \cup (View(i, f) \ seen[i][f]) \in Content
      BY <1>0 DEF SandboxTypeOK, Content
    <3> QED  BY <1>2, <3>1 DEF SandboxTypeOK, Writes
  <2>7. lost' \in [Files -> Content]
    <3>1. lost[f] \cup View(i, f) \in Content
      BY <1>0 DEF SandboxTypeOK, Content
    <3> QED  BY <1>2, <3>1 DEF SandboxTypeOK, Writes
  <2> QED
    BY <1>2, <2>1, <2>2, <2>3, <2>4, <2>5, <2>6, <2>7 DEF SandboxTypeOK, Trees
<1> QED  BY <1>1, <1>2, FileStepEffects

\* Merging and pruning keep the types.
LEMMA MergeTyped ==
    ASSUME SandboxTypeOK, NEW i \in Runs, NEW fate, NEW policy, Merge(i, fate, policy),
           faults' \in 0 .. MaxFaults
    PROVE  /\ ws' \in [Files -> Content] /\ dropped' \in [Files -> Content]
           /\ lost' \in [Files -> Content]
<1>1. ws' \in [Files -> Content]
  BY PieceTyped DEF SandboxTypeOK, Merge
<1>2. \A f \in Files : dropped[f] \cup (ws[f] \ mirror[i][f]) \in Content
  BY DEF SandboxTypeOK, Content
<1>3. dropped' \in [Files -> Content]
  BY <1>2 DEF SandboxTypeOK, Merge
<1>4. \A f \in Files : lost[f] \cup (ws[f] \ ws'[f]) \in Content
  BY DEF SandboxTypeOK, Content
<1>5. lost' \in [Files -> Content]
  BY <1>4 DEF SandboxTypeOK, Merge
<1> QED  BY <1>1, <1>3, <1>5

\* No files at all are files.
LEMMA EmptyTyped == [f \in Files |-> Absent] \in [Files -> Content]
BY DEF Absent, Content

\* A deleted tree is a tree without files.
LEMMA PruneTyped ==
    ASSUME SandboxTypeOK, NEW i \in Runs, PruneTree(i)
    PROVE  trees' \subseteq Runs /\ mirror' \in Trees /\ base' \in Trees
BY EmptyTyped DEF SandboxTypeOK, PruneTree, Trees

\* Faults stay within their bound.
LEMMA FaultTyped ==
    ASSUME SandboxTypeOK, NEW n \in Nat, Fault(n) PROVE faults' \in 0 .. MaxFaults
BY SandboxAssumption DEF SandboxTypeOK, Fault

\* A first collection, with what its files meet.
Errors(i, fate) == {f \in Held(i) : fate[f] \in {"failed", "broken"}}
Clashes(i, policy, fate) ==
    {f \in Held(i) \ Errors(i, fate) : Conflict(i, f, fate[f]) /\ policy # "overwrite"}

FirstCollected(i, policy, fate, receipt, deletable) ==
    LET refused == policy = "fail" /\ Clashes(i, policy, fate) # {} IN
    /\ Fault(Cost(\E f \in Held(i) : fate[f] # "fine") + Cost(receipt # "done") + Cost(~deletable))
    /\ Merge(i, fate, policy)
    /\ report' = [report EXCEPT ![i] = Errors(i, fate) \cup Clashes(i, policy, fate)]
    /\ receipts' = IF refused \/ receipt = "failed" THEN receipts ELSE receipts \cup {i}
    /\ IF /\ receipt = "done" /\ ~refused /\ deletable
          /\ Errors(i, fate) \cup Clashes(i, policy, fate) = {}
       THEN PruneTree(i) ELSE UNCHANGED <<trees, mirror, base>>

\* Collections keep the types of the disk.
LEMMA CollectTyped ==
    ASSUME SandboxTypeOK, NEW i \in Runs, NEW policy, Collect(i, policy)
    PROVE  SandboxTypeOK'
<1>1. CASE CollectAgain(i)
  BY <1>1, PruneTyped DEF SandboxTypeOK, CollectAgain, Trees
<1>2. CASE CollectFirst(i, policy)
  <2> PICK fate \in Meets(i, Held(i), policy), receipt \in Copies, deletable \in BOOLEAN :
        FirstCollected(i, policy, fate, receipt, deletable)
    BY <1>2 DEF CollectFirst, FirstCollected, Errors, Clashes
  <2>1. faults' \in 0 .. MaxFaults
    <3> DEFINE n == Cost(\E f \in Held(i) : fate[f] # "fine") + Cost(receipt # "done")
                    + Cost(~deletable)
    <3>1. n \in Nat
      BY DEF Cost
    <3>2. Fault(n)
      BY DEF FirstCollected
    <3> QED  BY <3>1, <3>2, FaultTyped
  <2>2. /\ ws' \in [Files -> Content] /\ dropped' \in [Files -> Content]
        /\ lost' \in [Files -> Content]
    BY <2>1, MergeTyped DEF FirstCollected
  <2>3. report' \in [Runs -> SUBSET Files]
    BY DEF SandboxTypeOK, Held, FirstCollected, Errors, Clashes
  <2>4. receipts' \subseteq Runs
    BY DEF SandboxTypeOK, FirstCollected
  <2>5. trees' \subseteq Runs /\ mirror' \in Trees /\ base' \in Trees
    <3>1. PruneTree(i) \/ UNCHANGED <<trees, mirror, base>>
      BY DEF FirstCollected
    <3> QED  BY <3>1, PruneTyped DEF SandboxTypeOK, Trees
  <2> QED
    BY <1>2, <2>1, <2>2, <2>3, <2>4, <2>5 DEF SandboxTypeOK, CollectFirst, Trees
<1> QED  BY <1>1, <1>2 DEF Collect

\* So do the edits of the user.
LEMMA UserStepTyped ==
    ASSUME SandboxTypeOK, NEW f \in Files, UserEdits(f) \/ UserDeletes(f)
    PROVE  SandboxTypeOK'
<1> USE SandboxAssumption
<1>1. userSteps' \in 0 .. MaxUserSteps
  BY DEF SandboxTypeOK, UserEdits, UserDeletes
<1>2. ws' \in [Files -> Content]
  <2>1. CASE UserEdits(f)
    <3>1. UserStep(userSteps + 1) \in 0 .. NRuns + MaxUserSteps
      BY <2>1 DEF UserEdits, UserStep, SandboxTypeOK
    <3>2. ws[f] \cup {UserStep(userSteps + 1)} \in Content
      BY <3>1 DEF SandboxTypeOK, Content
    <3> QED  BY <2>1, <3>2 DEF SandboxTypeOK, UserEdits
  <2>2. CASE UserDeletes(f)
    BY <2>2 DEF SandboxTypeOK, UserDeletes, Absent, Content
  <2> QED  BY <2>1, <2>2
<1>3. dropped' \in [Files -> Content]
  <2>1. dropped[f] \cup ws[f] \in Content
    BY DEF SandboxTypeOK, Content
  <2>2. dropped' = dropped \/ dropped' = [dropped EXCEPT ![f] = dropped[f] \cup ws[f]]
    BY DEF UserEdits, UserDeletes
  <2> QED  BY <2>1, <2>2 DEF SandboxTypeOK
<1> QED  BY <1>1, <1>2, <1>3 DEF SandboxTypeOK, UserEdits, UserDeletes

\* Every step of the sandboxes keeps the types.
LEMMA SandboxTyped == SandboxTypeOK /\ SandboxStep => SandboxTypeOK'
<1> SUFFICES ASSUME SandboxTypeOK, SandboxStep PROVE SandboxTypeOK'
  OBVIOUS
<1>1. CASE UNCHANGED sandboxVars
  BY <1>1 DEF SandboxTypeOK, sandboxVars, diskVars
<1>2. CASE FaultOnly
  BY <1>2, FaultTyped DEF SandboxTypeOK, FaultOnly, diskVars
<1>3. ASSUME NEW i \in Runs, MakeTree(i) PROVE SandboxTypeOK'
  BY <1>3 DEF SandboxTypeOK, MakeTree
<1>4. ASSUME NEW i \in Runs, Forget(i) PROVE SandboxTypeOK'
  BY <1>4, EmptyTyped DEF SandboxTypeOK, Forget, diskVars
<1>5. ASSUME NEW i \in Runs, CollectStep(i) PROVE SandboxTypeOK'
  <2> PICK policy \in Policies : Collect(i, policy) \/ (Fault(1) /\ CutCollect(i, policy))
    BY <1>5 DEF CollectStep
  <2>1. CASE Fault(1) /\ CutCollect(i, policy)
    BY <2>1, FaultTyped, MergeTyped DEF SandboxTypeOK, CutCollect
  <2> QED  BY <2>1, CollectTyped
<1>6. ASSUME NEW i \in Runs, NEW f \in Files, FileStep(i, f) PROVE SandboxTypeOK'
  BY <1>6, FileStepTyped
<1>7. ASSUME NEW f \in Files, UserEdits(f) \/ UserDeletes(f) PROVE SandboxTypeOK'
  BY <1>7, UserStepTyped
<1> QED  BY <1>1, <1>2, <1>3, <1>4, <1>5, <1>6, <1>7 DEF SandboxStep

\* The orchestrator's own variables keep their types.
LEMMA TeamTyped == TypeOK /\ [Next]_vars => TypeOK'
<1> SUFFICES ASSUME TypeOK, [Next]_vars PROVE TypeOK'
  OBVIOUS
<1>0. SandboxTypeOK'
  BY StepsAreSandboxSteps, SandboxTyped DEF TypeOK
<1>1. CASE Begin \/ Advance \/ Finish \/ RunRaises \/ Recover \/ Outside \/ Crash \/ UNCHANGED vars
  BY <1>0, <1>1 DEF TypeOK, Begin, Advance, Finish, RunRaises, Recover, Outside, Crash, vars,
                    teamVars
<1>2. ASSUME NEW i \in Runs, StartMember(i) \/ EndMember(i) \/ CollectOne(i) PROVE TypeOK'
  BY <1>0, <1>2 DEF TypeOK, StartMember, EndMember, CollectOne
<1>3. ASSUME NEW i \in Runs, Work(i) \/ CollectByHand(i) PROVE TypeOK'
  BY <1>0, <1>3, TeamAssumption DEF TypeOK, Work, CollectByHand, teamVars
<1> QED  BY <1>1, <1>2, <1>3 DEF Next

\* Team runs start with their types.
LEMMA InitTyped == Init => TypeOK
<1> SUFFICES ASSUME Init PROVE TypeOK
  OBVIOUS
<1>1. ws \in [Files -> Content]
  BY SandboxAssumption DEF Init, SandboxInit, Content, Absent
<1>2. SandboxTypeOK
  BY <1>1, EmptyTyped, SandboxAssumption DEF Init, SandboxInit, SandboxTypeOK, Absent
<1>3. member \in [Runs -> {"waiting", "running", "ended", "refused"}]
  BY DEF Init
<1>4. processed \subseteq Runs /\ work \in 0 .. MaxWork
  BY TeamAssumption DEF Init
<1>5. mode \in Modes /\ limit \in Limits \cup {0} /\ unwritten \in BOOLEAN /\ raised \in BOOLEAN
  BY DEF Init
<1>6. /\ phase \in {"start", "members", "review", "closing", "done", "down"}
      /\ row \in {"none", "running", "completed", "failed"}
  BY DEF Init
<1> QED  BY <1>2, <1>3, <1>4, <1>5, <1>6 DEF TypeOK

\* Every variable of a team run and of its sandboxes keeps its type.
THEOREM TypeCorrect == Spec => []TypeOK
BY InitTyped, TeamTyped, PTL DEF Spec

-----------------------------------------------------------------------------
(* Nothing is taken out of the workspace *)

\* A baseline holds nothing but a piece that the run does not see, or that was
\* not dropped or lost.
BaselineOf(i, f) ==
    Late(f) \/ base[i][f] \subseteq View(i, f) \cup dropped[f] \cup lost[f] \cup Pieces

Baselines == \A i \in Runs, f \in Files : BaselineOf(i, f)

Grows(f) ==
    /\ dropped[f] \subseteq dropped'[f] /\ lost[f] \subseteq lost'[f]
    /\ Late(f) \/ ws[f] \ Pieces \subseteq ws'[f] \cup dropped'[f] \cup lost'[f]

\* A merge drops nothing silently.
LEMMA MergeGrows ==
    ASSUME SandboxTypeOK, Baselines, NEW i \in Runs, NEW fs \in SUBSET Held(i),
           NEW policy, NEW fate \in Meets(i, fs, policy), Merge(i, fate, policy),
           NEW f \in Files
    PROVE  Grows(f)
<1> DEFINE copied == {g \in DOMAIN fate : Copied(i, g, fate[g], policy)}
<1>0. DOMAIN fate = fs /\ \A g \in fs : fate[g] \in Fates
  BY DEF Meets
<1>1. /\ ws'[f] = IF f \notin copied THEN ws[f]
                  ELSE IF fate[f] = "broken" THEN Piece ELSE mirror[i][f]
      /\ dropped'[f] = IF f \in copied /\ Conflict(i, f, fate[f])
                       THEN dropped[f] \cup (ws[f] \ mirror[i][f]) ELSE dropped[f]
      /\ lost'[f] = IF f \in copied /\ fate[f] \in {"unread", "broken"}
                    THEN lost[f] \cup (ws[f] \ ws'[f]) ELSE lost[f]
  BY DEF Merge
<1>2. CASE f \notin copied
  BY <1>1, <1>2 DEF Grows
<1>3. CASE f \in copied /\ fate[f] \in {"unread", "broken"}
  <2>1. lost'[f] = lost[f] \cup (ws[f] \ ws'[f]) /\ dropped[f] \subseteq dropped'[f]
    BY <1>1, <1>3
  <2> QED  BY <2>1 DEF Grows
<1>4. CASE f \in copied /\ fate[f] \notin {"unread", "broken"} /\ Conflict(i, f, fate[f])
  BY <1>1, <1>4 DEF Grows
<1>5. CASE f \in copied /\ fate[f] \notin {"unread", "broken"} /\ ~Conflict(i, f, fate[f])
  <2>1. View(i, f) = mirror[i][f]
    BY <1>0, <1>5 DEF Held, View
  <2>2. ws[f] = mirror[i][f] \/ ws[f] = base[i][f]
    BY <1>5 DEF Conflict, Found
  <2>3. Late(f) \/ base[i][f] \subseteq mirror[i][f] \cup dropped[f] \cup lost[f] \cup Pieces
    BY <2>1 DEF Baselines, BaselineOf
  <2>4. ws'[f] = mirror[i][f] /\ dropped'[f] = dropped[f] /\ lost'[f] = lost[f]
    BY <1>1, <1>5
  <2> QED  BY <2>2, <2>3, <2>4 DEF Grows
<1> QED  BY <1>2, <1>3, <1>4, <1>5

\* The file tools forget nothing that was dropped or lost.
LEMMA HistoryGrows ==
    ASSUME SandboxTypeOK, NEW i \in Runs, NEW g \in Files, FileStep(i, g), NEW f \in Files
    PROVE  dropped[f] \subseteq dropped'[f] /\ lost[f] \subseteq lost'[f]
<1>1. \/ dropped' = dropped
      \/ dropped' = [dropped EXCEPT ![g] = dropped[g] \cup (View(i, g) \ seen[i][g])]
  BY FileStepEffects DEF ReadFile, Writes
<1>2. lost' = lost \/ lost' = [lost EXCEPT ![g] = lost[g] \cup View(i, g)]
  BY FileStepEffects DEF ReadFile, Writes
<1> QED  BY <1>1, <1>2 DEF SandboxTypeOK

\* No step of the sandboxes takes out of the workspace what was not dropped.
LEMMA StepGrows ==
    ASSUME SandboxTypeOK, Baselines, SandboxStep, NEW f \in Files
    PROVE  Grows(f)
<1>1. CASE UNCHANGED sandboxVars \/ FaultOnly
  BY <1>1 DEF Grows, sandboxVars, FaultOnly, diskVars
<1>2. ASSUME NEW i \in Runs, MakeTree(i) \/ Forget(i) PROVE Grows(f)
  BY <1>2 DEF Grows, MakeTree, Forget, diskVars
<1>3. ASSUME NEW i \in Runs, CollectStep(i) PROVE Grows(f)
  <2> PICK policy \in Policies : Collect(i, policy) \/ (Fault(1) /\ CutCollect(i, policy))
    BY <1>3 DEF CollectStep
  <2>1. CASE CollectAgain(i)
    BY <2>1 DEF Grows, CollectAgain
  <2>2. CASE CollectFirst(i, policy) \/ CutCollect(i, policy)
    <3>1. \E fs \in SUBSET Held(i) : \E fate \in Meets(i, fs, policy) : Merge(i, fate, policy)
      BY <2>2 DEF CollectFirst, CutCollect
    <3> QED  BY <3>1, MergeGrows
  <2> QED  BY <2>1, <2>2 DEF Collect
<1>4. ASSUME NEW i \in Runs, NEW g \in Files, FileStep(i, g) PROVE Grows(f)
  <2>1. ws' = ws
    BY <1>4, FileStepEffects DEF ReadFile, diskVars
  <2>2. dropped[f] \subseteq dropped'[f] /\ lost[f] \subseteq lost'[f]
    BY <1>4, HistoryGrows
  <2> QED  BY <2>1, <2>2 DEF Grows
<1>5. ASSUME NEW g \in Files, UserEdits(g) \/ UserDeletes(g) PROVE Grows(f)
  BY <1>5 DEF SandboxTypeOK, Grows, UserEdits, UserDeletes
<1> QED  BY <1>1, <1>2, <1>3, <1>4, <1>5 DEF SandboxStep

\* A baseline once found late stays late.
LEMMA LateStays ==
    SandboxTypeOK /\ SandboxStep => late \subseteq late' /\ \A f : Late(f) => Late(f)'
<1> SUFFICES ASSUME SandboxTypeOK, SandboxStep PROVE late \subseteq late'
  BY DEF Late
<1>1. CASE UNCHANGED sandboxVars \/ FaultOnly
  BY <1>1 DEF sandboxVars, FaultOnly
<1>2. ASSUME NEW i \in Runs, MakeTree(i) \/ Forget(i) \/ CollectStep(i) PROVE late \subseteq late'
  BY <1>2 DEF MakeTree, Forget, CollectStep, Collect, CollectFirst, CollectAgain, CutCollect
<1>3. ASSUME NEW i \in Runs, NEW f \in Files, FileStep(i, f) PROVE late \subseteq late'
  BY <1>3, FileStepEffects DEF ReadFile, Snapshots
<1>4. ASSUME NEW f \in Files, UserEdits(f) \/ UserDeletes(f) PROVE late \subseteq late'
  BY <1>4 DEF UserEdits, UserDeletes
<1> QED  BY <1>1, <1>2, <1>3, <1>4 DEF SandboxStep

\* A file tool writes one file of one tree.
LEMMA FileStepFrame ==
    ASSUME SandboxTypeOK, NEW i \in Runs, NEW f \in Files, FileStep(i, f),
           NEW j \in Runs, NEW g \in Files, j # i \/ g # f
    PROVE  /\ base'[j][g] = base[j][g] /\ View(j, g)' = View(j, g)
           /\ mirror'[j][g] = mirror[j][g]
<1>1. ws' = ws
  BY FileStepEffects DEF ReadFile, diskVars
<1>2. base'[j][g] = base[j][g]
  <2>1. \/ base' = base \/ base' = [base EXCEPT ![i][f] = ws[f]]
        \/ base' = [base EXCEPT ![i][f] = Piece]
    BY FileStepEffects DEF ReadFile, Snapshots, diskVars
  <2> QED  BY <2>1 DEF SandboxTypeOK
<1>3. mirror'[j][g] = mirror[j][g]
  <2>1. mirror' = mirror \/ \E c : mirror' = [mirror EXCEPT ![i][f] = c]
    BY FileStepEffects DEF ReadFile, Writes, diskVars
  <2> QED  BY <2>1 DEF SandboxTypeOK
<1> QED  BY <1>1, <1>2, <1>3 DEF View

\* A run goes on seeing what it saw, unless it writes the whole file anew or
\* the writing breaks off.
LEMMA SeesMore ==
    ASSUME SandboxTypeOK, NEW i \in Runs, NEW f \in Files, FileStep(i, f)
    PROVE  View(i, f) \subseteq View(i, f)' \cup dropped'[f] \cup lost'[f]
<1>1. ws' = ws
  BY FileStepEffects DEF ReadFile, diskVars
<1>2. CASE mirror' = mirror
  BY <1>1, <1>2 DEF View
<1>3. ASSUME NEW part, mirror' = [mirror EXCEPT ![i][f] = View(i, f) \cup part]
      PROVE  View(i, f) \subseteq View(i, f)'
  <2>1. mirror'[i][f] = View(i, f) \cup part
    BY <1>3 DEF SandboxTypeOK
  <2>2. CASE mirror'[i][f] = Absent
    BY <2>1, <2>2 DEF Absent
  <2>3. CASE mirror'[i][f] # Absent
    BY <2>1, <2>3 DEF View
  <2> QED  BY <2>2, <2>3
<1>4. CASE /\ mirror' = [mirror EXCEPT ![i][f] = seen[i][f] \cup {i}]
           /\ dropped' = [dropped EXCEPT ![f] = @ \cup (View(i, f) \ seen[i][f])]
  <2>1. mirror'[i][f] = seen[i][f] \cup {i}
    BY <1>4 DEF SandboxTypeOK
  <2>2. View(i, f) \ seen[i][f] \subseteq dropped'[f]
    BY <1>4 DEF SandboxTypeOK
  <2>3. View(i, f)' = seen[i][f] \cup {i}
    BY <2>1 DEF View, Absent
  <2> QED  BY <2>2, <2>3
<1>5. CASE lost' = [lost EXCEPT ![f] = @ \cup View(i, f)]
  BY <1>5 DEF SandboxTypeOK
<1>6. CASE \E part : mirror' = [mirror EXCEPT ![i][f] = View(i, f) \cup part]
  BY <1>3, <1>6
<1>7. \/ mirror' = mirror
      \/ /\ mirror' = [mirror EXCEPT ![i][f] = seen[i][f] \cup {i}]
         /\ dropped' = [dropped EXCEPT ![f] = @ \cup (View(i, f) \ seen[i][f])]
      \/ \E part : mirror' = [mirror EXCEPT ![i][f] = View(i, f) \cup part]
      \/ lost' = [lost EXCEPT ![f] = @ \cup View(i, f)]
  BY FileStepEffects DEF ReadFile, Writes, diskVars
<1> QED  BY <1>2, <1>4, <1>5, <1>6, <1>7

\* The baseline a file tool takes is of what the run sees, a piece, or late.
LEMMA FileStepBaseline ==
    ASSUME SandboxTypeOK, Baselines, NEW i \in Runs, NEW f \in Files, FileStep(i, f)
    PROVE  Late(f)' \/ base'[i][f] \subseteq View(i, f) \cup dropped[f] \cup lost[f] \cup Pieces
<1>1. CASE base' = base
  <2>1. Late(f) => Late(f)'
    BY LateStays DEF SandboxStep
  <2> QED  BY <1>1, <2>1 DEF Baselines, BaselineOf
<1>2. CASE base' # base
  <2>1. /\ \/ base' = [base EXCEPT ![i][f] = ws[f]]
           \/ base' = [base EXCEPT ![i][f] = Piece] /\ Piece \subseteq Pieces
        /\ late' = IF mirror[i][f] # Absent THEN late \cup {<<i, f>>} ELSE late
    BY <1>2, FileStepEffects DEF ReadFile, Snapshots, diskVars
  <2>2. CASE mirror[i][f] # Absent
    BY <2>1, <2>2 DEF Late
  <2>3. CASE mirror[i][f] = Absent
    <3>1. base'[i][f] = ws[f] \/ base'[i][f] \subseteq Pieces
      BY <2>1 DEF SandboxTypeOK
    <3>2. View(i, f) = ws[f]
      BY <2>3 DEF View
    <3> QED  BY <3>1, <3>2
  <2> QED  BY <2>2, <2>3
<1> QED  BY <1>1, <1>2

\* Baselines is inductive.
LEMMA BaselinesKept == SandboxTypeOK /\ Baselines /\ SandboxStep => Baselines'
<1> SUFFICES ASSUME SandboxTypeOK, Baselines, SandboxStep, NEW j \in Runs, NEW g \in Files
             PROVE  BaselineOf(j, g)'
  BY DEF Baselines
<1>0. Grows(g) /\ (Late(g) => Late(g)')
  BY StepGrows, LateStays
<1>a. ASSUME base'[j][g] = base[j][g], mirror'[j][g] = mirror[j][g]
      PROVE  BaselineOf(j, g)'
  BY <1>0, <1>a DEF Baselines, BaselineOf, Grows, View
<1>1. CASE UNCHANGED sandboxVars \/ FaultOnly
  BY <1>1, <1>a DEF sandboxVars, FaultOnly, diskVars
<1>2. ASSUME NEW i \in Runs, MakeTree(i) \/ Forget(i)
      PROVE  BaselineOf(j, g)'
  BY <1>2, <1>a DEF MakeTree, Forget, diskVars
<1>3. ASSUME NEW i \in Runs, CollectStep(i)
      PROVE  BaselineOf(j, g)'
  <2>1. PruneTree(i) \/ UNCHANGED <<trees, mirror, base>>
    BY <1>3 DEF CollectStep, Collect, CollectFirst, CollectAgain, CutCollect
  <2>2. CASE PruneTree(i) /\ j = i
    <3>1. base'[j][g] = Absent
      BY <2>2 DEF PruneTree, SandboxTypeOK
    <3> QED  BY <3>1 DEF Absent, BaselineOf
  <2>3. CASE PruneTree(i) /\ j # i
    BY <2>3, <1>a DEF PruneTree, SandboxTypeOK
  <2> QED  BY <2>1, <2>2, <2>3, <1>a
<1>4. ASSUME NEW i \in Runs, NEW f \in Files, FileStep(i, f)
      PROVE  BaselineOf(j, g)'
  <2>1. CASE j = i /\ g = f
    BY <1>0, <1>4, <2>1, FileStepBaseline, SeesMore DEF Grows, BaselineOf
  <2>2. CASE j # i \/ g # f
    BY <1>0, <1>4, <2>2, FileStepFrame DEF Grows, Baselines, BaselineOf
  <2> QED  BY <2>1, <2>2
<1>5. ASSUME NEW f \in Files, UserEdits(f) \/ UserDeletes(f)
      PROVE  BaselineOf(j, g)'
  BY <1>5, <1>a DEF UserEdits, UserDeletes
<1> QED  BY <1>1, <1>2, <1>3, <1>4, <1>5 DEF SandboxStep

\* Types and baselines are kept.
LEMMA DiskInvariant == Spec => [](TypeOK /\ Baselines)
<1>1. Init => Baselines
  BY DEF Init, SandboxInit, Baselines, BaselineOf, Absent
<1>2. TypeOK /\ Baselines /\ [Next]_vars => Baselines'
  BY StepsAreSandboxSteps, BaselinesKept DEF TypeOK
<1> QED  BY <1>1, <1>2, InitTyped, TeamTyped, PTL DEF Spec

\* collect_sandbox_run() and the file tools: for any number of runs and files,
\* conflicts, faults and crashes, nothing is taken out of the workspace that
\* was not dropped, but for files with a late baseline and for what a failing
\* disk broke off or hid.
THEOREM NothingUndoneHolds == Spec => NothingUndone
<1>1. TypeOK /\ Baselines /\ [Next]_vars =>
        [\A f \in Files :
            Late(f) \/ ws[f] \ Pieces \subseteq ws'[f] \cup dropped'[f] \cup lost'[f]]_ws
  BY StepsAreSandboxSteps, StepGrows DEF TypeOK, Grows
<1> QED  BY <1>1, DiskInvariant, PTL DEF Spec, NothingUndone

-----------------------------------------------------------------------------
(* Nothing a run has written is lost *)

Kept(i, f) == i \in ws[f] \cup mirror[i][f] \cup dropped[f] \cup lost[f]
SettledIn(i, f) == i \in ws[f] \cup dropped[f] \cup lost[f]
WorkInv == again \subseteq receipts /\ WorkKept

\* What is settled stays so.
LEMMA SettledStays ==
    ASSUME NEW i \in Runs, NEW f \in Files, Grows(f), ~Late(f), SettledIn(i, f)
    PROVE  SettledIn(i, f)'
BY RunIsContent DEF Grows, SettledIn

\* A first collection merges a file or reports it, and then keeps the tree.
LEMMA CollectFirstSettles ==
    ASSUME SandboxTypeOK, Baselines, NEW i \in Runs, NEW policy, CollectFirst(i, policy),
           NEW f \in Files, ~Late(f), Kept(i, f)
    PROVE  Kept(i, f)' /\ (SettledIn(i, f)' \/ f \in report'[i])
<1> PICK fate \in Meets(i, Held(i), policy), receipt \in Copies, deletable \in BOOLEAN :
      FirstCollected(i, policy, fate, receipt, deletable)
  BY DEF CollectFirst, FirstCollected, Errors, Clashes
<1> DEFINE unmerged == Errors(i, fate) \cup Clashes(i, policy, fate)
<1>0. DOMAIN fate = Held(i) /\ \A g \in Held(i) : fate[g] \in Fates
  BY DEF Meets
<1>1. Grows(f)
  BY MergeGrows DEF FirstCollected
<1>2. CASE SettledIn(i, f)
  BY <1>1, <1>2, SettledStays DEF SettledIn, Kept
<1>3. CASE i \in mirror[i][f] /\ f \in unmerged
  <2>1. mirror' = mirror
    BY <1>3 DEF FirstCollected
  <2>2. report'[i] = unmerged
    BY DEF SandboxTypeOK, FirstCollected
  <2> QED  BY <1>3, <2>1, <2>2 DEF Kept
<1>4. CASE i \in mirror[i][f] /\ f \notin unmerged
  <2>1. f \in Held(i)
    BY <1>4 DEF Held, Absent
  <2>2. fate[f] \notin {"failed", "broken"} /\ (Conflict(i, f, fate[f]) => policy = "overwrite")
    BY <1>4, <2>1 DEF Errors, Clashes
  <2>3. CASE Found(f, fate[f]) = mirror[i][f]
    <3>1. ws[f] = mirror[i][f]
      BY <2>1, <2>3 DEF Found, Held
    <3> QED  BY <1>1, <1>4, <3>1, SettledStays DEF SettledIn, Kept
  <2>4. CASE Found(f, fate[f]) # mirror[i][f]
    <3>1. Copied(i, f, fate[f], policy)
      BY <2>2, <2>4 DEF Copied
    <3>2. ws'[f] = mirror[i][f]
      BY <1>0, <2>1, <2>2, <3>1 DEF FirstCollected, Merge
    <3> QED  BY <1>4, <3>2 DEF Kept, SettledIn
  <2> QED  BY <2>3, <2>4
<1> QED  BY <1>2, <1>3, <1>4 DEF Kept, SettledIn

\* Only a file tool writes, and only the file it is given.
LEMMA WhoWrote ==
    SandboxTypeOK /\ SandboxStep =>
        \/ wrote' = wrote
        \/ \E i \in Runs, f \in Files : FileStep(i, f) /\ wrote' \subseteq wrote \cup {<<i, f>>}
<1> SUFFICES ASSUME SandboxTypeOK, SandboxStep, wrote' # wrote
             PROVE  \E i \in Runs, f \in Files : FileStep(i, f)
                                                 /\ wrote' \subseteq wrote \cup {<<i, f>>}
  OBVIOUS
<1>1. PICK i \in Runs, f \in Files : FileStep(i, f)
  BY DEF SandboxStep, sandboxVars, FaultOnly, MakeTree, Forget, CollectStep, Collect,
         CollectFirst, CollectAgain, CutCollect, UserEdits, UserDeletes
<1>2. wrote' \subseteq wrote \cup {<<i, f>>}
  BY <1>1, FileStepEffects DEF ReadFile, Writes
<1> QED  BY <1>1, <1>2

\* Runs collected again have a receipt.
LEMMA AgainKept ==
    SandboxTypeOK /\ SandboxStep /\ again \subseteq receipts =>
        again \subseteq again' /\ again' \subseteq receipts'
<1> SUFFICES ASSUME SandboxTypeOK, SandboxStep, again \subseteq receipts
             PROVE  again \subseteq again' /\ again' \subseteq receipts'
  OBVIOUS
<1>1. CASE UNCHANGED sandboxVars \/ FaultOnly
  BY <1>1 DEF sandboxVars, FaultOnly, diskVars
<1>2. ASSUME NEW i \in Runs, MakeTree(i) \/ Forget(i)
      PROVE  again \subseteq again' /\ again' \subseteq receipts'
  BY <1>2 DEF MakeTree, Forget, diskVars
<1>3. ASSUME NEW i \in Runs, CollectStep(i)
      PROVE  again \subseteq again' /\ again' \subseteq receipts'
  BY <1>3 DEF CollectStep, Collect, CollectFirst, CollectAgain, CutCollect
<1>4. ASSUME NEW i \in Runs, NEW f \in Files, FileStep(i, f)
      PROVE  again \subseteq again' /\ again' \subseteq receipts'
  BY <1>4, FileStepEffects DEF ReadFile, diskVars
<1>5. ASSUME NEW f \in Files, UserEdits(f) \/ UserDeletes(f)
      PROVE  again \subseteq again' /\ again' \subseteq receipts'
  BY <1>5 DEF UserEdits, UserDeletes
<1> QED  BY <1>1, <1>2, <1>3, <1>4, <1>5 DEF SandboxStep

\* A tool that writes leaves the run's contribution in its tree.
LEMMA WriterKeeps ==
    ASSUME SandboxTypeOK, NEW i \in Runs, NEW f \in Files, FileStep(i, f), Kept(i, f)
    PROVE  Kept(i, f)'
<1>1. ws' = ws
  BY FileStepEffects DEF ReadFile, diskVars
<1>2. dropped[f] \subseteq dropped'[f] /\ lost[f] \subseteq lost'[f]
  BY HistoryGrows
<1>3. i \in mirror[i][f] => View(i, f) = mirror[i][f]
  BY DEF View, Absent
<1>4. \/ mirror'[i][f] = mirror[i][f] \/ i \in mirror'[i][f]
      \/ View(i, f) \subseteq mirror'[i][f]
      \/ View(i, f) \subseteq lost'[f]
  <2>1. \/ mirror' = mirror
        \/ mirror' = [mirror EXCEPT ![i][f] = seen[i][f] \cup {i}]
        \/ \E part : mirror' = [mirror EXCEPT ![i][f] = View(i, f) \cup part]
        \/ lost' = [lost EXCEPT ![f] = @ \cup View(i, f)]
    BY FileStepEffects DEF ReadFile, Writes, diskVars
  <2>2. CASE mirror' = [mirror EXCEPT ![i][f] = seen[i][f] \cup {i}]
    BY <2>2 DEF SandboxTypeOK
  <2>3. CASE \E part : mirror' = [mirror EXCEPT ![i][f] = View(i, f) \cup part]
    BY <2>3 DEF SandboxTypeOK
  <2>4. CASE lost' = [lost EXCEPT ![f] = @ \cup View(i, f)]
    BY <2>4 DEF SandboxTypeOK
  <2> QED  BY <2>1, <2>2, <2>3, <2>4
<1> QED  BY <1>1, <1>2, <1>3, <1>4 DEF Kept

\* ... also if it had not written the file before.
LEMMA FirstWriteKeeps ==
    ASSUME SandboxTypeOK, NEW i \in Runs, NEW f \in Files, FileStep(i, f),
           <<i, f>> \in wrote', <<i, f>> \notin wrote
    PROVE  Kept(i, f)'
<1>1. \/ mirror' = [mirror EXCEPT ![i][f] = seen[i][f] \cup {i}]
      \/ mirror' = [mirror EXCEPT ![i][f] = View(i, f) \cup {i}]
  BY FileStepEffects DEF ReadFile, Writes
<1>2. i \in mirror'[i][f]
  BY <1>1 DEF SandboxTypeOK
<1> QED  BY <1>2 DEF Kept

\* WorkKept is inductive.
LEMMA WorkStep == SandboxTypeOK /\ Baselines /\ WorkInv /\ SandboxStep => WorkInv'
<1> SUFFICES ASSUME SandboxTypeOK, Baselines, WorkInv, SandboxStep PROVE WorkInv'
  OBVIOUS
<1>1. again' \subseteq receipts'
  BY AgainKept DEF WorkInv
<1>2. ASSUME NEW i \in Runs \ again', NEW f \in Files, <<i, f>> \in wrote', ~Late(f)'
      PROVE  Kept(i, f)'
  <2>0. ~Late(f) /\ Grows(f)
    BY <1>2, LateStays, StepGrows
  <2>a. again \subseteq again'
    BY AgainKept DEF WorkInv
  <2>1. CASE <<i, f>> \notin wrote
    BY <1>2, <2>1, WhoWrote, FirstWriteKeeps
  <2>2. CASE <<i, f>> \in wrote
    <3>0. Kept(i, f)
      BY <1>2, <2>0, <2>2, <2>a DEF WorkInv, WorkKept, Kept
    <3>a. mirror'[i][f] = mirror[i][f] => Kept(i, f)'
      BY <2>0, <3>0, RunIsContent DEF Grows, Kept
    <3>1. CASE UNCHANGED sandboxVars \/ FaultOnly
      BY <3>1, <3>a DEF sandboxVars, FaultOnly, diskVars
    <3>2. ASSUME NEW k \in Runs, MakeTree(k) \/ Forget(k) PROVE Kept(i, f)'
      BY <3>2, <3>a DEF MakeTree, Forget, diskVars
    <3>3. ASSUME NEW k \in Runs, CollectStep(k) PROVE Kept(i, f)'
      <4> PICK policy \in Policies : Collect(k, policy) \/ (Fault(1) /\ CutCollect(k, policy))
        BY <3>3 DEF CollectStep
      <4>1. CASE k = i /\ CollectFirst(k, policy)
        BY <2>0, <3>0, <4>1, CollectFirstSettles
      <4>2. CASE k = i /\ CollectAgain(k)
        BY <1>2, <4>2 DEF CollectAgain
      <4>3. CASE CutCollect(k, policy)
        BY <3>a, <4>3 DEF CutCollect
      <4>4. CASE k # i /\ Collect(k, policy)
        <5>1. PruneTree(k) \/ mirror' = mirror
          BY <4>4 DEF Collect, CollectFirst, CollectAgain
        <5> QED  BY <3>a, <4>4, <5>1 DEF PruneTree, SandboxTypeOK
      <4> QED  BY <4>1, <4>2, <4>3, <4>4 DEF Collect
    <3>4. ASSUME NEW k \in Runs, NEW g \in Files, FileStep(k, g) PROVE Kept(i, f)'
      <4>1. CASE k = i /\ g = f
        BY <3>0, <3>4, <4>1, WriterKeeps
      <4>2. CASE k # i \/ g # f
        <5>1. mirror'[i][f] = mirror[i][f]
          BY <1>2, <3>4, <4>2, FileStepFrame
        <5> QED  BY <3>a, <5>1
      <4> QED  BY <4>1, <4>2
    <3>5. ASSUME NEW g \in Files, UserEdits(g) \/ UserDeletes(g) PROVE Kept(i, f)'
      BY <3>5, <3>a DEF UserEdits, UserDeletes
    <3> QED  BY <3>1, <3>2, <3>3, <3>4, <3>5 DEF SandboxStep
  <2> QED  BY <2>1, <2>2
<1> QED  BY <1>1, <1>2 DEF WorkInv, WorkKept, Kept

\* Types, baselines and what was written are kept.
LEMMA WorkInvariant == Spec => [](TypeOK /\ Baselines /\ WorkInv)
<1>1. Init => WorkInv
  BY DEF Init, SandboxInit, WorkInv, WorkKept
<1>2. TypeOK /\ Baselines /\ WorkInv /\ [Next]_vars => WorkInv'
  BY StepsAreSandboxSteps, WorkStep DEF TypeOK
<1> QED  BY <1>1, <1>2, DiskInvariant, PTL DEF Spec

\* For any number of runs and files, conflicts, faults and crashes: what a run
\* has written is in the workspace or in its tree, unless it was collected
\* again although it had a receipt.
THEOREM WorkKeptHolds == Spec => []WorkKept
<1>1. WorkInv => WorkKept
  BY DEF WorkInv
<1> QED  BY <1>1, WorkInvariant, PTL

-----------------------------------------------------------------------------
(* Whoever comes after a member finds its work *)

Writers == \A i \in Runs, f \in Files : <<i, f>> \in wrote => member[i] \in {"running", "ended"}
Reported == \A i \in processed : member[i] = "ended" /\ InWorkspaceOrReported(i)
ReceiptsOrdered == phase \notin {"done", "down"} => receipts \subseteq processed

\* Until the members have started, and after they have ended.
PhaseOrdered ==
    /\ phase = "start" => \A i \in Runs : member[i] = "waiting"
    /\ phase = "review" => \A i \in Members : Settled(i)
    /\ phase = "closing" => \/ \A i \in Members : Settled(i)
                            \/ \A i \in Runs : member[i] = "waiting"

\* A sequential member starts when all before it are settled.
TurnsOrdered ==
    mode = "sequential" => \A i, j \in Members :
        i < j /\ member[j] # "waiting" => Settled(i)

Ordered == Writers /\ Reported /\ ReceiptsOrdered /\ PhaseOrdered /\ TurnsOrdered

\* Only a running member writes.
LEMMA OnlyWorkWrites ==
    ASSUME SandboxTypeOK, [Next]_vars, wrote' # wrote
    PROVE  \E i \in Runs : /\ member[i] = "running" /\ member' = member
                           /\ \A k \in Runs, f \in Files :
                                 <<k, f>> \in wrote' => <<k, f>> \in wrote \/ k = i
<1>1. PICK i \in Runs : Work(i)
  BY DEF Next, vars, sandboxVars, diskVars, Begin, Advance, Finish, RunRaises, Outside, UserEdits,
         UserDeletes, Crash, CutCollect, Recover, StartMember, MakeTree, EndMember, Forget,
         CollectOne, CollectByHand, Collect, CollectFirst, CollectAgain
<1>2. PICK f \in Files : FileStep(i, f)
  BY <1>1 DEF Work, FileStep
<1>3. wrote' \subseteq wrote \cup {<<i, f>>}
  BY <1>2, FileStepEffects DEF ReadFile, Writes
<1>4. member[i] = "running" /\ member' = member
  BY <1>1 DEF Work
<1> QED  BY <1>3, <1>4

\* What is merged or reported stays so as long as its run does not write.
LEMMA ReportedStays ==
    ASSUME SandboxTypeOK, Baselines, WorkInv, SandboxStep, NEW i \in Runs,
           InWorkspaceOrReported(i),
           \A f \in Files : <<i, f>> \in wrote' => <<i, f>> \in wrote
    PROVE  InWorkspaceOrReported(i)'
<1> SUFFICES ASSUME NEW f \in Files, <<i, f>> \in wrote', ~Late(f)'
             PROVE  SettledIn(i, f)' \/ f \in report'[i]
  BY DEF InWorkspaceOrReported, SettledIn
<1>0. ~Late(f) /\ Grows(f) /\ (SettledIn(i, f) \/ f \in report[i])
  BY LateStays, StepGrows DEF InWorkspaceOrReported, SettledIn
<1>1. CASE SettledIn(i, f)
  BY <1>0, <1>1, SettledStays
<1>2. CASE report'[i] = report[i]
  BY <1>0, <1>1, <1>2
<1>3. CASE report'[i] # report[i]
  <2>1. \E policy \in Policies : CollectFirst(i, policy)
    <3>1. PICK k \in Runs : CollectStep(k)
      BY <1>3 DEF SandboxStep, sandboxVars, FaultOnly, MakeTree, Forget, UserEdits, UserDeletes,
                  FileStep, ReadFile, WriteFile, EditFile, AppendFile
    <3>2. PICK policy \in Policies : CollectFirst(k, policy)
      BY <1>3, <3>1 DEF CollectStep, Collect, CollectAgain, CutCollect
    <3>3. k = i
      BY <1>3, <3>2 DEF CollectFirst, SandboxTypeOK
    <3> QED  BY <3>2, <3>3
  <2>2. i \notin again
    BY <2>1 DEF WorkInv, CollectFirst
  <2>3. Kept(i, f)
    BY <1>0, <2>2 DEF WorkInv, WorkKept, Kept
  <2> QED  BY <1>0, <2>1, <2>3, CollectFirstSettles
<1> QED  BY <1>1, <1>2, <1>3

\* Writers is inductive.
LEMMA WritersStep == TypeOK /\ Writers /\ [Next]_vars => Writers'
<1> SUFFICES ASSUME TypeOK, Writers, [Next]_vars, NEW i \in Runs, NEW f \in Files,
                    <<i, f>> \in wrote'
             PROVE  member'[i] \in {"running", "ended"}
  BY DEF Writers
<1>1. CASE <<i, f>> \notin wrote
  BY <1>1, OnlyWorkWrites DEF TypeOK
<1>2. CASE <<i, f>> \in wrote
  <2>1. member[i] \in {"running", "ended"}
    BY <1>2 DEF Writers
  <2>2. \/ member' = member
        \/ \E k \in Runs : StartMember(k) \/ EndMember(k)
    BY DEF Next, vars, teamVars, Begin, Advance, Finish, RunRaises, Outside, Crash, Recover, Work,
           CollectOne, CollectByHand
  <2>3. ASSUME NEW k \in Runs, StartMember(k) PROVE member'[i] = member[i]
    BY <2>1, <2>3 DEF StartMember, TypeOK
  <2>4. ASSUME NEW k \in Runs, EndMember(k) PROVE member'[i] \in {member[i], "ended"}
    BY <2>4 DEF EndMember, TypeOK
  <2> QED  BY <2>1, <2>2, <2>3, <2>4
<1> QED  BY <1>1, <1>2

\* Members that have ended stay so, and nothing settled is unsettled.
LEMMA EndedStays ==
    ASSUME TypeOK, [Next]_vars, NEW i \in Runs
    PROVE  /\ member[i] = "ended" => member'[i] = "ended"
           /\ member[i] = "refused" => member'[i] = "refused"
           /\ processed \subseteq processed'
           /\ Settled(i) => Settled(i)'
<1>1. \/ member' = member
      \/ \E k \in Runs : StartMember(k) \/ EndMember(k)
  BY DEF Next, vars, teamVars, Begin, Advance, Finish, RunRaises, Outside, Crash, Recover, Work,
         CollectOne, CollectByHand
<1>2. ASSUME NEW k \in Runs, StartMember(k) PROVE member'[i] = member[i] \/ member[i] = "waiting"
  BY <1>2 DEF StartMember, TypeOK
<1>3. ASSUME NEW k \in Runs, EndMember(k) PROVE member'[i] = member[i] \/ member[i] = "running"
  BY <1>3 DEF EndMember, TypeOK
<1>4. processed \subseteq processed'
  BY DEF Next, vars, teamVars, Begin, Advance, Finish, RunRaises, Outside, Crash, Recover, Work,
         StartMember, EndMember, CollectOne, CollectByHand
<1> QED  BY <1>1, <1>2, <1>3, <1>4 DEF Settled

\* A collection by the orchestrator is always the first.
LEMMA OrderlyCollect ==
    ASSUME ReceiptsOrdered, NEW i \in Runs, CollectOne(i)
    PROVE  CollectFirst(i, "skip") /\ member[i] = "ended" /\ member' = member
<1>1. i \notin receipts
  BY DEF CollectOne, Due, ReceiptsOrdered
<1> QED  BY <1>1 DEF CollectOne, Due, Activated, Collect, CollectAgain

\* Reported is inductive.
LEMMA ReportedStep ==
    TypeOK /\ Baselines /\ WorkInv /\ Ordered /\ [Next]_vars => Reported'
<1> SUFFICES ASSUME TypeOK, Baselines, WorkInv, Ordered, [Next]_vars, NEW i \in processed'
             PROVE  member'[i] = "ended" /\ InWorkspaceOrReported(i)'
  BY DEF Reported
<1>0. SandboxStep /\ SandboxTypeOK /\ i \in Runs
  BY StepsAreSandboxSteps, TeamTyped DEF TypeOK
<1>1. CASE i \in processed
  <2>1. member[i] = "ended" /\ InWorkspaceOrReported(i)
    BY <1>1 DEF Ordered, Reported
  <2>2. \A f \in Files : <<i, f>> \in wrote' => <<i, f>> \in wrote
    BY <1>0, <2>1, OnlyWorkWrites
  <2> QED  BY <1>0, <2>1, <2>2, EndedStays, ReportedStays
<1>2. CASE i \notin processed
  <2>1. CollectOne(i)
    BY <1>2 DEF Next, vars, teamVars, Begin, Advance, Finish, RunRaises, Outside, Crash, Recover, Work,
                StartMember, EndMember, CollectOne, CollectByHand
  <2>2. CollectFirst(i, "skip") /\ member'[i] = "ended"
    BY <1>0, <2>1, OrderlyCollect DEF Ordered
  <2>3. i \notin again /\ wrote' = wrote /\ late' = late
    BY <2>2 DEF CollectFirst, WorkInv
  <2>4. ASSUME NEW f \in Files, <<i, f>> \in wrote, ~Late(f)
        PROVE  SettledIn(i, f)' \/ f \in report'[i]
    <3>1. Kept(i, f)
      BY <1>0, <2>3, <2>4 DEF WorkInv, WorkKept, Kept
    <3> QED  BY <1>0, <2>2, <2>4, <3>1, CollectFirstSettles
  <2> QED  BY <2>2, <2>3, <2>4 DEF InWorkspaceOrReported, Late, SettledIn
<1> QED  BY <1>1, <1>2

\* ReceiptsOrdered is inductive.
LEMMA ReceiptsStep == ReceiptsOrdered /\ [Next]_vars => ReceiptsOrdered'
<1> SUFFICES ASSUME ReceiptsOrdered, [Next]_vars, phase' \notin {"done", "down"}
             PROVE  receipts' \subseteq processed'
  BY DEF ReceiptsOrdered
<1>1. CASE Begin \/ Advance \/ Outside \/ UNCHANGED vars
  BY <1>1 DEF ReceiptsOrdered, Begin, Advance, Outside, UserEdits, UserDeletes, vars,
              sandboxVars, diskVars, teamVars
<1>2. ASSUME NEW i \in Runs, StartMember(i) \/ EndMember(i) PROVE receipts' \subseteq processed'
  BY <1>2 DEF ReceiptsOrdered, StartMember, MakeTree, EndMember, Forget, diskVars
<1>3. ASSUME NEW i \in Runs, Work(i) PROVE receipts' \subseteq processed'
  BY <1>3 DEF ReceiptsOrdered, Work, ReadFile, WriteFile, EditFile, AppendFile, diskVars
<1>4. ASSUME NEW i \in Runs, CollectOne(i) PROVE receipts' \subseteq processed'
  BY <1>4 DEF ReceiptsOrdered, CollectOne, Due, Collect, CollectFirst, CollectAgain
<1>5. CASE Finish \/ RunRaises \/ Crash \/ Recover
  BY <1>5 DEF Finish, RunRaises, Crash, Recover
<1>6. ASSUME NEW i \in Runs, CollectByHand(i) PROVE receipts' \subseteq processed'
  BY <1>6 DEF CollectByHand, teamVars
<1> QED  BY <1>1, <1>2, <1>3, <1>4, <1>5, <1>6 DEF Next

\* PhaseOrdered is inductive.
LEMMA PhaseStep == TypeOK /\ PhaseOrdered /\ [Next]_vars => PhaseOrdered'
<1> SUFFICES ASSUME TypeOK, PhaseOrdered, [Next]_vars PROVE PhaseOrdered'
  OBVIOUS
<1>0. Members \subseteq Runs
  BY TeamAssumption DEF Members, Runs
<1>1. \A i \in Members : Settled(i) => Settled(i)'
  BY <1>0, EndedStays
<1>2. CASE phase' = phase /\ member' = member
  BY <1>1, <1>2 DEF PhaseOrdered
<1>3. CASE Begin
  BY <1>3 DEF PhaseOrdered, Begin
<1>4. CASE Advance
  <2>1. \A i \in Members : Settled(i)
    BY <1>4 DEF Advance, PhaseOrdered
  <2>2. phase' # "start"
    BY <1>4 DEF Advance
  <2> QED  BY <1>1, <2>1, <2>2 DEF PhaseOrdered
<1>5. CASE Finish \/ RunRaises \/ Crash
  BY <1>5 DEF Finish, RunRaises, Crash, PhaseOrdered
<1>6. ASSUME NEW k \in Runs, StartMember(k) PROVE PhaseOrdered'
  BY <1>1, <1>6 DEF StartMember, HasTurn, PhaseOrdered
<1>7. ASSUME NEW k \in Runs, EndMember(k) PROVE PhaseOrdered'
  <2>1. phase' = phase /\ member[k] = "running"
    BY <1>7 DEF EndMember
  <2>2. phase # "start" /\ (phase = "closing" => \A i \in Members : Settled(i))
    BY <2>1 DEF PhaseOrdered
  <2> QED  BY <1>1, <2>1, <2>2 DEF PhaseOrdered
<1>8. ASSUME NEW k \in Runs, CollectOne(k) \/ Work(k) \/ CollectByHand(k) PROVE PhaseOrdered'
  BY <1>2, <1>8 DEF CollectOne, Work, CollectByHand, teamVars
<1>9. CASE Outside \/ Recover \/ UNCHANGED vars
  BY <1>2, <1>9 DEF Outside, Recover, vars, teamVars
<1> QED  BY <1>3, <1>4, <1>5, <1>6, <1>7, <1>8, <1>9 DEF Next

\* TurnsOrdered is inductive.
LEMMA TurnsStep == TypeOK /\ TurnsOrdered /\ PhaseOrdered /\ [Next]_vars => TurnsOrdered'
<1> SUFFICES ASSUME TypeOK, TurnsOrdered, PhaseOrdered, [Next]_vars, mode' = "sequential",
                    NEW i \in Members, NEW j \in Members, i < j, member'[j] # "waiting"
             PROVE  Settled(i)'
  BY DEF TurnsOrdered
<1>0. i \in Runs /\ j \in Runs /\ i \in 1 .. j - 1
  BY TeamAssumption DEF Members, Runs
<1>a. mode = "sequential"
  BY DEF Next, vars, teamVars, Begin, Advance, Finish, RunRaises, Outside, Crash, Recover, Work,
         StartMember, EndMember, CollectOne, CollectByHand
<1>1. CASE member[j] # "waiting"
  BY <1>0, <1>1, <1>a, EndedStays DEF TurnsOrdered
<1>2. CASE member[j] = "waiting"
  <2>1. StartMember(j)
    <3>1. PICK k \in Runs : StartMember(k) \/ EndMember(k)
      BY <1>2 DEF Next, vars, teamVars, Begin, Advance, Finish, RunRaises, Outside, Crash, Recover, Work,
                  CollectOne, CollectByHand
    <3>2. k = j
      BY <1>2, <3>1, <1>0 DEF StartMember, EndMember, TypeOK
    <3> QED  BY <1>2, <3>1, <3>2 DEF EndMember
  <2>2. j # Reviewer
    BY TeamAssumption DEF Members, Reviewer
  <2>3. Settled(i)
    BY <1>0, <1>a, <2>1, <2>2 DEF StartMember, HasTurn
  <2> QED  BY <1>0, <2>3, EndedStays
<1> QED  BY <1>1, <1>2

\* Types and the order of a team run are kept.
LEMMA OrderedInvariant == Spec => [](TypeOK /\ Ordered)
<1>1. Init => Ordered
  <2>1. \A j \in Members : j \in Runs
    BY TeamAssumption DEF Members, Runs
  <2>2. Init => Writers /\ Reported /\ ReceiptsOrdered
    BY DEF Init, SandboxInit, Writers, Reported, ReceiptsOrdered
  <2>3. Init => PhaseOrdered /\ TurnsOrdered
    BY <2>1 DEF Init, PhaseOrdered, TurnsOrdered
  <2> QED  BY <2>2, <2>3 DEF Ordered
<1>2. TypeOK /\ Baselines /\ WorkInv /\ Ordered /\ [Next]_vars => Ordered'
  BY WritersStep, ReportedStep, ReceiptsStep, PhaseStep, TurnsStep DEF Ordered
<1> QED  BY <1>1, <1>2, WorkInvariant, PTL DEF Spec

\* run(), _run_sequential(), _run_review(): for any team, any number of files
\* and any faults, the next sequential member, the reviewer and the reader of
\* the result find what each member wrote, or are told that it was not merged.
THEOREM SuccessorSeesWorkHolds == Spec => []SuccessorSeesWork
<1>1. TypeOK /\ Ordered => SuccessorSeesWork
  <2> SUFFICES ASSUME TypeOK, Ordered, NEW i \in Members,
                      \/ phase = "review" /\ member[Reviewer] # "waiting"
                      \/ phase = "closing"
                      \/ mode = "sequential" /\ \E j \in i + 1 .. NMembers : member[j] = "running"
               PROVE  InWorkspaceOrReported(i)
    BY DEF SuccessorSeesWork
  <2>0. i \in Runs
    BY TeamAssumption DEF Members, Runs
  <2>1. Settled(i) \/ member[i] = "waiting"
    <3>1. CASE phase \in {"review", "closing"}
      BY <2>0, <3>1 DEF Ordered, PhaseOrdered
    <3>2. CASE mode = "sequential" /\ \E j \in i + 1 .. NMembers : member[j] = "running"
      <4>1. PICK j \in Members : i < j /\ member[j] = "running"
        BY <3>2, TeamAssumption DEF Members
      <4> QED  BY <3>2, <4>1 DEF Ordered, TurnsOrdered
    <3> QED  BY <3>1, <3>2
  <2>2. CASE i \in processed
    BY <2>2 DEF Ordered, Reported
  <2>3. CASE member[i] \in {"waiting", "refused"}
    BY <2>0, <2>3 DEF Ordered, Writers, InWorkspaceOrReported
  <2> QED  BY <2>1, <2>2, <2>3 DEF Settled
<1> QED  BY <1>1, OrderedInvariant, PTL
================================================================================
