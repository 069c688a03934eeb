-------------------------------- MODULE Sandbox --------------------------------
(***************************************************************************)
(* The write sandboxes of sub-agent runs and their merge:                  *)
(* src/agent/minimax_code/agent/tools/sandbox.py with the tools that write *)
(* through it (file_ops.py, edit.py).                                      *)
(*                                                                         *)
(* A file's content is the set of contributions in it: 0 stands for what   *)
(* was there at first, a run and a step of the user each add their own,    *)
(* and {} is a file that does not exist.  Of a copy or a write that breaks  *)
(* off a piece is left, a contribution that is nobody's.  The tools and    *)
(* the collection run without an await, so each is one step; a crash cuts  *)
(* a collection short at any file.  Left out: directories, binary files,   *)
(* the advisory claims, the legacy marker, prune=False, and another        *)
(* process writing between the hash and the copy of one file.              *)
(***************************************************************************)
EXTENDS Naturals, FiniteSets

CONSTANTS
    Files,
    NRuns,          \* runs that may have a sandbox
    MaxUserSteps,   \* bound: edits and deletions made outside every sandbox
    MaxFaults       \* bound: operations that fail, and crashes

ASSUME SandboxAssumption ==
    NRuns \in Nat \ {0} /\ MaxUserSteps \in Nat /\ MaxFaults \in Nat

Runs == 1 .. NRuns
UserStep(n) == NRuns + n
Pieces == NRuns + MaxUserSteps + 1 .. NRuns + MaxUserSteps + MaxFaults
Content == SUBSET (0 .. NRuns + MaxUserSteps + MaxFaults)
Absent == {}

VARIABLES
    ws,         \* the workspace
    mirror,     \* per run, the files of its tree
    base,       \* per run, the files under _base/
    trees,      \* runs whose tree is on disk
    receipts,   \* runs with a receipt under .collected/
    report,     \* files the last collection of a run left unmerged
    seen,       \* what each run last read or wrote
    userSteps,
    faults,
    wrote,      \* history: what each run has written
    dropped,    \* history: contributions someone decided to drop
    lost,       \* history: contributions in a file that a piece or an unread
                \* workspace file made way for
    late,       \* history: baselines taken when the mirror was there already
    again       \* history: runs collected although they had a receipt

diskVars == <<ws, mirror, base, trees, receipts>>
sandboxVars == <<diskVars, report, seen, userSteps, faults, wrote, dropped, lost, late, again>>

SandboxTypeOK ==
    /\ ws \in [Files -> Content]
    /\ mirror \in [Runs -> [Files -> Content]] /\ base \in [Runs -> [Files -> Content]]
    /\ trees \subseteq Runs /\ receipts \subseteq Runs
    /\ report \in [Runs -> SUBSET Files]
    /\ seen \in [Runs -> [Files -> Content]]
    /\ userSteps \in 0 .. MaxUserSteps /\ faults \in 0 .. MaxFaults
    /\ wrote \in SUBSET (Runs \X Files) /\ late \in SUBSET (Runs \X Files)
    /\ dropped \in [Files -> Content] /\ lost \in [Files -> Content]
    /\ again \subseteq Runs

SandboxInit ==
    /\ ws \in [Files -> {Absent, {0}}]
    /\ mirror = [i \in Runs |-> [f \in Files |-> Absent]]
    /\ base = [i \in Runs |-> [f \in Files |-> Absent]]
    /\ trees = {} /\ receipts = {}
    /\ report = [i \in Runs |-> {}]
    /\ seen = [i \in Runs |-> [f \in Files |-> Absent]]
    /\ userSteps = 0 /\ faults = 0
    /\ wrote = {} /\ late = {} /\ again = {}
    /\ dropped = [f \in Files |-> {}] /\ lost = [f \in Files |-> {}]

Fault(n) == faults + n <= MaxFaults /\ faults' = faults + n
Cost(failed) == IF failed THEN 1 ELSE 0

\* What the fault of this step leaves of a file: equal to no other content.
Piece == {NRuns + MaxUserSteps + faults'}

-----------------------------------------------------------------------------
(* The user and the main agent, outside every sandbox *)

UserEdits(f) ==
    /\ userSteps < MaxUserSteps /\ userSteps' = userSteps + 1
    /\ ws' = [ws EXCEPT ![f] = @ \cup {UserStep(userSteps + 1)}]
    /\ UNCHANGED <<mirror, base, trees, receipts, report, seen, faults,
                   wrote, dropped, lost, late, again>>

UserDeletes(f) ==
    /\ userSteps < MaxUserSteps /\ userSteps' = userSteps + 1
    /\ ws' = [ws EXCEPT ![f] = Absent]
    /\ dropped' = [dropped EXCEPT ![f] = @ \cup ws[f]]
    /\ UNCHANGED <<mirror, base, trees, receipts, report, seen, faults,
                   wrote, lost, late, again>>

-----------------------------------------------------------------------------
(* The file tools inside a sandbox *)

\* overlay_read_target()
View(i, f) == IF mirror[i][f] # Absent THEN mirror[i][f] ELSE ws[f]

\* How the copying of a file may end.
Copies == {"done", "failed", "broken"}

\* redirect_write_target(): the baseline is copied unless there is one.  The
\* copy may fail, or break off.
Snapshot(i, f, copy) ==
    /\ copy # "done" => base[i][f] = Absent /\ ws[f] # Absent
    /\ base' = IF base[i][f] # Absent \/ copy = "failed" THEN base
               ELSE [base EXCEPT ![i][f] = IF copy = "broken" THEN Piece ELSE ws[f]]
    /\ late' = IF base' # base /\ mirror[i][f] # Absent THEN late \cup {<<i, f>>} ELSE late

Put(i, f, content) ==
    /\ mirror' = [mirror EXCEPT ![i][f] = content]
    /\ wrote' = wrote \cup {<<i, f>>}
    /\ lost' = lost

\* The file is truncated, and its writing breaks off.
BreakOff(i, f) ==
    /\ mirror' = [mirror EXCEPT ![i][f] = Piece]
    /\ wrote' = wrote
    /\ lost' = [lost EXCEPT ![f] = @ \cup View(i, f)]

\* The file is copied to the tree, with what was appended of the text.
Stage(i, f, part) ==
    /\ mirror' = [mirror EXCEPT ![i][f] = View(i, f) \cup part]
    /\ wrote' = wrote /\ lost' = lost

ReadFile(i, f) ==
    /\ seen[i][f] # View(i, f)
    /\ seen' = [seen EXCEPT ![i][f] = View(i, f)]
    /\ UNCHANGED <<diskVars, report, userSteps, faults, wrote, dropped, lost, late, again>>

\* The conversation of a run ends, and with it what it has seen.
Forget(i) ==
    /\ seen' = [seen EXCEPT ![i] = [f \in Files |-> Absent]]
    /\ UNCHANGED <<diskVars, report, userSteps, faults, wrote, dropped, lost, late, again>>

\* write_file: the run writes what it has seen and its own.  With
\* expected_sha256 the call is refused unless the file is as it was seen.
WriteFile(i, f, checked) ==
    /\ checked => seen[i][f] # Absent
    /\ \E copy \in Copies, broken \in BOOLEAN :
        /\ Fault(Cost(copy # "done") + Cost(broken))
        /\ Snapshot(i, f, copy)
        /\ \/ /\ checked /\ View(i, f) # seen[i][f] /\ ~broken
              /\ UNCHANGED <<mirror, wrote, seen, dropped, lost>>
           \/ /\ checked => View(i, f) = seen[i][f]
              /\ ~broken /\ Put(i, f, seen[i][f] \cup {i})
              /\ seen' = [seen EXCEPT ![i][f] = @ \cup {i}]
              /\ dropped' = [dropped EXCEPT ![f] = @ \cup (View(i, f) \ seen[i][f])]
           \/ /\ checked => View(i, f) = seen[i][f]
              /\ broken /\ BreakOff(i, f) /\ UNCHANGED <<seen, dropped>>
    /\ UNCHANGED <<ws, trees, receipts, report, userSteps, again>>

\* edit_file: the text to replace may not be there, expected_sha256 refuse, or
\* the file not be readable.
EditFile(i, f) ==
    /\ View(i, f) # Absent
    /\ \E copy \in Copies, broken \in BOOLEAN :
        /\ Fault(Cost(copy # "done") + Cost(broken))
        /\ Snapshot(i, f, copy)
        /\ \/ ~broken /\ Put(i, f, View(i, f) \cup {i})
           \/ ~broken /\ UNCHANGED <<mirror, wrote, lost>>
           \/ broken /\ BreakOff(i, f)
    /\ UNCHANGED <<ws, trees, receipts, report, seen, userSteps, dropped, again>>

\* append_file: the mirror is staged from the view before expected_sha256 may
\* refuse the call.  The staging may break off, or the appending itself.
AppendFile(i, f) ==
    /\ \E copy \in Copies, broken \in BOOLEAN :
        /\ Fault(Cost(copy # "done") + Cost(broken))
        /\ Snapshot(i, f, copy)
        /\ \/ ~broken /\ Put(i, f, View(i, f) \cup {i})
           \/ ~broken /\ Stage(i, f, {})
           \/ broken /\ Stage(i, f, Piece)
           \/ broken /\ mirror[i][f] = Absent /\ ws[f] # Absent /\ BreakOff(i, f)
    /\ UNCHANGED <<ws, trees, receipts, report, seen, userSteps, dropped, again>>

-----------------------------------------------------------------------------
(* collect_sandbox_run() *)

\* The run's directory is made when the run starts.
MakeTree(i) ==
    /\ trees' = trees \cup {i}
    /\ UNCHANGED <<ws, mirror, base, receipts, report, seen, userSteps, faults,
                   wrote, dropped, lost, late, again>>

Held(i) == {f \in Files : mirror[i][f] # Absent}

\* What a file of the tree may meet: an error before the copy, a workspace
\* file that cannot be read and passes for absent, a baseline that cannot be
\* read and differs from everything, a copy that breaks off.
Fates == {"fine", "failed", "unread", "unsure", "broken"}

Found(f, fate) == IF fate = "unread" THEN Absent ELSE ws[f]

ConflictOfBaselines(i, f, fate) ==
    base[i][f] # Absent /\ Found(f, fate) # mirror[i][f] /\ Found(f, fate) # base[i][f]

\* The workspace has changed since the baseline, or has a file of its own.
Conflict(i, f, fate) ==
    /\ Found(f, fate) # mirror[i][f]
    /\ Found(f, fate) # base[i][f] \/ (fate = "unsure" /\ base[i][f] # Absent)

Copied(i, f, fate, policy) ==
    /\ fate # "failed" /\ Found(f, fate) # mirror[i][f]
    /\ Conflict(i, f, fate) => policy = "overwrite"

Meets(i, fs, policy) ==
    {fate \in [fs -> Fates] :
        \A f \in fs : fate[f] = "broken" => Copied(i, f, "broken", policy)}

\* The files that have a fate are merged, under "overwrite" those in conflict
\* too.
Merge(i, fate, policy) ==
    LET copied == {f \in DOMAIN fate : Copied(i, f, fate[f], policy)} IN
    /\ ws' = [f \in Files |-> IF f \notin copied THEN ws[f]
                               ELSE IF fate[f] = "broken" THEN Piece ELSE mirror[i][f]]
    /\ dropped' = [f \in Files |->
            IF f \in copied /\ Conflict(i, f, fate[f])
            THEN dropped[f] \cup (ws[f] \ mirror[i][f]) ELSE dropped[f]]
    /\ lost' = [f \in Files |->
            IF f \in copied /\ fate[f] \in {"unread", "broken"}
            THEN lost[f] \cup (ws[f] \ ws'[f]) ELSE lost[f]]

PruneTree(i) ==
    /\ trees' = trees \ {i}
    /\ mirror' = [mirror EXCEPT ![i] = [f \in Files |-> Absent]]
    /\ base' = [base EXCEPT ![i] = [f \in Files |-> Absent]]

PruneCareless(i, policy) ==
    /\ i \in trees /\ i \notin receipts
    /\ Merge(i, [f \in Held(i) |-> "fine"], policy)
    /\ report' = [report EXCEPT ![i] = {f \in Held(i) : Conflict(i, f, "fine")}]
    /\ receipts' = receipts \cup {i}
    /\ PruneTree(i)
    /\ UNCHANGED <<seen, userSteps, faults, wrote, late, again>>

\* A first collection.  Files may meet failures, the receipt be unwritable or
\* break off, which counts as one later, and the tree be undeletable; the tree
\* is kept unless everything was merged and the receipt is there.
CollectFirst(i, policy) ==
    /\ i \in trees /\ i \notin receipts
    /\ \E fate \in Meets(i, Held(i), policy), receipt \in Copies, deletable \in BOOLEAN :
        LET errors == {f \in Held(i) : fate[f] \in {"failed", "broken"}}
            clashes == {f \in Held(i) \ errors :
                            Conflict(i, f, fate[f]) /\ policy # "overwrite"}
            refused == policy = "fail" /\ clashes # {} IN
        /\ Fault(Cost(\E f \in Held(i) : fate[f] # "fine") + Cost(receipt # "done")
                 + Cost(~deletable))
        /\ Merge(i, fate, policy)
        /\ report' = [report EXCEPT ![i] = errors \cup clashes]
        /\ receipts' = IF refused \/ receipt = "failed" THEN receipts ELSE receipts \cup {i}
        /\ IF receipt = "done" /\ ~refused /\ errors \cup clashes = {} /\ deletable
           THEN PruneTree(i) ELSE UNCHANGED <<trees, mirror, base>>
    /\ UNCHANGED <<seen, userSteps, wrote, late, again>>

\* With a receipt the report is replayed and the tree deleted.
CollectAgain(i) ==
    /\ i \in receipts /\ i \in trees
    /\ PruneTree(i)
    /\ again' = again \cup {i}
    /\ UNCHANGED <<ws, receipts, report, seen, userSteps, faults, wrote, dropped, lost, late>>

Collect(i, policy) == CollectFirst(i, policy) \/ CollectAgain(i)

\* A crash in the walk: some files are merged, one maybe in part, and nothing
\* is recorded.
CutCollect(i, policy) ==
    /\ i \in trees /\ i \notin receipts
    /\ \E fs \in SUBSET Held(i) : \E fate \in Meets(i, fs, policy) : Merge(i, fate, policy)
    /\ UNCHANGED <<mirror, base, trees, receipts, report, seen, userSteps, wrote, late, again>>

-----------------------------------------------------------------------------
(* Properties *)

Late(f) == \E i \in Runs : <<i, f>> \in late

\* No step takes anything out of the workspace that no one decided to drop: a
\* user deletes, a run writes a whole file without what was there, a collection
\* is told to overwrite.  Except for files with a late baseline (below), and
\* for what was in a file when a failing disk broke off its copy or hid it.
NothingUndone ==
    [][\A f \in Files :
        Late(f) \/ ws[f] \ Pieces \subseteq ws'[f] \cup dropped'[f] \cup lost'[f]]_ws

\* What a run has written is in the workspace or still in its tree, whatever
\* conflicts, failures and crashes its collection meets.  Except as above, and
\* where the run was collected again although it had a receipt.
WorkKept ==
    \A i \in Runs \ again, f \in Files :
        <<i, f>> \in wrote /\ ~Late(f) => i \in ws[f] \cup mirror[i][f] \cup dropped[f] \cup lost[f]

\* CollectSubagentTool, sandbox.py: "workspace changed independently ->
\* conflict, surfaced with all three hashes rather than silently clobbered".
NeverClobbered ==
    [][\A f \in Files : ws[f] \subseteq ws'[f] \cup dropped'[f] \cup lost'[f]]_ws
=============================================================================
