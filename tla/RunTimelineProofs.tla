--------------------------- MODULE RunTimelineProofs ---------------------------
(***************************************************************************)
(* Theorems about RunTimeline, for any number of iterations, batches of    *)
(* any length, and any number of failed DAO calls and crashes.             *)
(*                                                                         *)
(* The timeline is in order because an ordinal, once read, stays above     *)
(* every step but those of siblings: only the callbacks of one batch run   *)
(* at the same time, and each inserts nothing but its own observation.     *)
(*                                                                         *)
(* While no write is lost, an observation hangs under its call because the *)
(* step of a call is known before anybody reports it (Announced), and only *)
(* one report of it is ever pending or stored (Once, Placed, Hung).        *)
(*                                                                         *)
(* A closed run explains its spinners because each running step is being   *)
(* looked after, by the recorder, a pending callback or the result that    *)
(* its call still owes, or is loose; and a failed DAO call makes at most   *)
(* one step loose (Counted).                                               *)
(***************************************************************************)
EXTENDS RunTimeline, FiniteSetTheorems, TLAPS

-----------------------------------------------------------------------------
(* Jobs *)

\* An insert comes right after the read of its ordinal.
Paired(j) == \A k \in 1 .. Len(j) : k > 1 /\ j[k].do = "insert" => j[k - 1].do = "read"
Fresh(j) == j # << >> => j[1].do # "insert"
Sound(j) == j \in Seq(Op) /\ Paired(j) /\ Fresh(j)

\* All a job does for a call is to observe it.
Observes(j, c) ==
    \A k \in 1 .. Len(j) :
        /\ j[k].do # "finish"
        /\ j[k].do = "insert" => j[k].kind = "observation" /\ j[k].call = c

\* All a job does is to finish the run.
Ending(j) == \A k \in 1 .. Len(j) : j[k].do = "finish"

-----------------------------------------------------------------------------
(* The strengthening *)

Free == \A i \in Slots : job[i] = << >>

\* The batch has the floor only while the loop waits in gather(), or has left it
\* by an exception and has nothing more to do than to close the run.
OneAtATime == IF Running THEN Ending(job[0]) ELSE Free

\* A batch belongs to an iteration.
Started == pc \in {"answer", "prepare"} \/ Running => iteration > 0

JobsPaired == \A p \in Procs : Paired(job[p])
SlotsObserve == \A i \in Slots : Observes(job[i], <<iteration, i>>)

Below(s, o, kind, call) ==
    \/ s.ordinal < o
    \/ /\ s.kind = "observation" /\ kind = "observation"
       /\ s.call[1] = call[1] /\ s.call[2] # call[2]

\* An ordinal that was read is above all steps but siblings.
Reserved ==
    \A p \in Procs : job[p] # << >> /\ job[p][1].do = "insert" =>
        \A i \in 1 .. Len(steps) :
            Below(steps[i], ordinal[p], job[p][1].kind, job[p][1].call)

HasLast ==
    steps # << >> => \E m \in 1 .. Len(steps) : \A i \in 1 .. Len(steps) :
                         steps[i].ordinal <= steps[m].ordinal

InOrder ==
    \A i, j \in 1 .. Len(steps) :
        i < j => Below(steps[i], steps[j].ordinal, steps[j].kind, steps[j].call)

IInv ==
    /\ TypeOK /\ Started /\ OneAtATime /\ JobsPaired /\ SlotsObserve
    /\ Reserved /\ HasLast /\ InOrder

-----------------------------------------------------------------------------
(* The lists of DAO calls are sound *)

\* Sound jobs make a sound job.
LEMMA SoundConcat ==
    ASSUME NEW s, NEW t, Sound(s), Sound(t)
    PROVE  Sound(s \o t)
<1>1. s \o t \in Seq(Op) /\ Len(s \o t) = Len(s) + Len(t)
      /\ \A k \in 1 .. Len(s) + Len(t) :
             (s \o t)[k] = IF k <= Len(s) THEN s[k] ELSE t[k - Len(s)]
  BY DEF Sound
<1>2. Paired(s \o t)
  <2>1. SUFFICES ASSUME NEW k \in 1 .. Len(s) + Len(t), k > 1, (s \o t)[k].do = "insert"
                 PROVE  (s \o t)[k - 1].do = "read"
    BY <1>1 DEF Paired
  <2>2. Len(s) \in Nat /\ Len(t) \in Nat
    BY DEF Sound
  <2>3. CASE k <= Len(s)
    BY <1>1, <2>1, <2>2, <2>3 DEF Sound, Paired
  <2>4. CASE k = Len(s) + 1
    BY <1>1, <2>1, <2>2, <2>4 DEF Sound, Fresh
  <2>5. CASE k > Len(s) + 1
    <3>1. k - Len(s) \in 1 .. Len(t) /\ k - Len(s) > 1
      BY <2>2, <2>5
    <3>2. t[k - Len(s)].do = "insert" /\ (s \o t)[k - 1] = t[(k - Len(s)) - 1]
      BY <1>1, <2>1, <2>2, <2>5
    <3> QED BY <3>1, <3>2 DEF Sound, Paired
  <2>6. k <= Len(s) \/ k = Len(s) + 1 \/ k > Len(s) + 1
    BY <2>2
  <2> QED BY <2>3, <2>4, <2>5, <2>6
<1>3. Fresh(s \o t)
  <2>1. CASE s = << >>
    <3>1. s \o t = t
      BY <2>1 DEF Sound
    <3> QED BY <3>1 DEF Sound
  <2>2. CASE s # << >>
    <3>1. Len(s) >= 1 /\ s[1].do # "insert"
      BY <2>2 DEF Sound, Fresh
    <3>2. (s \o t)[1] = s[1]
      BY <1>1, <3>1 DEF Sound
    <3> QED BY <3>1, <3>2 DEF Fresh
  <2> QED BY <2>1, <2>2
<1> QED BY <1>1, <1>2, <1>3 DEF Sound

\* So do jobs that observe one call.
LEMMA ObservesConcat ==
    ASSUME NEW s \in Seq(Op), NEW t \in Seq(Op), NEW c, Observes(s, c), Observes(t, c)
    PROVE  Observes(s \o t, c)
<1>1. SUFFICES ASSUME NEW k \in 1 .. Len(s) + Len(t)
               PROVE  /\ (s \o t)[k].do # "finish"
                      /\ (s \o t)[k].do = "insert" =>
                             (s \o t)[k].kind = "observation" /\ (s \o t)[k].call = c
  BY DEF Observes
<1>2. CASE k <= Len(s)
  BY <1>1, <1>2 DEF Observes
<1>3. CASE k > Len(s)
  <2>1. k - Len(s) \in 1 .. Len(t) /\ (s \o t)[k] = t[k - Len(s)]
    BY <1>3
  <2> QED BY <1>1, <2>1 DEF Observes
<1> QED BY <1>2, <1>3

\* No DAO call at all, and the one-call lists.
LEMMA SoundParts ==
    /\ Sound(<< >>)
    /\ \A step \in Nat, status \in StepStatus : Sound(Close(step, status))
    /\ \A status \in StepStatus : Sound(CloseLatest(status))
    /\ \A status \in RunStatus : Sound(Finish(status))
<1> USE DEF Sound, Paired, Fresh
<1>1. Sound(<< >>)
  OBVIOUS
<1>2. ASSUME NEW step \in Nat, NEW status \in StepStatus PROVE Sound(Close(step, status))
  BY DEF Close, Op, Kind, StepStatus, RunStatus
<1>3. ASSUME NEW status \in StepStatus PROVE Sound(CloseLatest(status))
  BY DEF CloseLatest, Op, Kind, StepStatus, RunStatus
<1>4. ASSUME NEW status \in RunStatus PROVE Sound(Finish(status))
  BY DEF Finish, Op, Kind, StepStatus, RunStatus
<1> QED BY <1>1, <1>2, <1>3, <1>4

\* create_step(): the read, then the insert.
LEMMA SoundCreate ==
    ASSUME NEW kind \in Kind, NEW status \in StepStatus,
           NEW call \in Calls \cup {NoCall}, NEW parent \in Nat
    PROVE  Sound(Create(kind, status, call, parent))
<1> DEFINE a == [do |-> "read", kind |-> kind, status |-> status, call |-> call, step |-> parent]
           b == [do |-> "insert", kind |-> kind, status |-> status, call |-> call, step |-> parent]
<1>1. a \in Op /\ b \in Op
  BY DEF Op, StepStatus, RunStatus
<1>2. a.do = "read"
  OBVIOUS
<1>3. Create(kind, status, call, parent) = <<a, b>>
  BY DEF Create
<1> HIDE DEF a, b
<1>4. <<a, b>> \in Seq(Op) /\ Len(<<a, b>>) = 2 /\ <<a, b>>[1] = a
  BY <1>1
<1>5. \A k \in 1 .. 2 : k > 1 => k - 1 = 1
  OBVIOUS
<1> QED BY <1>2, <1>3, <1>4, <1>5 DEF Sound, Paired, Fresh
\* The recorder's callbacks are sound, and tool_result() observes its call.
LEMMA JobsSound ==
    ASSUME TypeOK
    PROVE  /\ Sound(CloseThought)
           /\ Sound(CloseThought \o Create("thought", "running", NoCall, 0))
           /\ \A status \in StepStatus : Sound(StatusStep(status))
           /\ \A c \in Calls : Sound(CallJob(c))
           /\ \A status \in {"completed", "cancelled"} : Sound(CompleteJob(status))
           /\ Sound(Finish("failed"))
<1> USE SoundParts, SoundCreate
<1>1. Sound(CloseThought)
  BY DEF CloseThought, TypeOK, StepStatus
<1>2. Sound(CloseThought \o Create("thought", "running", NoCall, 0))
  <2>1. Sound(Create("thought", "running", NoCall, 0))
    BY DEF Kind, StepStatus
  <2> QED BY <1>1, <2>1, SoundConcat
<1>3. \A status \in StepStatus : Sound(StatusStep(status))
  BY DEF StatusStep, Kind
<1>4. \A c \in Calls : Sound(CallJob(c))
  BY DEF CallJob, Kind, StepStatus
<1>5. ASSUME NEW status \in {"completed", "cancelled"} PROVE Sound(CompleteJob(status))
  <2>1. Sound(Create("final", "running", NoCall, 0))
    BY DEF Kind, StepStatus
  <2>2. Sound(CloseLatest("completed")) /\ Sound(Finish(status))
    BY DEF StepStatus, RunStatus
  <2>3. Sound(Create("final", "running", NoCall, 0) \o CloseLatest("completed"))
    BY <2>1, <2>2, SoundConcat
  <2> QED BY <2>2, <2>3, SoundConcat DEF CompleteJob
<1>6. Sound(Finish("failed"))
  BY DEF RunStatus
<1> QED BY <1>1, <1>2, <1>3, <1>4, <1>5, <1>6

\* tool_result() is sound and observes nothing but its own call.
LEMMA ResultJobSound ==
    ASSUME TypeOK, NEW c \in Calls, NEW status \in {"completed", "failed"}
    PROVE  Sound(ResultJob(c, status)) /\ Observes(ResultJob(c, status), c)
<1> DEFINE first == IF toolSteps[c] = 0 THEN << >> ELSE Close(toolSteps[c], status)
           mid == Create("observation", "running", c, toolSteps[c])
           last == CloseLatest(status)
<1>1. status \in StepStatus /\ toolSteps[c] \in Nat
  BY DEF StepStatus, TypeOK
<1>2. Sound(first) /\ Sound(mid) /\ Sound(last)
  <2>1. Sound(first)
    BY <1>1, SoundParts
  <2>2. Sound(mid)
    BY <1>1, SoundCreate DEF Kind, StepStatus
  <2>3. Sound(last)
    BY <1>1, SoundParts
  <2> QED BY <2>1, <2>2, <2>3
<1>3. Observes(first, c) /\ Observes(mid, c) /\ Observes(last, c)
  <2>1. Observes(first, c)
    BY DEF Observes, Close
  <2>2. Observes(mid, c)
    BY DEF Observes, Create
  <2>3. Observes(last, c)
    BY DEF Observes, CloseLatest
  <2> QED BY <2>1, <2>2, <2>3
<1>4. ResultJob(c, status) = first \o mid \o last
  BY DEF ResultJob
<1> HIDE DEF first, mid, last
<1>5. Sound(first \o mid) /\ Observes(first \o mid, c)
  BY <1>2, <1>3, SoundConcat, ObservesConcat DEF Sound
<1>6. Sound((first \o mid) \o last) /\ Observes((first \o mid) \o last, c)
  BY <1>2, <1>3, <1>5, SoundConcat, ObservesConcat DEF Sound
<1> QED BY <1>4, <1>6

-----------------------------------------------------------------------------
(* What a DAO call does to the timeline *)

\* The rows that order the timeline stay as they are.
SamePlaces ==
    /\ Len(steps') = Len(steps)
    /\ \A i \in 1 .. Len(steps) :
           /\ steps'[i].ordinal = steps[i].ordinal
           /\ steps'[i].kind = steps[i].kind /\ steps'[i].call = steps[i].call

\* A row is added at the end.
OneMore(o, kind, call) ==
    /\ Len(steps') = Len(steps) + 1
    /\ \A i \in 1 .. Len(steps) : steps'[i] = steps[i]
    /\ steps'[Len(steps) + 1].ordinal = o
    /\ steps'[Len(steps) + 1].kind = kind /\ steps'[Len(steps) + 1].call = call

\* Closing a step leaves its place in the timeline alone.
LEMMA ClosedKeeps ==
    ASSUME TypeOK, NEW n \in Nat, NEW status \in StepStatus, steps' = Closed(n, status)
    PROVE  steps' \in Seq(Step) /\ SamePlaces
<1>1. steps \in Seq(Step)
  BY DEF TypeOK
<1>2. DOMAIN steps' = 1 .. Len(steps)
  BY <1>1 DEF Closed
<1>3. ASSUME NEW i \in 1 .. Len(steps)
      PROVE  /\ steps'[i] \in Step
             /\ steps'[i].ordinal = steps[i].ordinal
             /\ steps'[i].kind = steps[i].kind /\ steps'[i].call = steps[i].call
  <2>1. steps[i] \in Step
    BY <1>1
  <2>2. steps'[i] = IF i = n THEN [steps[i] EXCEPT !.status = status] ELSE steps[i]
    BY <1>1 DEF Closed
  <2>3. CASE i = n
    <3>1. steps'[i] = [steps[i] EXCEPT !.status = status]
      BY <2>2, <2>3
    <3> QED BY <2>1, <3>1 DEF Step
  <2>4. CASE i # n
    BY <2>1, <2>2, <2>4
  <2> QED BY <2>3, <2>4
<1>4. steps' = [i \in 1 .. Len(steps) |-> steps'[i]]
  BY <1>1, <1>2 DEF Closed
<1>5. Len(steps) \in Nat
  BY <1>1
<1>6. steps' \in Seq(Step) /\ Len(steps') = Len(steps)
  <2> DEFINE new(i) == steps'[i]
  <2>1. \A i \in 1 .. Len(steps) : new(i) \in Step
    BY <1>3
  <2>2. steps' = [i \in 1 .. Len(steps) |-> new(i)]
    BY <1>4
  <2> HIDE DEF new
  <2> QED BY <1>5, <2>1, <2>2
<1> QED BY <1>3, <1>6 DEF SamePlaces

\* A DAO call keeps the types; it appends the row it inserts and moves no other.
LEMMA ApplyKeeps ==
    ASSUME TypeOK, NEW p \in Procs, NEW op \in Op, Apply(p, op)
    PROVE  /\ steps' \in Seq(Step) /\ run' \in RunStatus
           /\ op.do # "insert" => SamePlaces
           /\ op.do = "insert" => OneMore(ordinal[p], op.kind, op.call)
<1>1. steps \in Seq(Step) /\ run \in RunStatus /\ ordinal[p] \in Nat /\ latest[p] \in Nat
  BY DEF TypeOK
<1>2. op.step \in Nat /\ op.status \in RunStatus /\ op.kind \in Kind
      /\ op.call \in Calls \cup {NoCall} /\ (op.do # "finish" => op.status \in StepStatus)
  BY DEF Op
<1>3. run' \in RunStatus
  BY <1>1, <1>2 DEF Apply
<1>4. CASE op.do = "close"
  <2>1. steps' = Closed(op.step, op.status)
    BY <1>4 DEF Apply
  <2> QED BY <1>2, <1>3, <1>4, <2>1, ClosedKeeps
<1>5. CASE op.do = "close_latest"
  <2>1. steps' = Closed(latest[p], op.status)
    BY <1>5 DEF Apply
  <2> QED BY <1>1, <1>2, <1>3, <1>5, <2>1, ClosedKeeps
<1>6. CASE op.do = "insert"
  <2> DEFINE row == [kind |-> op.kind, status |-> op.status, call |-> op.call,
                     parent |-> op.step, ordinal |-> ordinal[p]]
  <2>1. steps' = Append(steps, row)
    BY <1>6 DEF Apply
  <2>2. row \in Step
    BY <1>1, <1>2, <1>6 DEF Step
  <2>3. row.ordinal = ordinal[p] /\ row.kind = op.kind /\ row.call = op.call
    OBVIOUS
  <2> HIDE DEF row
  <2>4. steps' \in Seq(Step) /\ Len(steps') = Len(steps) + 1
        /\ (\A i \in 1 .. Len(steps) : steps'[i] = steps[i])
        /\ steps'[Len(steps) + 1] = row
    BY <1>1, <2>1, <2>2
  <2> QED BY <1>3, <1>6, <2>3, <2>4 DEF OneMore
<1>7. CASE op.do \notin {"close", "close_latest", "insert"}
  <2>1. steps' = steps
    BY <1>7 DEF Apply
  <2> QED BY <1>1, <1>3, <1>7, <2>1 DEF SamePlaces
<1> QED BY <1>4, <1>5, <1>6, <1>7
\* MAX(ordinal) + 1 is above every ordinal.
LEMMA NextAbove ==
    ASSUME TypeOK, HasLast
    PROVE  /\ NextOrdinal \in Nat
           /\ \A i \in 1 .. Len(steps) : steps[i].ordinal < NextOrdinal
<1>1. steps \in Seq(Step) /\ Len(steps) \in Nat /\ DOMAIN steps = 1 .. Len(steps)
  BY DEF TypeOK
<1>2. CASE steps = << >>
  BY <1>1, <1>2 DEF NextOrdinal
<1>3. CASE steps # << >>
  <2> DEFINE all == {steps[i].ordinal : i \in DOMAIN steps}
             top == CHOOSE m \in all : \A i \in DOMAIN steps : steps[i].ordinal <= m
  <2>1. PICK n \in 1 .. Len(steps) : \A i \in 1 .. Len(steps) :
                 steps[i].ordinal <= steps[n].ordinal
    BY <1>3 DEF HasLast
  <2>2. \E m \in all : \A i \in DOMAIN steps : steps[i].ordinal <= m
    BY <1>1, <2>1
  <2>3. top \in all /\ \A i \in DOMAIN steps : steps[i].ordinal <= top
    BY <2>2
  <2>4. all \subseteq Nat
    <3>1. \A i \in 1 .. Len(steps) : steps[i] \in Step
      BY <1>1
    <3>2. \A i \in 1 .. Len(steps) : steps[i].ordinal \in Nat
      BY <3>1 DEF Step
    <3> QED BY <1>1, <3>2
  <2>5. NextOrdinal = 1 + top
    BY <1>3 DEF NextOrdinal
  <2>6. \A i \in 1 .. Len(steps) : steps[i].ordinal \in all
    BY <1>1
  <2> HIDE DEF all, top
  <2>7. top \in Nat /\ \A i \in 1 .. Len(steps) : steps[i].ordinal \in Nat
    BY <2>3, <2>4, <2>6
  <2> QED BY <1>1, <2>3, <2>5, <2>7
<1> QED BY <1>2, <1>3

\* Two callbacks with steps to write are siblings of one batch.
LEMMA OnlySiblings ==
    ASSUME TypeOK, OneAtATime, NEW p \in Procs, NEW q \in Procs, p # q,
           job[p] # << >>, job[q] # << >>,
           job[p][1].do # "finish", job[q][1].do # "finish"
    PROVE  p \in Slots /\ q \in Slots
<1>1. \A r \in Procs : r # 0 => r \in Slots
  BY TimelineAssumption DEF Procs, Slots
<1>2. Running
  BY <1>1 DEF OneAtATime, Free
<1>3. 1 \in 1 .. Len(job[p]) /\ 1 \in 1 .. Len(job[q])
  BY DEF TypeOK
<1>4. p # 0 /\ q # 0
  BY <1>2, <1>3 DEF OneAtATime, Ending
<1> QED BY <1>1, <1>4

\* The database section of a DAO call keeps the timeline in order, and keeps
\* the ordinals the other callbacks have read above it.
LEMMA ApplyInOrder ==
    ASSUME IInv, NEW p \in Procs, job[p] # << >>, Apply(p, job[p][1])
    PROVE  /\ HasLast' /\ InOrder'
           /\ \A q \in Procs \ {p} : job[q] # << >> /\ job[q][1].do = "insert" =>
                  \A i \in 1 .. Len(steps') :
                      Below(steps'[i], ordinal[q], job[q][1].kind, job[q][1].call)
<1> DEFINE op == job[p][1]
           n == Len(steps)
<1>1. op \in Op /\ 1 \in 1 .. Len(job[p]) /\ ordinal[p] \in Nat
  BY DEF IInv, TypeOK
<1>2. steps \in Seq(Step) /\ n \in Nat /\ steps' \in Seq(Step)
      /\ (op.do # "insert" => SamePlaces)
      /\ (op.do = "insert" => OneMore(ordinal[p], op.kind, op.call))
  BY <1>1, ApplyKeeps DEF IInv, TypeOK
<1>3. \A i \in 1 .. n : steps[i].ordinal \in Nat
  <2>1. \A i \in 1 .. n : steps[i] \in Step
    BY <1>2
  <2> QED BY <2>1 DEF Step
<1> HIDE DEF op
<1>4. CASE op.do # "insert"
  <2>1. Len(steps') = n /\ \A i \in 1 .. n :
            /\ steps'[i].ordinal = steps[i].ordinal
            /\ steps'[i].kind = steps[i].kind /\ steps'[i].call = steps[i].call
    BY <1>2, <1>4 DEF SamePlaces
  <2>2. HasLast'
    <3>1. steps' # << >> => steps # << >>
      BY <1>2, <2>1
    <3>2. HasLast
      BY DEF IInv
    <3> QED BY <2>1, <3>1, <3>2 DEF HasLast
  <2>3. InOrder'
    BY <2>1 DEF InOrder, IInv, Below
  <2>4. ASSUME NEW q \in Procs \ {p}, job[q] # << >>, job[q][1].do = "insert"
        PROVE  \A i \in 1 .. Len(steps') :
                   Below(steps'[i], ordinal[q], job[q][1].kind, job[q][1].call)
    BY <2>1, <2>4 DEF Reserved, IInv, Below
  <2> QED BY <2>2, <2>3, <2>4
<1>5. CASE op.do = "insert"
  <2> DEFINE new == steps'[n + 1]
  <2>1. /\ Len(steps') = n + 1
        /\ \A i \in 1 .. n : steps'[i] = steps[i]
        /\ new.ordinal = ordinal[p] /\ new.kind = op.kind /\ new.call = op.call
    BY <1>2, <1>5 DEF OneMore
  <2>2. \A i \in 1 .. n : Below(steps[i], ordinal[p], op.kind, op.call)
    BY <1>5 DEF Reserved, IInv, op
  <2>3. HasLast'
    <3>1. CASE n = 0
      <4>1. 1 \in 1 .. Len(steps') /\ \A i \in 1 .. Len(steps') : i = 1
        BY <2>1, <3>1
      <4>2. steps'[1].ordinal \in Nat
        BY <1>1, <2>1, <3>1
      <4> QED BY <4>1, <4>2 DEF HasLast
    <3>2. CASE n # 0
      <4>1. PICK m \in 1 .. n : \A i \in 1 .. n : steps[i].ordinal <= steps[m].ordinal
        BY <1>2, <3>2 DEF HasLast, IInv
      <4>2. \A i \in 1 .. Len(steps') : i \in 1 .. n \/ i = n + 1
        BY <1>2, <2>1
      <4>3. \A i \in 1 .. n : steps'[i].ordinal = steps[i].ordinal
        BY <2>1
      <4>4. m \in 1 .. Len(steps') /\ n + 1 \in 1 .. Len(steps')
        BY <1>2, <2>1
      <4>5. CASE steps[m].ordinal >= ordinal[p]
        <5>1. \A i \in 1 .. Len(steps') : steps'[i].ordinal <= steps'[m].ordinal
          BY <1>1, <1>3, <2>1, <4>1, <4>2, <4>3, <4>5
        <5> QED BY <4>4, <5>1 DEF HasLast
      <4>6. CASE steps[m].ordinal < ordinal[p]
        <5>1. \A i \in 1 .. Len(steps') : steps'[i].ordinal <= steps'[n + 1].ordinal
          BY <1>1, <1>3, <2>1, <4>1, <4>2, <4>3, <4>6
        <5> QED BY <4>4, <5>1 DEF HasLast
      <4> QED BY <1>1, <1>3, <4>5, <4>6
    <3> QED BY <3>1, <3>2
  <2>4. InOrder'
    <3>1. SUFFICES ASSUME NEW i \in 1 .. n + 1, NEW j \in 1 .. n + 1, i < j
                   PROVE  Below(steps'[i], steps'[j].ordinal, steps'[j].kind, steps'[j].call)
      BY <2>1 DEF InOrder
    <3>2. i \in 1 .. n /\ (j \in 1 .. n \/ j = n + 1)
      BY <1>2, <3>1
    <3>3. CASE j \in 1 .. n
      BY <2>1, <3>1, <3>2, <3>3 DEF InOrder, IInv
    <3>4. CASE j = n + 1
      BY <2>1, <2>2, <3>2, <3>4
    <3> QED BY <3>2, <3>3, <3>4
  <2>5. ASSUME NEW q \in Procs \ {p}, job[q] # << >>, job[q][1].do = "insert",
               NEW i \in 1 .. n + 1
        PROVE  Below(steps'[i], ordinal[q], job[q][1].kind, job[q][1].call)
    <3>1. CASE i \in 1 .. n
      BY <2>1, <2>5, <3>1 DEF Reserved, IInv
    <3>2. CASE i = n + 1
      <4>1. p \in Slots /\ q \in Slots
        BY <1>5, <2>5, OnlySiblings DEF IInv, op
      <4>2. op.kind = "observation" /\ op.call = <<iteration, p>>
        BY <1>1, <1>5, <4>1 DEF SlotsObserve, Observes, IInv, op
      <4>3. 1 \in 1 .. Len(job[q])
        BY <2>5 DEF IInv, TypeOK
      <4>4. job[q][1].kind = "observation" /\ job[q][1].call = <<iteration, q>>
        BY <2>5, <4>1, <4>3 DEF SlotsObserve, Observes, IInv
      <4>5. new.kind = "observation" /\ new.call[1] = job[q][1].call[1]
            /\ new.call[2] # job[q][1].call[2]
        BY <2>1, <2>5, <4>2, <4>4
      <4> QED BY <3>2, <4>4, <4>5 DEF Below
    <3> QED BY <1>2, <2>5, <3>1, <3>2
  <2> QED BY <2>1, <2>3, <2>4, <2>5
<1> QED BY <1>4, <1>5 DEF op
-----------------------------------------------------------------------------
(* Every step keeps the invariant *)

\* The job of a callback loses its first DAO call.
LEMMA TailKeeps ==
    ASSUME NEW j \in Seq(Op), j # << >>, Paired(j)
    PROVE  /\ Tail(j) \in Seq(Op) /\ Paired(Tail(j))
           /\ Tail(j) # << >> /\ Tail(j)[1].do = "insert" => j[1].do = "read"
           /\ \A c : Observes(j, c) => Observes(Tail(j), c)
<1>1. Len(j) \in Nat /\ Tail(j) \in Seq(Op) /\ Len(Tail(j)) = Len(j) - 1
  OBVIOUS
<1>2. \A k \in 1 .. Len(j) - 1 : k + 1 \in 1 .. Len(j) /\ Tail(j)[k] = j[k + 1]
  OBVIOUS
<1>3. Paired(Tail(j))
  <2>1. SUFFICES ASSUME NEW k \in 1 .. Len(j) - 1, k > 1, Tail(j)[k].do = "insert"
                 PROVE  Tail(j)[k - 1].do = "read"
    BY <1>1 DEF Paired
  <2>2. k + 1 \in 1 .. Len(j) /\ k + 1 > 1 /\ (k + 1) - 1 = k /\ (k - 1) + 1 = k
        /\ k - 1 \in 1 .. Len(j) - 1
    BY <1>1, <2>1
  <2>3. j[k].do = "read"
    BY <1>2, <2>1, <2>2 DEF Paired
  <2> QED BY <1>2, <2>2, <2>3
<1>4. Tail(j) # << >> /\ Tail(j)[1].do = "insert" => j[1].do = "read"
  <2>1. SUFFICES ASSUME Tail(j) # << >>, Tail(j)[1].do = "insert" PROVE j[1].do = "read"
    OBVIOUS
  <2>2. 2 \in 1 .. Len(j) /\ Tail(j)[1] = j[2]
    BY <2>1
  <2>3. 2 > 1 /\ 2 - 1 = 1
    OBVIOUS
  <2> QED BY <2>1, <2>2, <2>3 DEF Paired
<1>5. ASSUME NEW c, Observes(j, c) PROVE Observes(Tail(j), c)
  BY <1>1, <1>2, <1>5 DEF Observes
<1> QED BY <1>1, <1>3, <1>4, <1>5

\* A step outside the batch that touches no row may start a sound callback.
LEMMA QuietStep ==
    ASSUME IInv, TypeOK', Started', UNCHANGED steps, Sound(job'[0]), Free',
           Running' => job'[0] = << >>
    PROVE  IInv'
<1>1. \A p \in Procs : p = 0 \/ p \in Slots
  BY TimelineAssumption DEF Procs, Slots
<1>2. \A i \in Slots : job'[i] = << >>
  BY DEF Free
<1>3. OneAtATime'
  BY DEF OneAtATime, Ending
<1>4. JobsPaired'
  <2>1. Paired(<< >>)
    BY SoundParts DEF Sound
  <2> QED BY <1>1, <1>2, <2>1 DEF JobsPaired, Sound
<1>5. SlotsObserve'
  BY <1>2 DEF SlotsObserve, Observes
<1>6. Reserved'
  BY <1>1, <1>2 DEF Reserved, Sound, Fresh
<1>7. HasLast' /\ InOrder'
  BY DEF IInv, HasLast, InOrder
<1> QED BY <1>3, <1>4, <1>5, <1>6, <1>7 DEF IInv

\* A call of the batch reports its result.
LEMMA ReportStep ==
    ASSUME IInv, TypeOK', Started', NEW i \in Slots, NEW j, Sound(j), Observes(j, <<iteration, i>>),
           job' = [job EXCEPT ![i] = j], Running, UNCHANGED <<steps, ordinal, iteration, pc>>
    PROVE  IInv'
<1>1. job \in [Procs -> Seq(Op)] /\ i \in Procs /\ i # 0
  <2>1. job \in [Procs -> Seq(Op)]
    BY DEF IInv, TypeOK
  <2> QED BY <2>1, TimelineAssumption DEF Procs, Slots
<1>2. job'[i] = j /\ \A p \in Procs \ {i} : job'[p] = job[p]
  BY <1>1
<1>3. 0 \in Procs /\ Slots \subseteq Procs
  BY TimelineAssumption DEF Procs, Slots
<1>4. OneAtATime'
  BY <1>1, <1>2, <1>3 DEF OneAtATime, Running, IInv
<1>5. JobsPaired'
  BY <1>2 DEF JobsPaired, IInv, Sound
<1>6. SlotsObserve'
  BY <1>2, <1>3 DEF SlotsObserve, IInv
<1>7. Reserved'
  BY <1>2 DEF Reserved, IInv, Sound, Fresh
<1>8. HasLast' /\ InOrder'
  BY DEF IInv, HasLast, InOrder
<1> QED BY <1>4, <1>5, <1>6, <1>7, <1>8 DEF IInv

\* A DAO call that returns.
LEMMA DaoCallStep ==
    ASSUME IInv, NEW p \in Procs, DaoCall(p)
    PROVE  IInv'
<1> DEFINE op == job[p][1]
<1>1. job \in [Procs -> Seq(Op)] /\ job[p] \in Seq(Op) /\ job[p] # << >>
      /\ op \in Op /\ Head(job[p]) = op
  <2>1. job \in [Procs -> Seq(Op)] /\ job[p] # << >>
    BY DEF IInv, TypeOK, DaoCall
  <2>2. job[p] \in Seq(Op)
    BY <2>1
  <2> QED BY <2>1, <2>2
<1>2. Apply(p, op)
  BY <1>1 DEF DaoCall
<1>3. steps' \in Seq(Step) /\ run' \in RunStatus /\ (op.do # "insert" => SamePlaces)
  BY <1>1, <1>2, ApplyKeeps DEF IInv
<1>4. HasLast' /\ InOrder'
  BY <1>1, <1>2, ApplyInOrder
<1>5. \A q \in Procs \ {p} : job[q] # << >> /\ job[q][1].do = "insert" =>
          \A i \in 1 .. Len(steps') :
              Below(steps'[i], ordinal[q], job[q][1].kind, job[q][1].call)
  BY <1>1, <1>2, ApplyInOrder
<1> HIDE DEF op
<1>6. /\ ordinal' = IF op.do = "read" THEN [ordinal EXCEPT ![p] = NextOrdinal] ELSE ordinal
      /\ latest' = IF op.do = "insert" THEN [latest EXCEPT ![p] = Len(steps) + 1] ELSE latest
      /\ thinking' = IF op.do = "insert" /\ op.kind = "thought" THEN Len(steps) + 1 ELSE thinking
      /\ toolSteps' = IF op.do = "insert" /\ op.kind = "tool_call"
                      THEN [toolSteps EXCEPT ![op.call] = Len(steps) + 1] ELSE toolSteps
      /\ job' = [job EXCEPT ![p] = Tail(job[p])]
      /\ UNCHANGED <<pc, iteration, size, next, fate, faults, crashes>>
  BY <1>1 DEF DaoCall, loopVars
<1>7. NextOrdinal \in Nat /\ \A i \in 1 .. Len(steps) : steps[i].ordinal < NextOrdinal
  BY NextAbove DEF IInv
<1>8. Len(steps) + 1 \in Nat
  BY DEF IInv, TypeOK
<1>9. /\ Tail(job[p]) \in Seq(Op) /\ Paired(Tail(job[p]))
      /\ Tail(job[p]) # << >> /\ Tail(job[p])[1].do = "insert" => op.do = "read"
      /\ \A c : Observes(job[p], c) => Observes(Tail(job[p]), c)
  BY <1>1, TailKeeps DEF IInv, JobsPaired, op
<1>10. TypeOK'
  <2>1. ordinal' \in [Procs -> Nat]
    BY <1>6, <1>7 DEF IInv, TypeOK
  <2>2. latest' \in [Procs -> Nat]
    BY <1>6, <1>8 DEF IInv, TypeOK
  <2>3. thinking' \in Nat
    BY <1>6, <1>8 DEF IInv, TypeOK
  <2>4. toolSteps' \in [Calls -> Nat]
    BY <1>6, <1>8 DEF IInv, TypeOK
  <2>5. job' \in [Procs -> Seq(Op)]
    BY <1>1, <1>6, <1>9
  <2>6. TypeOK
    BY DEF IInv
  <2> QED BY <1>3, <1>6, <2>1, <2>2, <2>3, <2>4, <2>5, <2>6 DEF TypeOK
<1>11. job'[p] = Tail(job[p]) /\ \A q \in Procs \ {p} : job'[q] = job[q]
  BY <1>1, <1>6
<1>12. 0 \in Procs /\ Slots \subseteq Procs
  BY TimelineAssumption DEF Procs, Slots
<1>13. OneAtATime'
  <2>1. CASE Running
    <3>1. Ending(job[0])
      BY <2>1 DEF OneAtATime, IInv
    <3>2. Ending(job'[0])
      <4>1. CASE p = 0
        BY <1>1, <1>11, <3>1, <4>1 DEF Ending
      <4>2. CASE p # 0
        BY <1>11, <1>12, <3>1, <4>2
      <4> QED BY <4>1, <4>2
    <3> QED BY <1>6, <2>1, <3>2 DEF OneAtATime, Running
  <2>2. CASE ~Running
    <3>1. \A q \in Procs : job[q] = << >> => job'[q] = << >>
      BY <1>1, <1>11
    <3> QED BY <1>6, <1>12, <2>2, <3>1 DEF OneAtATime, Running, Free, IInv
  <2> QED BY <2>1, <2>2
<1>14. JobsPaired'
  BY <1>9, <1>11 DEF JobsPaired, IInv
<1>15. SlotsObserve'
  <2>1. ASSUME NEW i \in Slots PROVE Observes(job'[i], <<iteration, i>>)
    <3>1. Observes(job[i], <<iteration, i>>)
      BY DEF SlotsObserve, IInv
    <3> QED BY <1>9, <1>11, <1>12, <3>1
  <2> QED BY <1>6, <2>1 DEF SlotsObserve
<1>16. Reserved'
  <2>1. ASSUME NEW q \in Procs, job'[q] # << >>, job'[q][1].do = "insert",
               NEW i \in 1 .. Len(steps')
        PROVE  Below(steps'[i], ordinal'[q], job'[q][1].kind, job'[q][1].call)
    <3>1. CASE q = p
      <4>1. op.do = "read"
        BY <1>9, <1>11, <2>1, <3>1
      <4>2. steps'[i].ordinal < NextOrdinal
        BY <1>3, <1>7, <4>1 DEF SamePlaces
      <4>3. ordinal'[q] = NextOrdinal
        BY <1>6, <3>1, <4>1 DEF IInv, TypeOK
      <4> QED BY <4>2, <4>3 DEF Below
    <3>2. CASE q # p
      <4>1. ordinal'[q] = ordinal[q]
        BY <1>6, <3>2 DEF IInv, TypeOK
      <4> QED BY <1>5, <1>11, <2>1, <3>2, <4>1
    <3> QED BY <3>1, <3>2
  <2> QED BY <2>1 DEF Reserved
<1>17. Started'
  BY <1>6 DEF Started, Running, IInv
<1> QED BY <1>4, <1>10, <1>13, <1>14, <1>15, <1>16, <1>17 DEF IInv

\* A DAO call that raises, whether or not it has written.
LEMMA DaoFailsStep ==
    ASSUME IInv, NEW p \in Procs, DaoFails(p)
    PROVE  IInv'
<1> DEFINE op == job[p][1]
<1>1. job \in [Procs -> Seq(Op)] /\ job[p] \in Seq(Op) /\ job[p] # << >>
      /\ op \in Op /\ Head(job[p]) = op
  <2>1. job \in [Procs -> Seq(Op)] /\ job[p] # << >>
    BY DEF IInv, TypeOK, DaoFails
  <2>2. job[p] \in Seq(Op)
    BY <2>1
  <2> QED BY <2>1, <2>2
<1>2. /\ steps' \in Seq(Step) /\ run' \in RunStatus /\ HasLast' /\ InOrder'
      /\ \A q \in Procs \ {p} : job[q] # << >> /\ job[q][1].do = "insert" =>
             \A i \in 1 .. Len(steps') :
                 Below(steps'[i], ordinal[q], job[q][1].kind, job[q][1].call)
  <2>1. CASE Apply(p, op)
    <3>1. steps' \in Seq(Step) /\ run' \in RunStatus
      BY <1>1, <2>1, ApplyKeeps DEF IInv
    <3> QED BY <1>1, <2>1, <3>1, ApplyInOrder
  <2>2. CASE UNCHANGED <<steps, run>>
    BY <2>2 DEF IInv, TypeOK, HasLast, InOrder, Reserved
  <2> QED BY <1>1, <2>1, <2>2 DEF DaoFails
<1> HIDE DEF op
<1>3. /\ job' = [job EXCEPT ![p] = << >>] /\ faults' = faults + 1 /\ faults < MaxFaults
      /\ UNCHANGED <<pc, iteration, size, next, fate, ordinal, latest, thinking,
                     toolSteps, crashes>>
  BY DEF DaoFails, loopVars
<1>4. job'[p] = << >> /\ \A q \in Procs \ {p} : job'[q] = job[q]
  BY <1>1, <1>3
<1>5. 0 \in Procs /\ Slots \subseteq Procs
  BY TimelineAssumption DEF Procs, Slots
<1>6. TypeOK'
  <2>1. job' \in [Procs -> Seq(Op)]
    BY <1>1, <1>3
  <2>2. faults' \in 0 .. MaxFaults
    BY <1>3, TimelineAssumption DEF IInv, TypeOK
  <2>3. TypeOK
    BY DEF IInv
  <2> QED BY <1>2, <1>3, <2>1, <2>2, <2>3 DEF TypeOK
<1>7. OneAtATime'
  BY <1>3, <1>4, <1>5 DEF OneAtATime, Running, Ending, Free, IInv
<1>8. JobsPaired'
  BY <1>4 DEF JobsPaired, Paired, IInv
<1>9. SlotsObserve'
  BY <1>3, <1>4, <1>5 DEF SlotsObserve, Observes, IInv
<1>10. Reserved'
  BY <1>2, <1>3, <1>4 DEF Reserved
<1>11. Started'
  BY <1>3 DEF Started, Running, IInv
<1> QED BY <1>2, <1>6, <1>7, <1>8, <1>9, <1>10, <1>11 DEF IInv
\* The loop calls back with nothing else going on.
LEMMA CallbackKeeps ==
    ASSUME IInv, NEW j, Sound(j), Callback(j), ~Running
    PROVE  job' \in [Procs -> Seq(Op)] /\ Sound(job'[0]) /\ Free'
<1>1. 0 \in Procs /\ Slots \subseteq Procs /\ 0 \notin Slots
  BY TimelineAssumption DEF Procs, Slots
<1>2. job \in [Procs -> Seq(Op)]
  BY DEF IInv, TypeOK
<1>3. job' = [job EXCEPT ![0] = j]
  BY DEF Callback
<1>4. job'[0] = j /\ \A i \in Slots : job'[i] = job[i]
  BY <1>1, <1>2, <1>3
<1>5. job' \in [Procs -> Seq(Op)]
  BY <1>2, <1>3 DEF Sound
<1>6. Free
  BY DEF IInv, OneAtATime
<1> QED BY <1>4, <1>5, <1>6 DEF Free

\* Or it moves on without calling back.
LEMMA SilenceKeeps ==
    ASSUME IInv, job' = job, job[0] = << >>, Free
    PROVE  job' \in [Procs -> Seq(Op)] /\ Sound(job'[0]) /\ Free'
<1>1. job \in [Procs -> Seq(Op)]
  BY DEF IInv, TypeOK
<1>2. Sound(job'[0])
  BY SoundParts
<1> QED BY <1>1, <1>2 DEF Free

\* The steps of the loop between two batches.
LEMMA LoopStep ==
    ASSUME IInv, \/ StartIteration \/ EndBlock \/ StopCancelled
                 \/ AnswerText \/ AnswerCalls \/ AnswerFails \/ EndRun
    PROVE  IInv'
<1> USE TimelineAssumption
<1>1. TypeOK /\ Started
  BY DEF IInv
<1>2. /\ job[0] = << >> /\ ~Running /\ Free
      /\ UNCHANGED <<toolSteps, ordinal, latest, steps, run, faults, crashes>>
  BY DEF StartIteration, EndBlock, StopCancelled, AnswerText, AnswerCalls, AnswerFails,
         EndRun, At, Rest, Running, IInv, OneAtATime
<1>3. job' \in [Procs -> Seq(Op)] /\ Sound(job'[0]) /\ Free'
  <2>1. CASE StartIteration
    BY <1>1, <1>2, <2>1, JobsSound, CallbackKeeps DEF StartIteration
  <2>2. CASE EndBlock \/ AnswerText
    BY <1>1, <1>2, <2>2, JobsSound, CallbackKeeps DEF EndBlock, AnswerText
  <2>3. CASE StopCancelled \/ AnswerCalls
    BY <1>2, <2>3, SilenceKeeps DEF StopCancelled, AnswerCalls
  <2>4. CASE AnswerFails
    <3>1. Sound(StatusStep("failed"))
      BY <1>1, JobsSound DEF StepStatus
    <3>2. CASE Callback(StatusStep("failed"))
      BY <1>2, <3>1, <3>2, CallbackKeeps
    <3>3. CASE UNCHANGED job
      BY <1>2, <3>3, SilenceKeeps
    <3> QED BY <2>4, <3>2, <3>3 DEF AnswerFails
  <2>5. CASE EndRun
    <3>1. Sound(CompleteJob("completed")) /\ Sound(CompleteJob("cancelled"))
          /\ Sound(Finish("failed"))
      BY <1>1, JobsSound
    <3> QED BY <1>2, <2>5, <3>1, CallbackKeeps DEF EndRun
  <2> QED BY <2>1, <2>2, <2>3, <2>4, <2>5
<1>4. /\ pc' \in {"top", "answer", "prepare", "failing", "closing", "cancelled", "over"}
      /\ iteration' \in 0 .. MaxIterations /\ size' \in Procs /\ next' \in 1 .. MaxBatch + 1
      /\ fate' = fate /\ thinking' \in Nat /\ Started' /\ ~Running'
  <2> USE DEF TypeOK, Started, Running
  <2>1. CASE StartIteration
    BY <1>1, <2>1 DEF StartIteration
  <2>2. CASE EndBlock \/ AnswerText
    BY <1>1, <2>2 DEF EndBlock, AnswerText, At
  <2>3. CASE StopCancelled
    BY <1>1, <2>3 DEF StopCancelled, At
  <2>4. CASE AnswerCalls
    BY <1>1, <2>4 DEF AnswerCalls, At, Slots, Procs
  <2>5. CASE AnswerFails
    BY <1>1, <2>5 DEF AnswerFails
  <2>6. CASE EndRun
    BY <1>1, <2>6 DEF EndRun
  <2> QED BY <2>1, <2>2, <2>3, <2>4, <2>5, <2>6
<1>5. TypeOK'
  BY <1>1, <1>2, <1>3, <1>4 DEF TypeOK
<1> QED BY <1>2, <1>3, <1>4, <1>5, QuietStep

\* The preparation of a batch.
LEMMA PrepareStep ==
    ASSUME IInv, \/ Malformed \/ Announce \/ Consented \/ ReportRefusal \/ Denied
                 \/ ReportBlock \/ SkipCall \/ ConsentRaises
    PROVE  IInv'
<1> USE TimelineAssumption
<1>1. TypeOK /\ Started
  BY DEF IInv
<1>2. /\ pc = "prepare" /\ job[0] = << >> /\ next <= size /\ pc' \in {"prepare", "failing"}
      /\ UNCHANGED <<iteration, size, thinking, toolSteps, ordinal, latest, steps, run,
                     faults, crashes>>
  BY DEF Malformed, Announce, Consented, ReportRefusal, Denied, ReportBlock, SkipCall,
         ConsentRaises, Preparing, At, PrepareRest, Rest
<1>3. ~Running /\ ~Running' /\ Free
  BY <1>2 DEF IInv, OneAtATime, Running
<1>4. This \in Calls /\ next \in 1 .. MaxBatch
  <2>1. iteration \in 1 .. MaxIterations
    BY <1>1, <1>2 DEF TypeOK, Started
  <2>2. size \in 0 .. MaxBatch /\ next \in 1 .. MaxBatch + 1 /\ next <= size
    BY <1>1, <1>2 DEF TypeOK, Procs
  <2>3. next \in 1 .. MaxBatch
    BY <2>2
  <2> QED BY <2>1, <2>3 DEF Calls, This, Slots
<1>5. Sound(CallJob(This)) /\ Sound(ResultJob(This, "failed")) /\ Sound(StatusStep("completed"))
  BY <1>1, <1>4, JobsSound, ResultJobSound DEF StepStatus
<1>6. job' \in [Procs -> Seq(Op)] /\ Sound(job'[0]) /\ Free'
  <2>1. \/ Callback(CallJob(This)) \/ Callback(ResultJob(This, "failed"))
        \/ Callback(StatusStep("completed")) \/ job' = job
    BY DEF Malformed, Announce, Consented, ReportRefusal, Denied, ReportBlock, SkipCall,
           ConsentRaises
  <2> QED BY <1>2, <1>3, <1>5, <2>1, CallbackKeeps, SilenceKeeps
<1>7. next' \in {next, next + 1}
  BY DEF Malformed, Announce, Consented, ReportRefusal, Denied, ReportBlock, SkipCall,
         ConsentRaises, Move, Stay
<1>8. next' \in 1 .. MaxBatch + 1
  BY <1>4, <1>7
<1>9. \E f \in Fate : fate' = [fate EXCEPT ![This] = f]
  BY DEF Malformed, Announce, Consented, ReportRefusal, Denied, ReportBlock, SkipCall,
         ConsentRaises, Becomes, Fate
<1>10. fate' \in [Calls -> Fate]
  BY <1>1, <1>9 DEF TypeOK
<1>11. TypeOK' /\ Started'
  BY <1>1, <1>2, <1>3, <1>6, <1>8, <1>10 DEF TypeOK, Started
<1> QED BY <1>2, <1>3, <1>6, <1>11, QuietStep

\* The two ends of the concurrent phase.
LEMMA GatherStep ==
    ASSUME IInv, Gather \/ GatherRaises \/ CollectResults
    PROVE  IInv'
<1>1. TypeOK /\ Started
  BY DEF IInv
<1>2. job[0] = << >> /\ job' = job /\ Free
  BY DEF Gather, GatherRaises, CollectResults, At, IInv, OneAtATime, Running, Free
<1>3. job' \in [Procs -> Seq(Op)] /\ Sound(job'[0]) /\ Free'
  BY <1>2, SilenceKeeps
<1>4. fate' \in [Calls -> Fate]
  <2>1. CASE GatherRaises
    <3>1. PICK R \in SUBSET {i \in 1 .. size : fate[<<iteration, i>>] = "ready"} :
              fate' = [c \in Calls |->
                          IF c[1] = iteration /\ c[2] \in R THEN "raised" ELSE fate[c]]
      BY <2>1 DEF GatherRaises
    <3> QED BY <1>1, <3>1 DEF TypeOK, Fate
  <2>2. CASE Gather \/ CollectResults
    BY <1>1, <2>2 DEF Gather, CollectResults, TypeOK
  <2> QED BY <2>1, <2>2
<1>5. /\ pc' \in {"execute", "raised", "top"} /\ iteration' = iteration
      /\ pc \in {"prepare", "execute"}
      /\ UNCHANGED <<size, next, thinking, toolSteps, ordinal, latest, steps, run, faults, crashes>>
  BY DEF Gather, GatherRaises, CollectResults, Rest, At
<1>6. TypeOK' /\ Started'
  BY <1>1, <1>3, <1>4, <1>5 DEF TypeOK, Started, Running
<1> QED BY <1>2, <1>3, <1>5, <1>6, QuietStep

\* The send closes its run while calls of the batch may still report.
LEMMA LeaveStep ==
    ASSUME IInv, LeaveRun
    PROVE  IInv'
<1>1. TypeOK /\ Started /\ 0 \in Procs /\ Slots \subseteq Procs \ {0}
  BY TimelineAssumption DEF IInv, Procs, Slots
<1>2. /\ pc = "raised" /\ pc' = "left" /\ job' = [job EXCEPT ![0] = Finish("failed")]
      /\ UNCHANGED <<iteration, size, next, fate, thinking, toolSteps, ordinal, latest, steps,
                     run, faults, crashes>>
  BY DEF LeaveRun, At, Callback, Rest
<1> DEFINE j == Finish("failed")
<1>3. Sound(j) /\ Ending(j)
  <2>1. Sound(j)
    BY <1>1, JobsSound
  <2>2. Ending(j)
    BY DEF Ending, Finish
  <2> QED BY <2>1, <2>2
<1> HIDE DEF j
<1>4. job'[0] = j /\ \A q \in Procs \ {0} : job'[q] = job[q]
  BY <1>1, <1>2 DEF TypeOK, j
<1>5. job' \in [Procs -> Seq(Op)]
  BY <1>1, <1>2, <1>3 DEF TypeOK, Sound, j
<1>6. TypeOK' /\ Started'
  BY <1>1, <1>2, <1>5 DEF TypeOK, Started, Running
<1>7. OneAtATime'
  BY <1>2, <1>3, <1>4 DEF OneAtATime, Running
<1>8. JobsPaired'
  BY <1>3, <1>4 DEF JobsPaired, IInv, Sound
<1>9. SlotsObserve'
  BY <1>1, <1>2, <1>4 DEF SlotsObserve, IInv
<1>10. Reserved'
  BY <1>2, <1>3, <1>4 DEF Reserved, IInv, Sound, Fresh
<1>11. HasLast' /\ InOrder'
  BY <1>2 DEF IInv, HasLast, InOrder
<1> QED BY <1>6, <1>7, <1>8, <1>9, <1>10, <1>11 DEF IInv

\* One call of the batch reports.
LEMMA ResultStep ==
    ASSUME IInv, NEW i \in Slots, ReportResult(i)
    PROVE  IInv'
<1>1. TypeOK /\ Started
  BY DEF IInv
<1>2. /\ Running
      /\ UNCHANGED <<pc, iteration, size, next, thinking, toolSteps, ordinal, latest, steps,
                     run, faults, crashes>>
  BY DEF ReportResult, Rest
<1>3. <<iteration, i>> \in Calls
  BY <1>1, <1>2, TimelineAssumption DEF TypeOK, Started, Calls
<1>4. PICK status \in {"completed", "failed"} :
          job' = [job EXCEPT ![i] = ResultJob(<<iteration, i>>, status)]
  BY DEF ReportResult
<1> DEFINE j == ResultJob(<<iteration, i>>, status)
<1>5. Sound(j) /\ Observes(j, <<iteration, i>>)
  BY <1>1, <1>3, ResultJobSound
<1> HIDE DEF j
<1>6. job' = [job EXCEPT ![i] = j]
  BY <1>4 DEF j
<1>7. fate' \in [Calls -> Fate]
  <2>1. fate' = [fate EXCEPT ![<<iteration, i>>] = "settled"] /\ fate \in [Calls -> Fate]
    BY <1>1 DEF ReportResult, TypeOK
  <2> QED BY <2>1 DEF Fate
<1>8. job' \in [Procs -> Seq(Op)]
  BY <1>1, <1>5, <1>6 DEF TypeOK, Sound
<1>9. TypeOK' /\ Started'
  BY <1>1, <1>2, <1>7, <1>8 DEF TypeOK, Started, Running
<1> QED BY <1>2, <1>5, <1>6, <1>9, ReportStep

\* A crash leaves no callback, and recovery starts one.
LEMMA CrashStep ==
    ASSUME IInv, Crash \/ Recover
    PROVE  IInv'
<1> USE TimelineAssumption
<1>1. TypeOK
  BY DEF IInv
<1>2. 0 \in Procs /\ Slots \subseteq Procs
  BY DEF Procs, Slots
<1>3. job' \in [Procs -> Seq(Op)] /\ Sound(job'[0]) /\ Free'
  <2>1. CASE Crash
    <3>1. job' = [p \in Procs |-> << >>]
      BY <2>1 DEF Crash
    <3> QED BY <1>2, <3>1, SoundParts DEF Free
  <2>2. CASE Recover
    <3>1. job[0] = << >> /\ ~Running /\ Free
      BY <2>2 DEF Recover, At, IInv, OneAtATime, Running
    <3>2. Sound(StatusStep("completed"))
      BY <1>1, JobsSound DEF StepStatus
    <3>3. Callback(StatusStep("completed")) \/ job' = job
      BY <2>2 DEF Recover
    <3> QED BY <3>1, <3>2, <3>3, CallbackKeeps, SilenceKeeps
  <2> QED BY <2>1, <2>2
<1>4. UNCHANGED <<iteration, size, next, fate, steps, faults>>
      /\ pc' \in {"down", "over"}
  BY DEF Crash, Recover
<1>5. /\ ordinal' \in [Procs -> Nat] /\ latest' \in [Procs -> Nat]
      /\ thinking' \in Nat /\ toolSteps' \in [Calls -> Nat]
      /\ run' \in RunStatus /\ crashes' \in 0 .. MaxCrashes
  <2>1. CASE Crash
    BY <1>1, <2>1 DEF Crash, TypeOK
  <2>2. CASE Recover
    BY <1>1, <2>2 DEF Recover, TypeOK, RunStatus
  <2> QED BY <2>1, <2>2
<1>6. TypeOK' /\ Started' /\ ~Running'
  BY <1>1, <1>3, <1>4, <1>5 DEF TypeOK, Started, Running
<1> QED BY <1>3, <1>4, <1>6, QuietStep

\* The invariant holds initially.
LEMMA InitInv == Init => IInv
<1> SUFFICES ASSUME Init PROVE IInv
  OBVIOUS
<1> USE TimelineAssumption
<1>1. job = [p \in Procs |-> << >>] /\ steps = << >>
  BY DEF Init
<1>2. TypeOK
  <2>1. job \in [Procs -> Seq(Op)] /\ steps \in Seq(Step)
    BY <1>1
  <2>2. ordinal \in [Procs -> Nat] /\ latest \in [Procs -> Nat] /\ toolSteps \in [Calls -> Nat]
        /\ fate \in [Calls -> Fate]
    BY DEF Init, Fate
  <2>3. /\ pc = "top" /\ iteration \in 0 .. MaxIterations
        /\ size \in Procs /\ next \in 1 .. MaxBatch + 1
        /\ faults \in 0 .. MaxFaults /\ crashes \in 0 .. MaxCrashes
    BY DEF Init, Procs
  <2> QED BY <2>1, <2>2, <2>3 DEF Init, TypeOK, RunStatus
<1>3. 0 \in Procs /\ Slots \subseteq Procs
  BY DEF Procs, Slots
<1>4. Started /\ OneAtATime /\ JobsPaired /\ SlotsObserve
  BY <1>1, <1>3 DEF Init, Started, OneAtATime, Running, Free, JobsPaired, Paired, SlotsObserve, Observes
<1>5. Reserved /\ HasLast /\ InOrder
  BY <1>1, <1>3 DEF Reserved, HasLast, InOrder
<1> QED BY <1>2, <1>4, <1>5 DEF IInv

\* Every step keeps it.
LEMMA NextInv == IInv /\ [Next]_vars => IInv'
<1> SUFFICES ASSUME IInv, [Next]_vars PROVE IInv'
  OBVIOUS
<1>1. CASE \/ StartIteration \/ EndBlock \/ StopCancelled
           \/ AnswerText \/ AnswerCalls \/ AnswerFails \/ EndRun
  BY <1>1, LoopStep
<1>2. CASE \/ Malformed \/ Announce \/ Consented \/ ReportRefusal \/ Denied
           \/ ReportBlock \/ SkipCall \/ ConsentRaises
  BY <1>2, PrepareStep
<1>3. CASE Gather \/ GatherRaises \/ CollectResults
  BY <1>3, GatherStep
<1>4. CASE \E i \in Slots : ReportResult(i)
  BY <1>4, ResultStep
<1>5. CASE Crash \/ Recover
  BY <1>5, CrashStep
<1>6. CASE \E p \in Procs : DaoCall(p)
  BY <1>6, DaoCallStep
<1>7. CASE \E p \in Procs : DaoFails(p)
  BY <1>7, DaoFailsStep
<1>8. CASE Done \/ UNCHANGED vars
  <2>1. UNCHANGED vars
    BY <1>8 DEF Done
  <2> QED BY <2>1 DEF vars, loopVars, jobVars, IInv, TypeOK, Started, OneAtATime, Running, Free,
                      Ending, JobsPaired, SlotsObserve, Reserved, HasLast, InOrder
<1>9. CASE LeaveRun
  BY <1>9, LeaveStep
<1> QED BY <1>1, <1>2, <1>3, <1>4, <1>5, <1>6, <1>7, <1>8, <1>9 DEF Next

\* The invariant holds throughout.
LEMMA Invariance == Spec => []IInv
BY InitInv, NextInv, PTL DEF Spec

-----------------------------------------------------------------------------
(* The theorems *)

\* Every pending DAO call and every row is well-formed, however the callbacks
\* of a batch interleave, fail or are cut off by a crash.
THEOREM TypeCorrect == Spec => []TypeOK
<1>1. IInv => TypeOK
  BY DEF IInv
<1> QED BY <1>1, Invariance, PTL

\* create_step() orders the timeline although it reads the next ordinal and
\* inserts in two sections: only observations of one batch may tie or swap.
THEOREM TimelineInOrderHolds == Spec => []TimelineInOrder
<1>1. IInv => TimelineInOrder
  <2> SUFFICES ASSUME IInv PROVE TimelineInOrder
    OBVIOUS
  <2>1. DOMAIN steps = 1 .. Len(steps)
    BY DEF IInv, TypeOK
  <2> QED BY <2>1 DEF IInv, InOrder, Below, TimelineInOrder, Siblings
<1> QED BY <1>1, Invariance, PTL

-----------------------------------------------------------------------------
(* What the callbacks consist of *)

\* Concatenation, place by place.
LEMMA Joined ==
    ASSUME NEW S, NEW s \in Seq(S), NEW t \in Seq(S)
    PROVE  /\ s \o t \in Seq(S) /\ Len(s \o t) = Len(s) + Len(t)
           /\ \A i \in 1 .. Len(s) : (s \o t)[i] = s[i]
           /\ \A i \in 1 .. Len(t) : (s \o t)[Len(s) + i] = t[i]
OBVIOUS

\* A list of three, and of four, is the tuple of its elements.
LEMMA Three ==
    ASSUME NEW S, NEW j \in Seq(S), Len(j) = 3
    PROVE  j = <<j[1], j[2], j[3]>>
OBVIOUS

\* As Three.
LEMMA Four ==
    ASSUME NEW S, NEW j \in Seq(S), Len(j) = 4
    PROVE  j = <<j[1], j[2], j[3], j[4]>>
OBVIOUS

\* A call in front of a create_step().
LEMMA Before ==
    ASSUME NEW a, NEW b, NEW c
    PROVE  <<a>> \o <<b, c>> = <<a, b, c>>
<1> DEFINE S == {a, b, c}
           s == <<a>>
           t == <<b, c>>
           j == s \o t
<1>1. s \in Seq(S) /\ t \in Seq(S)
  OBVIOUS
<1>2. Len(s) = 1 /\ Len(t) = 2
  OBVIOUS
<1>3. s[1] = a /\ t[1] = b /\ t[2] = c
  OBVIOUS
<1> HIDE DEF S, s, t, j
<1>4. 1 \in 1 .. Len(s) /\ 1 \in 1 .. Len(t) /\ 2 \in 1 .. Len(t)
  BY <1>2
<1>5. /\ j \in Seq(S) /\ Len(j) = Len(s) + Len(t)
      /\ \A i \in 1 .. Len(s) : j[i] = s[i]
      /\ \A i \in 1 .. Len(t) : j[Len(s) + i] = t[i]
  BY ONLY Joined, <1>1 DEF j
<1>6. j[1] = s[1] /\ j[Len(s) + 1] = t[1] /\ j[Len(s) + 2] = t[2]
  BY ONLY <1>4, <1>5
<1>7. Len(j) = 3 /\ j[1] = s[1] /\ j[2] = t[1] /\ j[3] = t[2]
  BY <1>2, <1>5, <1>6
<1>8. j = <<j[1], j[2], j[3]>>
  BY <1>5, <1>7, Three
<1> QED BY <1>3, <1>7, <1>8 DEF j, s, t

\* A call behind a create_step().
LEMMA After ==
    ASSUME NEW a, NEW b, NEW c
    PROVE  <<a, b>> \o <<c>> = <<a, b, c>>
<1> DEFINE S == {a, b, c}
           s == <<a, b>>
           t == <<c>>
           j == s \o t
<1>1. s \in Seq(S) /\ t \in Seq(S)
  OBVIOUS
<1>2. Len(s) = 2 /\ Len(t) = 1
  OBVIOUS
<1>3. s[1] = a /\ s[2] = b /\ t[1] = c
  OBVIOUS
<1> HIDE DEF S, s, t, j
<1>4. 1 \in 1 .. Len(s) /\ 2 \in 1 .. Len(s) /\ 1 \in 1 .. Len(t)
  BY <1>2
<1>5. /\ j \in Seq(S) /\ Len(j) = Len(s) + Len(t)
      /\ \A i \in 1 .. Len(s) : j[i] = s[i]
      /\ \A i \in 1 .. Len(t) : j[Len(s) + i] = t[i]
  BY ONLY Joined, <1>1 DEF j
<1>6. j[1] = s[1] /\ j[2] = s[2] /\ j[Len(s) + 1] = t[1]
  BY ONLY <1>4, <1>5
<1>7. Len(j) = 3 /\ j[1] = s[1] /\ j[2] = s[2] /\ j[3] = t[1]
  BY <1>2, <1>5, <1>6
<1>8. j = <<j[1], j[2], j[3]>>
  BY <1>5, <1>7, Three
<1> QED BY <1>3, <1>7, <1>8 DEF j, s, t

\* A call behind three others.
LEMMA AfterThree ==
    ASSUME NEW a, NEW b, NEW c, NEW d
    PROVE  <<a, b, c>> \o <<d>> = <<a, b, c, d>>
<1> DEFINE S == {a, b, c, d}
           s == <<a, b, c>>
           t == <<d>>
           j == s \o t
<1>1. s \in Seq(S) /\ t \in Seq(S)
  OBVIOUS
<1>2. Len(s) = 3 /\ Len(t) = 1
  OBVIOUS
<1>3. s[1] = a /\ s[2] = b /\ s[3] = c /\ t[1] = d
  OBVIOUS
<1> HIDE DEF S, s, t, j
<1>4. 1 \in 1 .. Len(s) /\ 2 \in 1 .. Len(s) /\ 3 \in 1 .. Len(s) /\ 1 \in 1 .. Len(t)
  BY <1>2
<1>5. /\ j \in Seq(S) /\ Len(j) = Len(s) + Len(t)
      /\ \A i \in 1 .. Len(s) : j[i] = s[i]
      /\ \A i \in 1 .. Len(t) : j[Len(s) + i] = t[i]
  BY ONLY Joined, <1>1 DEF j
<1>6. j[1] = s[1] /\ j[2] = s[2] /\ j[3] = s[3] /\ j[Len(s) + 1] = t[1]
  BY ONLY <1>4, <1>5
<1>7. Len(j) = 4 /\ j[1] = s[1] /\ j[2] = s[2] /\ j[3] = s[3] /\ j[4] = t[1]
  BY <1>2, <1>5, <1>6
<1>8. j = <<j[1], j[2], j[3], j[4]>>
  BY <1>5, <1>7, Four
<1> QED BY <1>3, <1>7, <1>8 DEF j, s, t

Closes(op, step) == op.do = "close" /\ op.step = step
Inserts(op, kind) == op.do = "insert" /\ op.kind = kind

\* create_step() for a call or for none.
LEMMA CreateIs ==
    ASSUME NEW kind, NEW status, NEW call, NEW parent
    PROVE  LET j == Create(kind, status, call, parent)
           IN  /\ Len(j) = 2 /\ j[1].do = "read"
               /\ Inserts(j[2], kind) /\ j[2].status = status /\ j[2].call = call
               /\ j[2].step = parent
BY DEF Create, Inserts

\* A thought: the last one is closed, the next one is created.
LEMMA ThoughtIs ==
    LET j == CloseThought \o Create("thought", "running", NoCall, 0)
    IN  \/ /\ thinking = 0 /\ Len(j) = 2 /\ j[1].do = "read"
           /\ Inserts(j[2], "thought") /\ j[2].status = "running"
        \/ /\ thinking # 0 /\ Len(j) = 3
           /\ Closes(j[1], thinking) /\ j[1].status = "completed" /\ j[2].do = "read"
           /\ Inserts(j[3], "thought") /\ j[3].status = "running"
<1> DEFINE c == Create("thought", "running", NoCall, 0)
<1>1. CASE thinking = 0
  <2>1. CloseThought \o c = c
    BY <1>1 DEF CloseThought, Create
  <2> QED BY <1>1, <2>1, CreateIs
<1>2. CASE thinking # 0
  <2>1. CloseThought = Close(thinking, "completed")
    BY <1>2 DEF CloseThought
  <2> DEFINE a == Close(thinking, "completed")[1]
  <2>2. CloseThought = <<a>> /\ c = <<c[1], c[2]>>
    BY <2>1 DEF Close, Create
  <2>3. Closes(a, thinking) /\ a.status = "completed"
    BY DEF Close, Closes
  <2>4. c[1].do = "read" /\ Inserts(c[2], "thought") /\ c[2].status = "running"
    BY CreateIs
  <2> HIDE DEF a, c
  <2>5. CloseThought \o c = <<a, c[1], c[2]>>
    BY <2>2, Before
  <2> DEFINE j == CloseThought \o c
  <2>6. Len(j) = 3 /\ j[1] = a /\ j[2] = c[1] /\ j[3] = c[2]
    BY <2>5
  <2> HIDE DEF j
  <2>7. /\ thinking # 0 /\ Len(j) = 3
        /\ Closes(j[1], thinking) /\ j[1].status = "completed" /\ j[2].do = "read"
        /\ Inserts(j[3], "thought") /\ j[3].status = "running"
    BY <1>2, <2>3, <2>4, <2>6
  <2> QED BY <2>7 DEF j, c
<1> QED BY <1>1, <1>2

\* The last thought closed, and nothing more.
LEMMA CloseThoughtIs ==
    \/ thinking = 0 /\ CloseThought = << >>
    \/ /\ thinking # 0 /\ Len(CloseThought) = 1
       /\ Closes(CloseThought[1], thinking) /\ CloseThought[1].status = "completed"
BY DEF CloseThought, Close, Closes

\* tool_result() for a call that has been announced, and for one that has not.
LEMMA ResultIs ==
    ASSUME NEW c, NEW status
    PROVE  LET j == ResultJob(c, status)
           IN  \/ /\ toolSteps[c] # 0 /\ Len(j) = 4
                  /\ Closes(j[1], toolSteps[c]) /\ j[1].status = status
                  /\ j[2].do = "read"
                  /\ Inserts(j[3], "observation") /\ j[3].call = c
                  /\ j[3].step = toolSteps[c] /\ j[3].status = "running"
                  /\ j[4].do = "close_latest" /\ j[4].status = status
               \/ /\ toolSteps[c] = 0 /\ Len(j) = 3
                  /\ j[1].do = "read"
                  /\ Inserts(j[2], "observation") /\ j[2].call = c
                  /\ j[2].step = 0 /\ j[2].status = "running"
                  /\ j[3].do = "close_latest" /\ j[3].status = status
<1> DEFINE r == Create("observation", "running", c, toolSteps[c])
           l == CloseLatest(status)[1]
           a == Close(toolSteps[c], status)[1]
           j == ResultJob(c, status)
<1>1. l.do = "close_latest" /\ l.status = status /\ CloseLatest(status) = <<l>>
  BY DEF CloseLatest
<1>2. Closes(a, toolSteps[c]) /\ a.status = status /\ Close(toolSteps[c], status) = <<a>>
  BY DEF Close, Closes
<1>3. /\ r = <<r[1], r[2]>> /\ r[1].do = "read" /\ Inserts(r[2], "observation")
      /\ r[2].call = c /\ r[2].step = toolSteps[c] /\ r[2].status = "running"
  BY CreateIs DEF Create
<1>4. j = (IF toolSteps[c] = 0 THEN << >> ELSE <<a>>) \o r \o <<l>>
  BY <1>1, <1>2 DEF ResultJob
<1> HIDE DEF r, l, a, j
<1>5. CASE toolSteps[c] = 0
  <2>1. j = (<< >> \o <<r[1], r[2]>>) \o <<l>>
    BY <1>3, <1>4, <1>5
  <2>2. << >> \o <<r[1], r[2]>> = <<r[1], r[2]>>
    OBVIOUS
  <2>3. j = <<r[1], r[2], l>>
    BY <2>1, <2>2, After
  <2>4. Len(j) = 3 /\ j[1] = r[1] /\ j[2] = r[2] /\ j[3] = l
    BY <2>3
  <2> QED BY <1>1, <1>3, <1>5, <2>4 DEF j
<1>6. CASE toolSteps[c] # 0
  <2>1. j = (<<a>> \o <<r[1], r[2]>>) \o <<l>>
    BY <1>3, <1>4, <1>6
  <2>2. j = <<a, r[1], r[2], l>>
    <3>1. <<a>> \o <<r[1], r[2]>> = <<a, r[1], r[2]>>
      BY Before
    <3>2. j = <<a, r[1], r[2]>> \o <<l>>
      BY <2>1, <3>1
    <3>3. <<a, r[1], r[2]>> \o <<l>> = <<a, r[1], r[2], l>>
      BY AfterThree
    <3> QED BY <3>2, <3>3
  <2>3. Len(j) = 4 /\ j[1] = a /\ j[2] = r[1] /\ j[3] = r[2] /\ j[4] = l
    BY <2>2
  <2> QED BY <1>1, <1>2, <1>3, <1>6, <2>3 DEF j
<1> QED BY <1>5, <1>6

\* complete()
LEMMA CompleteIs ==
    ASSUME NEW status
    PROVE  LET j == CompleteJob(status)
           IN  /\ Len(j) = 4 /\ j[1].do = "read"
               /\ Inserts(j[2], "final") /\ j[2].status = "running"
               /\ j[3].do = "close_latest" /\ j[3].status = "completed"
               /\ j[4].do = "finish" /\ j[4].status = status
<1> DEFINE r == Create("final", "running", NoCall, 0)
           l == CloseLatest("completed")[1]
           f == Finish(status)[1]
           j == CompleteJob(status)
<1>1. l.do = "close_latest" /\ l.status = "completed" /\ CloseLatest("completed") = <<l>>
  BY DEF CloseLatest
<1>2. f.do = "finish" /\ f.status = status /\ Finish(status) = <<f>>
  BY DEF Finish
<1>3. /\ r = <<r[1], r[2]>> /\ r[1].do = "read" /\ Inserts(r[2], "final")
      /\ r[2].status = "running"
  BY CreateIs DEF Create
<1>4. j = r \o <<l>> \o <<f>>
  BY <1>1, <1>2 DEF CompleteJob
<1> HIDE DEF r, l, f, j
<1>5. j = <<r[1], r[2], l, f>>
  <2>1. <<r[1], r[2]>> \o <<l>> = <<r[1], r[2], l>>
    BY After
  <2>2. j = <<r[1], r[2], l>> \o <<f>>
    BY <1>3, <1>4, <2>1
  <2>3. <<r[1], r[2], l>> \o <<f>> = <<r[1], r[2], l, f>>
    BY AfterThree
  <2> QED BY <2>2, <2>3
<1>6. Len(j) = 4 /\ j[1] = r[1] /\ j[2] = r[2] /\ j[3] = l /\ j[4] = f
  BY <1>5
<1> QED BY <1>1, <1>2, <1>3, <1>6 DEF j

\* The calls a callback has left are its calls, one place further on.
LEMMA TailIs ==
    ASSUME NEW j \in Seq(Op), j # << >>
    PROVE  /\ Len(j) \in Nat /\ 1 \in 1 .. Len(j) /\ Len(Tail(j)) = Len(j) - 1
           /\ \A k \in 1 .. Len(Tail(j)) : k + 1 \in 1 .. Len(j) /\ Tail(j)[k] = j[k + 1]
           /\ \A m \in 1 .. Len(j) :
                  m = 1 \/ (m - 1 \in 1 .. Len(Tail(j)) /\ Tail(j)[m - 1] = j[m])
<1>1. Len(j) \in Nat /\ 1 \in 1 .. Len(j) /\ Len(Tail(j)) = Len(j) - 1
  OBVIOUS
<1>2. \A k \in 1 .. Len(j) - 1 : k + 1 \in 1 .. Len(j) /\ Tail(j)[k] = j[k + 1]
  OBVIOUS
<1>3. ASSUME NEW m \in 1 .. Len(j), m # 1
      PROVE  m - 1 \in 1 .. Len(j) - 1 /\ Tail(j)[m - 1] = j[m]
  <2>1. m - 1 \in 1 .. Len(j) - 1 /\ (m - 1) + 1 = m
    BY <1>1, <1>3
  <2> QED BY <1>2, <2>1
<1> QED BY <1>1, <1>2, <1>3

-----------------------------------------------------------------------------
(* What a DAO call does to the rows *)

\* No close leaves a step "running".
Shuts(j) == \A k \in 1 .. Len(j) : j[k].do \in {"close", "close_latest"} => j[k].status # "running"
JobsShut == \A p \in Procs : Shuts(job[p])

\* A row keeps what it is about, and is not opened again.
RowsKept ==
    \A i \in 1 .. Len(steps) :
        /\ i \in 1 .. Len(steps')
        /\ steps'[i].kind = steps[i].kind /\ steps'[i].call = steps[i].call
        /\ steps'[i].parent = steps[i].parent
        /\ steps'[i].status = "running" => steps[i].status = "running"

Shut(i) == i \in 1 .. Len(steps) => steps'[i].status # "running"

\* The row a create_step() adds.
Added(op) ==
    /\ Len(steps') = Len(steps) + 1
    /\ steps'[Len(steps) + 1].kind = op.kind /\ steps'[Len(steps) + 1].call = op.call
    /\ steps'[Len(steps) + 1].parent = op.step /\ steps'[Len(steps) + 1].status = op.status

\* Closing a step.
LEMMA CloseEffect ==
    ASSUME TypeOK, NEW n \in Nat, NEW status \in StepStatus, status # "running",
           steps' = Closed(n, status)
    PROVE  RowsKept /\ Len(steps') = Len(steps) /\ Shut(n)
<1>1. steps \in Seq(Step) /\ Len(steps') = Len(steps)
  BY ClosedKeeps DEF TypeOK, SamePlaces
<1>2. ASSUME NEW i \in 1 .. Len(steps)
      PROVE  /\ steps'[i].kind = steps[i].kind /\ steps'[i].call = steps[i].call
             /\ steps'[i].parent = steps[i].parent
             /\ steps'[i].status = "running" => steps[i].status = "running"
             /\ i = n => steps'[i].status # "running"
  <2>1. steps[i] \in Step
    BY <1>1
  <2>2. steps'[i] = IF i = n THEN [steps[i] EXCEPT !.status = status] ELSE steps[i]
    BY <1>1 DEF Closed
  <2>3. CASE i = n
    <3>1. steps'[i] = [steps[i] EXCEPT !.status = status]
      BY <2>2, <2>3
    <3> QED BY <2>1, <3>1 DEF Step
  <2>4. CASE i # n
    BY <2>1, <2>2, <2>4
  <2> QED BY <2>3, <2>4
<1> QED BY <1>1, <1>2 DEF RowsKept, Shut

\* A DAO call that writes: close_step() on a given step, on the step just
\* created, the insert of create_step(), and the calls that touch no step.
LEMMA DaoEffect ==
    ASSUME TypeOK, JobsShut, NEW p \in Procs, job[p] # << >>, Apply(p, job[p][1])
    PROVE  LET op == job[p][1]
           IN  /\ RowsKept
               /\ op.do # "insert" => Len(steps') = Len(steps)
               /\ op.do = "insert" => Added(op)
               /\ op.do = "close" => Shut(op.step)
               /\ op.do = "close_latest" => Shut(latest[p])
<1> DEFINE op == job[p][1]
<1>1. job[p] \in Seq(Op) /\ steps \in Seq(Step) /\ ordinal[p] \in Nat /\ latest[p] \in Nat
  BY DEF TypeOK
<1>2. 1 \in 1 .. Len(job[p])
  BY <1>1
<1>3. op \in Op /\ (op.do \in {"close", "close_latest"} => op.status # "running")
  BY <1>1, <1>2 DEF JobsShut, Shuts
<1>4. op.step \in Nat /\ op.status \in RunStatus /\ op.kind \in Kind
      /\ op.call \in Calls \cup {NoCall} /\ (op.do # "finish" => op.status \in StepStatus)
  BY <1>3 DEF Op
<1> HIDE DEF op
<1>5. Apply(p, op)
  BY DEF op
<1>6. CASE op.do = "close"
  <2>1. steps' = Closed(op.step, op.status)
    BY <1>5, <1>6 DEF Apply
  <2>2. op.status \in StepStatus /\ op.status # "running"
    BY <1>3, <1>4, <1>6
  <2> QED BY <1>4, <1>6, <2>1, <2>2, CloseEffect DEF op
<1>7. CASE op.do = "close_latest"
  <2>1. steps' = Closed(latest[p], op.status)
    BY <1>5, <1>7 DEF Apply
  <2>2. op.status \in StepStatus /\ op.status # "running"
    BY <1>3, <1>4, <1>7
  <2> QED BY <1>1, <1>7, <2>1, <2>2, CloseEffect DEF op
<1>8. CASE op.do = "insert"
  <2> DEFINE row == [kind |-> op.kind, status |-> op.status, call |-> op.call,
                     parent |-> op.step, ordinal |-> ordinal[p]]
  <2>1. steps' = Append(steps, row)
    BY <1>5, <1>8 DEF Apply
  <2>2. row \in Step
    BY <1>1, <1>4, <1>8 DEF Step
  <2>3. row.kind = op.kind /\ row.call = op.call /\ row.parent = op.step
        /\ row.status = op.status
    OBVIOUS
  <2> HIDE DEF row
  <2>4. Len(steps') = Len(steps) + 1
        /\ (\A i \in 1 .. Len(steps) : i \in 1 .. Len(steps') /\ steps'[i] = steps[i])
        /\ steps'[Len(steps) + 1] = row
    BY <1>1, <2>1, <2>2
  <2>5. RowsKept
    BY <2>4 DEF RowsKept
  <2>6. Added(op)
    BY <2>3, <2>4 DEF Added
  <2> QED BY <1>8, <2>5, <2>6 DEF op
<1>9. CASE op.do \notin {"close", "close_latest", "insert"}
  <2>1. steps' = steps
    BY <1>5, <1>9 DEF Apply
  <2> QED BY <1>9, <2>1 DEF RowsKept, op
<1> QED BY <1>6, <1>7, <1>8, <1>9

-----------------------------------------------------------------------------
(* The callbacks a step may start *)

\* The callbacks other than tool_result().
OtherJob(j) ==
    \/ j = CloseThought \o Create("thought", "running", NoCall, 0)
    \/ j = CloseThought
    \/ \E status \in {"completed", "failed"} : j = StatusStep(status)
    \/ \E c \in Calls : j = CallJob(c)
    \/ \E status \in {"completed", "cancelled"} : j = CompleteJob(status)
    \/ j = Finish("failed")

Unobserving(j) == \A k \in 1 .. Len(j) : ~Inserts(j[k], "observation")

\* They close steps for good and observe nothing.
LEMMA OtherJobIs ==
    ASSUME NEW j, OtherJob(j)
    PROVE  Shuts(j) /\ Unobserving(j)
<1> USE DEF Shuts, Unobserving, Inserts, Closes
<1>1. CASE j = CloseThought \o Create("thought", "running", NoCall, 0)
  <2>1. CASE Len(j) = 2 /\ j[1].do = "read" /\ Inserts(j[2], "thought")
    BY <2>1
  <2>2. CASE /\ Len(j) = 3 /\ Closes(j[1], thinking) /\ j[1].status = "completed"
             /\ j[2].do = "read" /\ Inserts(j[3], "thought")
    BY <2>2
  <2> QED BY <1>1, <2>1, <2>2, ThoughtIs
<1>2. CASE j = CloseThought
  <2>1. \/ j = << >>
        \/ Len(j) = 1 /\ Closes(j[1], thinking) /\ j[1].status = "completed"
    BY <1>2, CloseThoughtIs
  <2> QED BY <2>1
<1>3. CASE \E status \in {"completed", "failed"} : j = StatusStep(status)
  <2>1. Len(j) = 2 /\ j[1].do = "read" /\ Inserts(j[2], "status")
    BY <1>3, CreateIs DEF StatusStep
  <2> QED BY <2>1
<1>4. CASE \E c \in Calls : j = CallJob(c)
  <2>1. j = << >> \/ (Len(j) = 2 /\ j[1].do = "read" /\ Inserts(j[2], "tool_call"))
    BY <1>4, CreateIs DEF CallJob
  <2> QED BY <2>1
<1>5. CASE \E status \in {"completed", "cancelled"} : j = CompleteJob(status)
  <2>1. /\ Len(j) = 4 /\ j[1].do = "read" /\ Inserts(j[2], "final")
        /\ j[3].do = "close_latest" /\ j[3].status = "completed" /\ j[4].do = "finish"
    BY <1>5, CompleteIs
  <2> QED BY <2>1
<1>6. CASE j = Finish("failed")
  BY <1>6 DEF Finish
<1> QED BY <1>1, <1>2, <1>3, <1>4, <1>5, <1>6 DEF OtherJob

\* tool_result() closes steps for good.
LEMMA ResultShuts ==
    ASSUME NEW c \in Calls, NEW status \in {"completed", "failed"}
    PROVE  Shuts(ResultJob(c, status))
<1> DEFINE j == ResultJob(c, status)
<1> USE DEF Shuts, Inserts, Closes
<1>1. \/ /\ Len(j) = 4 /\ Closes(j[1], toolSteps[c]) /\ j[1].status = status
         /\ j[2].do = "read" /\ Inserts(j[3], "observation")
         /\ j[4].do = "close_latest" /\ j[4].status = status
      \/ /\ Len(j) = 3 /\ j[1].do = "read" /\ Inserts(j[2], "observation")
         /\ j[3].do = "close_latest" /\ j[3].status = status
  BY ResultIs
<1> HIDE DEF j
<1>2. Shuts(j)
  BY <1>1
<1> QED BY <1>2 DEF j

\* The call a batch prepares is one of the run's.
LEMMA ThisCall ==
    ASSUME IInv, pc = "prepare", next <= size
    PROVE  This \in Calls /\ next \in Slots
<1>1. TypeOK /\ Started
  BY DEF IInv
<1>2. iteration \in 1 .. MaxIterations
  BY <1>1, TimelineAssumption DEF TypeOK, Started
<1>3. size \in 0 .. MaxBatch /\ next \in 1 .. MaxBatch + 1
  BY <1>1 DEF TypeOK, Procs
<1>4. next \in 1 .. MaxBatch
  BY <1>3, TimelineAssumption
<1> QED BY <1>2, <1>4 DEF Calls, This, Slots

\* What the loop itself starts.
LEMMA LoopJobs ==
    ASSUME IInv, \/ StartIteration \/ EndBlock \/ StopCancelled
                 \/ AnswerText \/ AnswerCalls \/ AnswerFails \/ EndRun
                 \/ Malformed \/ Announce \/ Consented \/ Denied \/ SkipCall
                 \/ Gather \/ CollectResults \/ Recover \/ ConsentRaises \/ GatherRaises
                 \/ LeaveRun
    PROVE  /\ job[0] = << >> /\ UNCHANGED <<steps, toolSteps, faults, crashes>>
           /\ job' = job \/ \E j : Callback(j) /\ OtherJob(j)
<1> USE DEF At, OtherJob
<1>1. CASE StartIteration \/ EndBlock \/ StopCancelled \/ AnswerText \/ AnswerCalls
  BY <1>1 DEF StartIteration, EndBlock, StopCancelled, AnswerText, AnswerCalls, Rest
<1>2. CASE AnswerFails
  BY <1>2 DEF AnswerFails, Rest
<1>3. CASE EndRun
  BY <1>3 DEF EndRun, Rest
<1>4. CASE Malformed \/ Announce \/ Consented \/ Denied \/ SkipCall \/ ConsentRaises
  <2>1. This \in Calls
    BY <1>4, ThisCall DEF Malformed, Announce, Consented, Denied, SkipCall, ConsentRaises, Preparing
  <2> QED BY <1>4, <2>1 DEF Malformed, Announce, Consented, Denied, SkipCall, ConsentRaises,
                            Preparing, PrepareRest, Rest
<1>5. CASE Gather \/ CollectResults \/ Recover \/ GatherRaises \/ LeaveRun
  BY <1>5 DEF Gather, CollectResults, Recover, GatherRaises, LeaveRun, Rest
<1> QED BY <1>1, <1>2, <1>3, <1>4, <1>5

\* A call reports its result, out of the loop or out of the batch.
Reports(p, c, status) ==
    /\ p \in Procs /\ c \in Calls /\ status \in {"completed", "failed"}
    /\ \/ p = 0 /\ pc = "prepare" /\ c = This /\ next <= size /\ fate[c] \in {"refused", "blocked"}
       \/ p \in Slots /\ Running /\ c = <<iteration, p>> /\ fate[c] = "ready"
    /\ Ending(job[0]) /\ (pc = "prepare" => job[0] = << >>)
    /\ job' = [job EXCEPT ![p] = ResultJob(c, status)]
    /\ \/ pc = "prepare" /\ fate' = [fate EXCEPT ![c] = "denied"] /\ next' = next
       \/ fate' = [fate EXCEPT ![c] = "settled"]
    /\ UNCHANGED <<pc, iteration, size, thinking, toolSteps, ordinal, latest, steps, run,
                   faults, crashes>>

\* The three places tool_result() is called from.
LEMMA ReportJobs ==
    ASSUME IInv, ReportRefusal \/ ReportBlock \/ \E i \in Slots : ReportResult(i)
    PROVE  \E p, c, status : Reports(p, c, status)
<1> USE DEF Reports
<1>1. CASE ReportRefusal \/ ReportBlock
  <2>1. pc = "prepare" /\ next <= size /\ job[0] = << >> /\ fate[This] \in {"refused", "blocked"}
    BY <1>1 DEF ReportRefusal, ReportBlock, Preparing, At
  <2>2. This \in Calls /\ 0 \in Procs
    BY <2>1, ThisCall, TimelineAssumption DEF Procs
  <2>3. /\ job' = [job EXCEPT ![0] = ResultJob(This, "failed")]
        /\ \/ fate' = [fate EXCEPT ![This] = "denied"] /\ next' = next
           \/ fate' = [fate EXCEPT ![This] = "settled"]
        /\ UNCHANGED <<pc, iteration, size, thinking, toolSteps, ordinal, latest, steps, run,
                       faults, crashes>>
    BY <1>1 DEF ReportRefusal, ReportBlock, Callback, Becomes, Stay, PrepareRest, Rest
  <2>4. Reports(0, This, "failed")
    BY <2>1, <2>2, <2>3 DEF Ending
  <2> QED BY <2>4
<1>2. ASSUME NEW i \in Slots, ReportResult(i)
      PROVE  \E p, c, status : Reports(p, c, status)
  <2>1. iteration \in 1 .. MaxIterations
    BY <1>2, TimelineAssumption DEF IInv, TypeOK, Started, ReportResult
  <2>2. <<iteration, i>> \in Calls /\ i \in Procs
    BY <2>1, TimelineAssumption DEF Calls, Procs, Slots
  <2>3. PICK status \in {"completed", "failed"} :
            job' = [job EXCEPT ![i] = ResultJob(<<iteration, i>>, status)]
    BY <1>2 DEF ReportResult
  <2>4. Reports(i, <<iteration, i>>, status)
    BY <1>2, <2>2, <2>3 DEF ReportResult, Running, IInv, OneAtATime, Rest
  <2> QED BY <2>4
<1> QED BY <1>1, <1>2

\* Every step is one of these.
LEMMA StepIs ==
    ASSUME IInv, [Next]_vars
    PROVE  \/ \E p \in Procs : DaoCall(p) \/ DaoFails(p)
           \/ \E p, c, status : Reports(p, c, status)
           \/ Crash
           \/ \/ StartIteration \/ EndBlock \/ StopCancelled
              \/ AnswerText \/ AnswerCalls \/ AnswerFails \/ EndRun
              \/ Malformed \/ Announce \/ Consented \/ Denied \/ SkipCall
              \/ Gather \/ CollectResults \/ Recover \/ ConsentRaises \/ GatherRaises
              \/ LeaveRun
           \/ UNCHANGED vars
BY ReportJobs DEF Next, Done

\* No step leaves a job that could open a step again.
LEMMA ShutStep ==
    ASSUME IInv, JobsShut, [Next]_vars
    PROVE  JobsShut'
<1>1. job \in [Procs -> Seq(Op)] /\ 0 \in Procs
  BY TimelineAssumption DEF IInv, TypeOK, Procs
<1>2. Shuts(<< >>)
  BY DEF Shuts
<1>3. CASE \E p \in Procs : DaoCall(p) \/ DaoFails(p)
  <2>1. PICK p \in Procs : DaoCall(p) \/ DaoFails(p)
    BY <1>3
  <2>2. job[p] \in Seq(Op) /\ job[p] # << >>
    BY <1>1, <2>1 DEF DaoCall, DaoFails
  <2>3. Shuts(Tail(job[p]))
    BY <2>2, TailIs DEF JobsShut, Shuts
  <2>4. job' = [job EXCEPT ![p] = Tail(job[p])] \/ job' = [job EXCEPT ![p] = << >>]
    BY <2>1 DEF DaoCall, DaoFails
  <2> QED BY <1>1, <1>2, <2>3, <2>4 DEF JobsShut
<1>4. CASE \E p, c, status : Reports(p, c, status)
  <2>1. PICK p, c, status : Reports(p, c, status)
    BY <1>4
  <2>2. Shuts(ResultJob(c, status))
    BY <2>1, ResultShuts DEF Reports
  <2>3. p \in Procs /\ job' = [job EXCEPT ![p] = ResultJob(c, status)]
    BY <2>1 DEF Reports
  <2> QED BY <1>1, <2>2, <2>3 DEF JobsShut
<1>5. CASE Crash
  BY <1>2, <1>5 DEF Crash, JobsShut
<1>6. CASE job' = job \/ \E j : Callback(j) /\ OtherJob(j)
  <2>1. CASE job' = job
    BY <2>1 DEF JobsShut
  <2>2. CASE \E j : Callback(j) /\ OtherJob(j)
    <3>1. PICK j : Callback(j) /\ OtherJob(j)
      BY <2>2
    <3>2. Shuts(j)
      BY <3>1, OtherJobIs
    <3> QED BY <1>1, <3>1, <3>2 DEF Callback, JobsShut
  <2> QED BY <1>6, <2>1, <2>2
<1>7. CASE UNCHANGED vars
  BY <1>7 DEF vars, jobVars, JobsShut
<1> QED BY <1>3, <1>4, <1>5, <1>6, <1>7, StepIs, LoopJobs

\* Nor does the beginning.
LEMMA ShutInit == Init => JobsShut
BY DEF Init, JobsShut, Shuts

-----------------------------------------------------------------------------
(* A result hangs under its call: the strengthening *)

Live == pc \notin {"down", "over"}
Told == {"malformed", "refused", "denied", "granted", "blocked", "raised", "ready"}
Reported == {"denied", "settled"}

\* _tool_steps names the steps of the calls.
StepsKnown ==
    \A c \in Calls : toolSteps[c] # 0 =>
        /\ toolSteps[c] \in 1 .. Len(steps)
        /\ steps[toolSteps[c]].kind = "tool_call" /\ steps[toolSteps[c]].call = c

\* A call that was announced has a step, or the loop is still creating it.
Announced ==
    Live => \A c \in Calls : fate[c] \in Told =>
        \/ toolSteps[c] # 0
        \/ \E k \in 1 .. Len(job[0]) : Inserts(job[0][k], "tool_call") /\ job[0][k].call = c

Observed(rows, c) == \E i \in 1 .. Len(rows) : rows[i].kind = "observation" /\ rows[i].call = c

\* A call that has not reported has no observation, stored or pending.
Unreported ==
    \A c \in Calls : fate[c] \notin Reported =>
        /\ ~Observed(steps, c)
        /\ \A p \in Procs : \A k \in 1 .. Len(job[p]) :
               Inserts(job[p][k], "observation") => job[p][k].call # c

\* A pending observation is the only one of its call.
Once ==
    \A p \in Procs : \A k \in 1 .. Len(job[p]) : Inserts(job[p][k], "observation") =>
        /\ ~Observed(steps, job[p][k].call)
        /\ \A q \in Procs : \A l \in 1 .. Len(job[q]) :
               Inserts(job[q][l], "observation") /\ job[q][l].call = job[p][k].call
                   => q = p /\ l = k

\* It will hang under the step of its call, which is closed or is closed first.
Placed ==
    \A p \in Procs : \A k \in 1 .. Len(job[p]) : Inserts(job[p][k], "observation") =>
        /\ job[p][k].step \in 1 .. Len(steps)
        /\ steps[job[p][k].step].kind = "tool_call"
        /\ steps[job[p][k].step].call = job[p][k].call
        /\ \/ steps[job[p][k].step].status # "running"
           \/ \E l \in 1 .. k - 1 : Closes(job[p][l], job[p][k].step)

\* So do the observations that are stored.
Hung ==
    \A i \in 1 .. Len(steps) : steps[i].kind = "observation" =>
        /\ steps[i].parent \in 1 .. i - 1
        /\ steps[steps[i].parent].kind = "tool_call"
        /\ steps[steps[i].parent].call = steps[i].call
        /\ steps[steps[i].parent].status # "running"
        /\ \A j \in 1 .. Len(steps) : j # i /\ steps[j].kind = "observation"
                                          => steps[j].call # steps[i].call

ObsInv ==
    faults = 0 => StepsKnown /\ Announced /\ Unreported /\ Once /\ Placed /\ Hung

\* The callbacks of the loop observe nothing: they only have to announce.
LEMMA ObsQuiet ==
    ASSUME TypeOK, faults = 0, ObsInv, UNCHANGED steps,
           \A c \in Calls : toolSteps'[c] \in {0, toolSteps[c]},
           \A q \in Procs : job'[q] = job[q] \/ Unobserving(job'[q]),
           \A c \in Calls : fate[c] \in Reported => fate'[c] \in Reported,
           Announced'
    PROVE  ObsInv'
<1> USE DEF ObsInv
<1>1. StepsKnown'
  BY DEF StepsKnown
<1>2. ASSUME NEW q \in Procs, NEW k \in 1 .. Len(job'[q]), Inserts(job'[q][k], "observation")
      PROVE  job'[q] = job[q]
  BY <1>2 DEF Unobserving
<1>3. \A c : Observed(steps', c) <=> Observed(steps, c)
  BY DEF Observed
<1>4. Unreported'
  BY <1>2, <1>3 DEF Unreported
<1>5. Once'
  BY <1>2, <1>3 DEF Once
<1>6. Placed'
  BY <1>2 DEF Placed
<1>7. Hung'
  BY DEF Hung
<1> QED BY <1>1, <1>4, <1>5, <1>6, <1>7

\* A call reports: it has a step, which its callback closes before it observes.
LEMMA ObsReport ==
    ASSUME IInv, faults = 0, ObsInv, NEW p, NEW c, NEW status, Reports(p, c, status)
    PROVE  ObsInv'
<1> DEFINE j == ResultJob(c, status)
<1> USE DEF Reports
<1>1. job \in [Procs -> Seq(Op)] /\ fate \in [Calls -> Fate] /\ p \in Procs /\ c \in Calls
  BY DEF IInv, TypeOK
<1>2. job'[p] = j /\ \A q \in Procs \ {p} : job'[q] = job[q]
  BY <1>1
<1>3. fate'[c] \in Reported /\ \A d \in Calls \ {c} : fate'[d] = fate[d]
  BY <1>1 DEF Reported
<1>4. StepsKnown /\ Announced /\ Unreported /\ Once /\ Placed /\ Hung
  BY DEF ObsInv
<1>5. fate[c] \in {"refused", "blocked", "ready"} /\ Live /\ Ending(job[0])
  BY DEF Live, Running
<1>6. toolSteps[c] # 0
  BY <1>1, <1>4, <1>5 DEF Announced, Told, Ending, Inserts
<1>7. /\ Len(j) = 4
      /\ Closes(j[1], toolSteps[c])
      /\ j[2].do = "read"
      /\ Inserts(j[3], "observation") /\ j[3].call = c /\ j[3].step = toolSteps[c]
      /\ j[4].do = "close_latest"
  BY <1>6, ResultIs
<1> HIDE DEF j, Reports
<1>8. UNCHANGED <<steps, toolSteps, pc>> /\ Ending(job[0])
  BY DEF Reports
<1>9. \A k \in 1 .. Len(j) : Inserts(j[k], "observation") => k = 3
  BY <1>7 DEF Inserts, Closes
<1>10. \A d : Observed(steps', d) <=> Observed(steps, d)
  BY <1>8 DEF Observed
<1>11. /\ ~Observed(steps, c)
       /\ \A q \in Procs : \A k \in 1 .. Len(job[q]) :
              Inserts(job[q][k], "observation") => job[q][k].call # c
  BY <1>1, <1>4, <1>5 DEF Unreported, Reported
<1>12. StepsKnown' /\ Hung'
  BY <1>4, <1>8 DEF StepsKnown, Hung
<1>13. Announced'
  <2>1. SUFFICES ASSUME Live', NEW d \in Calls, fate'[d] \in Told
                 PROVE  toolSteps'[d] # 0
    BY DEF Announced
  <2>2. Live
    BY <1>8, <2>1 DEF Live
  <2>3. CASE d = c
    BY <1>6, <1>8, <2>3
  <2>4. CASE d # c
    BY <1>3, <1>4, <1>8, <2>1, <2>2, <2>4 DEF Announced, Ending, Inserts
  <2> QED BY <2>3, <2>4
<1>14. Unreported'
  <2>1. SUFFICES ASSUME NEW d \in Calls, fate'[d] \notin Reported
                 PROVE  /\ ~Observed(steps', d)
                        /\ \A q \in Procs : \A k \in 1 .. Len(job'[q]) :
                               Inserts(job'[q][k], "observation") => job'[q][k].call # d
    BY DEF Unreported
  <2>2. d # c /\ fate[d] \notin Reported
    BY <1>3, <2>1
  <2>3. ~Observed(steps', d)
    BY <1>4, <1>10, <2>2 DEF Unreported
  <2>4. ASSUME NEW q \in Procs, NEW k \in 1 .. Len(job'[q]), Inserts(job'[q][k], "observation")
        PROVE  job'[q][k].call # d
    <3>1. CASE q = p
      BY <1>2, <1>7, <1>9, <2>2, <2>4, <3>1
    <3>2. CASE q # p
      BY <1>2, <1>4, <2>2, <2>4, <3>2 DEF Unreported
    <3> QED BY <3>1, <3>2
  <2> QED BY <2>3, <2>4
<1>15. Once'
  <2>1. SUFFICES ASSUME NEW q \in Procs, NEW k \in 1 .. Len(job'[q]),
                        Inserts(job'[q][k], "observation")
                 PROVE  /\ ~Observed(steps', job'[q][k].call)
                        /\ \A r \in Procs : \A l \in 1 .. Len(job'[r]) :
                               Inserts(job'[r][l], "observation")
                               /\ job'[r][l].call = job'[q][k].call => r = q /\ l = k
    BY DEF Once
  <2>2. CASE q = p
    <3>1. k = 3 /\ job'[q][k].call = c
      BY <1>2, <1>7, <1>9, <2>1, <2>2
    <3>2. ASSUME NEW r \in Procs, NEW l \in 1 .. Len(job'[r]),
                 Inserts(job'[r][l], "observation"), job'[r][l].call = c
          PROVE  r = p /\ l = 3
      BY <1>2, <1>9, <1>11, <3>2
    <3>3. ~Observed(steps', c)
      BY <1>10, <1>11
    <3>4. ~Observed(steps', job'[q][k].call)
      BY <3>1, <3>3 DEF Observed
    <3> QED BY <2>2, <3>1, <3>2, <3>4
  <2>3. CASE q # p
    <3>1. job'[q] = job[q] /\ ~Observed(steps, job[q][k].call) /\ job[q][k].call # c
      BY <1>2, <1>4, <1>11, <2>1, <2>3 DEF Once
    <3>2. ~Observed(steps', job'[q][k].call)
      BY <1>8, <3>1 DEF Observed
    <3>3. ASSUME NEW r \in Procs, NEW l \in 1 .. Len(job'[r]),
                 Inserts(job'[r][l], "observation"), job'[r][l].call = job'[q][k].call
          PROVE  r = q /\ l = k
      <4>1. r # p
        BY <1>2, <1>7, <1>9, <3>1, <3>3
      <4> QED BY <1>2, <1>4, <2>1, <3>1, <3>3, <4>1 DEF Once
    <3> QED BY <3>2, <3>3
  <2> QED BY <2>2, <2>3
<1>16. Placed'
  <2>1. SUFFICES ASSUME NEW q \in Procs, NEW k \in 1 .. Len(job'[q]),
                        Inserts(job'[q][k], "observation")
                 PROVE  /\ job'[q][k].step \in 1 .. Len(steps)
                        /\ steps[job'[q][k].step].kind = "tool_call"
                        /\ steps[job'[q][k].step].call = job'[q][k].call
                        /\ \/ steps[job'[q][k].step].status # "running"
                           \/ \E l \in 1 .. k - 1 : Closes(job'[q][l], job'[q][k].step)
    BY <1>8 DEF Placed
  <2>2. CASE q = p
    <3>1. k = 3 /\ job'[q][k] = j[3]
      BY <1>2, <1>9, <2>1, <2>2
    <3>2. 1 \in 1 .. k - 1 /\ Closes(job'[q][1], toolSteps[c])
      BY <1>2, <1>7, <2>2, <3>1
    <3> QED BY <1>1, <1>4, <1>6, <1>7, <3>1, <3>2 DEF StepsKnown
  <2>3. CASE q # p
    BY <1>2, <1>4, <2>1, <2>3 DEF Placed
  <2> QED BY <2>2, <2>3
<1> QED BY <1>12, <1>13, <1>14, <1>15, <1>16 DEF ObsInv

\* Where a call of the job of q was, and where it is, once p has made its first.
Was(p, q, k) == IF q = p THEN k + 1 ELSE k
Is(p, q, m) == IF q = p THEN m - 1 ELSE m

\* A DAO call takes itself off the jobs, and nothing else.
LEMMA DaoJobs ==
    ASSUME TypeOK, NEW p \in Procs, DaoCall(p)
    PROVE  /\ job[p] # << >> /\ 1 \in 1 .. Len(job[p]) /\ Apply(p, job[p][1])
           /\ job[p][1] \in Op
           /\ \A q \in Procs : \A k \in 1 .. Len(job'[q]) :
                  Was(p, q, k) \in 1 .. Len(job[q]) /\ job'[q][k] = job[q][Was(p, q, k)]
           /\ \A q \in Procs : \A m \in 1 .. Len(job[q]) :
                  \/ q = p /\ m = 1
                  \/ Is(p, q, m) \in 1 .. Len(job'[q]) /\ job'[q][Is(p, q, m)] = job[q][m]
<1>1. job \in [Procs -> Seq(Op)] /\ job[p] \in Seq(Op) /\ job[p] # << >>
  BY DEF TypeOK, DaoCall
<1>2. Head(job[p]) = job[p][1] /\ job[p][1] \in Op /\ 1 \in 1 .. Len(job[p])
  BY <1>1
<1>3. Apply(p, job[p][1]) /\ job' = [job EXCEPT ![p] = Tail(job[p])]
  BY <1>2 DEF DaoCall
<1>4. job'[p] = Tail(job[p]) /\ \A q \in Procs \ {p} : job'[q] = job[q]
  BY <1>1, <1>3
<1>5. ASSUME NEW q \in Procs, NEW k \in 1 .. Len(job'[q])
      PROVE  Was(p, q, k) \in 1 .. Len(job[q]) /\ job'[q][k] = job[q][Was(p, q, k)]
  <2>1. CASE q = p
    <3>1. job'[q] = Tail(job[p]) /\ k \in 1 .. Len(Tail(job[p])) /\ Was(p, q, k) = k + 1
      BY <1>4, <1>5, <2>1 DEF Was
    <3>2. k + 1 \in 1 .. Len(job[p]) /\ Tail(job[p])[k] = job[p][k + 1]
      BY <1>1, <3>1, TailIs
    <3> QED BY <2>1, <3>1, <3>2
  <2>2. CASE q # p
    <3>1. Was(p, q, k) = k /\ job'[q] = job[q]
      BY <1>4, <2>2 DEF Was
    <3> QED BY <3>1
  <2> QED BY <2>1, <2>2
<1>6. ASSUME NEW q \in Procs, NEW m \in 1 .. Len(job[q]), ~(q = p /\ m = 1)
      PROVE  Is(p, q, m) \in 1 .. Len(job'[q]) /\ job'[q][Is(p, q, m)] = job[q][m]
  <2>1. CASE q = p
    <3>1. job'[q] = Tail(job[p]) /\ m \in 1 .. Len(job[p]) /\ m # 1 /\ Is(p, q, m) = m - 1
      BY <1>4, <1>6, <2>1 DEF Is
    <3>2. m - 1 \in 1 .. Len(Tail(job[p])) /\ Tail(job[p])[m - 1] = job[p][m]
      BY <1>1, <3>1, TailIs
    <3> QED BY <2>1, <3>1, <3>2
  <2>2. CASE q # p
    <3>1. Is(p, q, m) = m /\ job'[q] = job[q]
      BY <1>4, <2>2 DEF Is
    <3> QED BY <3>1
  <2> QED BY <2>1, <2>2
<1> QED BY <1>1, <1>2, <1>3, <1>5, <1>6

\* What it remembers of the row it has inserted.
LEMMA DaoNotes ==
    ASSUME TypeOK, NEW p \in Procs, DaoCall(p)
    PROVE  LET op == job[p][1]
           IN  /\ \A c \in Calls : toolSteps'[c] =
                      IF op.do = "insert" /\ op.kind = "tool_call" /\ op.call = c
                      THEN Len(steps) + 1 ELSE toolSteps[c]
               /\ thinking' = IF op.do = "insert" /\ op.kind = "thought"
                              THEN Len(steps) + 1 ELSE thinking
               /\ \A q \in Procs : latest'[q] =
                      IF q = p /\ op.do = "insert" THEN Len(steps) + 1 ELSE latest[q]
               /\ run' = IF op.do = "finish" THEN op.status ELSE run
               /\ UNCHANGED <<pc, iteration, size, next, fate, faults, crashes>>
<1>1. job[p] \in Seq(Op) /\ job[p] # << >>
  BY DEF TypeOK, DaoCall
<1>2. Head(job[p]) = job[p][1]
  BY <1>1
<1> DEFINE op == job[p][1]
<1> HIDE DEF op
<1>3. Head(job[p]) = op
  BY <1>2 DEF op
<1>4. /\ toolSteps' = IF op.do = "insert" /\ op.kind = "tool_call"
                      THEN [toolSteps EXCEPT ![op.call] = Len(steps) + 1] ELSE toolSteps
      /\ thinking' = IF op.do = "insert" /\ op.kind = "thought" THEN Len(steps) + 1 ELSE thinking
      /\ latest' = IF op.do = "insert" THEN [latest EXCEPT ![p] = Len(steps) + 1] ELSE latest
      /\ Apply(p, op)
      /\ UNCHANGED <<pc, iteration, size, next, fate, faults, crashes>>
  BY <1>3 DEF DaoCall, loopVars
<1>5. toolSteps \in [Calls -> Nat] /\ latest \in [Procs -> Nat]
  BY DEF TypeOK
<1>6. \A c \in Calls : toolSteps'[c] =
          IF op.do = "insert" /\ op.kind = "tool_call" /\ op.call = c
          THEN Len(steps) + 1 ELSE toolSteps[c]
  BY <1>4, <1>5
<1>7. \A q \in Procs : latest'[q] =
          IF q = p /\ op.do = "insert" THEN Len(steps) + 1 ELSE latest[q]
  BY <1>4, <1>5
<1>8. run' = IF op.do = "finish" THEN op.status ELSE run
  BY <1>4 DEF Apply
<1> QED BY <1>4, <1>6, <1>7, <1>8 DEF op

\* _tool_steps follows the steps of the calls as they are inserted.
LEMMA KnownDao ==
    ASSUME TypeOK, JobsShut, StepsKnown, NEW p \in Procs, DaoCall(p)
    PROVE  StepsKnown'
<1> DEFINE op == job[p][1]
           n == Len(steps)
<1>1. /\ RowsKept
      /\ op.do = "insert" => Added(op)
  BY DaoJobs, DaoEffect
<1>2. \A c \in Calls : toolSteps'[c] =
          IF op.do = "insert" /\ op.kind = "tool_call" /\ op.call = c
          THEN n + 1 ELSE toolSteps[c]
  BY DaoNotes
<1>3. n = Len(steps) /\ n \in Nat
  BY DEF TypeOK
<1> HIDE DEF op, n
<1>4. ASSUME NEW c \in Calls, toolSteps'[c] # 0
      PROVE  /\ toolSteps'[c] \in 1 .. Len(steps')
             /\ steps'[toolSteps'[c]].kind = "tool_call"
             /\ steps'[toolSteps'[c]].call = c
  <2>1. CASE op.do = "insert" /\ op.kind = "tool_call" /\ op.call = c
    BY <1>1, <1>2, <1>3, <2>1 DEF Added
  <2>2. CASE ~(op.do = "insert" /\ op.kind = "tool_call" /\ op.call = c)
    <3>1. toolSteps'[c] = toolSteps[c]
      BY <1>2, <2>2
    <3> QED BY <1>1, <1>4, <3>1 DEF StepsKnown, RowsKept
  <2> QED BY <2>1, <2>2
<1> QED BY <1>4 DEF StepsKnown

\* A DAO call that returns.
LEMMA ObsDao ==
    ASSUME TypeOK, JobsShut, faults = 0, ObsInv, NEW p \in Procs, DaoCall(p)
    PROVE  ObsInv'
<1> DEFINE op == job[p][1]
           n == Len(steps)
<1>1. StepsKnown /\ Announced /\ Unreported /\ Once /\ Placed /\ Hung
  BY DEF ObsInv
<1>2. /\ job[p] # << >> /\ 1 \in 1 .. Len(job[p]) /\ Apply(p, op) /\ op \in Op
      /\ \A q \in Procs : \A k \in 1 .. Len(job'[q]) :
             Was(p, q, k) \in 1 .. Len(job[q]) /\ job'[q][k] = job[q][Was(p, q, k)]
      /\ \A q \in Procs : \A m \in 1 .. Len(job[q]) :
             \/ q = p /\ m = 1
             \/ Is(p, q, m) \in 1 .. Len(job'[q]) /\ job'[q][Is(p, q, m)] = job[q][m]
  BY DaoJobs
<1>3. /\ RowsKept
      /\ op.do # "insert" => Len(steps') = n
      /\ op.do = "insert" => Added(op)
      /\ op.do = "close" => Shut(op.step)
  BY <1>2, DaoEffect
<1>4. /\ \A c \in Calls : toolSteps'[c] =
             IF op.do = "insert" /\ op.kind = "tool_call" /\ op.call = c
             THEN n + 1 ELSE toolSteps[c]
      /\ UNCHANGED <<pc, fate>>
  BY DaoNotes
<1>5. op = job[p][1] /\ n = Len(steps) /\ n \in Nat
  BY DEF TypeOK
<1> HIDE DEF op, n
<1>6. /\ Len(steps') \in {n, n + 1}
      /\ \A i \in 1 .. n : i \in 1 .. Len(steps')
      /\ \A i \in 1 .. Len(steps') : i \in 1 .. n \/ (i = n + 1 /\ op.do = "insert")
      /\ op.do = "insert" => Len(steps') = n + 1 /\ n + 1 \in 1 .. Len(steps')
  BY <1>3, <1>5 DEF Added
<1>7. /\ \A i \in 1 .. n :
             /\ steps'[i].kind = steps[i].kind /\ steps'[i].call = steps[i].call
             /\ steps'[i].parent = steps[i].parent
             /\ steps'[i].status = "running" => steps[i].status = "running"
      /\ op.do = "insert" =>
             /\ steps'[n + 1].kind = op.kind /\ steps'[n + 1].call = op.call
             /\ steps'[n + 1].parent = op.step /\ steps'[n + 1].status = op.status
  BY <1>3, <1>5 DEF RowsKept, Added
\* Only a pending observation becomes one.
<1>8. \A c : Observed(steps', c) =>
          Observed(steps, c) \/ (Inserts(op, "observation") /\ op.call = c)
  BY <1>5, <1>6, <1>7 DEF Observed, Inserts
<1>9. StepsKnown'
  BY <1>1, KnownDao
<1>10. Announced'
  <2>1. SUFFICES ASSUME Live', NEW c \in Calls, fate'[c] \in Told, toolSteps'[c] = 0
                 PROVE  \E k \in 1 .. Len(job'[0]) :
                            Inserts(job'[0][k], "tool_call") /\ job'[0][k].call = c
    BY DEF Announced
  <2>2. Live /\ fate[c] \in Told
    BY <1>4, <2>1 DEF Live
  <2>3. ~(op.do = "insert" /\ op.kind = "tool_call" /\ op.call = c) /\ toolSteps[c] = 0
    BY <1>4, <1>5, <2>1
  <2>4. PICK m \in 1 .. Len(job[0]) : Inserts(job[0][m], "tool_call") /\ job[0][m].call = c
    BY <1>1, <2>2, <2>3 DEF Announced
  <2>5. 0 \in Procs /\ ~(0 = p /\ m = 1)
    BY <1>5, <2>3, <2>4, TimelineAssumption DEF Procs, Inserts
  <2>6. Is(p, 0, m) \in 1 .. Len(job'[0]) /\ job'[0][Is(p, 0, m)] = job[0][m]
    BY <1>2, <2>5
  <2> QED BY <2>4, <2>6
<1>11. Unreported'
  <2>1. SUFFICES ASSUME NEW c \in Calls, fate[c] \notin Reported
                 PROVE  /\ ~Observed(steps', c)
                        /\ \A q \in Procs : \A k \in 1 .. Len(job'[q]) :
                               Inserts(job'[q][k], "observation") => job'[q][k].call # c
    BY <1>4 DEF Unreported
  <2>2. /\ ~Observed(steps, c)
        /\ \A q \in Procs : \A k \in 1 .. Len(job[q]) :
               Inserts(job[q][k], "observation") => job[q][k].call # c
    BY <1>1, <2>1 DEF Unreported
  <2>3. ~Observed(steps', c)
    BY <1>2, <1>5, <1>8, <2>2
  <2>4. ASSUME NEW q \in Procs, NEW k \in 1 .. Len(job'[q]), Inserts(job'[q][k], "observation")
        PROVE  job'[q][k].call # c
    <3>1. PICK m \in 1 .. Len(job[q]) : job'[q][k] = job[q][m]
      BY <1>2
    <3>2. Inserts(job[q][m], "observation")
      BY <2>4, <3>1
    <3> QED BY <2>2, <3>1, <3>2
  <2> QED BY <2>3, <2>4
<1>12. Once'
  <2>1. SUFFICES ASSUME NEW q \in Procs, NEW k \in 1 .. Len(job'[q]),
                        Inserts(job'[q][k], "observation")
                 PROVE  /\ ~Observed(steps', job'[q][k].call)
                        /\ \A r \in Procs : \A l \in 1 .. Len(job'[r]) :
                               Inserts(job'[r][l], "observation")
                               /\ job'[r][l].call = job'[q][k].call => r = q /\ l = k
    BY DEF Once
  <2>2. PICK m \in 1 .. Len(job[q]) : m = Was(p, q, k) /\ job'[q][k] = job[q][m]
    BY <1>2
  <2>3. /\ Inserts(job[q][m], "observation") /\ ~Observed(steps, job[q][m].call)
        /\ \A r \in Procs : \A l \in 1 .. Len(job[r]) :
               Inserts(job[r][l], "observation") /\ job[r][l].call = job[q][m].call
                   => r = q /\ l = m
    BY <1>1, <2>1, <2>2 DEF Once
  <2>4. ~(q = p /\ m = 1)
    BY <2>2 DEF Was
  <2>5. ~Observed(steps', job'[q][k].call)
    <3>1. Inserts(op, "observation") => op.call # job[q][m].call
      BY <1>2, <1>5, <2>3, <2>4
    <3>2. ~Observed(steps', job[q][m].call)
      BY <1>8, <2>3, <3>1
    <3> QED BY <2>2, <3>2
  <2>6. ASSUME NEW r \in Procs, NEW l \in 1 .. Len(job'[r]),
               Inserts(job'[r][l], "observation"), job'[r][l].call = job'[q][k].call
        PROVE  r = q /\ l = k
    <3>2. PICK i \in 1 .. Len(job[r]) : i = Was(p, r, l) /\ job'[r][l] = job[r][i]
      BY <1>2
    <3>1. r = q /\ Was(p, r, l) = m
      <4>1. Inserts(job[r][i], "observation") /\ job[r][i].call = job[q][m].call
        BY <2>2, <2>6, <3>2
      <4> QED BY <2>3, <3>2, <4>1
    <3> QED BY <2>2, <3>1 DEF Was
  <2> QED BY <2>5, <2>6
<1>13. Placed'
  <2>1. SUFFICES ASSUME NEW q \in Procs, NEW k \in 1 .. Len(job'[q]),
                        Inserts(job'[q][k], "observation")
                 PROVE  /\ job'[q][k].step \in 1 .. Len(steps')
                        /\ steps'[job'[q][k].step].kind = "tool_call"
                        /\ steps'[job'[q][k].step].call = job'[q][k].call
                        /\ \/ steps'[job'[q][k].step].status # "running"
                           \/ \E l \in 1 .. k - 1 : Closes(job'[q][l], job'[q][k].step)
    BY DEF Placed
  <2>2. PICK m \in 1 .. Len(job[q]) : m = Was(p, q, k) /\ job'[q][k] = job[q][m]
    BY <1>2
  <2> DEFINE s == job[q][m].step
  <2>3. /\ s \in 1 .. n /\ steps[s].kind = "tool_call" /\ steps[s].call = job[q][m].call
        /\ steps[s].status # "running" \/ \E l \in 1 .. m - 1 : Closes(job[q][l], s)
    BY <1>1, <1>5, <2>1, <2>2 DEF Placed
  <2>4. job'[q][k].step = s
    BY <2>2
  <2> HIDE DEF s
  <2>5. s \in 1 .. Len(steps') /\ steps'[s].kind = "tool_call" /\ steps'[s].call = job'[q][k].call
    BY <1>6, <1>7, <2>2, <2>3
  <2>6. steps'[s].status # "running" \/ \E l \in 1 .. k - 1 : Closes(job'[q][l], s)
    <3>1. CASE steps[s].status # "running"
      BY <1>7, <2>3, <3>1
    <3>2. CASE \E l \in 1 .. m - 1 : Closes(job[q][l], s)
      <4>1. PICK l \in 1 .. m - 1 : Closes(job[q][l], s)
        BY <3>2
      <4>2. l \in 1 .. Len(job[q])
        BY <4>1
      <4>3. CASE q = p /\ l = 1
        BY <1>3, <1>5, <2>3, <4>1, <4>3 DEF Shut, Closes
      <4>4. CASE ~(q = p /\ l = 1)
        <5>1. Is(p, q, l) \in 1 .. Len(job'[q]) /\ job'[q][Is(p, q, l)] = job[q][l]
          BY <1>2, <4>2, <4>4
        <5>2. Is(p, q, l) \in 1 .. k - 1
          BY <2>2, <4>1, <5>1 DEF Is, Was
        <5> QED BY <4>1, <5>1, <5>2
      <4> QED BY <4>3, <4>4
    <3> QED BY <2>3, <3>1, <3>2
  <2> QED BY <2>4, <2>5, <2>6
<1>14. Hung'
  <2>1. SUFFICES ASSUME NEW i \in 1 .. Len(steps'), steps'[i].kind = "observation"
                 PROVE  /\ steps'[i].parent \in 1 .. i - 1
                        /\ steps'[steps'[i].parent].kind = "tool_call"
                        /\ steps'[steps'[i].parent].call = steps'[i].call
                        /\ steps'[steps'[i].parent].status # "running"
                        /\ \A j \in 1 .. Len(steps') :
                               j # i /\ steps'[j].kind = "observation"
                                   => steps'[j].call # steps'[i].call
    BY DEF Hung
  \* The observation being inserted has none before it.
  <2>2. Inserts(op, "observation") => ~Observed(steps, op.call)
    BY <1>1, <1>2, <1>5 DEF Once
  <2>3. CASE i \in 1 .. n
    <3> DEFINE s == steps[i].parent
    <3>1. /\ s \in 1 .. i - 1 /\ steps[s].kind = "tool_call" /\ steps[s].call = steps[i].call
          /\ steps[s].status # "running"
          /\ \A j \in 1 .. n : j # i /\ steps[j].kind = "observation"
                                   => steps[j].call # steps[i].call
      BY <1>1, <1>5, <1>7, <2>1, <2>3 DEF Hung
    <3>2. steps'[i].parent = s /\ steps'[i].call = steps[i].call /\ steps[i].kind = "observation"
      BY <1>7, <2>1, <2>3
    <3> HIDE DEF s
    <3>3. s \in 1 .. n
      BY <1>5, <2>3, <3>1
    <3>4. ASSUME NEW j \in 1 .. Len(steps'), j # i, steps'[j].kind = "observation"
          PROVE  steps'[j].call # steps[i].call
      <4>1. CASE j \in 1 .. n
        BY <1>7, <3>1, <3>4, <4>1
      <4>2. CASE j = n + 1 /\ op.do = "insert"
        BY <1>5, <1>7, <2>2, <2>3, <3>2, <3>4, <4>2 DEF Inserts, Observed
      <4> QED BY <1>6, <4>1, <4>2
    <3> QED BY <1>7, <3>1, <3>2, <3>3, <3>4
  <2>4. CASE i = n + 1 /\ op.do = "insert"
    <3>1. Inserts(op, "observation")
      BY <1>7, <2>1, <2>4 DEF Inserts
    <3> DEFINE s == op.step
    <3>2. /\ s \in 1 .. n /\ steps[s].kind = "tool_call" /\ steps[s].call = op.call
          /\ steps[s].status # "running" \/ \E l \in 1 .. 1 - 1 : Closes(job[p][l], s)
      BY <1>1, <1>2, <1>5, <3>1 DEF Placed
    <3>3. steps[s].status # "running"
      BY <3>2
    <3>4. steps'[i].parent = s /\ steps'[i].call = op.call
      BY <1>7, <2>4
    <3> HIDE DEF s
    <3>5. ASSUME NEW j \in 1 .. Len(steps'), j # i, steps'[j].kind = "observation"
          PROVE  steps'[j].call # op.call
      <4>1. j \in 1 .. n
        BY <1>6, <2>4, <3>5
      <4> QED BY <1>5, <1>7, <2>2, <3>1, <3>5, <4>1 DEF Observed
    <3>6. s \in 1 .. i - 1
      BY <1>5, <2>4, <3>2
    <3> QED BY <1>7, <3>2, <3>3, <3>4, <3>5, <3>6
  <2> QED BY <1>6, <2>3, <2>4
<1> QED BY <1>9, <1>10, <1>11, <1>12, <1>13, <1>14 DEF ObsInv

\* What the loop's own steps do to the fates of the calls.
LEMMA FatesMove ==
    ASSUME IInv, \/ StartIteration \/ EndBlock \/ StopCancelled
                 \/ AnswerText \/ AnswerCalls \/ AnswerFails \/ EndRun
                 \/ Malformed \/ Announce \/ Consented \/ Denied \/ SkipCall
                 \/ Gather \/ CollectResults \/ Recover \/ ConsentRaises \/ GatherRaises
                 \/ LeaveRun
    PROVE  /\ \A c \in Calls : fate[c] \in Reported => fate'[c] \in Reported
           /\ \A c \in Calls : fate'[c] \in Told =>
                  fate[c] \in Told \/ (c = This /\ Callback(CallJob(This)))
           /\ Live' => Live
<1> USE DEF Reported, Told
<1>1. fate \in [Calls -> Fate]
  BY DEF IInv, TypeOK
<1>2. CASE \/ StartIteration \/ EndBlock \/ StopCancelled \/ AnswerText \/ AnswerCalls
           \/ AnswerFails \/ EndRun \/ Gather \/ CollectResults \/ Recover \/ LeaveRun
  BY <1>2 DEF StartIteration, EndBlock, StopCancelled, AnswerText, AnswerCalls, AnswerFails,
              EndRun, Gather, CollectResults, Recover, LeaveRun, At, Live
<1>4. CASE GatherRaises
  <2>1. PICK R \in SUBSET {i \in 1 .. size : fate[<<iteration, i>>] = "ready"} :
            fate' = [c \in Calls |->
                        IF c[1] = iteration /\ c[2] \in R THEN "raised" ELSE fate[c]]
    BY <1>4 DEF GatherRaises
  <2>2. \A c \in Calls : fate'[c] = fate[c] \/ (fate'[c] = "raised" /\ fate[c] = "ready")
    <3>1. \A c \in Calls : c = <<c[1], c[2]>>
      BY DEF Calls
    <3> QED BY <2>1, <3>1
  <2> QED BY <1>4, <2>2 DEF GatherRaises, At, Live
<1>3. CASE Malformed \/ Announce \/ Consented \/ Denied \/ SkipCall \/ ConsentRaises
  <2>1. Live' => Live
    BY <1>3 DEF Malformed, Announce, Consented, Denied, SkipCall, ConsentRaises, Preparing, At, PrepareRest, Live
  <2>2. PICK f : fate' = [fate EXCEPT ![This] = f]
    BY <1>3 DEF Malformed, Announce, Consented, Denied, SkipCall, ConsentRaises, Becomes
  <2>3. \A c \in Calls : c # This => fate'[c] = fate[c]
    BY <1>1, <2>2
  <2>4. This \in Calls
    BY <1>3, ThisCall DEF Malformed, Announce, Consented, Denied, SkipCall, ConsentRaises, Preparing, At
  <2>5. CASE Malformed \/ Announce \/ ConsentRaises
    <3>1. fate[This] = "todo" /\ Callback(CallJob(This))
      BY <2>5 DEF Malformed, Announce, ConsentRaises, Preparing
    <3> QED BY <2>1, <2>3, <3>1
  <2>6. CASE Consented
    <3>1. fate[This] = "granted"
      BY <2>6 DEF Consented, Preparing
    <3> QED BY <2>1, <2>3, <3>1
  <2>7. CASE Denied \/ SkipCall
    <3>1. fate' = [fate EXCEPT ![This] = "settled"]
      BY <2>7 DEF Denied, SkipCall, Becomes
    <3>2. fate'[This] = "settled"
      BY <1>1, <2>4, <3>1
    <3> QED BY <2>1, <2>3, <3>2
  <2> QED BY <1>3, <2>5, <2>6, <2>7
<1> QED BY <1>2, <1>3, <1>4

\* The loop announces every call it decides about.
LEMMA ObsLoop ==
    ASSUME IInv, faults = 0, ObsInv,
           \/ StartIteration \/ EndBlock \/ StopCancelled
           \/ AnswerText \/ AnswerCalls \/ AnswerFails \/ EndRun
           \/ Malformed \/ Announce \/ Consented \/ Denied \/ SkipCall
           \/ Gather \/ CollectResults \/ Recover \/ ConsentRaises \/ GatherRaises
           \/ LeaveRun
    PROVE  ObsInv'
<1>1. /\ job[0] = << >> /\ UNCHANGED <<steps, toolSteps>>
      /\ job' = job \/ \E j : Callback(j) /\ OtherJob(j)
  BY LoopJobs
<1>2. /\ \A c \in Calls : fate[c] \in Reported => fate'[c] \in Reported
      /\ \A c \in Calls : fate'[c] \in Told =>
             fate[c] \in Told \/ (c = This /\ Callback(CallJob(This)))
      /\ Live' => Live
  BY FatesMove
<1>3. TypeOK /\ job \in [Procs -> Seq(Op)] /\ 0 \in Procs
  <2>1. TypeOK
    BY DEF IInv
  <2>2. job \in [Procs -> Seq(Op)]
    BY <2>1 DEF TypeOK
  <2> QED BY <2>1, <2>2, TimelineAssumption DEF Procs
<1>4. \A q \in Procs : job'[q] = job[q] \/ Unobserving(job'[q])
  <2>1. CASE job' = job
    BY <2>1
  <2>2. CASE \E j : Callback(j) /\ OtherJob(j)
    <3>1. PICK j : Callback(j) /\ OtherJob(j)
      BY <2>2
    <3>2. Unobserving(j)
      BY <3>1, OtherJobIs
    <3> QED BY <1>3, <3>1, <3>2 DEF Callback
  <2> QED BY <1>1, <2>1, <2>2
<1>5. Announced'
  <2>1. SUFFICES ASSUME Live', NEW c \in Calls, fate'[c] \in Told, toolSteps[c] = 0
                 PROVE  \E k \in 1 .. Len(job'[0]) :
                            Inserts(job'[0][k], "tool_call") /\ job'[0][k].call = c
    BY <1>1 DEF Announced
  <2>2. fate[c] \notin Told
    BY <1>1, <1>2, <2>1 DEF ObsInv, Announced
  <2>3. c = This /\ job' = [job EXCEPT ![0] = CallJob(c)]
    BY <1>2, <2>1, <2>2 DEF Callback
  <2>4. job'[0] = Create("tool_call", "running", c, 0)
    BY <1>3, <2>1, <2>3 DEF CallJob
  <2>5. Len(job'[0]) = 2 /\ Inserts(job'[0][2], "tool_call") /\ job'[0][2].call = c
    BY <2>4, CreateIs
  <2> QED BY <2>5
<1>6. \A c \in Calls : toolSteps'[c] \in {0, toolSteps[c]}
  BY <1>1
<1> QED BY <1>1, <1>2, <1>3, <1>4, <1>5, <1>6, ObsQuiet

\* It holds throughout.
LEMMA ObsHolds == Spec => [](JobsShut /\ ObsInv)
<1>1. Init => JobsShut /\ ObsInv
  <2> SUFFICES ASSUME Init PROVE ObsInv
    BY ShutInit
  <2> USE DEF Init
  <2>1. \A p \in Procs : job[p] = << >>
    OBVIOUS
  <2>2. StepsKnown /\ Announced /\ Unreported /\ Once /\ Placed /\ Hung
    BY <2>1 DEF StepsKnown, Announced, Told, Unreported, Observed, Once, Placed, Hung
  <2> QED BY <2>2 DEF ObsInv
<1>2. IInv /\ JobsShut /\ ObsInv /\ [Next]_vars => (JobsShut /\ ObsInv)'
  <2> SUFFICES ASSUME IInv, JobsShut, ObsInv, [Next]_vars, faults' = 0 PROVE ObsInv'
    BY ShutStep DEF ObsInv
  <2>1. TypeOK
    BY DEF IInv
  <2>2. CASE \E p \in Procs : DaoFails(p)
    BY <2>1, <2>2 DEF DaoFails, TypeOK
  <2>3. CASE \E p \in Procs : DaoCall(p)
    <3>1. faults = 0
      BY <2>3 DEF DaoCall
    <3> QED BY <2>1, <2>3, <3>1, ObsDao
  <2>4. CASE \E p, c, status : Reports(p, c, status)
    <3>1. PICK p, c, status : Reports(p, c, status)
      BY <2>4
    <3>2. faults = 0
      BY <3>1 DEF Reports
    <3> QED BY <3>1, <3>2, ObsReport
  <2>5. CASE Crash
    <3>1. faults = 0 /\ UNCHANGED <<steps, fate>> /\ Announced'
      BY <2>5 DEF Crash, Announced, Live
    <3>2. \A q \in Procs : Unobserving(job'[q])
      BY <2>5 DEF Crash, Unobserving
    <3>3. \A c \in Calls : toolSteps'[c] \in {0, toolSteps[c]}
      BY <2>5 DEF Crash
    <3> QED BY <2>1, <3>1, <3>2, <3>3, ObsQuiet
  <2>6. CASE \/ StartIteration \/ EndBlock \/ StopCancelled
             \/ AnswerText \/ AnswerCalls \/ AnswerFails \/ EndRun
             \/ Malformed \/ Announce \/ Consented \/ Denied \/ SkipCall
             \/ Gather \/ CollectResults \/ Recover \/ ConsentRaises \/ GatherRaises
             \/ LeaveRun
    <3>1. faults = 0
      BY <2>6, LoopJobs
    <3> QED BY <2>6, <3>1, ObsLoop
  <2>7. CASE UNCHANGED vars
    <3>1. faults = 0 /\ UNCHANGED <<steps, fate, toolSteps, job, pc>>
      BY <2>7 DEF vars, loopVars, jobVars
    <3>2. Announced'
      BY <3>1 DEF ObsInv, Announced, Live
    <3> QED BY <2>1, <3>1, <3>2, ObsQuiet
  <2> QED BY <2>2, <2>3, <2>4, <2>5, <2>6, <2>7, StepIs
<1> QED BY <1>1, <1>2, Invariance, PTL DEF Spec

\* tool_result() closes the step of its call and hangs the observation under it:
\* while no write is lost, an observation has a call, a closed one, and a call
\* has one observation, however the callbacks of a batch interleave.
THEOREM ObservationUnderItsCallHolds == Spec => []ObservationUnderItsCall
<1>1. TypeOK /\ ObsInv => ObservationUnderItsCall
  <2> SUFFICES ASSUME TypeOK, ObsInv, faults = 0 PROVE ObservationUnderItsCall
    BY DEF ObservationUnderItsCall
  <2>1. DOMAIN steps = 1 .. Len(steps)
    BY DEF TypeOK
  <2>2. Hung
    BY DEF ObsInv
  <2> QED BY <2>1, <2>2 DEF Hung, ObservationUnderItsCall
<1> QED BY <1>1, ObsHolds, Invariance, PTL DEF IInv

-----------------------------------------------------------------------------
(* Who closes a step: the lists of DAO calls *)

\* A callback creates one step and closes one; it closes before it creates,
\* whatever it creates "running" and is to end with it is closed after, and the
\* run is finished last.
Orderly(j) ==
    /\ \A k, l \in 1 .. Len(j) :
           /\ j[k].do = "insert" /\ j[l].do = "insert" => k = l
           /\ j[k].do = "close" /\ j[l].do = "close" => k = l
           /\ j[k].do = "insert" /\ j[l].do = "close" => l < k
           /\ j[k].do = "close" /\ j[l].do = "close_latest" =>
                  \E m \in 1 .. Len(j) : j[m].do = "insert"
           /\ j[k].do = "finish" /\ j[l].do = "insert" => j[l].kind # "thought"
    /\ \A k \in 1 .. Len(j) :
           /\ j[k].do = "finish" => k = Len(j)
           /\ j[k].do = "insert" /\ j[k].status = "running"
              /\ j[k].kind \notin {"thought", "tool_call"} =>
                  \E m \in 1 .. Len(j) : k < m /\ j[m].do = "close_latest"

Ordered == \A p \in Procs : Orderly(job[p])

\* What is left of a callback is in order.
LEMMA OrderlyTail ==
    ASSUME NEW j \in Seq(Op), j # << >>, Orderly(j)
    PROVE  Orderly(Tail(j))
<1> DEFINE t == Tail(j)
<1>1. /\ Len(j) \in Nat /\ Len(t) = Len(j) - 1
      /\ \A k \in 1 .. Len(t) : k + 1 \in 1 .. Len(j) /\ t[k] = j[k + 1]
      /\ \A m \in 1 .. Len(j) : m = 1 \/ (m - 1 \in 1 .. Len(t) /\ t[m - 1] = j[m])
  BY TailIs
<1> HIDE DEF t
<1>2. ASSUME NEW k \in 1 .. Len(t), NEW l \in 1 .. Len(t)
      PROVE  /\ t[k].do = "insert" /\ t[l].do = "insert" => k = l
             /\ t[k].do = "close" /\ t[l].do = "close" => k = l
             /\ t[k].do = "insert" /\ t[l].do = "close" => l < k
             /\ t[k].do = "close" /\ t[l].do = "close_latest" =>
                    \E m \in 1 .. Len(t) : t[m].do = "insert"
             /\ t[k].do = "finish" /\ t[l].do = "insert" => t[l].kind # "thought"
  <2>1. /\ k + 1 \in 1 .. Len(j) /\ t[k] = j[k + 1] /\ l + 1 \in 1 .. Len(j) /\ t[l] = j[l + 1]
        /\ k \in Nat /\ l \in Nat
    BY <1>1
  <2>2. /\ t[k].do = "insert" /\ t[l].do = "insert" => k + 1 = l + 1
        /\ t[k].do = "close" /\ t[l].do = "close" => k + 1 = l + 1
        /\ t[k].do = "insert" /\ t[l].do = "close" => l + 1 < k + 1
        /\ t[k].do = "finish" /\ t[l].do = "insert" => t[l].kind # "thought"
    BY <2>1 DEF Orderly
  <2>3. ASSUME t[k].do = "close", t[l].do = "close_latest"
        PROVE  \E m \in 1 .. Len(t) : t[m].do = "insert"
    <3>1. PICK m \in 1 .. Len(j) : j[m].do = "insert"
      BY <2>1, <2>3 DEF Orderly
    <3>2. k + 1 < m
      BY <2>1, <2>3, <3>1 DEF Orderly
    <3>3. m - 1 \in 1 .. Len(t) /\ t[m - 1] = j[m]
      BY <1>1, <2>1, <3>2
    <3> QED BY <3>1, <3>3
  <2>4. /\ k + 1 = l + 1 => k = l
        /\ l + 1 < k + 1 => l < k
    BY <2>1
  <2> QED BY <2>2, <2>3, <2>4
<1>3. ASSUME NEW k \in 1 .. Len(t)
      PROVE  /\ t[k].do = "finish" => k = Len(t)
             /\ t[k].do = "insert" /\ t[k].status = "running"
                /\ t[k].kind \notin {"thought", "tool_call"} =>
                    \E m \in 1 .. Len(t) : k < m /\ t[m].do = "close_latest"
  <2>1. k + 1 \in 1 .. Len(j) /\ t[k] = j[k + 1] /\ k \in Nat
    BY <1>1
  <2>2. t[k].do = "finish" => k + 1 = Len(j)
    BY <2>1 DEF Orderly
  <2>3. ASSUME t[k].do = "insert", t[k].status = "running",
               t[k].kind \notin {"thought", "tool_call"}
        PROVE  \E m \in 1 .. Len(t) : k < m /\ t[m].do = "close_latest"
    <3>1. PICK m \in 1 .. Len(j) : k + 1 < m /\ j[m].do = "close_latest"
      BY <2>1, <2>3 DEF Orderly
    <3>2. m - 1 \in 1 .. Len(t) /\ t[m - 1] = j[m] /\ k < m - 1
      BY <1>1, <2>1, <3>1
    <3> QED BY <3>1, <3>2
  <2> QED BY <1>1, <2>1, <2>2, <2>3
<1>4. Orderly(t)
  BY <1>2, <1>3 DEF Orderly
<1> QED BY <1>4 DEF t

\* The kinds of callbacks there are.
LEMMA OrderlyLists ==
    ASSUME NEW j,
           \/ j = << >>
           \/ Len(j) = 1 /\ j[1].do # "insert"
           \/ Len(j) = 2 /\ j[1].do = "read" /\ j[2].do = "insert"
              /\ (j[2].status # "running" \/ j[2].kind \in {"thought", "tool_call"})
           \/ Len(j) = 3 /\ j[1].do = "close" /\ j[2].do = "read" /\ Inserts(j[3], "thought")
           \/ Len(j) = 3 /\ j[1].do = "read" /\ j[2].do = "insert" /\ j[3].do = "close_latest"
           \/ Len(j) = 4 /\ j[1].do = "close" /\ j[2].do = "read"
              /\ j[3].do = "insert" /\ j[4].do = "close_latest"
           \/ Len(j) = 4 /\ j[1].do = "read" /\ Inserts(j[2], "final")
              /\ j[3].do = "close_latest" /\ j[4].do = "finish"
    PROVE  Orderly(j)
<1> USE DEF Orderly, Inserts
<1>1. CASE j = << >>
  BY <1>1
<1>2. CASE Len(j) = 1 /\ j[1].do # "insert"
  BY <1>2
<1>3. CASE Len(j) = 2 /\ j[1].do = "read" /\ j[2].do = "insert"
          /\ (j[2].status # "running" \/ j[2].kind \in {"thought", "tool_call"})
  BY <1>3
<1>4. CASE Len(j) = 3 /\ j[1].do = "close" /\ j[2].do = "read" /\ Inserts(j[3], "thought")
  BY <1>4
<1>5. CASE Len(j) = 3 /\ j[1].do = "read" /\ j[2].do = "insert" /\ j[3].do = "close_latest"
  BY <1>5
<1>6. CASE Len(j) = 4 /\ j[1].do = "close" /\ j[2].do = "read"
          /\ j[3].do = "insert" /\ j[4].do = "close_latest"
  BY <1>6
<1>7. CASE Len(j) = 4 /\ j[1].do = "read" /\ Inserts(j[2], "final")
          /\ j[3].do = "close_latest" /\ j[4].do = "finish"
  BY <1>7
<1> HIDE DEF Orderly
<1> QED BY <1>1, <1>2, <1>3, <1>4, <1>5, <1>6, <1>7

\* Every callback is in order when it starts.
LEMMA OtherOrderly ==
    ASSUME NEW j, OtherJob(j)
    PROVE  Orderly(j)
<1> USE OrderlyLists DEF Inserts, Closes
<1>1. CASE j = CloseThought \o Create("thought", "running", NoCall, 0)
  BY <1>1, ThoughtIs
<1>2. CASE j = CloseThought
  BY <1>2, CloseThoughtIs
<1>3. CASE \E status \in {"completed", "failed"} : j = StatusStep(status)
  BY <1>3, CreateIs DEF StatusStep
<1>4. CASE \E c \in Calls : j = CallJob(c)
  BY <1>4, CreateIs DEF CallJob
<1>5. CASE \E status \in {"completed", "cancelled"} : j = CompleteJob(status)
  BY <1>5, CompleteIs
<1>6. CASE j = Finish("failed")
  BY <1>6 DEF Finish
<1> QED BY <1>1, <1>2, <1>3, <1>4, <1>5, <1>6 DEF OtherJob

\* And so is a result.
LEMMA ResultOrderly ==
    ASSUME NEW c, NEW status
    PROVE  Orderly(ResultJob(c, status))
BY ResultIs, OrderlyLists DEF Inserts, Closes

\* No step leaves a job out of order.
LEMMA OrderedStep ==
    ASSUME IInv, Ordered, [Next]_vars
    PROVE  Ordered'
<1>1. job \in [Procs -> Seq(Op)] /\ 0 \in Procs
  BY TimelineAssumption DEF IInv, TypeOK, Procs
<1>2. Orderly(<< >>)
  BY OrderlyLists
<1>3. CASE \E p \in Procs : DaoCall(p) \/ DaoFails(p)
  <2>1. PICK p \in Procs : DaoCall(p) \/ DaoFails(p)
    BY <1>3
  <2>2. job[p] \in Seq(Op) /\ job[p] # << >> /\ Orderly(job[p])
    BY <1>1, <2>1 DEF DaoCall, DaoFails, Ordered
  <2>3. Orderly(Tail(job[p]))
    BY <2>2, OrderlyTail
  <2>4. job' = [job EXCEPT ![p] = Tail(job[p])] \/ job' = [job EXCEPT ![p] = << >>]
    BY <2>1 DEF DaoCall, DaoFails
  <2> QED BY <1>1, <1>2, <2>3, <2>4 DEF Ordered
<1>4. CASE \E p, c, status : Reports(p, c, status)
  <2>1. PICK p, c, status : Reports(p, c, status)
    BY <1>4
  <2>2. Orderly(ResultJob(c, status))
    BY ResultOrderly
  <2>3. p \in Procs /\ job' = [job EXCEPT ![p] = ResultJob(c, status)]
    BY <2>1 DEF Reports
  <2> QED BY <1>1, <2>2, <2>3 DEF Ordered
<1>5. CASE Crash
  BY <1>2, <1>5 DEF Crash, Ordered
<1>6. CASE job' = job \/ \E j : Callback(j) /\ OtherJob(j)
  <2>1. CASE job' = job
    BY <2>1 DEF Ordered
  <2>2. CASE \E j : Callback(j) /\ OtherJob(j)
    <3>1. PICK j : Callback(j) /\ OtherJob(j)
      BY <2>2
    <3>2. Orderly(j)
      BY <3>1, OtherOrderly
    <3> QED BY <1>1, <3>1, <3>2 DEF Callback, Ordered
  <2> QED BY <1>6, <2>1, <2>2
<1>7. CASE UNCHANGED vars
  BY <1>7 DEF vars, jobVars, Ordered
<1> QED BY <1>3, <1>4, <1>5, <1>6, <1>7, StepIs, LoopJobs

-----------------------------------------------------------------------------
(* Who closes a step: the strengthening *)

\* Announced, and not yet reported.
Open == {"malformed", "refused", "granted", "blocked", "raised", "ready"}

\* What a pending call finds: the call it announces is open and has no step, the
\* last thought is out of the recorder's hands, or the send is over.
Awaited ==
    \A p \in Procs : \A k \in 1 .. Len(job[p]) :
        /\ Inserts(job[p][k], "tool_call") =>
               /\ job[p][k].call \in Calls /\ toolSteps[job[p][k].call] = 0
               /\ fate[job[p][k].call] \in Open
        /\ Inserts(job[p][k], "thought") => thinking = 0
        /\ job[p][k].do = "finish" =>
               /\ pc \in {"over", "left"} /\ job[p][k].status # "running"
               /\ job[p][k].status = "completed" => thinking = 0

\* The status of the run is the last thing the send writes.
Finished ==
    run # "running" =>
        /\ pc \in {"over", "left"} /\ job[0] = << >>
        /\ run = "completed" => thinking = 0

\* A run completes without a thought.
ClosingDone ==
    pc = "closing" => thinking = 0 /\ \A k \in 1 .. Len(job[0]) : job[0][k].do # "insert"

\* The thought the recorder holds is the last one.
LastThought ==
    thinking # 0 =>
        /\ thinking \in 1 .. Len(steps) /\ steps[thinking].kind = "thought"
        /\ \A j \in 1 .. Len(steps) : steps[j].kind = "thought" => j <= thinking

\* A call that is neither reported nor malformed belongs to the current batch,
\* which is the last one if run() has raised in it.
Fates ==
    \A c \in Calls :
        /\ fate[c] \in {"refused", "denied", "granted", "blocked"} =>
               pc = "prepare" /\ c = This /\ next <= size
        /\ fate[c] = "ready" =>
               /\ c[1] = iteration /\ c[2] <= size
               /\ pc \in {"prepare", "execute"} \/ CutShort(c)
        /\ fate[c] = "raised" =>
               pc \in {"failing", "raised", "left", "over"} /\ c[1] = iteration

\* A call of the batch has not begun to report.
Unasked == \A i \in Slots : job[i] # << >> => fate[<<iteration, i>>] # "ready"

Orders ==
    /\ StepsKnown /\ Awaited /\ Finished /\ ClosingDone /\ LastThought
    /\ Fates /\ Unasked /\ pc # "down"

\* p is going to close the step i.
Holds(p, i) ==
    \/ \E k \in 1 .. Len(job[p]) : Closes(job[p][k], i)
    \/ /\ latest[p] = i
       /\ \E k \in 1 .. Len(job[p]) : job[p][k].do = "close_latest"
       /\ \A k \in 1 .. Len(job[p]) : job[p][k].do # "insert"

\* Somebody is going to: the recorder, a callback, or the result of a call.
Kept(i) ==
    \/ thinking = i
    \/ \E p \in Procs : Holds(p, i)
    \/ \E c \in Calls : toolSteps[c] = i /\ fate[c] \in Open

\* The steps nobody closes any more: no more than there were failed DAO calls.
Loose == {i \in 1 .. Len(steps) : steps[i].status = "running" /\ ~Kept(i)}
Counted == Cardinality(Loose) <= faults

SpinInv == crashes = 0 => Orders /\ Counted

\* Outside the batch, only the loop has calls pending; in the batch, its calls
\* only observe, and the loop only finishes the run.
LEMMA Solo ==
    ASSUME IInv, NEW p \in Procs, NEW k \in 1 .. Len(job[p])
    PROVE  /\ ~Running => p = 0
           /\ job[p][k].do = "insert" /\ job[p][k].kind # "observation" => p = 0
           /\ job[p][k].do = "finish" => p = 0
           /\ Running /\ p = 0 => job[p][k].do = "finish"
<1>1. p = 0 \/ (p \in Slots /\ p # 0)
  BY TimelineAssumption DEF Procs, Slots
<1>2. CASE p \in Slots
  <2>1. job[p] # << >>
    OBVIOUS
  <2>2. Running
    BY <1>2, <2>1 DEF IInv, OneAtATime, Free
  <2>3. Observes(job[p], <<iteration, p>>)
    BY <1>2 DEF IInv, SlotsObserve
  <2>4. p # 0
    BY <1>2, TimelineAssumption DEF Slots
  <2>5. job[p][k].do # "finish" /\ (job[p][k].do = "insert" => job[p][k].kind = "observation")
    BY <2>3 DEF Observes
  <2> QED BY <2>2, <2>4, <2>5
<1>3. CASE p = 0
  BY <1>3 DEF IInv, OneAtATime, Ending
<1> QED BY <1>1, <1>2, <1>3

\* A DAO call that returns keeps them in order.
LEMMA OrdersDao ==
    ASSUME IInv, JobsShut, Ordered, Orders, NEW p \in Procs, DaoCall(p)
    PROVE  Orders'
<1> DEFINE op == job[p][1]
           n == Len(steps)
<1>1. TypeOK /\ n \in Nat /\ 0 \in Procs
  <2>1. TypeOK
    BY DEF IInv
  <2>2. Len(steps) \in Nat
    BY <2>1 DEF TypeOK
  <2>3. 0 \in Procs
    BY TimelineAssumption DEF Procs
  <2> QED BY <2>1, <2>2, <2>3
<1>2. /\ job[p] # << >> /\ 1 \in 1 .. Len(job[p]) /\ Apply(p, op) /\ op \in Op
      /\ \A q \in Procs : \A k \in 1 .. Len(job'[q]) :
             Was(p, q, k) \in 1 .. Len(job[q]) /\ job'[q][k] = job[q][Was(p, q, k)]
  BY <1>1, DaoJobs
<1>3. /\ RowsKept
      /\ op.do # "insert" => Len(steps') = n
      /\ op.do = "insert" => Added(op)
  BY <1>1, <1>2, DaoEffect
<1>4. /\ \A c \in Calls : toolSteps'[c] =
             IF op.do = "insert" /\ op.kind = "tool_call" /\ op.call = c
             THEN n + 1 ELSE toolSteps[c]
      /\ thinking' = IF op.do = "insert" /\ op.kind = "thought" THEN n + 1 ELSE thinking
      /\ run' = IF op.do = "finish" THEN op.status ELSE run
      /\ UNCHANGED <<pc, iteration, size, next, fate, faults, crashes>>
  BY <1>1, DaoNotes
<1>5. StepsKnown'
  BY <1>1, KnownDao DEF Orders
<1>6. Awaited /\ Finished /\ ClosingDone /\ LastThought /\ Fates /\ Unasked /\ pc # "down"
  BY DEF Orders
<1>7. op = job[p][1] /\ n = Len(steps)
  OBVIOUS
<1> HIDE DEF op, n
\* Of one job, the call that is made is the only one that inserts.
<1>8. ASSUME NEW q \in Procs, NEW k \in 1 .. Len(job'[q]), op.do = "insert",
             op.kind # "observation"
      PROVE  /\ job'[q][k].do = "insert" => job'[q][k].kind = "observation"
             /\ job'[q][k].do = "finish" => op.kind # "thought"
  <2>1. PICK m \in 1 .. Len(job[q]) : m = Was(p, q, k) /\ job'[q][k] = job[q][m]
    BY <1>2
  <2>2. p = 0
    BY <1>2, <1>7, <1>8, Solo
  <2>3. CASE q = 0
    <3>1. m # 1
      BY <2>1, <2>2, <2>3 DEF Was
    <3> QED BY <1>2, <1>7, <1>8, <2>1, <2>2, <2>3, <3>1 DEF Ordered, Orderly
  <2>4. CASE q # 0
    BY <2>1, <2>4, Solo
  <2> QED BY <2>3, <2>4
<1>9. Awaited'
  <2>1. SUFFICES ASSUME NEW q \in Procs, NEW k \in 1 .. Len(job'[q])
        PROVE  /\ Inserts(job'[q][k], "tool_call") =>
                      /\ job'[q][k].call \in Calls /\ toolSteps'[job'[q][k].call] = 0
                      /\ fate[job'[q][k].call] \in Open
               /\ Inserts(job'[q][k], "thought") => thinking' = 0
               /\ job'[q][k].do = "finish" =>
                      /\ pc \in {"over", "left"} /\ job'[q][k].status # "running"
                      /\ job'[q][k].status = "completed" => thinking' = 0
    BY <1>4 DEF Awaited
  <2>2. PICK m \in 1 .. Len(job[q]) : m = Was(p, q, k) /\ job'[q][k] = job[q][m]
    BY <1>2
  <2> DEFINE o == job[q][m]
  <2>3. /\ Inserts(o, "tool_call") =>
               /\ o.call \in Calls /\ toolSteps[o.call] = 0 /\ fate[o.call] \in Open
        /\ Inserts(o, "thought") => thinking = 0
        /\ o.do = "finish" =>
               /\ pc \in {"over", "left"} /\ o.status # "running"
               /\ o.status = "completed" => thinking = 0
    BY <1>6 DEF Awaited
  <2>4. job'[q][k] = o
    BY <2>2
  <2> HIDE DEF o
  <2>5. ASSUME op.do = "insert", op.kind # "observation"
        PROVE  /\ o.do = "insert" => o.kind = "observation"
               /\ o.do = "finish" => op.kind # "thought"
    BY <1>8, <2>4, <2>5
  <2>6. Inserts(o, "tool_call") => toolSteps'[o.call] = toolSteps[o.call]
    BY <1>4, <2>3, <2>5 DEF Inserts
  <2>7. Inserts(o, "thought") \/ o.do = "finish" => thinking' = thinking
    BY <1>4, <2>3, <2>5 DEF Inserts
  <2> QED BY <2>3, <2>4, <2>6, <2>7
<1>10. Finished'
  <2>1. job'[0] \in Seq(Op)
    BY <1>1, TailIs DEF DaoCall, TypeOK
  <2>2. SUFFICES ASSUME run' # "running"
                 PROVE  /\ pc \in {"over", "left"} /\ \A k \in 1 .. Len(job'[0]) : FALSE
                        /\ run' = "completed" => thinking' = 0
    BY <1>4, <2>1 DEF Finished
  <2>3. CASE op.do = "finish"
    <3>1. run' = op.status /\ pc \in {"over", "left"} /\ (op.status = "completed" => thinking = 0)
      BY <1>2, <1>4, <1>6, <1>7, <2>3 DEF Awaited
    <3>2. p = 0 /\ Len(job[p]) = 1
      BY <1>2, <1>7, <2>3, Solo DEF Ordered, Orderly
    <3>3. ASSUME NEW k \in 1 .. Len(job'[0]) PROVE FALSE
      <4>1. Was(p, 0, k) \in 1 .. Len(job[0])
        BY <1>1, <1>2
      <4>2. Was(p, 0, k) = k + 1 /\ Len(job[0]) = 1
        BY <3>2 DEF Was
      <4>3. k \in Nat /\ k >= 1
        OBVIOUS
      <4> QED BY <4>1, <4>2, <4>3
    <3> QED BY <1>4, <2>3, <3>1, <3>3
  <2>4. CASE op.do # "finish"
    <3>1. run # "running" /\ run' = run
      BY <1>4, <2>2, <2>4
    <3>2. pc \in {"over", "left"} /\ job[0] = << >> /\ (run = "completed" => thinking = 0)
      BY <1>6, <3>1 DEF Finished
    \* Only observations are written now.
    <3>3. p # 0
      BY <1>2, <3>2
    <3>4. ~(op.do = "insert" /\ op.kind = "thought")
      BY <1>2, <1>7, <3>3, Solo
    <3>5. ASSUME NEW k \in 1 .. Len(job'[0]) PROVE FALSE
      BY <1>1, <1>2, <3>2
    <3> QED BY <1>4, <3>1, <3>2, <3>4, <3>5
  <2> QED BY <2>3, <2>4
<1>11. ClosingDone'
  <2>1. SUFFICES ASSUME pc = "closing"
                 PROVE  thinking' = 0 /\ \A k \in 1 .. Len(job'[0]) : job'[0][k].do # "insert"
    BY <1>4 DEF ClosingDone
  <2>2. p = 0
    BY <1>2, <2>1, Solo DEF Running
  <2>3. thinking = 0 /\ \A k \in 1 .. Len(job[0]) : job[0][k].do # "insert"
    BY <1>6, <2>1 DEF ClosingDone
  <2> QED BY <1>1, <1>2, <1>4, <1>7, <2>2, <2>3
<1>12. LastThought'
  <2>1. CASE op.do = "insert" /\ op.kind = "thought"
    <3>1. thinking' = n + 1 /\ Len(steps') = n + 1 /\ steps'[n + 1].kind = "thought"
      BY <1>3, <1>4, <1>7, <2>1 DEF Added
    <3> QED BY <1>1, <3>1 DEF LastThought
  <2>2. CASE ~(op.do = "insert" /\ op.kind = "thought")
    <3>1. thinking' = thinking
      BY <1>4, <2>2
    <3>2. \A j \in 1 .. Len(steps') : steps'[j].kind = "thought" =>
              j \in 1 .. n /\ steps[j].kind = "thought"
      BY <1>1, <1>3, <1>7, <2>2 DEF Added, RowsKept
    <3> QED BY <1>1, <1>3, <1>6, <1>7, <3>1, <3>2 DEF LastThought, RowsKept
  <2> QED BY <2>1, <2>2
<1>13. Fates'
  BY <1>4, <1>6 DEF Fates, CutShort, This
<1>14. Unasked'
  <2>1. \A i \in Slots : job'[i] # << >> => job[i] # << >>
    <3>1. job' = [job EXCEPT ![p] = Tail(job[p])] /\ job \in [Procs -> Seq(Op)]
      BY <1>1 DEF DaoCall, TypeOK
    <3>2. Slots \subseteq Procs
      BY TimelineAssumption DEF Slots, Procs
    <3> QED BY <1>2, <3>1, <3>2
  <2> QED BY <1>4, <1>6, <2>1 DEF Unasked
<1> QED BY <1>4, <1>5, <1>6, <1>9, <1>10, <1>11, <1>12, <1>13, <1>14 DEF Orders

\* So does one that raises.
LEMMA OrdersFails ==
    ASSUME IInv, JobsShut, Ordered, Orders, NEW p \in Procs, DaoFails(p)
    PROVE  Orders'
<1> DEFINE op == job[p][1]
           n == Len(steps)
<1>1. TypeOK
  BY DEF IInv
<1>2. job \in [Procs -> Seq(Op)] /\ job[p] # << >> /\ 1 \in 1 .. Len(job[p]) /\ n \in Nat
  BY <1>1 DEF DaoFails, TypeOK
<1>3. Head(job[p]) = op
  BY <1>2
<1>4. /\ RowsKept
      /\ \A i \in 1 .. Len(steps') : i \in 1 .. n \/ (op.do = "insert" /\ steps'[i].kind = op.kind)
      /\ run' \in {run, IF op.do = "finish" THEN op.status ELSE run}
  <2>1. CASE Apply(p, op)
    <3>1. /\ RowsKept
          /\ op.do # "insert" => Len(steps') = n
          /\ op.do = "insert" => Added(op)
      BY <1>1, <1>2, <2>1, DaoEffect
    <3>2. run' = IF op.do = "finish" THEN op.status ELSE run
      BY <2>1 DEF Apply
    <3> HIDE DEF op
    <3> QED BY <1>2, <3>1, <3>2 DEF Added
  <2>2. CASE UNCHANGED <<steps, run>>
    BY <2>2 DEF RowsKept
  <2> QED BY <1>3, <2>1, <2>2 DEF DaoFails
<1>5. /\ job'[p] = << >> /\ \A q \in Procs \ {p} : job'[q] = job[q]
      /\ UNCHANGED <<pc, iteration, size, next, fate, thinking, toolSteps>>
  BY <1>2 DEF DaoFails, loopVars
<1>6. /\ StepsKnown /\ Awaited /\ Finished /\ ClosingDone /\ LastThought /\ Fates /\ Unasked
      /\ pc # "down"
  BY DEF Orders
<1>7. op = job[p][1] /\ n = Len(steps)
  OBVIOUS
<1> HIDE DEF op, n
<1>8. StepsKnown'
  BY <1>4, <1>5, <1>6 DEF StepsKnown, RowsKept
<1>9. Awaited'
  BY <1>5, <1>6 DEF Awaited
<1>10. Finished'
  <2>1. SUFFICES ASSUME run' # "running"
                 PROVE  /\ pc \in {"over", "left"} /\ job'[0] = << >>
                        /\ run' = "completed" => thinking = 0
    BY <1>5 DEF Finished
  <2>2. CASE run' = run
    BY <1>5, <1>6, <2>1, <2>2, TimelineAssumption DEF Finished, Procs
  <2>3. CASE run' # run
    <3>1. op.do = "finish" /\ run' = op.status
      BY <1>4, <2>3
    <3>2. pc \in {"over", "left"} /\ (op.status = "completed" => thinking = 0)
      BY <1>2, <1>6, <1>7, <3>1 DEF Awaited
    <3>3. p = 0
      BY <1>2, <1>7, <3>1, Solo
    <3> QED BY <1>5, <3>1, <3>2, <3>3
  <2> QED BY <2>2, <2>3
<1>11. ClosingDone'
  BY <1>5, <1>6, TimelineAssumption DEF ClosingDone, Procs
<1>12. LastThought'
  <2>1. SUFFICES ASSUME thinking # 0
                 PROVE  /\ thinking \in 1 .. Len(steps') /\ steps'[thinking].kind = "thought"
                        /\ \A j \in 1 .. Len(steps') : steps'[j].kind = "thought" => j <= thinking
    BY <1>5 DEF LastThought
  <2>2. ~(op.do = "insert" /\ op.kind = "thought")
    BY <1>2, <1>6, <1>7, <2>1 DEF Awaited, Inserts
  <2>3. \A j \in 1 .. Len(steps') : steps'[j].kind = "thought" =>
            j \in 1 .. n /\ steps[j].kind = "thought"
    BY <1>4, <1>7, <2>2 DEF RowsKept
  <2> QED BY <1>4, <1>6, <1>7, <2>1, <2>3 DEF LastThought, RowsKept
<1>13. Fates'
  BY <1>5, <1>6 DEF Fates, CutShort, This
<1>14. Unasked'
  <2>1. Slots \subseteq Procs
    BY TimelineAssumption DEF Slots, Procs
  <2> QED BY <1>5, <1>6, <2>1 DEF Unasked
<1> QED BY <1>5, <1>6, <1>8, <1>9, <1>10, <1>11, <1>12, <1>13, <1>14 DEF Orders

\* A call that reports starts a callback that neither announces nor thinks.
LEMMA OrdersReport ==
    ASSUME IInv, Orders, NEW p, NEW c, NEW status, Reports(p, c, status)
    PROVE  Orders'
<1> DEFINE j == ResultJob(c, status)
<1>1. job \in [Procs -> Seq(Op)] /\ fate \in [Calls -> Fate] /\ p \in Procs /\ c \in Calls
  BY DEF IInv, TypeOK, Reports
<1>2. job'[p] = j /\ \A q \in Procs \ {p} : job'[q] = job[q]
  BY <1>1 DEF Reports
<1>3. \/ pc = "prepare" /\ fate'[c] = "denied" /\ next' = next
      \/ fate'[c] = "settled"
  BY <1>1 DEF Reports
<1>4. \A d \in Calls \ {c} : fate'[d] = fate[d]
  BY <1>1 DEF Reports
<1>5. \A k \in 1 .. Len(j) : /\ j[k].do # "finish"
                             /\ j[k].do = "insert" => j[k].kind = "observation"
  <2>1. \/ /\ Len(j) = 4
           /\ j[1].do = "close" /\ j[2].do = "read" /\ Inserts(j[3], "observation")
           /\ j[4].do = "close_latest"
        \/ /\ Len(j) = 3
           /\ j[1].do = "read" /\ Inserts(j[2], "observation") /\ j[3].do = "close_latest"
    BY ResultIs DEF Closes
  <2> HIDE DEF j
  <2>2. ASSUME Len(j) = 4, j[1].do = "close", j[2].do = "read", Inserts(j[3], "observation"),
               j[4].do = "close_latest", NEW k \in 1 .. Len(j)
        PROVE  j[k].do # "finish" /\ (j[k].do = "insert" => j[k].kind = "observation")
    <3>1. k = 1 \/ k = 2 \/ k = 3 \/ k = 4
      BY <2>2
    <3> QED BY <2>2, <3>1 DEF Inserts
  <2>3. ASSUME Len(j) = 3, j[1].do = "read", Inserts(j[2], "observation"),
               j[3].do = "close_latest", NEW k \in 1 .. Len(j)
        PROVE  j[k].do # "finish" /\ (j[k].do = "insert" => j[k].kind = "observation")
    <3>1. k = 1 \/ k = 2 \/ k = 3
      BY <2>3
    <3> QED BY <2>3, <3>1 DEF Inserts
  <2> QED BY <2>1, <2>2, <2>3
<1> HIDE DEF j
<1>6. /\ UNCHANGED <<pc, iteration, size, thinking, toolSteps, steps, run>>
      /\ \/ p = 0 /\ pc = "prepare" /\ c = This /\ next <= size /\ fate[c] \in {"refused", "blocked"}
         \/ p \in Slots /\ p # 0 /\ Running /\ c = <<iteration, p>> /\ fate[c] = "ready"
  BY TimelineAssumption DEF Slots, Reports
<1>7. /\ StepsKnown /\ Awaited /\ Finished /\ ClosingDone /\ LastThought /\ Fates /\ Unasked
      /\ pc # "down"
  BY DEF Orders
<1>9. Awaited'
  <2>1. SUFFICES ASSUME NEW q \in Procs, NEW k \in 1 .. Len(job'[q])
        PROVE  /\ Inserts(job'[q][k], "tool_call") =>
                      /\ job'[q][k].call \in Calls /\ toolSteps[job'[q][k].call] = 0
                      /\ fate'[job'[q][k].call] \in Open
               /\ Inserts(job'[q][k], "thought") => thinking = 0
               /\ job'[q][k].do = "finish" =>
                      /\ pc \in {"over", "left"} /\ job'[q][k].status # "running"
                      /\ job'[q][k].status = "completed" => thinking = 0
    BY <1>6 DEF Awaited
  <2>2. CASE q = p
    BY <1>2, <1>5, <2>2 DEF Inserts
  <2>3. CASE q # p
    <3>1. job'[q] = job[q]
      BY <1>2, <2>3
    \* While a batch is in progress, no callback announces a call.
    <3>2. ~Inserts(job[q][k], "tool_call")
      <4>1. CASE p = 0
        BY <2>3, <3>1, <4>1, Solo DEF Inserts
      <4>2. CASE p # 0
        BY <1>6, <3>1, <4>2, Solo DEF Inserts
      <4> QED BY <4>1, <4>2
    <3> QED BY <1>7, <3>1, <3>2 DEF Awaited
  <2> QED BY <2>2, <2>3
<1>8. p # 0 => job'[0] = job[0]
  BY <1>2, TimelineAssumption DEF Procs
<1>10. StepsKnown' /\ Finished' /\ ClosingDone' /\ LastThought'
  BY <1>6, <1>7, <1>1, <1>8 DEF StepsKnown, Finished, ClosingDone, LastThought, Running
<1>11. Fates'
  <2>1. SUFFICES ASSUME NEW d \in Calls
                 PROVE  /\ fate'[d] \in {"refused", "denied", "granted", "blocked"} =>
                               pc = "prepare" /\ d = <<iteration, next'>> /\ next' <= size
                        /\ fate'[d] = "ready" =>
                               /\ d[1] = iteration /\ d[2] <= size
                               /\ pc \in {"prepare", "execute"} \/ CutShort(d)'
                        /\ fate'[d] = "raised" =>
                               pc \in {"failing", "raised", "left", "over"} /\ d[1] = iteration
    BY <1>6 DEF Fates, This
  <2>2. CASE d = c
    BY <1>3, <1>6, <1>7, <2>2 DEF Fates, This, Running
  <2>3. CASE d # c
    <3>1. fate'[d] = fate[d]
      BY <1>4, <2>3
    <3>2. fate[d] \notin {"refused", "denied", "granted", "blocked"}
      BY <1>6, <1>7, <2>3 DEF Fates, Running
    \* The call that raised is not the one that reports.
    <3>3. CutShort(d) => CutShort(d)'
      <4>1. fate[c] # "raised"
        BY <1>6
      <4> QED BY <1>4, <3>1, <4>1 DEF CutShort
    <3> QED BY <1>7, <3>1, <3>2, <3>3 DEF Fates
  <2> QED BY <2>2, <2>3
<1>12. Unasked'
  <2>1. SUFFICES ASSUME NEW i \in Slots, job'[i] # << >>, fate'[<<iteration, i>>] = "ready"
                 PROVE  FALSE
    BY <1>6 DEF Unasked
  <2>2. i \in Procs /\ i # 0
    BY TimelineAssumption DEF Slots, Procs
  <2>3. CASE i = p
    BY <1>3, <1>6, <2>1, <2>2, <2>3
  <2>4. CASE i # p
    <3>1. job[i] # << >>
      BY <1>2, <2>1, <2>2, <2>4
    <3>2. Running
      BY <3>1 DEF IInv, OneAtATime, Free
    <3>3. c = <<iteration, p>> /\ <<iteration, i>> # c
      BY <1>6, <2>4, <3>2 DEF Running
    <3>4. <<iteration, i>> \in Calls
      <4>1. iteration \in 1 .. MaxIterations
        BY <3>2, TimelineAssumption DEF IInv, TypeOK, Started
      <4> QED BY <4>1 DEF Calls
    <3> QED BY <1>4, <1>7, <2>1, <3>1, <3>3, <3>4 DEF Unasked
  <2> QED BY <2>3, <2>4
<1> QED BY <1>6, <1>7, <1>9, <1>10, <1>11, <1>12 DEF Orders

\* The loop acts while no callback is under way.
LEMMA LoopIdle ==
    ASSUME IInv, pc # "down",
           \/ StartIteration \/ EndBlock \/ StopCancelled
           \/ AnswerText \/ AnswerCalls \/ AnswerFails \/ EndRun
           \/ Malformed \/ Announce \/ Consented \/ Denied \/ SkipCall
           \/ Gather \/ CollectResults \/ Recover \/ ConsentRaises \/ GatherRaises
    PROVE  /\ ~Recover /\ \A p \in Procs : job[p] = << >>
           /\ \A i \in Slots : job'[i] = << >>
           /\ pc \notin {"over", "left", "down"} /\ pc' # "down"
           /\ UNCHANGED <<steps, toolSteps, run, faults, crashes>>
<1>1. ~Recover
  BY DEF Recover, At
<1>2. /\ pc \notin {"over", "left", "down"} /\ pc' # "down" /\ UNCHANGED run
      /\ ~Running \/ CollectResults
  BY <1>1 DEF StartIteration, EndBlock, StopCancelled, AnswerText, AnswerCalls, AnswerFails,
              EndRun, Malformed, Announce, Consented, Denied, SkipCall, Gather, CollectResults,
              ConsentRaises, GatherRaises, Preparing, At, PrepareRest, Rest, Running
<1>3. job[0] = << >> /\ UNCHANGED <<steps, toolSteps, faults, crashes>>
      /\ (job' = job \/ \E j : Callback(j) /\ OtherJob(j))
  BY LoopJobs
<1>4. Free
  BY <1>2 DEF IInv, OneAtATime, Free, CollectResults
<1>5. /\ \A p \in Procs : p = 0 \/ p \in Slots
      /\ Slots \subseteq Procs /\ 0 \notin Slots
  BY TimelineAssumption DEF Procs, Slots
<1>6. \A i \in Slots : job'[i] = job[i]
  <2>1. job \in [Procs -> Seq(Op)]
    BY DEF IInv, TypeOK
  <2> QED BY <1>3, <1>5, <2>1 DEF Callback
<1> QED BY <1>1, <1>2, <1>3, <1>4, <1>5, <1>6 DEF Free

\* What the loop's callbacks announce, think and finish.
LEMMA AwaitedLoop ==
    ASSUME IInv, Orders,
           \/ StartIteration \/ EndBlock \/ StopCancelled
           \/ AnswerText \/ AnswerCalls \/ AnswerFails \/ EndRun
           \/ Malformed \/ Announce \/ Consented \/ Denied \/ SkipCall
           \/ Gather \/ CollectResults \/ Recover \/ ConsentRaises \/ GatherRaises
    PROVE  Awaited'
<1>1. /\ ~Recover /\ \A p \in Procs : job[p] = << >>
      /\ \A i \in Slots : job'[i] = << >>
      /\ UNCHANGED toolSteps
  BY LoopIdle DEF Orders
<1>2. job \in [Procs -> Seq(Op)] /\ fate \in [Calls -> Fate]
  BY DEF IInv, TypeOK
<1>3. 0 \in Procs /\ \A p \in Procs : p = 0 \/ p \in Slots
  BY TimelineAssumption DEF Procs, Slots
<1> DEFINE Told0 ==
        \A k \in 1 .. Len(job'[0]) :
            /\ Inserts(job'[0][k], "tool_call") =>
                   /\ job'[0][k].call \in Calls /\ toolSteps[job'[0][k].call] = 0
                   /\ fate'[job'[0][k].call] \in Open
            /\ Inserts(job'[0][k], "thought") => thinking' = 0
            /\ job'[0][k].do = "finish" =>
                   /\ pc' \in {"over", "left"} /\ job'[0][k].status # "running"
                   /\ job'[0][k].status = "completed" => thinking' = 0
<1> SUFFICES Told0
  BY <1>1, <1>3 DEF Awaited
<1>4. ASSUME NEW j, Callback(j) PROVE job'[0] = j
  BY <1>2, <1>3, <1>4 DEF Callback
<1>5. CASE job' = job
  BY <1>1, <1>3, <1>5
<1>6. CASE StartIteration
  <2>1. thinking' = 0 /\ job'[0] = CloseThought \o Create("thought", "running", NoCall, 0)
    BY <1>4, <1>6 DEF StartIteration
  <2> DEFINE j == job'[0]
  <2>2. \/ Len(j) = 2 /\ j[1].do = "read" /\ Inserts(j[2], "thought")
        \/ Len(j) = 3 /\ j[1].do = "close" /\ j[2].do = "read" /\ Inserts(j[3], "thought")
    BY <2>1, ThoughtIs DEF Closes
  <2>3. \A k \in 1 .. Len(j) : ~Inserts(j[k], "tool_call") /\ j[k].do # "finish"
    <3> HIDE DEF j
    <3> QED BY <2>2 DEF Inserts
  <2> QED BY <2>1, <2>3
<1>7. CASE EndBlock \/ AnswerText
  <2>1. job'[0] = CloseThought
    BY <1>4, <1>7 DEF EndBlock, AnswerText
  <2> DEFINE j == job'[0]
  <2>2. Len(j) = 0 \/ (Len(j) = 1 /\ j[1].do = "close")
    BY <2>1, CloseThoughtIs DEF Closes
  <2>3. \A k \in 1 .. Len(j) : j[k].do = "close"
    <3> HIDE DEF j
    <3> QED BY <2>2
  <2> QED BY <2>3 DEF Inserts
<1>8. CASE \E status : Callback(StatusStep(status))
  <2>1. PICK status : Callback(StatusStep(status))
    BY <1>8
  <2> DEFINE j == job'[0]
  <2>2. Len(j) = 2 /\ j[1].do = "read" /\ Inserts(j[2], "status")
    BY <1>4, <2>1, CreateIs DEF StatusStep
  <2>3. \A k \in 1 .. Len(j) : j[k].do = "read" \/ Inserts(j[k], "status")
    <3> HIDE DEF j
    <3> QED BY <2>2
  <2> QED BY <2>3 DEF Inserts
<1>9. CASE (Malformed \/ Announce \/ Consented \/ ConsentRaises) /\ Callback(CallJob(This))
  <2>1. This \in Calls
    BY <1>9, ThisCall DEF Malformed, Announce, Consented, ConsentRaises, Preparing, At
  <2>2. PICK f \in Open : fate' = [fate EXCEPT ![This] = f]
    BY <1>9 DEF Malformed, Announce, Consented, ConsentRaises, Becomes, Open
  <2>3. fate'[This] \in Open
    BY <1>2, <2>1, <2>2
  <2> DEFINE j == job'[0]
  <2>4. j = CallJob(This)
    BY <1>4, <1>9
  <2>5. CASE toolSteps[This] # 0
    BY <2>4, <2>5 DEF CallJob
  <2>6. CASE toolSteps[This] = 0
    <3>1. Len(j) = 2 /\ j[1].do = "read" /\ Inserts(j[2], "tool_call") /\ j[2].call = This
      BY <2>4, <2>6, CreateIs DEF CallJob
    <3>2. \A k \in 1 .. Len(j) :
              j[k].do = "read" \/ (Inserts(j[k], "tool_call") /\ j[k].call = This)
      <4> HIDE DEF j
      <4> QED BY <3>1
    <3> QED BY <2>1, <2>3, <2>6, <3>2 DEF Inserts
  <2> QED BY <2>5, <2>6
<1>10. CASE EndRun
  <2> DEFINE j == job'[0]
  <2>1. /\ pc' = "over" /\ thinking' = thinking
        /\ \/ pc = "closing" /\ j = CompleteJob("completed")
           \/ j = CompleteJob("cancelled")
           \/ j = Finish("failed")
    BY <1>4, <1>10 DEF EndRun, At
  <2>2. pc = "closing" => thinking = 0
    BY DEF Orders, ClosingDone
  <2>3. ASSUME NEW status \in {"completed", "cancelled"}, j = CompleteJob(status)
        PROVE  \A k \in 1 .. Len(j) :
                   /\ ~Inserts(j[k], "tool_call") /\ ~Inserts(j[k], "thought")
                   /\ j[k].do = "finish" => j[k].status = status
    <3>1. /\ Len(j) = 4 /\ j[1].do = "read" /\ Inserts(j[2], "final")
          /\ j[3].do = "close_latest" /\ j[4].do = "finish" /\ j[4].status = status
      BY <2>3, CompleteIs
    <3> HIDE DEF j
    <3> QED BY <3>1 DEF Inserts
  <2>4. ASSUME j = Finish("failed")
        PROVE  \A k \in 1 .. Len(j) :
                   /\ ~Inserts(j[k], "tool_call") /\ ~Inserts(j[k], "thought")
                   /\ j[k].do = "finish" => j[k].status = "failed"
    <3>1. Len(j) = 1 /\ j[1].do = "finish" /\ j[1].status = "failed"
      BY <2>4 DEF Finish
    <3> HIDE DEF j
    <3> QED BY <3>1 DEF Inserts
  <2> QED BY <2>1, <2>2, <2>3, <2>4
<1> HIDE DEF Told0
<1>11. CASE \/ StopCancelled \/ AnswerCalls \/ SkipCall \/ Gather \/ GatherRaises
            \/ CollectResults
  BY <1>5, <1>11 DEF StopCancelled, AnswerCalls, SkipCall, Gather, GatherRaises, CollectResults
<1>12. CASE AnswerFails \/ Denied
  BY <1>5, <1>8, <1>12 DEF AnswerFails, Denied
<1>13. CASE Malformed \/ Announce \/ Consented \/ ConsentRaises
  BY <1>5, <1>9, <1>13 DEF Malformed, Announce, Consented, ConsentRaises
<1> QED BY <1>1, <1>6, <1>7, <1>10, <1>11, <1>12, <1>13

\* A call the batch prepares moves on when its fate is settled.
LEMMA FatesLoop ==
    ASSUME IInv, Orders,
           \/ StartIteration \/ EndBlock \/ StopCancelled
           \/ AnswerText \/ AnswerCalls \/ AnswerFails \/ EndRun
           \/ Malformed \/ Announce \/ Consented \/ Denied \/ SkipCall
           \/ Gather \/ CollectResults \/ Recover \/ ConsentRaises \/ GatherRaises
    PROVE  Fates'
<1>1. ~Recover
  BY LoopIdle DEF Orders
<1>2. fate \in [Calls -> Fate] /\ Fates
  BY DEF IInv, TypeOK, Orders
<1> DEFINE In == {"refused", "denied", "granted", "blocked"}
<1>3. SUFFICES ASSUME NEW c \in Calls
               PROVE  /\ fate'[c] \in In =>
                             pc' = "prepare" /\ c = <<iteration', next'>> /\ next' <= size'
                      /\ fate'[c] = "ready" =>
                             /\ c[1] = iteration' /\ c[2] <= size'
                             /\ pc' \in {"prepare", "execute"} \/ CutShort(c)'
                      /\ fate'[c] = "raised" =>
                             /\ pc' \in {"failing", "raised", "left", "over"}
                             /\ c[1] = iteration'
  BY DEF Fates, This
<1>4. \A d \in Calls :
          /\ fate[d] \in In => pc = "prepare" /\ d = <<iteration, next>> /\ next <= size
          /\ fate[d] = "ready" =>
                 /\ d[1] = iteration /\ d[2] <= size
                 /\ pc \in {"prepare", "execute"} \/ CutShort(d)
          /\ fate[d] = "raised" =>
                 pc \in {"failing", "raised", "left", "over"} /\ d[1] = iteration
  BY <1>2 DEF Fates, This
<1>5. CASE \/ StartIteration \/ EndBlock \/ StopCancelled \/ AnswerText \/ AnswerCalls
           \/ AnswerFails \/ EndRun
  <2>1. /\ fate' = fate /\ pc \notin {"prepare", "execute"}
        /\ \/ pc \notin {"failing", "raised", "left", "over"}
           \/ pc = "failing" /\ pc' = "over" /\ UNCHANGED <<iteration, size>>
    BY <1>5 DEF StartIteration, EndBlock, StopCancelled, AnswerText, AnswerCalls, AnswerFails,
                EndRun, At
  <2>2. CutShort(c)' <=> CutShort(c)
    BY <2>1 DEF CutShort
  <2>3. CutShort(c) => pc \in {"failing", "raised", "left", "over"}
    BY <1>4 DEF CutShort
  <2> QED BY <1>4, <2>1, <2>2, <2>3
<1>6. CASE Gather
  <2>1. pc = "prepare" /\ next > size /\ pc' = "execute" /\ UNCHANGED <<iteration, size, next, fate>>
    BY <1>6 DEF Gather, At
  <2>2. next \in Nat /\ size \in Nat
    BY TimelineAssumption DEF IInv, TypeOK, Procs
  <2> QED BY <1>4, <2>1, <2>2
<1>7. CASE CollectResults
  <2>1. pc = "execute" /\ fate' = fate
        /\ \A i \in Slots : i <= size => fate[<<iteration, i>>] # "ready"
    BY <1>7 DEF CollectResults, At
  <2>2. c = <<c[1], c[2]>> /\ c[2] \in Slots
    BY DEF Calls
  <2> QED BY <1>4, <2>1, <2>2
<1>9. CASE ConsentRaises
  <2>1. /\ pc = "prepare" /\ next <= size /\ pc' = "failing" /\ UNCHANGED <<iteration, size>>
        /\ fate[This] = "todo" /\ fate' = [fate EXCEPT ![This] = "raised"]
    BY <1>9 DEF ConsentRaises, Preparing, At, Becomes
  <2>2. This \in Calls /\ This[1] = iteration
    BY <2>1, ThisCall DEF This
  <2>3. fate'[This] = "raised" /\ \A d \in Calls : d # This => fate'[d] = fate[d]
    BY <1>2, <2>1, <2>2
  <2>4. CASE c = This
    BY <2>1, <2>2, <2>3, <2>4
  <2>5. CASE c # This
    <3>1. fate'[c] = fate[c] /\ fate[c] \notin In /\ fate[c] # "raised"
      BY <1>4, <2>1, <2>3, <2>5 DEF This
    <3>2. fate[c] = "ready" => CutShort(c)'
      BY <1>4, <2>2, <2>3, <3>1 DEF CutShort
    <3> QED BY <1>4, <2>1, <3>1, <3>2
  <2> QED BY <2>4, <2>5
<1>10. CASE GatherRaises
  <2>1. PICK R \in SUBSET {i \in 1 .. size : fate[<<iteration, i>>] = "ready"} :
            /\ R # {}
            /\ fate' = [d \in Calls |->
                          IF d[1] = iteration /\ d[2] \in R THEN "raised" ELSE fate[d]]
    BY <1>10 DEF GatherRaises
  <2>2. pc = "prepare" /\ next > size /\ pc' = "raised" /\ UNCHANGED <<iteration, size, next>>
    BY <1>10 DEF GatherRaises, At
  <2>3. next \in Nat /\ size \in 0 .. MaxBatch
    BY TimelineAssumption DEF IInv, TypeOK, Procs
  <2>4. PICK i \in R : i \in 1 .. size
    BY <2>1
  <2>5. iteration \in 1 .. MaxIterations
    BY <2>2, TimelineAssumption DEF IInv, TypeOK, Started
  <2>6. <<iteration, i>> \in Calls
    BY <2>3, <2>4, <2>5, TimelineAssumption DEF Calls, Slots
  <2>7. fate'[<<iteration, i>>] = "raised"
    BY <2>1, <2>4, <2>6
  <2>8. fate'[c] = fate[c] \/ (fate'[c] = "raised" /\ c[1] = iteration)
    BY <2>1
  <2>9. fate'[c] = "ready" /\ c[1] = iteration => CutShort(c)'
    <3>1. <<iteration, i>>[1] = iteration
      OBVIOUS
    <3> QED BY <2>6, <2>7, <3>1 DEF CutShort
  <2> QED BY <1>4, <2>2, <2>3, <2>8, <2>9
<1>8. CASE Malformed \/ Announce \/ Consented \/ Denied \/ SkipCall
  <2>1. /\ pc = "prepare" /\ next <= size /\ UNCHANGED <<pc, iteration, size>>
        /\ This \in Calls
    BY <1>8, ThisCall DEF Malformed, Announce, Consented, Denied, SkipCall, Preparing, At, PrepareRest
  <2>2. PICK f \in Fate : /\ fate' = [fate EXCEPT ![This] = f]
                          /\ f # "raised" /\ f # "denied"
                          /\ f \in {"refused", "granted", "blocked"} => next' = next
    <3>1. CASE Malformed
      BY <3>1 DEF Malformed, Becomes, Fate
    <3>2. CASE Announce
      <4>1. PICK f \in {"refused", "granted", "blocked", "ready"} : fate' = [fate EXCEPT ![This] = f]
        BY <3>2 DEF Announce
      <4>2. fate'[This] = f
        BY <1>2, <2>1, <4>1
      <4>3. next' = IF f = "ready" THEN next + 1 ELSE next
        BY <3>2, <4>2 DEF Announce
      <4> QED BY <4>1, <4>3 DEF Fate
    <3>3. CASE Consented
      BY <3>3 DEF Consented, Becomes, Stay, Fate
    <3>4. CASE Denied \/ SkipCall
      BY <3>4 DEF Denied, SkipCall, Becomes, Fate
    <3> QED BY <1>8, <3>1, <3>2, <3>3, <3>4
  <2>3. CASE c = This
    <3>1. fate'[c] = f
      BY <1>2, <2>1, <2>2, <2>3
    <3>2. c[1] = iteration /\ c[2] = next
      BY <2>3 DEF This
    <3> QED BY <2>1, <2>2, <2>3, <3>1, <3>2 DEF This
  <2>4. CASE c # This
    <3>1. fate'[c] = fate[c] /\ fate[c] \notin In
      BY <1>2, <1>4, <2>2, <2>4 DEF This
    <3> QED BY <1>4, <2>1, <3>1
  <2> QED BY <2>3, <2>4
<1> QED BY <1>1, <1>5, <1>6, <1>7, <1>8, <1>9, <1>10

\* The loop keeps them in order.
LEMMA OrdersLoop ==
    ASSUME IInv, Orders,
           \/ StartIteration \/ EndBlock \/ StopCancelled
           \/ AnswerText \/ AnswerCalls \/ AnswerFails \/ EndRun
           \/ Malformed \/ Announce \/ Consented \/ Denied \/ SkipCall
           \/ Gather \/ CollectResults \/ Recover \/ ConsentRaises \/ GatherRaises
    PROVE  Orders'
<1>1. /\ ~Recover /\ \A i \in Slots : job'[i] = << >>
      /\ pc \notin {"over", "left", "down"} /\ pc' # "down"
      /\ UNCHANGED <<steps, toolSteps, run>>
  BY LoopIdle DEF Orders
<1>2. /\ StepsKnown /\ Finished /\ ClosingDone /\ LastThought
  BY DEF Orders
<1>3. thinking' \in {0, thinking}
  BY <1>1 DEF StartIteration, EndBlock, StopCancelled, AnswerText, AnswerCalls, AnswerFails,
              EndRun, Malformed, Announce, Consented, Denied, SkipCall, Gather, CollectResults,
              ConsentRaises, GatherRaises, PrepareRest
<1>4. StepsKnown' /\ Finished' /\ LastThought' /\ Unasked'
  BY <1>1, <1>2, <1>3 DEF StepsKnown, Finished, LastThought, Unasked
<1>5. ClosingDone'
  <2>1. SUFFICES ASSUME pc' = "closing"
                 PROVE  thinking' = 0 /\ \A k \in 1 .. Len(job'[0]) : job'[0][k].do # "insert"
    BY DEF ClosingDone
  <2>2. EndBlock \/ AnswerText
    BY <1>1, <2>1 DEF StartIteration, EndBlock, StopCancelled, AnswerText, AnswerCalls,
           AnswerFails, EndRun, Malformed, Announce, Consented, Denied, SkipCall, Gather,
           CollectResults, ConsentRaises, GatherRaises, Preparing, At, PrepareRest
  <2>3. thinking' = 0 /\ job' = [job EXCEPT ![0] = CloseThought]
    BY <2>2 DEF EndBlock, AnswerText, Callback
  <2>4. job \in [Procs -> Seq(Op)] /\ 0 \in Procs
    BY TimelineAssumption DEF IInv, TypeOK, Procs
  <2> DEFINE j == job'[0]
  <2>5. Len(j) = 0 \/ (Len(j) = 1 /\ j[1].do = "close")
    BY <2>3, <2>4, CloseThoughtIs DEF Closes
  <2>6. \A k \in 1 .. Len(j) : j[k].do # "insert"
    <3> HIDE DEF j
    <3> QED BY <2>5
  <2> QED BY <2>3, <2>6
<1> QED BY <1>1, <1>4, <1>5, AwaitedLoop, FatesLoop DEF Orders

-----------------------------------------------------------------------------
(* Who closes a step: the count *)

\* A call whose job has returned is not waited for: what was going to be closed
\* still is, and what is created has somebody to close it.
LEMMA LooseDao ==
    ASSUME IInv, JobsShut, Ordered, Orders, NEW p \in Procs, DaoCall(p)
    PROVE  Loose' \subseteq Loose
<1> DEFINE op == job[p][1]
           n == Len(steps)
<1>1. TypeOK /\ n \in Nat
  <2>1. TypeOK
    BY DEF IInv
  <2> QED BY <2>1 DEF TypeOK
<1>2. /\ job[p] # << >> /\ 1 \in 1 .. Len(job[p]) /\ Apply(p, op) /\ op \in Op
      /\ \A q \in Procs : \A k \in 1 .. Len(job'[q]) :
             Was(p, q, k) \in 1 .. Len(job[q]) /\ job'[q][k] = job[q][Was(p, q, k)]
      /\ \A q \in Procs : \A m \in 1 .. Len(job[q]) :
             \/ q = p /\ m = 1
             \/ Is(p, q, m) \in 1 .. Len(job'[q]) /\ job'[q][Is(p, q, m)] = job[q][m]
  BY <1>1, DaoJobs
<1>3. /\ RowsKept
      /\ op.do # "insert" => Len(steps') = n
      /\ op.do = "insert" => Added(op)
      /\ op.do = "close" => Shut(op.step)
      /\ op.do = "close_latest" => Shut(latest[p])
  BY <1>1, <1>2, DaoEffect
<1>4. /\ \A c \in Calls : toolSteps'[c] =
             IF op.do = "insert" /\ op.kind = "tool_call" /\ op.call = c
             THEN n + 1 ELSE toolSteps[c]
      /\ thinking' = IF op.do = "insert" /\ op.kind = "thought" THEN n + 1 ELSE thinking
      /\ \A q \in Procs : latest'[q] =
             IF q = p /\ op.do = "insert" THEN n + 1 ELSE latest[q]
      /\ fate' = fate
  BY <1>1, DaoNotes
<1>5. /\ Inserts(op, "tool_call") =>
             op.call \in Calls /\ toolSteps[op.call] = 0 /\ fate[op.call] \in Open
      /\ Inserts(op, "thought") => thinking = 0
  BY <1>2 DEF Orders, Awaited
<1>6. op = job[p][1] /\ n = Len(steps)
  OBVIOUS
<1> HIDE DEF op, n
<1>7. SUFFICES ASSUME NEW i \in 1 .. Len(steps'), steps'[i].status = "running", ~Kept(i)'
               PROVE  i \in 1 .. n /\ steps[i].status = "running" /\ ~Kept(i)
  BY <1>6 DEF Loose
<1>8. CASE i \in 1 .. n
  <2>1. steps[i].status = "running"
    BY <1>3, <1>6, <1>7, <1>8 DEF RowsKept
  <2>2. SUFFICES ASSUME Kept(i) PROVE FALSE
    BY <1>8, <2>1
  <2>3. CASE thinking = i
    BY <1>4, <1>5, <1>7, <1>8, <2>3 DEF Kept, Inserts
  <2>4. ASSUME NEW c \in Calls, toolSteps[c] = i, fate[c] \in Open PROVE FALSE
    <3>1. toolSteps'[c] = i
      BY <1>4, <1>5, <1>8, <2>4 DEF Inserts
    <3> QED BY <1>4, <1>7, <2>4, <3>1 DEF Kept
  <2>5. ASSUME NEW q \in Procs, NEW m \in 1 .. Len(job[q]), Closes(job[q][m], i) PROVE FALSE
    <3>1. CASE q = p /\ m = 1
      BY <1>3, <1>6, <1>7, <1>8, <2>5, <3>1 DEF Closes, Shut
    <3>2. CASE ~(q = p /\ m = 1)
      <4>1. Is(p, q, m) \in 1 .. Len(job'[q]) /\ job'[q][Is(p, q, m)] = job[q][m]
        BY <1>2, <3>2
      <4>2. Holds(q, i)'
        BY <2>5, <4>1 DEF Holds
      <4> QED BY <1>7, <4>2 DEF Kept
    <3> QED BY <3>1, <3>2
  <2>6. ASSUME NEW q \in Procs, latest[q] = i, NEW m \in 1 .. Len(job[q]),
               job[q][m].do = "close_latest",
               \A k \in 1 .. Len(job[q]) : job[q][k].do # "insert"
        PROVE  FALSE
    <3>1. CASE q = p /\ m = 1
      BY <1>3, <1>6, <1>7, <1>8, <2>6, <3>1 DEF Shut
    <3>2. CASE ~(q = p /\ m = 1)
      <4>1. Is(p, q, m) \in 1 .. Len(job'[q]) /\ job'[q][Is(p, q, m)] = job[q][m]
        BY <1>2, <3>2
      <4>2. \A k \in 1 .. Len(job'[q]) : job'[q][k].do # "insert"
        <5>1. SUFFICES ASSUME NEW k \in 1 .. Len(job'[q]) PROVE job'[q][k].do # "insert"
          OBVIOUS
        <5>2. PICK l \in 1 .. Len(job[q]) : job'[q][k] = job[q][l]
          BY <1>2
        <5> QED BY <2>6, <5>2
      <4>3. latest'[q] = i
        BY <1>2, <1>4, <1>6, <2>6
      <4>4. Holds(q, i)'
        BY <2>6, <4>1, <4>2, <4>3 DEF Holds
      <4> QED BY <1>7, <4>4 DEF Kept
    <3> QED BY <3>1, <3>2
  <2> QED BY <2>2, <2>3, <2>4, <2>5, <2>6 DEF Kept, Holds
<1>9. CASE i \notin 1 .. n
  <2>1. op.do = "insert" /\ Added(op) /\ i = n + 1
    BY <1>1, <1>3, <1>6, <1>7, <1>9 DEF Added
  <2>2. op.status = "running"
    BY <1>6, <1>7, <2>1 DEF Added
  <2>3. CASE op.kind = "thought"
    BY <1>4, <1>7, <2>1, <2>3 DEF Kept
  <2>4. CASE op.kind = "tool_call"
    <3>1. op.call \in Calls /\ fate'[op.call] \in Open /\ toolSteps'[op.call] = i
      BY <1>4, <1>5, <2>1, <2>4 DEF Inserts
    <3> QED BY <1>7, <3>1 DEF Kept
  <2>5. CASE op.kind \notin {"thought", "tool_call"}
    <3>1. PICK m \in 1 .. Len(job[p]) : 1 < m /\ job[p][m].do = "close_latest"
      BY <1>2, <1>6, <2>1, <2>2, <2>5 DEF Ordered, Orderly
    <3>2. Is(p, p, m) \in 1 .. Len(job'[p]) /\ job'[p][Is(p, p, m)] = job[p][m]
      BY <1>2, <3>1
    <3>3. \A k \in 1 .. Len(job'[p]) : job'[p][k].do # "insert"
      <4>1. SUFFICES ASSUME NEW k \in 1 .. Len(job'[p]), job'[p][k].do = "insert" PROVE FALSE
        OBVIOUS
      <4>2. k + 1 \in 1 .. Len(job[p]) /\ job[p][k + 1].do = "insert"
        BY <1>2, <4>1 DEF Was
      <4>3. k + 1 = 1
        BY <1>2, <1>6, <2>1, <4>2 DEF Ordered, Orderly
      <4> QED BY <4>3
    <3>4. latest'[p] = i
      BY <1>4, <2>1
    <3>5. Holds(p, i)'
      BY <3>1, <3>2, <3>3, <3>4 DEF Holds
    <3> QED BY <1>7, <3>5 DEF Kept
  <2> QED BY <2>3, <2>4, <2>5
<1> QED BY <1>8, <1>9

\* The rest of a callback that is lost was going to close one step at the most.
LEMMA LooseFails ==
    ASSUME IInv, JobsShut, Ordered, Orders, NEW p \in Procs, DaoFails(p)
    PROVE  \E x : Loose' \subseteq Loose \cup {x}
<1> DEFINE op == job[p][1]
           n == Len(steps)
<1>1. TypeOK
  BY DEF IInv
<1>2. job \in [Procs -> Seq(Op)] /\ job[p] # << >> /\ 1 \in 1 .. Len(job[p]) /\ n \in Nat
  BY <1>1 DEF DaoFails, TypeOK
<1>3. Head(job[p]) = op
  BY <1>2
<1>4. /\ RowsKept
      /\ \A i \in 1 .. Len(steps') : i \in 1 .. n \/ (op.do = "insert" /\ i = n + 1)
  <2>1. CASE Apply(p, op)
    <3>1. /\ RowsKept
          /\ op.do # "insert" => Len(steps') = n
          /\ op.do = "insert" => Added(op)
      BY <1>1, <1>2, <2>1, DaoEffect
    <3> HIDE DEF op
    <3> QED BY <1>2, <3>1 DEF Added
  <2>2. CASE UNCHANGED <<steps, run>>
    BY <2>2 DEF RowsKept
  <2> QED BY <1>3, <2>1, <2>2 DEF DaoFails
<1>5. /\ \A q \in Procs \ {p} : job'[q] = job[q]
      /\ UNCHANGED <<fate, thinking, toolSteps, latest>>
  BY <1>2 DEF DaoFails, loopVars
<1>6. op = job[p][1] /\ n = Len(steps)
  OBVIOUS
<1> HIDE DEF op, n
\* What becomes loose was held by p, or has just been created by it.
<1>7. \A i \in Loose' : i \in Loose \/ Holds(p, i) \/ (op.do = "insert" /\ i = n + 1)
  <2>1. SUFFICES ASSUME NEW i \in 1 .. Len(steps'), steps'[i].status = "running", ~Kept(i)',
                        ~Holds(p, i), i \in 1 .. n
                 PROVE  i \in Loose
    BY <1>4 DEF Loose
  <2>2. steps[i].status = "running"
    BY <1>4, <1>6, <2>1 DEF RowsKept
  <2>3. ASSUME Kept(i) PROVE FALSE
    <3>1. CASE thinking = i
      BY <1>5, <2>1, <3>1 DEF Kept
    <3>2. CASE \E c \in Calls : toolSteps[c] = i /\ fate[c] \in Open
      BY <1>5, <2>1, <3>2 DEF Kept
    <3>3. ASSUME NEW q \in Procs, Holds(q, i) PROVE FALSE
      <4>1. q # p /\ job'[q] = job[q]
        BY <1>5, <2>1, <3>3
      <4>2. Holds(q, i)'
        BY <1>5, <3>3, <4>1 DEF Holds
      <4> QED BY <2>1, <4>2 DEF Kept
    <3> QED BY <2>3, <3>1, <3>2, <3>3 DEF Kept
  <2> QED BY <1>6, <2>1, <2>2, <2>3 DEF Loose
<1>8. Orderly(job[p])
  BY DEF Ordered
<1>9. CASE op.do = "insert"
  <2>1. \A i : ~Holds(p, i)
    BY <1>2, <1>6, <1>8, <1>9 DEF Holds, Closes, Orderly
  <2>2. Loose' \subseteq Loose \cup {n + 1}
    BY <1>7, <2>1
  <2> QED BY <2>2
<1>10. CASE op.do # "insert"
  <2>1. \A i, j : Holds(p, i) /\ Holds(p, j) => i = j
    BY <1>8 DEF Holds, Closes, Orderly
  <2>2. CASE \E x : Holds(p, x)
    <3>1. PICK x : Holds(p, x)
      BY <2>2
    <3>2. Loose' \subseteq Loose \cup {x}
      BY <1>7, <1>10, <2>1, <3>1
    <3> QED BY <3>2
  <2>3. CASE ~\E x : Holds(p, x)
    BY <1>7, <1>10, <2>3
  <2> QED BY <2>2, <2>3
<1> QED BY <1>9, <1>10

\* A call that reports hands its step to its callback.
LEMMA LooseReport ==
    ASSUME IInv, Orders, NEW p, NEW c, NEW status, Reports(p, c, status)
    PROVE  Loose' \subseteq Loose
<1> DEFINE j == ResultJob(c, status)
<1>1. job \in [Procs -> Seq(Op)] /\ fate \in [Calls -> Fate] /\ p \in Procs /\ c \in Calls
  BY DEF IInv, TypeOK, Reports
<1>2. job' = [job EXCEPT ![p] = j]
  BY DEF Reports
<1>3. job'[p] = j /\ \A q \in Procs \ {p} : job'[q] = job[q]
  BY <1>1, <1>2
<1>4. \A d \in Calls \ {c} : fate'[d] = fate[d]
  BY <1>1 DEF Reports
<1>5. UNCHANGED <<thinking, toolSteps, latest, steps>>
  BY DEF Reports
<1>6. job[p] = << >>
  BY DEF Reports, Orders, Unasked, Running
<1>7. toolSteps[c] # 0 => 1 \in 1 .. Len(j) /\ Closes(j[1], toolSteps[c])
  BY ResultIs
<1> HIDE DEF j
<1>8. SUFFICES ASSUME NEW i \in 1 .. Len(steps), Kept(i) PROVE Kept(i)'
  BY <1>5 DEF Loose
<1>9. CASE thinking = i
  BY <1>5, <1>9 DEF Kept
<1>10. ASSUME NEW q \in Procs, Holds(q, i) PROVE Kept(i)'
  <2>1. q # p
    BY <1>6, <1>10 DEF Holds
  <2>2. Holds(q, i)'
    BY <1>3, <1>5, <1>10, <2>1 DEF Holds
  <2> QED BY <2>2 DEF Kept
<1>11. ASSUME NEW d \in Calls, toolSteps[d] = i, fate[d] \in Open PROVE Kept(i)'
  <2>1. CASE d = c
    <3>1. Holds(p, i)'
      BY <1>3, <1>7, <1>8, <1>11, <2>1 DEF Holds
    <3> QED BY <1>1, <3>1 DEF Kept
  <2>2. CASE d # c
    BY <1>4, <1>5, <1>11, <2>2 DEF Kept
  <2> QED BY <2>1, <2>2
<1> QED BY <1>8, <1>9, <1>10, <1>11 DEF Kept

\* The loop hands the last thought to its callback.
LEMMA LooseLoop ==
    ASSUME IInv, Orders,
           \/ StartIteration \/ EndBlock \/ StopCancelled
           \/ AnswerText \/ AnswerCalls \/ AnswerFails \/ EndRun
           \/ Malformed \/ Announce \/ Consented \/ Denied \/ SkipCall
           \/ Gather \/ CollectResults \/ Recover \/ ConsentRaises \/ GatherRaises
    PROVE  Loose' \subseteq Loose
<1>1. /\ ~Recover /\ \A p \in Procs : job[p] = << >>
      /\ UNCHANGED <<steps, toolSteps>>
  BY LoopIdle DEF Orders
<1>2. job \in [Procs -> Seq(Op)] /\ fate \in [Calls -> Fate] /\ 0 \in Procs
  BY TimelineAssumption DEF IInv, TypeOK, Procs
<1>3. SUFFICES ASSUME NEW i \in 1 .. Len(steps), Kept(i) PROVE Kept(i)'
  BY <1>1 DEF Loose
<1>4. \A p \in Procs : ~Holds(p, i)
  BY <1>1 DEF Holds
<1>5. CASE thinking = i
  <2>1. CASE StartIteration \/ EndBlock \/ AnswerText
    <3> DEFINE j == job'[0]
    <3>1. \/ j = CloseThought \o Create("thought", "running", NoCall, 0)
          \/ j = CloseThought
      BY <1>2, <2>1 DEF StartIteration, EndBlock, AnswerText, Callback
    <3>2. thinking # 0
      BY <1>5
    <3>3. Len(j) \in {1, 3} /\ Closes(j[1], i)
      BY <1>5, <3>1, <3>2, ThoughtIs, CloseThoughtIs
    <3>4. Holds(0, i)'
      BY <3>3 DEF Holds
    <3> QED BY <1>2, <3>4 DEF Kept
  <2>2. CASE ~(StartIteration \/ EndBlock \/ AnswerText)
    <3>1. thinking' = thinking
      BY <1>1, <2>2 DEF StopCancelled, AnswerCalls, AnswerFails, EndRun, Malformed, Announce,
                        Consented, Denied, SkipCall, Gather, CollectResults, ConsentRaises,
                        GatherRaises, PrepareRest
    <3> QED BY <1>5, <3>1 DEF Kept
  <2> QED BY <2>1, <2>2
<1>6. ASSUME NEW c \in Calls, toolSteps[c] = i, fate[c] \in Open PROVE Kept(i)'
  <2>1. CASE fate' = fate
    BY <1>1, <1>6, <2>1 DEF Kept
  <2>2. CASE Malformed \/ Announce \/ Consented \/ Denied \/ SkipCall \/ ConsentRaises
    <3>1. PICK f : fate' = [fate EXCEPT ![This] = f] /\ (fate[This] \in Open => f \in Open)
      BY <2>2 DEF Malformed, Announce, Consented, Denied, SkipCall, ConsentRaises, Preparing,
                  Becomes, Open
    <3>2. fate'[c] \in Open
      BY <1>2, <1>6, <3>1
    <3> QED BY <1>1, <1>6, <3>2 DEF Kept
  <2>3. CASE GatherRaises
    <3>1. \A d \in Calls : fate'[d] = fate[d] \/ fate'[d] = "raised"
      BY <2>3 DEF GatherRaises
    <3>2. fate'[c] \in Open
      BY <1>6, <3>1 DEF Open
    <3> QED BY <1>1, <1>6, <3>2 DEF Kept
  <2> QED BY <1>1, <2>1, <2>2, <2>3 DEF StartIteration, EndBlock, StopCancelled, AnswerText,
             AnswerCalls, AnswerFails, EndRun, Gather, CollectResults
<1> QED BY <1>3, <1>4, <1>5, <1>6 DEF Kept

\* Closing the run touches neither the calls nor what their callbacks hold.
LEMMA LeaveKeeps ==
    ASSUME IInv, Orders, LeaveRun
    PROVE  Orders' /\ Loose' \subseteq Loose
<1>1. /\ pc = "raised" /\ pc' = "left" /\ job[0] = << >>
      /\ job' = [job EXCEPT ![0] = Finish("failed")]
      /\ UNCHANGED <<iteration, size, next, fate, thinking, toolSteps, latest, steps, run>>
  BY DEF LeaveRun, At, Callback, Rest
<1>2. job \in [Procs -> Seq(Op)] /\ 0 \in Procs
  <2>1. job \in [Procs -> Seq(Op)]
    BY DEF IInv, TypeOK
  <2> QED BY <2>1, TimelineAssumption DEF Procs
<1>3. job'[0] = Finish("failed") /\ \A q \in Procs \ {0} : job'[q] = job[q]
  BY <1>1, <1>2
<1>4. /\ StepsKnown /\ Awaited /\ Finished /\ ClosingDone /\ LastThought /\ Fates /\ Unasked
  BY DEF Orders
<1>5. \A k \in 1 .. Len(job'[0]) : job'[0][k].do = "finish" /\ job'[0][k].status = "failed"
  BY <1>3 DEF Finish
<1>6. Awaited'
  <2>1. SUFFICES ASSUME NEW q \in Procs, NEW k \in 1 .. Len(job'[q])
        PROVE  /\ Inserts(job'[q][k], "tool_call") =>
                      /\ job'[q][k].call \in Calls /\ toolSteps[job'[q][k].call] = 0
                      /\ fate[job'[q][k].call] \in Open
               /\ Inserts(job'[q][k], "thought") => thinking = 0
               /\ job'[q][k].do = "finish" =>
                      /\ job'[q][k].status # "running"
                      /\ job'[q][k].status = "completed" => thinking = 0
    BY <1>1 DEF Awaited
  <2>2. CASE q = 0
    BY <1>5, <2>2 DEF Inserts
  <2>3. CASE q # 0
    BY <1>3, <1>4, <2>3 DEF Awaited
  <2> QED BY <2>2, <2>3
<1>7. StepsKnown' /\ Finished' /\ ClosingDone' /\ LastThought'
  BY <1>1, <1>4 DEF StepsKnown, Finished, ClosingDone, LastThought
<1>8. Fates'
  BY <1>1, <1>4 DEF Fates, CutShort, This
<1>9. Unasked'
  BY <1>1, <1>3, <1>4, TimelineAssumption DEF Unasked, Slots, Procs
<1>10. Loose' \subseteq Loose
  <2>1. SUFFICES ASSUME NEW i \in 1 .. Len(steps), Kept(i) PROVE Kept(i)'
    BY <1>1 DEF Loose
  <2>2. ASSUME NEW q \in Procs, Holds(q, i) PROVE Kept(i)'
    <3>1. q # 0
      BY <1>1, <2>2 DEF Holds
    <3>2. Holds(q, i)'
      BY <1>1, <1>3, <2>2, <3>1 DEF Holds
    <3> QED BY <3>2 DEF Kept
  <2> QED BY <1>1, <2>1, <2>2 DEF Kept
<1> QED BY <1>1, <1>6, <1>7, <1>8, <1>9, <1>10 DEF Orders

\* Every step that is not a crash keeps the count.
LEMMA SpinStep ==
    ASSUME IInv, JobsShut, Ordered, SpinInv, [Next]_vars
    PROVE  SpinInv'
<1> SUFFICES ASSUME crashes' = 0 PROVE Orders' /\ Counted'
  BY DEF SpinInv
<1>1. crashes \in Nat /\ faults \in Nat /\ Len(steps) \in Nat
  <2>1. TypeOK
    BY DEF IInv
  <2> QED BY <2>1 DEF TypeOK
\* A set of steps, whatever is left out of it.
<1>2. ASSUME Loose' \subseteq Loose, Counted, faults' = faults PROVE Counted'
  <2>1. IsFiniteSet(1 .. Len(steps))
    BY <1>1, FS_Interval
  <2>2. IsFiniteSet(Loose)
    BY <2>1, FS_Subset DEF Loose
  <2>3. Cardinality(Loose') <= Cardinality(Loose) /\ Cardinality(Loose) \in Nat
        /\ IsFiniteSet(Loose')
    BY <1>2, <2>2, FS_Subset, FS_CardinalityType
  <2>4. Cardinality(Loose') \in Nat
    BY <2>3, FS_CardinalityType
  <2> QED BY <1>1, <1>2, <2>3, <2>4 DEF Counted
<1>3. CASE \E p \in Procs : DaoCall(p)
  <2>1. PICK p \in Procs : DaoCall(p)
    BY <1>3
  <2>2. Orders /\ Counted /\ faults' = faults
    BY <2>1 DEF DaoCall, SpinInv
  <2> QED BY <1>2, <2>1, <2>2, OrdersDao, LooseDao
<1>4. CASE \E p \in Procs : DaoFails(p)
  <2>1. PICK p \in Procs : DaoFails(p)
    BY <1>4
  <2>2. Orders /\ Counted /\ faults' = faults + 1
    BY <2>1 DEF DaoFails, SpinInv
  <2>3. PICK x : Loose' \subseteq Loose \cup {x}
    BY <2>1, <2>2, LooseFails
  <2>4. IsFiniteSet(1 .. Len(steps))
    BY <1>1, FS_Interval
  <2>5. IsFiniteSet(Loose)
    BY <2>4, FS_Subset DEF Loose
  <2>6. IsFiniteSet(Loose \cup {x}) /\ Cardinality(Loose) \in Nat
        /\ Cardinality(Loose \cup {x}) <= Cardinality(Loose) + 1
    <3>1. Cardinality(Loose) \in Nat
      BY <2>5, FS_CardinalityType
    <3>2. /\ IsFiniteSet(Loose \cup {x})
          /\ Cardinality(Loose \cup {x}) =
                 IF x \in Loose THEN Cardinality(Loose) ELSE Cardinality(Loose) + 1
      BY <2>5, FS_AddElement
    <3> QED BY <3>1, <3>2
  <2>7. IsFiniteSet(Loose') /\ Cardinality(Loose') <= Cardinality(Loose \cup {x})
    BY <2>3, <2>6, FS_Subset
  <2>8. Cardinality(Loose') \in Nat /\ Cardinality(Loose \cup {x}) \in Nat
    BY <2>6, <2>7, FS_CardinalityType
  <2>9. Counted'
    BY <1>1, <2>2, <2>6, <2>7, <2>8 DEF Counted
  <2> QED BY <2>1, <2>2, <2>9, OrdersFails
<1>5. CASE \E p, c, status : Reports(p, c, status)
  <2>1. PICK p, c, status : Reports(p, c, status)
    BY <1>5
  <2>2. Orders /\ Counted /\ faults' = faults
    BY <2>1 DEF Reports, SpinInv
  <2> QED BY <1>2, <2>1, <2>2, OrdersReport, LooseReport
<1>6. CASE Crash
  BY <1>1, <1>6 DEF Crash
<1>7. CASE \/ StartIteration \/ EndBlock \/ StopCancelled
           \/ AnswerText \/ AnswerCalls \/ AnswerFails \/ EndRun
           \/ Malformed \/ Announce \/ Consented \/ Denied \/ SkipCall
           \/ Gather \/ CollectResults \/ Recover \/ ConsentRaises \/ GatherRaises
  <2>1. Orders /\ Counted /\ faults' = faults
    BY <1>7, LoopJobs DEF SpinInv
  <2>2. Orders'
    BY <1>7, <2>1, OrdersLoop
  <2>3. Loose' \subseteq Loose
    BY <1>7, <2>1, LooseLoop
  <2> QED BY <1>2, <2>1, <2>2, <2>3
<1>8. CASE UNCHANGED vars
  <2>1. UNCHANGED <<pc, iteration, size, next, fate, job, ordinal, latest, thinking, toolSteps,
                    steps, run, faults, crashes>>
    BY <1>8 DEF vars, loopVars, jobVars
  <2>2. Orders /\ Counted
    BY <2>1 DEF SpinInv
  <2>3. Orders'
    BY <2>1, <2>2 DEF Orders, StepsKnown, Awaited, Finished, ClosingDone, LastThought, Fates,
                      CutShort, This, Unasked
  <2>4. Loose' \subseteq Loose
    BY <2>1 DEF Loose, Kept, Holds
  <2> QED BY <1>2, <2>1, <2>2, <2>3, <2>4
<1>9. CASE LeaveRun
  <2>1. Orders /\ Counted /\ faults' = faults
    BY <1>9 DEF LeaveRun, Rest, SpinInv
  <2> QED BY <1>2, <1>9, <2>1, LeaveKeeps
<1> QED BY <1>3, <1>4, <1>5, <1>6, <1>7, <1>8, <1>9, StepIs

\* It holds throughout.
LEMMA SpinHolds == Spec => [](Ordered /\ SpinInv)
<1>1. Init => Ordered /\ SpinInv
  <2> SUFFICES ASSUME Init PROVE Ordered /\ SpinInv
    OBVIOUS
  <2>1. /\ \A p \in Procs : job[p] = << >>
        /\ pc = "top" /\ thinking = 0 /\ run = "running" /\ steps = << >> /\ faults = 0
        /\ \A c \in Calls : toolSteps[c] = 0 /\ fate[c] = "todo"
    BY DEF Init
  <2>2. Ordered
    BY <2>1, OrderlyLists DEF Ordered
  <2>3. Slots \subseteq Procs
    BY TimelineAssumption DEF Slots, Procs
  <2>4. Orders
    BY <2>1, <2>3 DEF Orders, StepsKnown, Awaited, Finished, ClosingDone, LastThought, Fates,
                      Unasked
  <2>5. Loose = {}
    BY <2>1 DEF Loose
  <2>6. Counted
    BY <2>1, <2>5, FS_EmptySet DEF Counted
  <2> QED BY <2>2, <2>4, <2>6 DEF SpinInv
<1>2. IInv /\ JobsShut /\ (Ordered /\ SpinInv) /\ [Next]_vars => (Ordered /\ SpinInv)'
  BY OrderedStep, SpinStep
<1>3. Spec => []JobsShut
  BY ObsHolds, PTL
<1> QED BY <1>1, <1>2, <1>3, Invariance, PTL DEF Spec

\* The recorder swallows its errors, yet they do not add up: a run that its own
\* process closes leaves, once its callbacks have returned, no step "running" but
\* the announcement of a malformed call, those of a batch run() raised in that
\* have not reported, its last thought, and one step for each DAO call that raised.
THEOREM SpinnersExplainedHolds == Spec => []SpinnersExplained
<1>1. IInv /\ SpinInv => SpinnersExplained
  <2> SUFFICES ASSUME IInv, SpinInv, run # "running", crashes = 0,
                      \A p \in Procs : job[p] = << >>
               PROVE  Cardinality({i \in DOMAIN steps :
                          steps[i].status = "running" /\ ~MaySpinOn(i)}) <= faults
    BY DEF SpinnersExplained
  <2> DEFINE left == {i \in DOMAIN steps : steps[i].status = "running" /\ ~MaySpinOn(i)}
  <2>1. TypeOK
    BY DEF IInv
  <2>2. DOMAIN steps = 1 .. Len(steps) /\ Len(steps) \in Nat /\ faults \in Nat
        /\ fate \in [Calls -> Fate]
    BY <2>1 DEF TypeOK
  <2>3. Orders /\ Counted
    BY DEF SpinInv
  <2>4. pc \in {"over", "left"} /\ (\A p \in Procs : job[p] = << >>) /\ (run = "completed" => thinking = 0)
    BY <2>3 DEF Orders, Finished
  <2>5. ASSUME NEW i \in 1 .. Len(steps), steps[i].status = "running", ~MaySpinOn(i)
        PROVE  i \in Loose
    <3>1. SUFFICES ASSUME Kept(i) PROVE FALSE
      BY <2>5 DEF Loose
    <3>2. \A p \in Procs : ~Holds(p, i)
      BY <2>4 DEF Holds
    <3>3. CASE thinking = i
      BY <2>2, <2>3, <2>4, <2>5, <3>3 DEF Orders, LastThought, MaySpinOn
    <3>4. ASSUME NEW c \in Calls, toolSteps[c] = i, fate[c] \in Open PROVE FALSE
      <4>1. steps[i].kind = "tool_call" /\ steps[i].call = c
        BY <2>3, <3>4 DEF Orders, StepsKnown
      <4>2. /\ fate[c] \notin {"refused", "granted", "blocked"}
            /\ fate[c] \in {"raised", "ready"} => CutShort(c)
        BY <2>3, <2>4 DEF Orders, Fates, CutShort
      <4> QED BY <2>5, <3>4, <4>1, <4>2 DEF Open, MaySpinOn
    <3> QED BY <3>1, <3>2, <3>3, <3>4 DEF Kept
  <2>6. left \subseteq Loose
    BY <2>2, <2>5
  <2>7. IsFiniteSet(1 .. Len(steps))
    BY <2>2, FS_Interval
  <2>8. IsFiniteSet(Loose)
    BY <2>7, FS_Subset DEF Loose
  <2> HIDE DEF left
  <2>9. IsFiniteSet(left) /\ Cardinality(left) <= Cardinality(Loose)
    BY <2>6, <2>8, FS_Subset
  <2>10. Cardinality(left) \in Nat /\ Cardinality(Loose) \in Nat
    BY <2>8, <2>9, FS_CardinalityType
  <2>11. Cardinality(left) <= faults
    BY <2>2, <2>3, <2>9, <2>10 DEF Counted
  <2> QED BY <2>11 DEF left
<1> QED BY <1>1, SpinHolds, Invariance, PTL
=============================================================================
