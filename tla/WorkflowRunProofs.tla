--------------------------- MODULE WorkflowRunProofs ----------------------------
(* Proofs about WorkflowRun, for any definition of stages and any bounds: those   *)
(* about fresh inputs, reviews and mutations for any number of server processes,  *)
(* the others for one.                                                           *)
EXTENDS WorkflowRun, FiniteSetTheorems, TLAPS

-------------------------------------------------------------------------------
(* The inductive invariant, part by part. *)
AtStage == {"review", "begin", "work", "start", "attach", "attached", "drop", "poll", "reconcile",
            "finish", "fail", "interrupt"}

(* A loop or a request that is about a stage has one, of the right kind. *)
Placed ==
  \A r \in Runner :
    /\ loop[r].pc \in AtStage \/ up[r] = "settle" => loop[r].stage \in Stage
    /\ loop[r].pc = "review" => Kind[loop[r].stage] = "checkpoint"
    /\ loop[r].pc = "begin" => Kind[loop[r].stage] # "checkpoint"
    /\ loop[r].pc = "work" => Kind[loop[r].stage] = "work"
    /\ ask[r].pc \in {"approve", "replay", "retry"} => ask[r].stage \in Stage
    /\ ask[r].pc = "approve" => ask[r].n \in DOMAIN review[ask[r].stage]

(* No revision that is kept anywhere is one the project has not reached. *)
NoneAhead ==
  /\ run.rev <= project
  /\ \A s \in Stage : exec[s].base <= project
  /\ \A r \in Runner : ask[r].rev <= project /\ loop[r].rev <= project /\ loop[r].ex.base <= project
  /\ \A j \in DOMAIN job : job[j].rev <= project

(* FreshInputs, of the stages that may be retried too, and from the claim on. *)
Fed ==
  \A s \in Stage :
    /\ exec[s].status \in {"ready", "running", "waiting_review", "completed", "failed", "interrupted"} =>
         \A d \in Deps[s] : Done(d)
    /\ exec[s].status \in {"running", "waiting_review", "completed"} => exec[s].inputs = Inputs(s)

(* ReviewsHold, and a checkpoint is the current stage only while it is reviewed. *)
OnlyReviewed ==
  /\ \A s \in Stage : Kind[s] = "checkpoint" => exec[s].status \notin {"running", "failed", "interrupted"}
  /\ \A s \in Stage : Kind[s] = "checkpoint" /\ run.current = s => run.status = "waiting_review"

(* At most one attempt of those the stage answers for has been applied; and what  *)
(* an executor knows of them is all there was before it.                         *)
Once ==
  \A s \in Stage :
    /\ exec[s].ops \subseteq 1..exec[s].attempt
    /\ applied[s] \subseteq 1..exec[s].attempt
    /\ \A a, b \in applied[s] \cap exec[s].ops : a = b

Knows(e, s) ==
  /\ e.attempt \in 1..exec[s].attempt
  /\ e.attempt \in exec[s].ops =>
       /\ \A a \in exec[s].ops : a <= e.attempt => a \in e.ops
       /\ (\E a \in applied[s] \cap exec[s].ops : a > e.attempt) => project > e.base

Informed == \A r \in Runner : loop[r].pc = "work" => Knows(loop[r].ex, loop[r].stage)

FileInv == TypeOK /\ Placed /\ NoneAhead /\ Fed /\ ReviewsHold /\ OnlyReviewed /\ Once /\ Informed

(* Of one server process.  Its jobs are there. *)
Refs(e) == \A i \in DOMAIN e.jobs : e.jobs[i] \in DOMAIN job
Known ==
  /\ \A s \in Stage : Refs(exec[s])
  /\ \A r \in Runner :
       /\ loop[r].pc = "start" => Refs(loop[r].ex)
       /\ loop[r].pc = "attach" => loop[r].job \in DOMAIN job

(* The stage that runs is the current one, and the one its loop is at. *)
OneStage ==
  /\ \A s \in Stage : Running(s) => run.current = s /\ run.status \in {"running", "paused"} /\ exec[s].epoch >= 1
  /\ \A r \in Runner, s \in Stage : Running(s) =>
       /\ loop[r].pc \notin {"mark", "complete", "review", "begin", "leave"}
       /\ loop[r].pc \in AtStage => loop[r].stage = s
  /\ epoch >= 1
  /\ \A r \in Runner : epoch = 1 => up[r] # "settle"
  /\ \A r \in Runner : up[r] # "up" => loop[r].pc = "none"

(* The loop waits for the last job of its stage, and then has seen what it shows. *)
Awaits ==
  \A r \in Runner : loop[r].pc \in AtStage /\ Running(loop[r].stage) =>
    LET s == loop[r].stage IN
    /\ loop[r].pc \in {"poll", "reconcile"} => exec[s].jobs # << >> /\ loop[r].job = JobOf(exec[s])
    /\ loop[r].pc = "finish" /\ Kind[s] = "job" => exec[s].jobs # << >> /\ job[JobOf(exec[s])].rev >= exec[s].base
    /\ loop[r].pc = "start" => exec[s].jobs = loop[r].ex.jobs
    /\ loop[r].pc = "attach" /\ loop[r].job \in JobsOf(exec[s]) => loop[r].job = JobOf(exec[s])

(* A completed render shows what it should; only checkpoints wait for review.      *)
OnlyThose == \A s \in Stage : exec[s].status = "waiting_review" => Kind[s] = "checkpoint"
Shown == \A s \in Stage : Done(s) /\ Kind[s] = "job" => exec[s].jobs # << >> /\ job[JobOf(exec[s])].rev >= exec[s].base

(* Until a crash, each job that goes on uncancelled is one that a loop is about   *)
(* to attach or to cancel, the last of the stage that runs, or one that a cancel  *)
(* is about to reach.                                                            *)
Live(j) == job[j].status = "active" /\ ~job[j].cancel
Pursued(j, r) ==
  \/ loop[r].pc \in {"attach", "drop"} /\ loop[r].job = j
  \/ ask[r].pc = "cancelJobs" /\ j \in ask[r].jobs
  \/ /\ loop[r].pc \in {"none", "read", "attached", "poll"}
     /\ \E s \in Stage : Running(s) /\ exec[s].jobs # << >> /\ j = JobOf(exec[s])
Tended == epoch = 1 => \A r \in Runner, j \in DOMAIN job : Live(j) => Pursued(j, r)

OneServerInv == Known /\ OneStage /\ Awaits /\ OnlyThose /\ Shown /\ Tended

-------------------------------------------------------------------------------
(* Types. *)
LoopPc == {"none", "read", "mark", "complete", "leave"} \cup AtStage
AskPc  == {"none", "resume", "approve", "replay", "retry", "cancelJobs", "schedule"}

LoopRecord == [pc : LoopPc, stage : Stage \cup {NoStage}, ex : Execution, job : Nat, rev : Nat]
AskRecord  == [pc : AskPc, stage : Stage \cup {NoStage}, n : Nat, rev : Nat, jobs : SUBSET Nat]
JobRecord  == [status : Ended \cup {"active"}, cancel : BOOLEAN, rev : Nat]

Types(r_, e_, v_, j_, p_, a_, n_, u_, l_, k_) ==
  /\ r_ \in RunRecord /\ e_ \in [Stage -> Execution] /\ v_ \in [Stage -> Seq(Checkpoint)]
  /\ j_ \in Seq(JobRecord) /\ p_ \in Nat /\ a_ \in [Stage -> SUBSET Nat] /\ n_ \in Nat
  /\ u_ \in [Runner -> {"down", "settle", "up"}] /\ l_ \in [Runner -> LoopRecord]
  /\ k_ \in [Runner -> AskRecord]

LEMMA TypesAreTypeOK ==
  TypeOK <=> Types(run, exec, review, job, project, applied, epoch, up, loop, ask)
BY DEF TypeOK, Types, LoopRecord, AskRecord, JobRecord, LoopPc, AskPc, AtStage

LEMMA PendingType == Pending \in Execution /\ Pending.status = "pending" /\ Pending.jobs = << >>
BY DEF Pending, Execution, StageStatus, RunStatus

LEMMA RestType == Rest \in LoopRecord /\ Rest.pc = "none" /\ Rest.rev = 0 /\ Rest.ex = Pending
BY PendingType DEF Rest, LoopRecord, LoopPc

LEMMA NoAskType == NoAsk \in AskRecord /\ NoAsk.pc = "none" /\ NoAsk.rev = 0
BY DEF NoAsk, AskRecord, AskPc

(* What is done to an execution keeps it one. *)
LEMMA SequenceSet ==
  ASSUME NEW S, NEW q \in Seq(S), NEW n, NEW x \in S
  PROVE  /\ [q EXCEPT ![n] = x] \in Seq(S)
         /\ DOMAIN [q EXCEPT ![n] = x] = DOMAIN q
         /\ Len([q EXCEPT ![n] = x]) = Len(q)
<1> DEFINE w == [q EXCEPT ![n] = x]
<1>1. q \in [1..Len(q) -> S] /\ Len(q) \in Nat /\ DOMAIN q = 1..Len(q)
  OBVIOUS
<1>2. w \in [1..Len(q) -> S] /\ DOMAIN w = 1..Len(q)
  BY <1>1
<1> HIDE DEF w
<1>3. w \in Seq(S)
  BY <1>1, <1>2
<1>4. Len(w) = Len(q)
  BY <1>1, <1>2, <1>3
<1> QED
  BY <1>1, <1>2, <1>3, <1>4 DEF w

LEMMA StatusSet ==
  ASSUME NEW e \in Execution, NEW status \in StageStatus
  PROVE  [e EXCEPT !.status = status] \in Execution
BY DEF Execution

LEMMA ClearedType ==
  ASSUME NEW e \in Execution, NEW status \in StageStatus
  PROVE  /\ Cleared(e, status) \in Execution
         /\ Cleared(e, status).status = status /\ Cleared(e, status).base = 0
         /\ Cleared(e, status).attempt = e.attempt /\ Cleared(e, status).ops = e.ops
         /\ Cleared(e, status).jobs = e.jobs
<1>1. Pending.inputs \in [Stage -> Nat]
  BY DEF Pending
<1> QED
  BY <1>1 DEF Cleared, Execution

LEMMA InvalidatedType ==
  ASSUME NEW e \in Execution
  PROVE  /\ Invalidated(e) \in Execution /\ Invalidated(e).status = "invalidated" /\ Invalidated(e).base = 0
         /\ Invalidated(e).attempt = e.attempt /\ Invalidated(e).ops = e.ops /\ Invalidated(e).jobs = e.jobs
<1>1. "invalidated" \in StageStatus
  BY DEF StageStatus
<1> QED
  BY <1>1, ClearedType DEF Invalidated

LEMMA ForgottenType ==
  ASSUME NEW e \in Execution
  PROVE  /\ Forgotten(e) \in Execution /\ Forgotten(e).status = "invalidated" /\ Forgotten(e).base = 0
         /\ Forgotten(e).attempt = e.attempt /\ Forgotten(e).ops = {} /\ Forgotten(e).jobs = << >>
<1>1. Invalidated(e) \in Execution
  BY InvalidatedType
<1>2. << >> \in Seq(Nat)
  OBVIOUS
<1>3. Forgotten(e) \in Execution
  BY <1>1, <1>2 DEF Forgotten, Execution
<1> QED
  BY <1>1, <1>3, InvalidatedType DEF Forgotten, Execution

LEMMA BegunType ==
  ASSUME TypeOK, NEW s \in Stage, NEW status \in StageStatus
  PROVE  /\ Begun(s, status) \in Execution
         /\ Begun(s, status).status = status /\ Begun(s, status).base = run.rev
         /\ Begun(s, status).attempt = exec[s].attempt + 1 /\ Begun(s, status).ops = exec[s].ops
         /\ Begun(s, status).jobs = exec[s].jobs /\ Begun(s, status).inputs = Inputs(s)
         /\ Begun(s, status).epoch = epoch
<1>1. exec[s] \in Execution /\ run.rev \in Nat /\ epoch \in Nat
  BY DEF TypeOK, RunRecord
<1>2. Inputs(s) \in [Stage -> Nat]
  BY DEF TypeOK, Inputs, Execution
<1> DEFINE e == exec[s]
<1>3. e.attempt + 1 \in Nat
  BY <1>1 DEF Execution
<1> HIDE DEF e
<1>4. Begun(s, status) = [e EXCEPT !.status = status, !.attempt = e.attempt + 1, !.base = run.rev,
                                   !.inputs = Inputs(s), !.epoch = epoch]
  BY DEF Begun, e
<1>5. e \in Execution
  BY <1>1 DEF e
<1>6. Begun(s, status) \in Execution
  BY <1>1, <1>2, <1>3, <1>4, <1>5 DEF Execution
<1> QED
  BY <1>4, <1>5, <1>6 DEF Execution, e

LEMMA RefreshedType ==
  ASSUME TypeOK, NEW rev
  PROVE  Refreshed(rev) \in [Stage -> Execution]
<1> SUFFICES ASSUME NEW s \in Stage PROVE Refreshed(rev)[s] \in Execution
  BY DEF Refreshed
<1>1. exec[s] \in Execution
  BY DEF TypeOK
<1> QED
  BY <1>1, InvalidatedType DEF Refreshed

LEMMA MarkedType ==
  ASSUME TypeOK
  PROVE  Marked \in [Stage -> Execution]
<1> SUFFICES ASSUME NEW s \in Stage PROVE Marked[s] \in Execution
  BY DEF Marked
<1>1. exec[s] \in Execution /\ "ready" \in StageStatus
  BY DEF TypeOK, StageStatus
<1> QED
  BY <1>1, StatusSet DEF Marked

LEMMA LatestJob ==
  ASSUME NEW e \in Execution, e.jobs # << >>
  PROVE  JobOf(e) \in Nat /\ Len(e.jobs) \in DOMAIN e.jobs /\ JobOf(e) = e.jobs[Len(e.jobs)]
<1>1. e.jobs \in Seq(Nat)
  BY DEF Execution
<1> QED
  BY <1>1 DEF JobOf, Latest

-------------------------------------------------------------------------------
(* How a step moves a loop or a request: to a record l, and no other. *)
LoopAt(r, l) ==
  /\ loop' \in [Runner -> LoopRecord]
  /\ loop'[r] = l
  /\ \A q \in Runner : q # r => loop'[q] = loop[q]

AskAt(r, a) ==
  /\ ask' \in [Runner -> AskRecord]
  /\ ask'[r] = a
  /\ \A q \in Runner : q # r => ask'[q] = ask[q]

LEMMA StateTypes ==
  ASSUME TypeOK
  PROVE  /\ loop \in [Runner -> LoopRecord] /\ ask \in [Runner -> AskRecord] /\ job \in Seq(JobRecord)
         /\ run \in [status : RunStatus, current : Stage \cup {NoStage}, rev : Nat]
         /\ exec \in [Stage -> Execution] /\ review \in [Stage -> Seq(Checkpoint)]
         /\ project \in Nat /\ applied \in [Stage -> SUBSET Nat] /\ epoch \in Nat
         /\ up \in [Runner -> {"down", "settle", "up"}]
BY TypesAreTypeOK DEF Types, RunRecord

LEMMA GotoMoves ==
  ASSUME TypeOK, NEW r \in Runner, NEW l \in LoopRecord, Goto(r, l)
  PROVE  LoopAt(r, l)
BY StateTypes DEF Goto, LoopAt

LEMMA AnswerMoves ==
  ASSUME TypeOK, NEW r \in Runner, NEW a \in AskRecord, Answer(r, a)
  PROVE  AskAt(r, a)
BY StateTypes DEF Answer, AskAt

LEMMA LoopRecords ==
  ASSUME NEW l \in LoopRecord, NEW pc \in LoopPc
  PROVE  /\ [l EXCEPT !.pc = pc] \in LoopRecord
         /\ \A s \in Stage : [l EXCEPT !.pc = pc, !.stage = s] \in LoopRecord
         /\ \A j \in Nat : [l EXCEPT !.pc = pc, !.job = j] \in LoopRecord
         /\ \A n \in Nat : [l EXCEPT !.pc = pc, !.rev = n] \in LoopRecord
         /\ \A e \in Execution : [l EXCEPT !.pc = pc, !.ex = e] \in LoopRecord
         /\ \A s \in Stage, j \in Nat : [l EXCEPT !.pc = pc, !.stage = s, !.job = j] \in LoopRecord
BY DEF LoopRecord

LEMMA StepMoves ==
  ASSUME TypeOK, NEW r \in Runner, NEW pc \in LoopPc, Step(r, pc)
  PROVE  LoopAt(r, [loop[r] EXCEPT !.pc = pc])
BY StateTypes, LoopRecords, GotoMoves DEF Step

LEMMA LookMoves ==
  ASSUME TypeOK, NEW r \in Runner, Look(r)
  PROVE  LoopAt(r, [Rest EXCEPT !.pc = "read"])
BY RestType, LoopRecords, GotoMoves DEF Look, LoopPc

LEMMA LeaveMoves ==
  ASSUME TypeOK, NEW r \in Runner, Leave(r)
  PROVE  LoopAt(r, Rest)
BY RestType, GotoMoves DEF Leave

Scheduling == [NoAsk EXCEPT !.pc = "schedule"]

LEMMA AskRecords ==
  /\ Scheduling \in AskRecord /\ Scheduling.pc = "schedule" /\ Scheduling.rev = 0
  /\ \A n \in Nat : [NoAsk EXCEPT !.pc = "resume", !.rev = n] \in AskRecord
  /\ \A s \in Stage : [NoAsk EXCEPT !.pc = "retry", !.stage = s] \in AskRecord
  /\ \A s \in Stage, n \in Nat : [NoAsk EXCEPT !.pc = "replay", !.stage = s, !.rev = n] \in AskRecord
  /\ \A s \in Stage, n \in Nat, m \in Nat :
       [NoAsk EXCEPT !.pc = "approve", !.stage = s, !.n = m, !.rev = n] \in AskRecord
  /\ \A J \in SUBSET Nat : [NoAsk EXCEPT !.pc = "cancelJobs", !.jobs = J] \in AskRecord
BY NoAskType DEF Scheduling, AskRecord, AskPc

LEMMA ThenScheduleMoves ==
  ASSUME TypeOK, NEW r \in Runner, ThenSchedule(r)
  PROVE  AskAt(r, Scheduling)
BY AskRecords, AnswerMoves DEF ThenSchedule, Scheduling

LEMMA RefuseMoves ==
  ASSUME TypeOK, NEW r \in Runner, Refuse(r)
  PROVE  AskAt(r, NoAsk)
BY NoAskType, AnswerMoves DEF Refuse

LEMMA JobsOfType ==
  ASSUME NEW e \in Execution
  PROVE  JobsOf(e) \in SUBSET Nat
BY DEF JobsOf, Execution

LEMMA EndStageTypes ==
  ASSUME TypeOK, NEW s \in Stage, NEW status \in {"failed", "interrupted"},
         EndStage(s, status)
  PROVE  exec' \in [Stage -> Execution] /\ run' \in RunRecord
<1>1. CASE UNCHANGED <<run, exec>>
  BY <1>1 DEF TypeOK
<1>2. CASE ~UNCHANGED <<run, exec>>
  <2>1. /\ run.status \in {"running", "paused"}
        /\ exec' = [exec EXCEPT ![s].status = status]
        /\ run' = [run EXCEPT !.status = status, !.current = s]
    BY <1>2 DEF EndStage
  <2>2. [exec[s] EXCEPT !.status = status] \in Execution
    BY <2>1, StatusSet, StateTypes DEF StageStatus, RunStatus
  <2>3. exec' = [exec EXCEPT ![s] = [exec[s] EXCEPT !.status = status]]
    BY <2>1, StateTypes
  <2> QED
    BY <2>1, <2>2, <2>3, StateTypes DEF RunRecord, RunStatus
<1> QED
  BY <1>1, <1>2

-------------------------------------------------------------------------------
(* Each step keeps the types: first what it does to its own loop or request. *)
FileTypes == run' \in RunRecord /\ exec' \in [Stage -> Execution] /\ review' \in [Stage -> Seq(Checkpoint)]
WorldTypes == job' \in Seq(JobRecord) /\ project' \in Nat /\ applied' \in [Stage -> SUBSET Nat]
ProcessTypes ==
  /\ epoch' \in Nat /\ up' \in [Runner -> {"down", "settle", "up"}]
  /\ loop' \in [Runner -> LoopRecord] /\ ask' \in [Runner -> AskRecord]

LEMMA TypesOfParts == FileTypes /\ WorldTypes /\ ProcessTypes => TypeOK'
BY DEF FileTypes, WorldTypes, ProcessTypes, TypeOK, LoopRecord, AskRecord, JobRecord, LoopPc, AskPc, AtStage

LEMMA FileStands == ASSUME TypeOK, UNCHANGED file PROVE FileTypes
BY DEF TypeOK, file, FileTypes

LEMMA WorldStands == ASSUME TypeOK, UNCHANGED world PROVE WorldTypes
BY StateTypes DEF world, WorldTypes

LEMMA ProcessesStand ==
  ASSUME TypeOK, UNCHANGED <<epoch, up>>, UNCHANGED loop \/ (\E r \in Runner, l \in LoopRecord : LoopAt(r, l)),
         UNCHANGED ask \/ (\E r \in Runner, a \in AskRecord : AskAt(r, a))
  PROVE  ProcessTypes
BY StateTypes DEF ProcessTypes, LoopAt, AskAt

LEMMA RunSet ==
  ASSUME TypeOK, NEW status \in RunStatus
  PROVE  /\ [run EXCEPT !.status = status] \in RunRecord
         /\ \A s \in Stage \cup {NoStage} : [run EXCEPT !.status = status, !.current = s] \in RunRecord
         /\ \A n \in Nat : [run EXCEPT !.rev = n] \in RunRecord
         /\ \A n \in Nat : [run EXCEPT !.status = status, !.rev = n] \in RunRecord
         /\ \A n \in Nat, s \in Stage \cup {NoStage} : [run EXCEPT !.rev = n, !.current = s] \in RunRecord
         /\ \A s \in Stage \cup {NoStage} : [run EXCEPT !.current = s] \in RunRecord
BY StateTypes DEF RunRecord

LEMMA LargerType ==
  ASSUME NEW m \in Nat, NEW n \in Nat
  PROVE  Larger(m, n) \in Nat /\ Larger(m, n) >= m /\ Larger(m, n) >= n /\ Larger(m, n) \in {m, n}
BY DEF Larger

(* The requests. *)
LEMMA AskTypes ==
  ASSUME TypeOK, Placed, NEW r \in Runner, Ask(r)
  PROVE  TypeOK'
<1>1. run.rev \in Nat /\ project \in Nat /\ ask[r] \in AskRecord /\ run.status \in RunStatus
  BY StateTypes
<1>2. CASE Start(r)
  <2>1. run' \in RunRecord
    BY <1>2, RunSet DEF Start, RunStatus
  <2>2. FileTypes /\ WorldTypes /\ ProcessTypes
    BY <1>2, <2>1, WorldStands, ThenScheduleMoves, AskRecords, ProcessesStand, StateTypes DEF Start, FileTypes
  <2> QED
    BY <2>2, TypesOfParts
<1>3. CASE Pause(r)
  <2>1. run' \in RunRecord
    BY <1>3, RunSet DEF Pause, RunStatus
  <2>2. FileTypes /\ WorldTypes /\ ProcessTypes
    BY <1>3, <2>1, WorldStands, ProcessesStand, StateTypes DEF Pause, FileTypes
  <2> QED
    BY <2>2, TypesOfParts
<1>4. CASE Lookup(r)
  <2>1. \A s \in Stage : DOMAIN review[s] \subseteq Nat
    BY StateTypes
  <2>2. \E a \in AskRecord : Answer(r, a)
    BY <1>1, <1>4, <2>1, AskRecords DEF Lookup
  <2>3. FileTypes /\ WorldTypes /\ ProcessTypes
    BY <1>4, <2>2, AnswerMoves, FileStands, WorldStands, ProcessesStand DEF Lookup
  <2> QED
    BY <2>3, TypesOfParts
<1>5. CASE RetryRefresh(r)
  <2>1. run' \in RunRecord
    BY <1>1, <1>5, RunSet, LargerType DEF RetryRefresh
  <2>2. \E a \in AskRecord : Answer(r, a)
    BY <1>5, AskRecords DEF RetryRefresh
  <2>3. FileTypes /\ WorldTypes /\ ProcessTypes
    BY <1>5, <2>1, <2>2, WorldStands, AnswerMoves, ProcessesStand, StateTypes DEF RetryRefresh, FileTypes
  <2> QED
    BY <2>3, TypesOfParts
<1>6. CASE Cancel(r)
  <2> DEFINE s == run.current
  <2>1. run' \in RunRecord
    BY <1>6, RunSet DEF Cancel, RunStatus
  <2>2. exec' \in [Stage -> Execution]
    <3>1. CASE exec' = exec
      BY <3>1, StateTypes
    <3>2. CASE exec' # exec
      <4>1. s \in Stage /\ exec' = [exec EXCEPT ![s].status = "cancelled"]
        BY <1>6, <3>2, StateTypes DEF Cancel
      <4>2. [exec[s] EXCEPT !.status = "cancelled"] \in Execution
        BY <4>1, StatusSet, StateTypes DEF StageStatus, RunStatus
      <4> QED
        BY <4>1, <4>2, StateTypes
    <3> QED
      BY <3>1, <3>2
  <2>3. \E a \in AskRecord : Answer(r, a)
    <3>1. s \in Stage \cup {NoStage}
      BY StateTypes
    <3>2. (IF s = NoStage THEN {} ELSE JobsOf(exec[s])) \in SUBSET Nat
      BY <3>1, JobsOfType, StateTypes
    <3> QED
      BY <1>6, <3>2, AskRecords DEF Cancel
  <2>4. FileTypes /\ WorldTypes /\ ProcessTypes
    BY <1>6, <2>1, <2>2, <2>3, WorldStands, AnswerMoves, ProcessesStand, StateTypes DEF Cancel, FileTypes
  <2> QED
    BY <2>4, TypesOfParts
<1> QED
  BY <1>2, <1>3, <1>4, <1>5, <1>6 DEF Ask

LEMMA JobsCancelledType ==
  ASSUME TypeOK, NEW J
  PROVE  /\ JobsCancelled(J) \in Seq(JobRecord)
         /\ DOMAIN JobsCancelled(J) = DOMAIN job
         /\ \A j \in DOMAIN job :
              /\ JobsCancelled(J)[j].status = job[j].status /\ JobsCancelled(J)[j].rev = job[j].rev
              /\ JobsCancelled(J)[j].cancel <=> job[j].cancel \/ (j \in J /\ job[j].status = "active")
<1> DEFINE jc == JobsCancelled(J)
<1>1. job \in Seq(JobRecord) /\ DOMAIN job = 1..Len(job) /\ Len(job) \in Nat
  BY StateTypes
<1>2. \A j \in DOMAIN job : jc[j] = [job[j] EXCEPT !.cancel = job[j].cancel \/ (j \in J /\ job[j].status = "active")]
  BY DEF JobsCancelled
<1>3. jc = [j \in 1..Len(job) |-> jc[j]]
  BY <1>1 DEF JobsCancelled
<1>4. ASSUME NEW j \in DOMAIN job
      PROVE  /\ jc[j] \in JobRecord /\ jc[j].status = job[j].status /\ jc[j].rev = job[j].rev
             /\ jc[j].cancel <=> job[j].cancel \/ (j \in J /\ job[j].status = "active")
  <2>1. job[j] \in JobRecord
    BY <1>1
  <2>2. (job[j].cancel \/ (j \in J /\ job[j].status = "active")) \in BOOLEAN
    OBVIOUS
  <2> QED
    BY <1>2, <2>1, <2>2, ZenonT(40) DEF JobRecord
<1>5. jc \in Seq(JobRecord)
  BY <1>1, <1>3, <1>4
<1>6. DOMAIN jc = DOMAIN job
  BY DEF JobsCancelled
<1> QED
  BY <1>4, <1>5, <1>6

LEMMA ServeTypes ==
  ASSUME TypeOK, Placed, NEW r \in Runner, Serve(r)
  PROVE  TypeOK'
<1> DEFINE a == ask[r]
<1>1. run.rev \in Nat /\ project \in Nat /\ a \in AskRecord /\ a.rev \in Nat /\ run.status \in RunStatus
  BY StateTypes DEF AskRecord
<1>2. CASE Resume(r)
  <2>1. FileTypes
    <3>1. CASE UNCHANGED file
      BY <3>1, FileStands
    <3>2. CASE ~UNCHANGED file
      <4>1. exec' = Refreshed(a.rev) /\ run' = [run EXCEPT !.status = "running", !.rev = a.rev] /\ UNCHANGED review
        BY <1>2, <3>2 DEF Resume, Refuse
      <4> QED
        BY <1>1, <4>1, RefreshedType, RunSet, StateTypes DEF FileTypes, RunStatus
    <3> QED
      BY <3>1, <3>2
  <2>2. \E b \in AskRecord : AskAt(r, b)
    BY <1>2, ThenScheduleMoves, RefuseMoves, AskRecords, NoAskType DEF Resume
  <2>3. WorldTypes /\ ProcessTypes
    BY <1>2, <2>2, WorldStands, ProcessesStand DEF Resume
  <2> QED
    BY <2>1, <2>3, TypesOfParts
<1>3. CASE Approve(r)
  <2>1. FileTypes
    <3>1. CASE UNCHANGED file
      BY <3>1, FileStands
    <3>2. CASE ~UNCHANGED file
      <4>1. /\ exec' = [Refreshed(a.rev) EXCEPT ![a.stage].status = "completed"]
            /\ review' = [review EXCEPT ![a.stage][a.n] = "approved"]
            /\ run' = [status |-> "running", current |-> NoStage, rev |-> a.rev]
        BY <1>3, <3>2 DEF Approve, Refuse
      <4>2. a.stage \in Stage
        BY <1>3 DEF Approve, Asked, Placed
      <4> DEFINE e == Refreshed(a.rev)[a.stage]
      <4>3. e \in Execution /\ Refreshed(a.rev) \in [Stage -> Execution]
        BY <4>2, RefreshedType
      <4>4. [e EXCEPT !.status = "completed"] \in Execution
        BY <4>3, StatusSet DEF StageStatus, RunStatus
      <4>5. exec' \in [Stage -> Execution]
        BY <4>1, <4>2, <4>3, <4>4
      <4>6. review[a.stage] \in Seq(Checkpoint)
        BY <4>2, StateTypes
      <4>7. [review[a.stage] EXCEPT ![a.n] = "approved"] \in Seq(Checkpoint)
        BY <4>6, SequenceSet DEF Checkpoint
      <4>8. review' \in [Stage -> Seq(Checkpoint)]
        BY <4>1, <4>2, <4>7, StateTypes
      <4> QED
        BY <1>1, <4>1, <4>5, <4>8 DEF FileTypes, RunRecord, RunStatus
    <3> QED
      BY <3>1, <3>2
  <2>2. \E b \in AskRecord : AskAt(r, b)
    BY <1>3, ThenScheduleMoves, RefuseMoves, AskRecords, NoAskType DEF Approve
  <2>3. WorldTypes /\ ProcessTypes
    BY <1>3, <2>2, WorldStands, ProcessesStand DEF Approve
  <2> QED
    BY <2>1, <2>3, TypesOfParts
<1>4. CASE Replay(r)
  <2>1. FileTypes
    <3>1. CASE UNCHANGED file
      BY <3>1, FileStands
    <3>2. CASE ~UNCHANGED file
      <4>1. /\ exec' = [s \in Stage |-> IF s \in Downstream(a.stage) THEN Forgotten(exec[s]) ELSE exec[s]]
            /\ review' = [s \in Stage |-> IF s \in Downstream(a.stage) THEN Superseded(review[s]) ELSE review[s]]
            /\ run' = [status |-> "running", current |-> NoStage, rev |-> a.rev]
        BY <1>4, <3>2 DEF Replay, Refuse
      <4>2. exec' \in [Stage -> Execution]
        BY <4>1, ForgottenType, StateTypes
      <4>3. ASSUME NEW s \in Stage PROVE Superseded(review[s]) \in Seq(Checkpoint)
        <5>1. review[s] \in Seq(Checkpoint) /\ DOMAIN review[s] = 1..Len(review[s]) /\ Len(review[s]) \in Nat
          BY StateTypes
        <5>2. Superseded(review[s]) = [n \in 1..Len(review[s]) |-> "superseded"]
          BY <5>1 DEF Superseded
        <5> QED
          BY <5>1, <5>2 DEF Checkpoint
      <4>4. review' \in [Stage -> Seq(Checkpoint)]
        BY <4>1, <4>3, StateTypes
      <4> QED
        BY <1>1, <4>1, <4>2, <4>4 DEF FileTypes, RunRecord, RunStatus
    <3> QED
      BY <3>1, <3>2
  <2>2. \E b \in AskRecord : AskAt(r, b)
    BY <1>4, ThenScheduleMoves, RefuseMoves, AskRecords, NoAskType DEF Replay
  <2>3. WorldTypes /\ ProcessTypes
    BY <1>4, <2>2, WorldStands, ProcessesStand DEF Replay
  <2> QED
    BY <2>1, <2>3, TypesOfParts
<1>5. CASE Retry(r)
  <2>1. FileTypes
    <3>1. CASE UNCHANGED file
      BY <3>1, FileStands
    <3>2. CASE ~UNCHANGED file
      <4>1. /\ exec' = [exec EXCEPT ![a.stage] = Cleared(@, "ready")]
            /\ run' = [run EXCEPT !.status = "running", !.current = NoStage]
            /\ UNCHANGED review
        BY <1>5, <3>2 DEF Retry, Refuse
      <4>2. a.stage \in Stage
        BY <1>5 DEF Retry, Asked, Placed
      <4>3. Cleared(exec[a.stage], "ready") \in Execution
        BY <4>2, ClearedType, StateTypes DEF StageStatus
      <4>4. exec' \in [Stage -> Execution]
        BY <4>1, <4>2, <4>3, StateTypes
      <4> QED
        BY <4>1, <4>4, RunSet, StateTypes DEF FileTypes, RunStatus
    <3> QED
      BY <3>1, <3>2
  <2>2. \E b \in AskRecord : AskAt(r, b)
    BY <1>5, ThenScheduleMoves, RefuseMoves, AskRecords, NoAskType DEF Retry
  <2>3. WorldTypes /\ ProcessTypes
    BY <1>5, <2>2, WorldStands, ProcessesStand DEF Retry
  <2> QED
    BY <2>1, <2>3, TypesOfParts
<1>6. CASE CancelJobs(r)
  <2>1. AskAt(r, NoAsk)
    BY <1>6, AnswerMoves, NoAskType DEF CancelJobs
  <2>2. FileTypes /\ WorldTypes /\ ProcessTypes
    BY <1>6, <2>1, NoAskType, FileStands, JobsCancelledType, ProcessesStand, StateTypes DEF CancelJobs, WorldTypes
  <2> QED
    BY <2>2, TypesOfParts
<1>7. CASE Schedule(r)
  <2>1. AskAt(r, NoAsk)
    BY <1>7, AnswerMoves, NoAskType DEF Schedule
  <2>2. \E l \in LoopRecord : Goto(r, l)
    <3>1. [Rest EXCEPT !.pc = "read"] \in LoopRecord /\ loop[r] \in LoopRecord
      BY RestType, LoopRecords, StateTypes DEF LoopPc
    <3> QED
      BY <1>7, <3>1, StateTypes DEF Schedule, Goto
  <2>3. FileTypes /\ WorldTypes /\ ProcessTypes
    BY <1>7, <2>1, <2>2, NoAskType, GotoMoves, FileStands, WorldStands, ProcessesStand DEF Schedule
  <2> QED
    BY <2>3, TypesOfParts
<1> QED
  BY <1>2, <1>3, <1>4, <1>5, <1>6, <1>7 DEF Serve

(* The loop. *)
LEMMA AtStageHasStage ==
  ASSUME Placed, NEW r \in Runner, NEW pc \in AtStage, At(r, pc)
  PROVE  loop[r].stage \in Stage
BY DEF Placed, At

LEMMA AdvanceTypes ==
  ASSUME TypeOK, Placed, NEW r \in Runner, Advance(r)
  PROVE  TypeOK'
<1> DEFINE s == loop[r].stage
           e == loop[r].ex
<1>1. /\ loop[r] \in LoopRecord /\ s \in Stage \cup {NoStage} /\ e \in Execution /\ loop[r].job \in Nat
      /\ loop[r].rev \in Nat /\ run.rev \in Nat /\ project \in Nat /\ Len(job) \in Nat
  BY StateTypes DEF LoopRecord
<1>r. Rest \in LoopRecord /\ (\A pc \in LoopPc : [Rest EXCEPT !.pc = pc] \in LoopRecord)
  BY RestType, LoopRecords
<1> HIDE DEF s, e
<1>2. CASE Read(r) \/ Mark(r)
  <2>1. \E l \in LoopRecord : Goto(r, l)
    <3>1. CASE Read(r)
      <4>1. CASE Look(r) \/ Leave(r) \/ Goto(r, [Rest EXCEPT !.pc = "mark"])
        BY <1>r, <4>1 DEF Look, Leave, LoopPc
      <4>2. CASE \E t \in Stage : exec[t].jobs # << >>
                   /\ Goto(r, [Rest EXCEPT !.pc = "poll", !.stage = t, !.job = JobOf(exec[t])])
        <5>1. PICK t \in Stage : exec[t].jobs # << >>
                   /\ Goto(r, [Rest EXCEPT !.pc = "poll", !.stage = t, !.job = JobOf(exec[t])])
          BY <4>2
        <5>2. JobOf(exec[t]) \in Nat
          BY <5>1, LatestJob, StateTypes
        <5> QED
          BY <1>r, <5>1, <5>2, LoopRecords DEF LoopPc, AtStage
      <4> QED
        BY <3>1, <4>1, <4>2 DEF Read
    <3>2. CASE Mark(r)
      BY <1>r, <3>2, LoopRecords DEF Mark, Leave, LoopPc, AtStage
    <3> QED
      BY <1>2, <3>1, <3>2
  <2>2. exec' \in [Stage -> Execution]
    BY <1>2, MarkedType, StateTypes DEF Read, Mark, file
  <2>3. FileTypes /\ WorldTypes /\ ProcessTypes
    BY <1>2, <2>1, <2>2, GotoMoves, WorldStands, ProcessesStand, StateTypes DEF Read, Mark, file, FileTypes, RunRecord
  <2> QED
    BY <2>3, TypesOfParts
<1>3. CASE Complete(r) \/ LeaveReview(r)
  <2>1. run' \in RunRecord
    <3>1. run' = run \/ run' = [run EXCEPT !.status = "completed", !.current = NoStage]
      BY <1>3 DEF Complete, LeaveReview, file
    <3>2. run \in RunRecord /\ [run EXCEPT !.status = "completed", !.current = NoStage] \in RunRecord
      BY RunSet DEF RunStatus, TypeOK
    <3> QED
      BY <3>1, <3>2
  <2>2. FileTypes /\ WorldTypes /\ ProcessTypes
    BY <1>3, <1>r, <2>1, LeaveMoves, WorldStands, ProcessesStand, StateTypes DEF Complete, LeaveReview, file, FileTypes
  <2> QED
    BY <2>2, TypesOfParts
<1>4. CASE Review(r)
  <2>1. s \in Stage
    BY <1>4, AtStageHasStage DEF Review, AtStage, s
  <2>2. FileTypes
    <3>1. CASE UNCHANGED file
      BY <3>1, FileStands
    <3>2. CASE ~UNCHANGED file
      <4>1. /\ exec' = [exec EXCEPT ![s] = Begun(s, "waiting_review")]
            /\ review' = [review EXCEPT ![s] = Append(@, "waiting_review")]
            /\ run' = [run EXCEPT !.status = "waiting_review", !.current = s]
        BY <1>4, <3>2 DEF Review, s
      <4>2. Begun(s, "waiting_review") \in Execution
        BY <2>1, BegunType DEF StageStatus, RunStatus
      <4>3. Append(review[s], "waiting_review") \in Seq(Checkpoint)
        BY <2>1, StateTypes DEF Checkpoint
      <4> QED
        BY <2>1, <4>1, <4>2, <4>3, RunSet, StateTypes DEF FileTypes, RunStatus
    <3> QED
      BY <3>1, <3>2
  <2>3. \E l \in LoopRecord : Goto(r, l)
    BY <1>4, <1>r DEF Review, Leave, LoopPc
  <2>4. WorldTypes /\ ProcessTypes
    BY <1>4, <2>3, GotoMoves, WorldStands, ProcessesStand DEF Review
  <2> QED
    BY <2>2, <2>4, TypesOfParts
<1>5. CASE Begin(r)
  <2> DEFINE b == [Begun(s, "running") EXCEPT !.ops = @ \cup {exec[s].attempt + 1}]
  <2>1. s \in Stage
    BY <1>5, AtStageHasStage DEF Begin, AtStage, s
  <2>2. b \in Execution
    <3>1. Begun(s, "running") \in Execution
      BY <2>1, BegunType DEF StageStatus, RunStatus
    <3>2. exec[s].attempt + 1 \in Nat
      BY <2>1, StateTypes DEF Execution
    <3> QED
      BY <3>1, <3>2 DEF Execution
  <2> HIDE DEF b
  <2>3. CASE Claimable(s)
    <3>1. /\ exec' = [exec EXCEPT ![s] = b] /\ run' = [run EXCEPT !.current = s] /\ UNCHANGED review
          /\ \E pc \in {"work", "start"} : Goto(r, [loop[r] EXCEPT !.pc = pc, !.ex = b])
      BY <1>5, <2>3 DEF Begin, s, b
    <3>2. \E l \in LoopRecord : Goto(r, l)
      BY <1>1, <2>2, <3>1, LoopRecords DEF LoopPc, AtStage
    <3>3. FileTypes /\ WorldTypes /\ ProcessTypes
      BY <1>5, <2>1, <2>2, <3>1, <3>2, GotoMoves, RunSet, WorldStands, ProcessesStand, StateTypes DEF Begin, FileTypes
    <3> QED
      BY <3>3, TypesOfParts
  <2>4. CASE ~Claimable(s)
    <3>1. FileTypes /\ WorldTypes /\ ProcessTypes
      BY <1>5, <1>r, <2>4, LookMoves, FileStands, WorldStands, ProcessesStand DEF Begin, s, file, LoopPc
    <3> QED
      BY <3>1, TypesOfParts
  <2> QED
    BY <2>3, <2>4
<1>6. CASE Work(r)
  <2>1. s \in Stage
    BY <1>6, AtStageHasStage DEF Work, AtStage, s
  <2>2. \E l \in LoopRecord : Goto(r, l)
    <3>1. {"finish", "fail"} \subseteq LoopPc /\ project + 1 \in Nat
      BY <1>1 DEF LoopPc, AtStage
    <3>2. [loop[r] EXCEPT !.pc = "finish"] \in LoopRecord /\ [loop[r] EXCEPT !.pc = "fail"] \in LoopRecord
      BY <1>1, <3>1, LoopRecords
    <3>3. /\ [loop[r] EXCEPT !.pc = "finish", !.rev = project] \in LoopRecord
          /\ [loop[r] EXCEPT !.pc = "finish", !.rev = project + 1] \in LoopRecord
      BY <1>1, <3>1, LoopRecords
    <3> QED
      BY <1>6, <3>2, <3>3 DEF Work, Step
  <2>3. project' \in Nat /\ applied' \in [Stage -> SUBSET Nat]
    <3>1. CASE UNCHANGED <<project, applied>>
      BY <3>1, StateTypes
    <3>2. CASE ~UNCHANGED <<project, applied>>
      <4>1. project' = project + 1 /\ applied' = [applied EXCEPT ![s] = @ \cup {e.attempt}]
        BY <1>6, <3>2 DEF Work, s, e
      <4>2. e.attempt \in Nat
        BY <1>1 DEF Execution
      <4> QED
        BY <1>1, <2>1, <4>1, <4>2, StateTypes
    <3> QED
      BY <3>1, <3>2
  <2>4. FileTypes /\ WorldTypes /\ ProcessTypes
    BY <1>6, <2>2, <2>3, GotoMoves, FileStands, ProcessesStand, StateTypes DEF Work, WorldTypes
  <2> QED
    BY <2>4, TypesOfParts
<1>7. CASE StartJob(r)
  <2>1. NewJob \in JobRecord
    BY <1>1 DEF NewJob, JobRecord
  <2>2. job' \in Seq(JobRecord)
    <3>1. job' = job \/ job' = Append(job, NewJob) \/ \E j \in Prior(e) : job' = [job EXCEPT ![j] = NewJob]
      BY <1>7 DEF StartJob, e
    <3>2. job \in Seq(JobRecord) /\ Append(job, NewJob) \in Seq(JobRecord)
      BY <2>1, StateTypes
    <3> QED
      BY <2>1, <3>1, <3>2, SequenceSet
  <2>3. \A j \in Prior(e) : j \in Nat
    BY <1>1, LatestJob DEF Prior
  <2>4. \E l \in LoopRecord : Goto(r, l)
    <3>1. {"fail", "attach"} \subseteq LoopPc
      BY DEF LoopPc, AtStage
    <3>2. [loop[r] EXCEPT !.pc = "fail"] \in LoopRecord
      BY <1>1, <3>1, LoopRecords
    <3>3. \A j \in Nat : [loop[r] EXCEPT !.pc = "attach", !.job = j] \in LoopRecord
      BY <1>1, <3>1, LoopRecords
    <3>4. Step(r, "fail") \/ \E j \in Prior(e) \cup {Len(job) + 1} : Goto(r, [loop[r] EXCEPT !.pc = "attach", !.job = j])
      BY <1>7 DEF StartJob, e
    <3>5. \A j \in Prior(e) \cup {Len(job) + 1} : j \in Nat
      BY <1>1, <2>3
    <3> QED
      BY <3>2, <3>3, <3>4, <3>5 DEF Step
  <2>5. FileTypes /\ WorldTypes /\ ProcessTypes
    BY <1>7, <2>2, <2>4, GotoMoves, FileStands, ProcessesStand, StateTypes DEF StartJob, WorldTypes
  <2> QED
    BY <2>5, TypesOfParts
<1>8. CASE AttachJob(r)
  <2>1. s \in Stage
    BY <1>8, AtStageHasStage DEF AttachJob, AtStage, s
  <2>2. exec' \in [Stage -> Execution]
    <3>1. CASE exec' = exec
      BY <3>1, StateTypes
    <3>2. CASE exec' # exec
      <4>1. exec' = [exec EXCEPT ![s].jobs = Append(@, loop[r].job)]
        BY <1>8, <3>2 DEF AttachJob, s
      <4>2. exec[s] \in Execution
        BY <2>1, StateTypes
      <4>3. Append(exec[s].jobs, loop[r].job) \in Seq(Nat)
        BY <1>1, <4>2 DEF Execution
      <4>4. [exec[s] EXCEPT !.jobs = Append(exec[s].jobs, loop[r].job)] \in Execution
        BY <4>2, <4>3 DEF Execution
      <4> QED
        BY <2>1, <4>1, <4>4, StateTypes
    <3> QED
      BY <3>1, <3>2
  <2>3. \E l \in LoopRecord : Goto(r, l)
    BY <1>1, <1>8, LoopRecords DEF AttachJob, Step, LoopPc, AtStage
  <2>4. FileTypes /\ WorldTypes /\ ProcessTypes
    BY <1>8, <2>2, <2>3, GotoMoves, WorldStands, ProcessesStand, StateTypes DEF AttachJob, FileTypes, RunRecord
  <2> QED
    BY <2>4, TypesOfParts
<1>9. CASE Attached(r)
  <2>1. s \in Stage
    BY <1>9, AtStageHasStage DEF Attached, AtStage, s
  <2>2. \E l \in LoopRecord : Goto(r, l)
    <3>1. CASE exec[s].jobs # << >>
      <4>1. JobOf(exec[s]) \in Nat
        BY <2>1, <3>1, LatestJob, StateTypes
      <4>2. [loop[r] EXCEPT !.pc = "poll", !.job = JobOf(exec[s])] \in LoopRecord
        BY <1>1, <4>1, LoopRecords DEF LoopPc, AtStage
      <4> QED
        BY <1>9, <1>r, <4>2 DEF Attached, Look, LoopPc, s
    <3>2. CASE exec[s].jobs = << >>
      BY <1>9, <1>r, <3>2 DEF Attached, Look, LoopPc, s
    <3> QED
      BY <3>1, <3>2
  <2>3. FileTypes /\ WorldTypes /\ ProcessTypes
    BY <1>9, <2>2, GotoMoves, FileStands, WorldStands, ProcessesStand DEF Attached
  <2> QED
    BY <2>3, TypesOfParts
<1>10. CASE Drop(r)
  <2>1. job' \in Seq(JobRecord)
    BY <1>10, JobsCancelledType DEF Drop
  <2>2. FileTypes /\ WorldTypes /\ ProcessTypes
    BY <1>10, <1>r, <2>1, LookMoves, FileStands, ProcessesStand, StateTypes DEF Drop, WorldTypes, LoopPc
  <2> QED
    BY <2>2, TypesOfParts
<1>11. CASE Poll(r) \/ Reconcile(r)
  <2>1. \E l \in LoopRecord : Goto(r, l)
    <3>1. \A pc \in LoopPc : [loop[r] EXCEPT !.pc = pc] \in LoopRecord
      BY <1>1, LoopRecords
    <3> QED
      BY <1>11, <1>r, <3>1 DEF Poll, Reconcile, Step, Look, LoopPc, AtStage, Ended
  <2>2. FileTypes /\ WorldTypes /\ ProcessTypes
    BY <1>11, <2>1, GotoMoves, FileStands, WorldStands, ProcessesStand DEF Poll, Reconcile
  <2> QED
    BY <2>2, TypesOfParts
<1>12. CASE Finish(r)
  <2>1. s \in Stage
    BY <1>12, AtStageHasStage DEF Finish, AtStage, s
  <2>2. exec' \in [Stage -> Execution] /\ run' \in RunRecord
    <3>1. CASE UNCHANGED <<run, exec>>
      BY <3>1, StateTypes DEF RunRecord
    <3>2. CASE ~UNCHANGED <<run, exec>>
      <4>1. /\ exec' = [exec EXCEPT ![s].status = "completed"]
            /\ run' = [run EXCEPT !.rev = Larger(@, loop[r].rev), !.current = IF @ = s THEN NoStage ELSE @]
        BY <1>12, <3>2 DEF Finish, s
      <4>2. [exec[s] EXCEPT !.status = "completed"] \in Execution
        BY <2>1, StatusSet, StateTypes DEF StageStatus, RunStatus
      <4>3. Larger(run.rev, loop[r].rev) \in Nat
        BY <1>1, LargerType
      <4> QED
        BY <2>1, <4>1, <4>2, <4>3, StateTypes DEF RunRecord
    <3> QED
      BY <3>1, <3>2
  <2>3. FileTypes /\ WorldTypes /\ ProcessTypes
    BY <1>12, <1>r, <2>2, LookMoves, WorldStands, ProcessesStand, StateTypes DEF Finish, FileTypes, LoopPc
  <2> QED
    BY <2>3, TypesOfParts
<1>13. CASE Fail(r) \/ Interrupt(r)
  <2>1. s \in Stage
    BY <1>13, AtStageHasStage DEF Fail, Interrupt, AtStage, s
  <2>2. exec' \in [Stage -> Execution] /\ run' \in RunRecord
    BY <1>13, <2>1, EndStageTypes DEF Fail, Interrupt, s
  <2>3. FileTypes /\ WorldTypes /\ ProcessTypes
    BY <1>13, <1>r, <2>2, LookMoves, WorldStands, ProcessesStand, StateTypes DEF Fail, Interrupt, FileTypes, LoopPc
  <2> QED
    BY <2>3, TypesOfParts
<1> QED
  BY <1>2, <1>3, <1>4, <1>5, <1>6, <1>7, <1>8, <1>9, <1>10, <1>11, <1>12, <1>13 DEF Advance

LEMMA RecoverTypes ==
  ASSUME TypeOK, Placed, NEW r \in Runner, Recover(r)
  PROVE  TypeOK'
<1>r. Rest \in LoopRecord /\ (\A pc \in LoopPc, s \in Stage : [Rest EXCEPT !.pc = pc, !.stage = s] \in LoopRecord)
      /\ (\A pc \in LoopPc : [Rest EXCEPT !.pc = pc] \in LoopRecord) /\ Rest.pc = "none"
  BY RestType, LoopRecords
<1>u. up' \in [Runner -> {"down", "settle", "up"}]
  BY StateTypes DEF Recover, Boot, Settle
<1>1. CASE Boot(r)
  <2>1. loop' \in [Runner -> LoopRecord]
    <3>1. \A s \in Stage : [Rest EXCEPT !.stage = s] \in LoopRecord
      BY <1>r DEF LoopRecord
    <3> QED
      BY <1>1, <1>r, <3>1, GotoMoves, LookMoves, StateTypes DEF Boot, LoopAt
  <2>2. FileTypes /\ WorldTypes /\ ProcessTypes
    BY <1>1, <1>u, <2>1, FileStands, WorldStands, StateTypes DEF Boot, ProcessTypes
  <2> QED
    BY <2>2, TypesOfParts
<1>2. CASE Settle(r)
  <2>1. loop[r].stage \in Stage
    BY <1>2 DEF Settle, Placed
  <2>2. exec' \in [Stage -> Execution] /\ run' \in RunRecord
    BY <1>2, <2>1, EndStageTypes DEF Settle
  <2>3. FileTypes /\ WorldTypes /\ ProcessTypes
    BY <1>2, <1>u, <2>2, LeaveMoves, WorldStands, StateTypes DEF Settle, FileTypes, ProcessTypes, LoopAt
  <2> QED
    BY <2>3, TypesOfParts
<1> QED
  BY <1>1, <1>2 DEF Recover

(* What the world does beside the processes. *)
LEMMA WorldStepTypes ==
  ASSUME TypeOK, Crash \/ (\E j \in DOMAIN job : JobEnds(j)) \/ Edit
  PROVE  TypeOK'
<1>1. CASE Crash
  <2>1. PICK lost \in SUBSET {j \in DOMAIN job : job[j].status = "active"} :
          job' = [j \in DOMAIN job |-> IF j \in lost THEN [job[j] EXCEPT !.status = "interrupted"] ELSE job[j]]
    BY <1>1 DEF Crash
  <2>2. job' \in Seq(JobRecord)
    <3>1. DOMAIN job = 1..Len(job) /\ Len(job) \in Nat /\ (\A j \in DOMAIN job : job[j] \in JobRecord)
      BY StateTypes
    <3>2. \A j \in DOMAIN job : [job[j] EXCEPT !.status = "interrupted"] \in JobRecord
      BY <3>1 DEF JobRecord, Ended
    <3> QED
      BY <2>1, <3>1, <3>2
  <2>3. loop' \in [Runner -> LoopRecord] /\ ask' \in [Runner -> AskRecord] /\ up' \in [Runner -> {"down", "settle", "up"}]
    BY <1>1, RestType, NoAskType DEF Crash
  <2>4. FileTypes /\ WorldTypes /\ ProcessTypes
    BY <1>1, <2>2, <2>3, FileStands, StateTypes DEF Crash, WorldTypes, ProcessTypes
  <2> QED
    BY <2>4, TypesOfParts
<1>2. CASE \E j \in DOMAIN job : JobEnds(j)
  <2>1. PICK j \in DOMAIN job : JobEnds(j)
    BY <1>2
  <2>2. job[j] \in JobRecord
    BY <2>1, StateTypes
  <2>3. PICK status \in Ended, rev \in Nat :
          job' = [job EXCEPT ![j].status = status, ![j].rev = IF status = "completed" THEN rev ELSE @]
    <3>1. job[j].rev..project \subseteq Nat
      BY <2>2, StateTypes DEF JobRecord
    <3> QED
      BY <2>1, <3>1 DEF JobEnds, Ended
  <2> DEFINE w == [job[j] EXCEPT !.status = status, !.rev = IF status = "completed" THEN rev ELSE job[j].rev]
  <2>4. w \in JobRecord
    BY <2>2 DEF JobRecord
  <2>5. job' = [job EXCEPT ![j] = w]
    BY <2>1, <2>3
  <2>6. job' \in Seq(JobRecord)
    <3> HIDE DEF w
    <3> QED
      BY <2>4, <2>5, SequenceSet, StateTypes
  <2>7. FileTypes /\ WorldTypes /\ ProcessTypes
    BY <2>1, <2>6, FileStands, ProcessesStand, StateTypes DEF JobEnds, WorldTypes
  <2> QED
    BY <2>7, TypesOfParts
<1>3. CASE Edit
  <2>1. FileTypes /\ WorldTypes /\ ProcessTypes
    BY <1>3, FileStands, ProcessesStand, StateTypes DEF Edit, WorldTypes
  <2> QED
    BY <2>1, TypesOfParts
<1> QED
  BY <1>1, <1>2, <1>3

-------------------------------------------------------------------------------
(* What each step does to its loop or request, field by field. *)
Moved(r, pc, s, e, j, n) ==
  /\ loop' \in [Runner -> LoopRecord]
  /\ loop'[r].pc = pc /\ loop'[r].stage = s /\ loop'[r].ex = e /\ loop'[r].job = j /\ loop'[r].rev = n
  /\ \A q \in Runner : q # r => loop'[q] = loop[q]

Stepped(r, pc) == Moved(r, pc, loop[r].stage, loop[r].ex, loop[r].job, loop[r].rev)
Rested(r, pc) == Moved(r, pc, NoStage, Pending, 0, 0)

LEMMA GotoFields ==
  ASSUME TypeOK, NEW r \in Runner, NEW l \in LoopRecord, Goto(r, l)
  PROVE  Moved(r, l.pc, l.stage, l.ex, l.job, l.rev)
BY GotoMoves DEF LoopAt, Moved

LEMMA RestFields ==
  ASSUME TypeOK, NEW r \in Runner, NEW pc \in LoopPc
  PROVE  /\ Goto(r, [Rest EXCEPT !.pc = pc]) => Rested(r, pc)
         /\ \A s \in Stage : Goto(r, [Rest EXCEPT !.pc = pc, !.stage = s]) => Moved(r, pc, s, Pending, 0, 0)
         /\ \A s \in Stage, j \in Nat :
              Goto(r, [Rest EXCEPT !.pc = pc, !.stage = s, !.job = j]) => Moved(r, pc, s, Pending, j, 0)
<1>1. Rest \in LoopRecord /\ Rest.stage = NoStage /\ Rest.ex = Pending /\ Rest.job = 0 /\ Rest.rev = 0
  BY RestType DEF Rest
<1>2. ASSUME Goto(r, [Rest EXCEPT !.pc = pc]) PROVE Rested(r, pc)
  <2> DEFINE l == [Rest EXCEPT !.pc = pc]
  <2>1. l \in LoopRecord /\ l.pc = pc /\ l.stage = NoStage /\ l.ex = Pending /\ l.job = 0 /\ l.rev = 0
    BY <1>1, LoopRecords DEF LoopRecord
  <2> HIDE DEF l
  <2> QED
    BY <1>2, <2>1, GotoFields DEF Rested, l
<1>3. ASSUME NEW s \in Stage, Goto(r, [Rest EXCEPT !.pc = pc, !.stage = s]) PROVE Moved(r, pc, s, Pending, 0, 0)
  <2> DEFINE l == [Rest EXCEPT !.pc = pc, !.stage = s]
  <2>1. l \in LoopRecord /\ l.pc = pc /\ l.stage = s /\ l.ex = Pending /\ l.job = 0 /\ l.rev = 0
    BY <1>1, LoopRecords DEF LoopRecord
  <2> HIDE DEF l
  <2> QED
    BY <1>3, <2>1, GotoFields DEF l
<1>4. ASSUME NEW s \in Stage, NEW j \in Nat, Goto(r, [Rest EXCEPT !.pc = pc, !.stage = s, !.job = j])
      PROVE  Moved(r, pc, s, Pending, j, 0)
  <2> DEFINE l == [Rest EXCEPT !.pc = pc, !.stage = s, !.job = j]
  <2>1. l \in LoopRecord /\ l.pc = pc /\ l.stage = s /\ l.ex = Pending /\ l.job = j /\ l.rev = 0
    BY <1>1, LoopRecords, ZenonT(40) DEF LoopRecord
  <2> HIDE DEF l
  <2> QED
    BY <1>4, <2>1, GotoFields DEF l
<1> QED
  BY <1>2, <1>3, <1>4

LEMMA LoopFields ==
  ASSUME TypeOK, NEW r \in Runner, NEW pc \in LoopPc
  PROVE  /\ Step(r, pc) => Stepped(r, pc)
         /\ \A j \in Nat : Goto(r, [loop[r] EXCEPT !.pc = pc, !.job = j]) =>
              Moved(r, pc, loop[r].stage, loop[r].ex, j, loop[r].rev)
         /\ \A n \in Nat : Goto(r, [loop[r] EXCEPT !.pc = pc, !.rev = n]) =>
              Moved(r, pc, loop[r].stage, loop[r].ex, loop[r].job, n)
         /\ \A e \in Execution : Goto(r, [loop[r] EXCEPT !.pc = pc, !.ex = e]) =>
              Moved(r, pc, loop[r].stage, e, loop[r].job, loop[r].rev)
<1> DEFINE m == loop[r]
<1>1. m \in LoopRecord
  BY StateTypes
<1> HIDE DEF m
<1>2. ASSUME Goto(r, [m EXCEPT !.pc = pc]) PROVE Moved(r, pc, m.stage, m.ex, m.job, m.rev)
  <2> DEFINE l == [m EXCEPT !.pc = pc]
  <2>1. l \in LoopRecord /\ l.pc = pc /\ l.stage = m.stage /\ l.ex = m.ex /\ l.job = m.job /\ l.rev = m.rev
    BY <1>1, LoopRecords DEF LoopRecord
  <2> HIDE DEF l
  <2> QED
    BY <1>2, <2>1, GotoFields DEF l
<1>3. ASSUME NEW j \in Nat, Goto(r, [m EXCEPT !.pc = pc, !.job = j]) PROVE Moved(r, pc, m.stage, m.ex, j, m.rev)
  <2> DEFINE l == [m EXCEPT !.pc = pc, !.job = j]
  <2>1. l \in LoopRecord /\ l.pc = pc /\ l.stage = m.stage /\ l.ex = m.ex /\ l.job = j /\ l.rev = m.rev
    BY <1>1, LoopRecords DEF LoopRecord
  <2> HIDE DEF l
  <2> QED
    BY <1>3, <2>1, GotoFields DEF l
<1>4. ASSUME NEW n \in Nat, Goto(r, [m EXCEPT !.pc = pc, !.rev = n]) PROVE Moved(r, pc, m.stage, m.ex, m.job, n)
  <2> DEFINE l == [m EXCEPT !.pc = pc, !.rev = n]
  <2>1. l \in LoopRecord /\ l.pc = pc /\ l.stage = m.stage /\ l.ex = m.ex /\ l.job = m.job /\ l.rev = n
    BY <1>1, LoopRecords DEF LoopRecord
  <2> HIDE DEF l
  <2> QED
    BY <1>4, <2>1, GotoFields DEF l
<1>5. ASSUME NEW e \in Execution, Goto(r, [m EXCEPT !.pc = pc, !.ex = e]) PROVE Moved(r, pc, m.stage, e, m.job, m.rev)
  <2> DEFINE l == [m EXCEPT !.pc = pc, !.ex = e]
  <2>1. l \in LoopRecord /\ l.pc = pc /\ l.stage = m.stage /\ l.ex = e /\ l.job = m.job /\ l.rev = m.rev
    BY <1>1, LoopRecords DEF LoopRecord
  <2> HIDE DEF l
  <2> QED
    BY <1>5, <2>1, GotoFields DEF l
<1> QED
  BY <1>2, <1>3, <1>4, <1>5 DEF Step, Stepped, m

LEMMA RestSteps ==
  ASSUME TypeOK, NEW r \in Runner
  PROVE  /\ Look(r) => Rested(r, "read")
         /\ Leave(r) => Rested(r, "none")
         /\ Goto(r, [Rest EXCEPT !.pc = "mark"]) => Rested(r, "mark")
         /\ Goto(r, [Rest EXCEPT !.pc = "complete"]) => Rested(r, "complete")
         /\ Goto(r, [Rest EXCEPT !.pc = "leave"]) => Rested(r, "leave")
<1>1. {"read", "mark", "complete", "leave"} \subseteq LoopPc
  BY DEF LoopPc
<1>2. ASSUME Leave(r) PROVE Rested(r, "none")
  <2>1. Rest.stage = NoStage /\ Rest.job = 0
    BY DEF Rest
  <2> QED
    BY <1>2, <2>1, RestType, GotoFields DEF Leave, Rested
<1> QED
  BY <1>1, <1>2, RestFields DEF Look

(* Where a loop goes. *)
Looped(r) ==
  /\ Read(r) =>
       \/ Rested(r, "none")
       \/ \E s \in Stage : exec[s].status = "running" /\ exec[s].jobs # << >> /\ Moved(r, "poll", s, Pending, JobOf(exec[s]), 0)
       \/ With("running") = {} /\ Rested(r, "mark")
  /\ Mark(r) =>
       \/ Rested(r, "none")
       \/ Rested(r, "complete")
       \/ \E s \in Stage : Kind[s] = "checkpoint" /\ Moved(r, "review", s, Pending, 0, 0)
       \/ \E s \in Stage : Kind[s] # "checkpoint" /\ Moved(r, "begin", s, Pending, 0, 0)
  /\ Complete(r) \/ LeaveReview(r) => Rested(r, "none")
  /\ Review(r) => Rested(r, "leave") \/ Rested(r, "none")
  /\ Work(r) =>
       \/ \E pc \in {"finish", "fail"} : Stepped(r, pc)
       \/ \E n \in {project, project + 1} : n <= project' /\ Moved(r, "finish", loop[r].stage, loop[r].ex, loop[r].job, n)
  /\ StartJob(r) =>
       \/ Stepped(r, "fail") /\ UNCHANGED job
       \/ \E j \in Nat : Moved(r, "attach", loop[r].stage, loop[r].ex, j, loop[r].rev)
  /\ AttachJob(r) => \E pc \in {"attached", "drop"} : Stepped(r, pc)
  /\ Attached(r) => Rested(r, "read") \/ \E j \in Nat : Moved(r, "poll", loop[r].stage, loop[r].ex, j, loop[r].rev)
  /\ Poll(r) => Rested(r, "read") \/ \E pc \in {"reconcile", "interrupt", "fail"} : Stepped(r, pc)
  /\ Reconcile(r) => Rested(r, "read") \/ \E pc \in {"finish", "fail"} : Stepped(r, pc)
  /\ Drop(r) \/ Finish(r) \/ Fail(r) \/ Interrupt(r) => Rested(r, "read")

LEMMA AllLooped ==
  ASSUME TypeOK, Placed, NEW r \in Runner
  PROVE  Looped(r)
<1> DEFINE s == loop[r].stage
           e == loop[r].ex
<1>0. AtStage \subseteq LoopPc /\ project \in Nat /\ Len(job) \in Nat /\ e \in Execution
  BY StateTypes DEF LoopPc, LoopRecord
<1>p. \A pc \in AtStage : pc \in LoopPc
  BY <1>0
<1>j. \A t \in Stage : exec[t].jobs # << >> => JobOf(exec[t]) \in Nat
  BY LatestJob, StateTypes
<1> HIDE DEF s, e
<1>1. ASSUME Read(r)
      PROVE  \/ Rested(r, "none")
             \/ \E t \in Stage : exec[t].status = "running" /\ exec[t].jobs # << >> /\ Moved(r, "poll", t, Pending, JobOf(exec[t]), 0)
             \/ With("running") = {} /\ Rested(r, "mark")
  <2>1. CASE Leave(r) \/ (With("running") = {} /\ Goto(r, [Rest EXCEPT !.pc = "mark"]))
    BY <2>1, RestSteps
  <2>2. CASE \E t \in Stage : First(t, With("running")) /\ exec[t].jobs # << >>
                 /\ Goto(r, [Rest EXCEPT !.pc = "poll", !.stage = t, !.job = JobOf(exec[t])])
    <3>1. PICK t \in Stage : First(t, With("running")) /\ exec[t].jobs # << >>
                 /\ Goto(r, [Rest EXCEPT !.pc = "poll", !.stage = t, !.job = JobOf(exec[t])])
      BY <2>2
    <3>2. exec[t].status = "running"
      BY <3>1 DEF First, With
    <3> QED
      BY <1>j, <1>p, <3>1, <3>2, RestFields DEF AtStage
  <2> QED
    BY <1>1, <2>1, <2>2 DEF Read
<1>2. ASSUME Mark(r)
      PROVE  \/ Rested(r, "none")
             \/ Rested(r, "complete")
             \/ \E t \in Stage : Kind[t] = "checkpoint" /\ Moved(r, "review", t, Pending, 0, 0)
             \/ \E t \in Stage : Kind[t] # "checkpoint" /\ Moved(r, "begin", t, Pending, 0, 0)
  BY <1>2, <1>p, RestSteps, RestFields DEF Mark, AtStage
<1>3. Complete(r) \/ LeaveReview(r) => Rested(r, "none")
  BY RestSteps DEF Complete, LeaveReview
<1>4. Review(r) => Rested(r, "leave") \/ Rested(r, "none")
  BY RestSteps DEF Review
<1>5. ASSUME Work(r)
      PROVE  \/ \E pc \in {"finish", "fail"} : Stepped(r, pc)
             \/ \E n \in {project, project + 1} : n <= project' /\ Moved(r, "finish", loop[r].stage, loop[r].ex, loop[r].job, n)
  <2>1. project + 1 \in Nat
    BY <1>0
  <2>2. \/ Step(r, "finish") \/ Step(r, "fail")
        \/ project' = project /\ Goto(r, [loop[r] EXCEPT !.pc = "finish", !.rev = project])
        \/ project' = project + 1 /\ Goto(r, [loop[r] EXCEPT !.pc = "finish", !.rev = project + 1])
    BY <1>5 DEF Work
  <2>3. "finish" \in LoopPc /\ "fail" \in LoopPc
    BY <1>p DEF AtStage
  <2>4. CASE Step(r, "finish") \/ Step(r, "fail")
    BY <2>3, <2>4, LoopFields
  <2>5. CASE project' = project /\ Goto(r, [loop[r] EXCEPT !.pc = "finish", !.rev = project])
    <3>1. Moved(r, "finish", loop[r].stage, loop[r].ex, loop[r].job, project)
      BY <1>0, <2>3, <2>5, LoopFields
    <3>2. project <= project' /\ project \in {project, project + 1}
      BY <1>0, <2>5
    <3> QED
      BY <3>1, <3>2
  <2>6. CASE project' = project + 1 /\ Goto(r, [loop[r] EXCEPT !.pc = "finish", !.rev = project + 1])
    <3>1. Moved(r, "finish", loop[r].stage, loop[r].ex, loop[r].job, project + 1)
      BY <2>1, <2>3, <2>6, LoopFields
    <3>2. project + 1 <= project' /\ project + 1 \in {project, project + 1}
      BY <2>1, <2>6
    <3> QED
      BY <3>1, <3>2
  <2> QED
    BY <2>2, <2>4, <2>5, <2>6
<1>6. ASSUME StartJob(r)
      PROVE  \/ Stepped(r, "fail") /\ UNCHANGED job
             \/ \E j \in Nat : Moved(r, "attach", loop[r].stage, loop[r].ex, j, loop[r].rev)
  <2>1. \A j \in Prior(e) \cup {Len(job) + 1} : j \in Nat
    BY <1>0, LatestJob DEF Prior
  <2>2. \/ Step(r, "fail") /\ UNCHANGED job
        \/ \E j \in Prior(e) \cup {Len(job) + 1} : Goto(r, [loop[r] EXCEPT !.pc = "attach", !.job = j])
    BY <1>6 DEF StartJob, e
  <2>3. "attach" \in LoopPc /\ "fail" \in LoopPc
    BY <1>p DEF AtStage
  <2> QED
    BY <2>1, <2>2, <2>3, LoopFields
<1>7. ASSUME AttachJob(r) PROVE \E pc \in {"attached", "drop"} : Stepped(r, pc)
  BY <1>7, <1>p, LoopFields DEF AttachJob, AtStage
<1>8. ASSUME Attached(r)
      PROVE  Rested(r, "read") \/ \E j \in Nat : Moved(r, "poll", loop[r].stage, loop[r].ex, j, loop[r].rev)
  <2>1. s \in Stage
    BY <1>8, AtStageHasStage DEF Attached, AtStage, s
  <2>2. \/ Look(r)
        \/ exec[s].jobs # << >> /\ Goto(r, [loop[r] EXCEPT !.pc = "poll", !.job = JobOf(exec[s])])
    BY <1>8 DEF Attached, s
  <2>3. "poll" \in LoopPc
    BY <1>p DEF AtStage
  <2> QED
    BY <1>j, <2>1, <2>2, <2>3, LoopFields, RestSteps
<1>9. ASSUME Poll(r) PROVE Rested(r, "read") \/ \E pc \in {"reconcile", "interrupt", "fail"} : Stepped(r, pc)
  BY <1>9, <1>p, LoopFields, RestSteps DEF Poll, AtStage
<1>10. ASSUME Reconcile(r) PROVE Rested(r, "read") \/ \E pc \in {"finish", "fail"} : Stepped(r, pc)
  BY <1>10, <1>p, LoopFields, RestSteps DEF Reconcile, AtStage
<1>11. Drop(r) \/ Finish(r) \/ Fail(r) \/ Interrupt(r) => Rested(r, "read")
  BY RestSteps DEF Drop, Finish, Fail, Interrupt
<1> QED
  BY <1>1, <1>2, <1>3, <1>4, <1>5, <1>6, <1>7, <1>8, <1>9, <1>10, <1>11 DEF Looped

(* The claim of a stage, and the executor that has it. *)
Claimed(r, s, e) ==
  /\ Claimable(s) /\ s = loop[r].stage /\ s \in Stage /\ e \in Execution
  /\ e.status = "running" /\ e.attempt = exec[s].attempt + 1 /\ e.base = run.rev /\ e.jobs = exec[s].jobs
  /\ e.ops = exec[s].ops \cup {e.attempt} /\ e.inputs = Inputs(s) /\ e.epoch = epoch
  /\ exec' = [exec EXCEPT ![s] = e]
  /\ run' = [run EXCEPT !.current = s]
  /\ Moved(r, IF Kind[s] = "work" THEN "work" ELSE "start", s, e, loop[r].job, loop[r].rev)

LEMMA BeginClaims ==
  ASSUME TypeOK, Placed, NEW r \in Runner, Begin(r)
  PROVE  \/ Rested(r, "read") /\ UNCHANGED <<run, exec>>
         \/ \E s \in Stage, e \in Execution : Claimed(r, s, e)
<1> DEFINE s == loop[r].stage
           b == Begun(s, "running")
           e == [b EXCEPT !.ops = @ \cup {exec[s].attempt + 1}]
           pc == IF Kind[s] = "work" THEN "work" ELSE "start"
<1>1. s \in Stage
  BY AtStageHasStage DEF Begin, AtStage
<1>2. CASE ~Claimable(s)
  BY <1>2, RestSteps DEF Begin
<1>3. CASE Claimable(s)
  <2>1. /\ b \in Execution /\ b.status = "running" /\ b.base = run.rev /\ b.attempt = exec[s].attempt + 1
        /\ b.ops = exec[s].ops /\ b.jobs = exec[s].jobs /\ b.inputs = Inputs(s) /\ b.epoch = epoch
    BY <1>1, BegunType DEF StageStatus, RunStatus
  <2>2. exec[s].attempt + 1 \in Nat
    BY <1>1, StateTypes, SMTT(30) DEF Execution
  <2>3. /\ exec' = [exec EXCEPT ![s] = e] /\ run' = [run EXCEPT !.current = s]
        /\ Goto(r, [loop[r] EXCEPT !.pc = pc, !.ex = e])
    BY <1>3 DEF Begin
  <2> HIDE DEF b
  <2>4. /\ e \in Execution /\ e.status = "running" /\ e.attempt = exec[s].attempt + 1 /\ e.base = run.rev
        /\ e.jobs = exec[s].jobs /\ e.ops = exec[s].ops \cup {e.attempt} /\ e.inputs = Inputs(s) /\ e.epoch = epoch
    BY <2>1, <2>2 DEF Execution
  <2>5. pc \in LoopPc
    BY DEF LoopPc, AtStage
  <2>6. Moved(r, pc, s, e, loop[r].job, loop[r].rev)
    <3> HIDE DEF pc, e
    <3> QED
      BY <2>3, <2>4, <2>5, LoopFields
  <2>7. Claimed(r, s, e)
    <3> HIDE DEF e
    <3> QED
      BY <1>1, <1>3, <2>3, <2>4, <2>6 DEF Claimed
  <2> HIDE DEF e
  <2> QED
    BY <1>1, <2>4, <2>7
<1> QED
  BY <1>2, <1>3

(* Where a request goes. *)
Asks(r, pc, s, n, v, J) ==
  /\ ask' \in [Runner -> AskRecord]
  /\ ask'[r].pc = pc /\ ask'[r].stage = s /\ ask'[r].n = n /\ ask'[r].rev = v /\ ask'[r].jobs = J
  /\ \A q \in Runner : q # r => ask'[q] = ask[q]

Quiet(r, pc) == Asks(r, pc, NoStage, 0, 0, {})

LEMMA AnswerFields ==
  ASSUME TypeOK, NEW r \in Runner, NEW a \in AskRecord, Answer(r, a)
  PROVE  Asks(r, a.pc, a.stage, a.n, a.rev, a.jobs)
BY AnswerMoves DEF AskAt, Asks

LEMMA AskFields ==
  ASSUME TypeOK, NEW r \in Runner
  PROVE  /\ Answer(r, NoAsk) => Quiet(r, "none")
         /\ ThenSchedule(r) => Quiet(r, "schedule")
         /\ Refuse(r) => Quiet(r, "none")
         /\ \A v \in Nat : Answer(r, [NoAsk EXCEPT !.pc = "resume", !.rev = v]) => Asks(r, "resume", NoStage, 0, v, {})
         /\ \A s \in Stage : Answer(r, [NoAsk EXCEPT !.pc = "retry", !.stage = s]) => Asks(r, "retry", s, 0, 0, {})
         /\ \A s \in Stage, v \in Nat :
              Answer(r, [NoAsk EXCEPT !.pc = "replay", !.stage = s, !.rev = v]) => Asks(r, "replay", s, 0, v, {})
         /\ \A s \in Stage, v \in Nat, m \in Nat :
              Answer(r, [NoAsk EXCEPT !.pc = "approve", !.stage = s, !.n = m, !.rev = v]) => Asks(r, "approve", s, m, v, {})
         /\ \A J \in SUBSET Nat :
              Answer(r, [NoAsk EXCEPT !.pc = "cancelJobs", !.jobs = J]) => Asks(r, "cancelJobs", NoStage, 0, 0, J)
<1>0. NoAsk = [pc |-> "none", stage |-> NoStage, n |-> 0, rev |-> 0, jobs |-> {}]
  BY DEF NoAsk
<1>1. ASSUME Answer(r, NoAsk) PROVE Quiet(r, "none")
  BY <1>0, <1>1, NoAskType, AnswerFields DEF Quiet
<1>2. ASSUME ThenSchedule(r) PROVE Quiet(r, "schedule")
  <2>1. Scheduling.stage = NoStage /\ Scheduling.n = 0 /\ Scheduling.jobs = {}
    BY <1>0 DEF Scheduling
  <2> QED
    BY <1>2, <2>1, AskRecords, AnswerFields DEF ThenSchedule, Scheduling, Quiet
<1>3. Refuse(r) => Quiet(r, "none")
  BY <1>1 DEF Refuse
<1>4. ASSUME NEW v \in Nat, Answer(r, [NoAsk EXCEPT !.pc = "resume", !.rev = v]) PROVE Asks(r, "resume", NoStage, 0, v, {})
  <2> DEFINE a == [NoAsk EXCEPT !.pc = "resume", !.rev = v]
  <2>1. a.pc = "resume" /\ a.stage = NoStage /\ a.n = 0 /\ a.rev = v /\ a.jobs = {} /\ a \in AskRecord
    BY <1>0, AskRecords
  <2> HIDE DEF a
  <2> QED
    BY <1>4, <2>1, AnswerFields DEF a
<1>5. ASSUME NEW s \in Stage, Answer(r, [NoAsk EXCEPT !.pc = "retry", !.stage = s]) PROVE Asks(r, "retry", s, 0, 0, {})
  <2> DEFINE a == [NoAsk EXCEPT !.pc = "retry", !.stage = s]
  <2>1. a.pc = "retry" /\ a.stage = s /\ a.n = 0 /\ a.rev = 0 /\ a.jobs = {} /\ a \in AskRecord
    BY <1>0, AskRecords
  <2> HIDE DEF a
  <2> QED
    BY <1>5, <2>1, AnswerFields DEF a
<1>6. ASSUME NEW s \in Stage, NEW v \in Nat, Answer(r, [NoAsk EXCEPT !.pc = "replay", !.stage = s, !.rev = v])
      PROVE  Asks(r, "replay", s, 0, v, {})
  <2> DEFINE a == [NoAsk EXCEPT !.pc = "replay", !.stage = s, !.rev = v]
  <2>1. a.pc = "replay" /\ a.stage = s /\ a.n = 0 /\ a.rev = v /\ a.jobs = {} /\ a \in AskRecord
    BY <1>0, AskRecords
  <2> HIDE DEF a
  <2> QED
    BY <1>6, <2>1, AnswerFields DEF a
<1>7. ASSUME NEW s \in Stage, NEW v \in Nat, NEW m \in Nat,
             Answer(r, [NoAsk EXCEPT !.pc = "approve", !.stage = s, !.n = m, !.rev = v])
      PROVE  Asks(r, "approve", s, m, v, {})
  <2> DEFINE a == [NoAsk EXCEPT !.pc = "approve", !.stage = s, !.n = m, !.rev = v]
  <2>1. a.pc = "approve" /\ a.stage = s /\ a.n = m /\ a.rev = v /\ a.jobs = {} /\ a \in AskRecord
    BY <1>0, AskRecords
  <2> HIDE DEF a
  <2> QED
    BY <1>7, <2>1, AnswerFields DEF a
<1>8. ASSUME NEW J \in SUBSET Nat, Answer(r, [NoAsk EXCEPT !.pc = "cancelJobs", !.jobs = J])
      PROVE  Asks(r, "cancelJobs", NoStage, 0, 0, J)
  <2> DEFINE a == [NoAsk EXCEPT !.pc = "cancelJobs", !.jobs = J]
  <2>1. a.pc = "cancelJobs" /\ a.stage = NoStage /\ a.n = 0 /\ a.rev = 0 /\ a.jobs = J /\ a \in AskRecord
    BY <1>0, AskRecords
  <2> HIDE DEF a
  <2> QED
    BY <1>8, <2>1, AnswerFields DEF a
<1> QED
  BY <1>1, <1>2, <1>3, <1>4, <1>5, <1>6, <1>7, <1>8

Asking(r) ==
  /\ Start(r) => Quiet(r, "schedule")
  /\ Pause(r) => UNCHANGED ask
  /\ Lookup(r) =>
       \/ Asks(r, "resume", NoStage, 0, project, {})
       \/ \E s \in Stage : \E n \in DOMAIN review[s] : Asks(r, "approve", s, n, project, {})
       \/ \E s \in Stage : Asks(r, "replay", s, 0, project, {})
  /\ RetryRefresh(r) => \E s \in Stage : Asks(r, "retry", s, 0, 0, {})
  /\ Cancel(r) =>
       \E J \in SUBSET Nat : /\ run.current \in Stage => J = JobsOf(exec[run.current])
                             /\ Asks(r, "cancelJobs", NoStage, 0, 0, J)
  /\ Resume(r) \/ Approve(r) \/ Replay(r) \/ Retry(r) => Quiet(r, "schedule") \/ (Quiet(r, "none") /\ UNCHANGED file)
  /\ CancelJobs(r) \/ Schedule(r) => Quiet(r, "none")

LEMMA AllAsking ==
  ASSUME TypeOK, Placed, NEW r \in Runner
  PROVE  Asking(r)
<1>1. Start(r) => Quiet(r, "schedule")
  BY AskFields DEF Start
<1>2. Pause(r) => UNCHANGED ask
  BY DEF Pause
<1>3. ASSUME Lookup(r)
      PROVE  \/ Asks(r, "resume", NoStage, 0, project, {})
             \/ \E s \in Stage : \E n \in DOMAIN review[s] : Asks(r, "approve", s, n, project, {})
             \/ \E s \in Stage : Asks(r, "replay", s, 0, project, {})
  <2>1. project \in Nat /\ \A s \in Stage : \A n \in DOMAIN review[s] : n \in Nat
    BY StateTypes
  <2> QED
    BY <1>3, <2>1, AskFields DEF Lookup
<1>4. RetryRefresh(r) => \E s \in Stage : Asks(r, "retry", s, 0, 0, {})
  BY AskFields DEF RetryRefresh
<1>5. ASSUME Cancel(r)
      PROVE  \E J \in SUBSET Nat : /\ run.current \in Stage => J = JobsOf(exec[run.current])
                                   /\ Asks(r, "cancelJobs", NoStage, 0, 0, J)
  <2> DEFINE J == IF run.current = NoStage THEN {} ELSE JobsOf(exec[run.current])
  <2>1. J \in SUBSET Nat
    BY JobsOfType, StateTypes
  <2>2. Answer(r, [NoAsk EXCEPT !.pc = "cancelJobs", !.jobs = J])
    BY <1>5 DEF Cancel
  <2>3. run.current \in Stage => J = JobsOf(exec[run.current])
    BY OrderAssumption
  <2> HIDE DEF J
  <2> QED
    BY <2>1, <2>2, <2>3, AskFields
<1>6. Resume(r) \/ Approve(r) \/ Replay(r) \/ Retry(r) => Quiet(r, "schedule") \/ (Quiet(r, "none") /\ UNCHANGED file)
  BY AskFields DEF Resume, Approve, Replay, Retry, Refuse
<1>7. CancelJobs(r) \/ Schedule(r) => Quiet(r, "none")
  BY AskFields DEF CancelJobs, Schedule
<1> QED
  BY <1>1, <1>2, <1>3, <1>4, <1>5, <1>6, <1>7 DEF Asking

-------------------------------------------------------------------------------
(* Steps, by what they may do. *)
NextStep == [Next]_vars
Action(r) == Ask(r) \/ Serve(r) \/ Advance(r) \/ Recover(r)
WorldStep == Crash \/ (\E j \in DOMAIN job : JobEnds(j)) \/ Edit

LEMMA Cases ==
  NextStep => UNCHANGED vars \/ WorldStep \/ \E r \in Runner : Action(r)
BY DEF NextStep, Next, WorldStep, Action

LEMMA TypeStep ==
  ASSUME TypeOK, Placed, NextStep
  PROVE  TypeOK'
<1>1. CASE UNCHANGED vars
  BY <1>1 DEF vars, file, world, TypeOK
<1>2. CASE WorldStep
  BY <1>2, WorldStepTypes DEF WorldStep
<1>3. CASE \E r \in Runner : Action(r)
  BY <1>3, AskTypes, ServeTypes, AdvanceTypes, RecoverTypes DEF Action
<1> QED
  BY <1>1, <1>2, <1>3, Cases

ReviewsGrow == \A s \in Stage : DOMAIN review[s] \subseteq DOMAIN review'[s]

LEMMA ReviewsStayThere ==
  ASSUME TypeOK, Placed, NextStep
  PROVE  ReviewsGrow
<1>1. CASE UNCHANGED review
  BY <1>1 DEF ReviewsGrow
<1>2. ASSUME NEW r \in Runner, Approve(r), ~UNCHANGED review PROVE ReviewsGrow
  <2>1. review' = [review EXCEPT ![ask[r].stage][ask[r].n] = "approved"]
    BY <1>2 DEF Approve, Refuse, file
  <2> QED
    BY <2>1, StateTypes DEF ReviewsGrow
<1>3. ASSUME NEW r \in Runner, Replay(r), ~UNCHANGED review PROVE ReviewsGrow
  <2>1. review' = [s \in Stage |-> IF s \in Downstream(ask[r].stage) THEN Superseded(review[s]) ELSE review[s]]
    BY <1>3 DEF Replay, Refuse, file
  <2> QED
    BY <2>1 DEF ReviewsGrow, Superseded
<1>4. ASSUME NEW r \in Runner, Review(r), ~UNCHANGED review PROVE ReviewsGrow
  <2>1. review' = [review EXCEPT ![loop[r].stage] = Append(@, "waiting_review")] /\ loop[r].stage \in Stage
    BY <1>4, AtStageHasStage DEF Review, AtStage, file
  <2>2. \A s \in Stage : review[s] \in Seq(Checkpoint)
    BY StateTypes
  <2>3. \A s \in Stage : DOMAIN review[s] \subseteq DOMAIN Append(review[s], "waiting_review")
    BY <2>2
  <2> QED
    BY <2>1, <2>3, StateTypes DEF ReviewsGrow
<1> QED
  BY <1>1, <1>2, <1>3, <1>4, Cases, ZenonT(40) DEF Action, WorldStep, Ask, Serve, Advance, Recover, vars, file, world,
     Start, Pause, Lookup, RetryRefresh, Cancel, Resume, Retry, Refuse, CancelJobs, Schedule,
     Read, Mark, Complete, LeaveReview, Begin, Work, StartJob, AttachJob, Attached, Drop, Poll, Reconcile,
     Finish, Fail, Interrupt, Boot, Settle, Crash, JobEnds, Edit

(* A record that is where it may be. *)
LoopPlaced(l) ==
  /\ l.pc \in AtStage => l.stage \in Stage
  /\ l.pc = "review" => Kind[l.stage] = "checkpoint"
  /\ l.pc = "begin" => Kind[l.stage] # "checkpoint"
  /\ l.pc = "work" => Kind[l.stage] = "work"

AskPlaced(a, rev) ==
  /\ a.pc \in {"approve", "replay", "retry"} => a.stage \in Stage
  /\ a.pc = "approve" => a.n \in DOMAIN rev[a.stage]

LEMMA PlacedOfRecords ==
  Placed <=> \A r \in Runner :
    LoopPlaced(loop[r]) /\ (up[r] = "settle" => loop[r].stage \in Stage) /\ AskPlaced(ask[r], review)
BY DEF Placed, LoopPlaced, AskPlaced

LEMMA AdvancePlaces ==
  ASSUME TypeOK, Placed, NEW r \in Runner, Advance(r)
  PROVE  LoopPlaced(loop'[r]) /\ UNCHANGED <<up, ask>> /\ up[r] = "up" /\ \A q \in Runner : q # r => loop'[q] = loop[q]
<1>0. UNCHANGED <<up, ask>> /\ up[r] = "up"
  BY DEF Advance, At, Read, Mark, Complete, Review, LeaveReview, Begin, Work, StartJob, AttachJob, Attached, Drop,
     Poll, Reconcile, Finish, Fail, Interrupt
<1>1. loop[r].pc \in AtStage => loop[r].stage \in Stage
  BY DEF Placed
<1>2. CASE Read(r) \/ Mark(r) \/ Complete(r) \/ LeaveReview(r) \/ Review(r) \/ Drop(r) \/ Finish(r) \/ Fail(r) \/ Interrupt(r)
  BY <1>0, <1>2, AllLooped DEF Looped, Moved, Rested, LoopPlaced, AtStage
<1>3. CASE Work(r) \/ StartJob(r) \/ AttachJob(r) \/ Attached(r) \/ Poll(r) \/ Reconcile(r)
  <2>1. loop[r].stage \in Stage
    BY <1>1, <1>3 DEF At, AtStage, Work, StartJob, AttachJob, Attached, Poll, Reconcile
  <2> QED
    BY <1>0, <1>3, <2>1, AllLooped DEF Looped, Moved, Rested, Stepped, LoopPlaced, AtStage
<1>4. CASE Begin(r)
  BY <1>0, <1>4, BeginClaims DEF Claimed, Moved, Rested, LoopPlaced, AtStage
<1> QED
  BY <1>2, <1>3, <1>4 DEF Advance

LEMMA AskPlaces ==
  ASSUME TypeOK, Placed, NEW r \in Runner, Ask(r) \/ Serve(r)
  PROVE  /\ AskPlaced(ask'[r], review) /\ UNCHANGED up /\ \A q \in Runner : q # r => ask'[q] = ask[q]
         /\ UNCHANGED loop \/ (Schedule(r) /\ Rested(r, "read"))
<1>0. UNCHANGED up
  BY DEF Ask, Serve, Start, Pause, Lookup, RetryRefresh, Cancel, Resume, Approve, Replay, Retry, CancelJobs, Schedule
<1>1. AskPlaced(ask[r], review)
  BY PlacedOfRecords
<1>2. AskPlaced(ask'[r], review) /\ \A q \in Runner : q # r => ask'[q] = ask[q]
  <2>1. CASE Ask(r)
    BY <1>1, <2>1, AllAsking DEF Ask, Asking, Quiet, Asks, AskPlaced
  <2>2. CASE Serve(r)
    BY <1>1, <2>2, AllAsking DEF Serve, Asking, Quiet, Asks, AskPlaced
  <2> QED
    BY <2>1, <2>2
<1>3. UNCHANGED loop \/ (Schedule(r) /\ Rested(r, "read"))
  <2>1. CASE Schedule(r)
    <3>1. CASE loop[r].pc = "none"
      <4>1. Goto(r, [Rest EXCEPT !.pc = "read"])
        BY <2>1, <3>1 DEF Schedule, Goto
      <4> QED
        BY <2>1, <4>1, RestSteps DEF Look
    <3>2. CASE loop[r].pc # "none"
      <4>1. loop' = [loop EXCEPT ![r] = loop[r]]
        BY <2>1, <3>2 DEF Schedule
      <4> QED
        BY <4>1, StateTypes
    <3> QED
      BY <3>1, <3>2
  <2>2. CASE ~Schedule(r)
    BY <2>2 DEF Ask, Serve, Start, Pause, Lookup, RetryRefresh, Cancel, Resume, Approve, Replay, Retry, CancelJobs
  <2> QED
    BY <2>1, <2>2
<1> QED
  BY <1>0, <1>2, <1>3

LEMMA RecoverMoves ==
  ASSUME TypeOK, Placed, NEW r \in Runner, Recover(r)
  PROVE  /\ UNCHANGED ask /\ \A q \in Runner : q # r => loop'[q] = loop[q] /\ up'[q] = up[q]
         /\ Boot(r) => \/ up'[r] = "up" /\ (UNCHANGED loop \/ (run.status = "running" /\ Rested(r, "read")))
                       \/ \E s \in Stage : /\ up'[r] = "settle" /\ Moved(r, "none", s, Pending, 0, 0)
                                           /\ run.status = "running" /\ LeftByFormer(s)
         /\ Settle(r) => up'[r] = "up" /\ Rested(r, "none")
<1>1. ASSUME Boot(r)
      PROVE  \/ up'[r] = "up" /\ (UNCHANGED loop \/ (run.status = "running" /\ Rested(r, "read")))
             \/ \E s \in Stage : /\ up'[r] = "settle" /\ Moved(r, "none", s, Pending, 0, 0)
                                 /\ run.status = "running" /\ LeftByFormer(s)
  <2>1. ASSUME NEW s \in Stage, Goto(r, [Rest EXCEPT !.stage = s]) PROVE Moved(r, "none", s, Pending, 0, 0)
    <3> DEFINE l == [Rest EXCEPT !.stage = s]
    <3>1. l \in LoopRecord /\ l.pc = "none" /\ l.stage = s /\ l.ex = Pending /\ l.job = 0 /\ l.rev = 0
      BY RestType DEF Rest, LoopRecord
    <3> HIDE DEF l
    <3> QED
      BY <2>1, <3>1, GotoFields DEF l
  <2> QED
    BY <1>1, <2>1, RestSteps, StateTypes DEF Boot
<1>2. ASSUME Settle(r) PROVE up'[r] = "up" /\ Rested(r, "none")
  BY <1>2, RestSteps, StateTypes DEF Settle
<1>3. UNCHANGED ask /\ \A q \in Runner : q # r => up'[q] = up[q]
  BY StateTypes DEF Recover, Boot, Settle
<1>4. \A q \in Runner : q # r => loop'[q] = loop[q]
  BY <1>1, <1>2 DEF Recover, Moved, Rested
<1> QED
  BY <1>1, <1>2, <1>3, <1>4

LEMMA PlacedStep ==
  ASSUME TypeOK, Placed, NextStep
  PROVE  Placed'
<1>2. \A a \in AskRecord : AskPlaced(a, review) => AskPlaced(a, review')
  BY ReviewsStayThere DEF AskPlaced, ReviewsGrow
<1>3. \A q \in Runner : ask[q] \in AskRecord /\ AskPlaced(ask[q], review) /\ LoopPlaced(loop[q])
                         /\ (up[q] = "settle" => loop[q].stage \in Stage)
  BY PlacedOfRecords, StateTypes
<1> DEFINE Good == \A q \in Runner : LoopPlaced(loop'[q]) /\ (up'[q] = "settle" => loop'[q].stage \in Stage)
                                      /\ AskPlaced(ask'[q], review')
<1>4. Good => Placed'
  BY DEF Placed, LoopPlaced, AskPlaced
<1>5. CASE UNCHANGED vars
  BY <1>5 DEF vars, file, world, Placed
<1>6. CASE WorldStep
  <2>1. CASE Crash
    <3>1. \A q \in Runner : loop'[q].pc = "none" /\ up'[q] = "down" /\ ask'[q].pc = "none"
      BY <2>1, RestType, NoAskType DEF Crash
    <3> QED
      BY <1>4, <3>1 DEF LoopPlaced, AskPlaced, AtStage
  <2>2. CASE ~Crash
    BY <1>6, <2>2 DEF WorldStep, JobEnds, Edit, file, Placed
  <2> QED
    BY <2>1, <2>2
<1>7. ASSUME NEW r \in Runner, Action(r) PROVE Placed'
  <2>1. ask'[r] \in AskRecord
    BY TypeStep, StateTypes DEF TypeOK, AskRecord, AskPc
  <2>2. CASE Advance(r)
    <3>1. Good
      BY <1>2, <1>3, <2>2, AdvancePlaces
    <3> QED
      BY <1>4, <3>1
  <2>3. CASE Ask(r) \/ Serve(r)
    <3>1. LoopPlaced(loop'[r]) /\ (\A q \in Runner : q # r => loop'[q] = loop[q])
      BY <1>3, <2>3, AskPlaces DEF Rested, Moved, LoopPlaced, AtStage
    <3>2. up[r] = "settle" => loop'[r].stage \in Stage
      BY <1>3, <2>3, AskPlaces DEF Schedule, Asked
    <3>3. Good
      BY <1>2, <1>3, <2>1, <2>3, <3>1, <3>2, AskPlaces
    <3> QED
      BY <1>4, <3>3
  <2>4. CASE Recover(r)
    <3>1. LoopPlaced(loop'[r]) /\ (up'[r] = "settle" => loop'[r].stage \in Stage)
      BY <1>3, <2>4, RecoverMoves DEF Recover, Rested, Moved, LoopPlaced, AtStage
    <3>2. Good
      BY <1>2, <1>3, <2>4, <3>1, RecoverMoves
    <3> QED
      BY <1>4, <3>2
  <2> QED
    BY <1>7, <2>2, <2>3, <2>4 DEF Action
<1> QED
  BY <1>5, <1>6, <1>7, Cases

-------------------------------------------------------------------------------
(* The revision of the project only grows, and so does what a job shows of it. *)
LEMMA ProjectGrows ==
  ASSUME TypeOK, Placed, NextStep
  PROVE  project' >= project /\ project \in Nat /\ project' \in Nat
<1>1. project \in Nat
  BY StateTypes
<1>2. project' = project \/ project' = project + 1
  BY Cases, ZenonT(40) DEF Action, WorldStep, Ask, Serve, Advance, Recover, vars, file, world,
     Start, Pause, Lookup, RetryRefresh, Cancel, Resume, Approve, Replay, Retry, CancelJobs, Schedule,
     Read, Mark, Complete, Review, LeaveReview, Begin, Work, StartJob, AttachJob, Attached, Drop, Poll, Reconcile,
     Finish, Fail, Interrupt, Boot, Settle, Crash, JobEnds, Edit
<1> QED
  BY <1>1, <1>2

(* Every job stays, and its revision grows up to that of the project. *)
JobsGrow ==
  /\ DOMAIN job \subseteq DOMAIN job'
  /\ \A j \in DOMAIN job : job'[j].rev >= job[j].rev
  /\ \A j \in DOMAIN job' : job'[j].rev <= project'

LEMMA JobsStayThere ==
  ASSUME TypeOK, Placed, NoneAhead, NextStep
  PROVE  JobsGrow
<1>0. /\ \A j \in DOMAIN job : job[j] \in JobRecord /\ job[j].rev \in Nat /\ job[j].rev <= project
      /\ project' >= project /\ project \in Nat /\ project' \in Nat
      /\ DOMAIN job = 1..Len(job) /\ Len(job) \in Nat
  <2>1. DOMAIN job = 1..Len(job) /\ Len(job) \in Nat /\ \A j \in DOMAIN job : job[j] \in JobRecord
    BY StateTypes
  <2>2. \A j \in DOMAIN job : job[j].rev \in Nat
    BY <2>1 DEF JobRecord
  <2>3. \A j \in DOMAIN job : job[j].rev <= project
    BY DEF NoneAhead
  <2> QED
    BY <2>1, <2>2, <2>3, ProjectGrows
<1>1. CASE UNCHANGED job
  BY <1>0, <1>1 DEF JobsGrow
<1>2. ASSUME NEW J, job' = JobsCancelled(J) PROVE JobsGrow
  BY <1>0, <1>2, JobsCancelledType DEF JobsGrow
<1>3. ASSUME NEW r \in Runner, StartJob(r), ~UNCHANGED job PROVE JobsGrow
  <2>1. NewJob.rev = project
    BY DEF NewJob
  <2>2. (\E j \in Nat : job' = [job EXCEPT ![j] = NewJob]) \/ job' = Append(job, NewJob)
    BY <1>3, LatestJob, StateTypes DEF StartJob, Prior, LoopRecord
  <2>3. CASE job' = Append(job, NewJob)
    <3>1. DOMAIN job' = 1..(Len(job) + 1) /\ job'[Len(job) + 1] = NewJob /\ \A j \in DOMAIN job : job'[j] = job[j]
      BY <1>0, <2>3, StateTypes
    <3> QED
      BY <1>0, <2>1, <3>1 DEF JobsGrow
  <2>4. CASE \E j \in Nat : job' = [job EXCEPT ![j] = NewJob]
    BY <1>0, <2>1, <2>4 DEF JobsGrow
  <2> QED
    BY <2>2, <2>3, <2>4
<1>4. CASE Crash
  <2>1. PICK lost : job' = [j \in DOMAIN job |-> IF j \in lost THEN [job[j] EXCEPT !.status = "interrupted"] ELSE job[j]]
    BY <1>4 DEF Crash
  <2>2. \A j \in DOMAIN job : job'[j].rev = job[j].rev
    BY <1>0, <2>1 DEF JobRecord
  <2>3. DOMAIN job' = DOMAIN job
    BY <2>1
  <2> QED
    BY <1>0, <2>2, <2>3 DEF JobsGrow
<1>5. ASSUME NEW j \in DOMAIN job, JobEnds(j) PROVE JobsGrow
  <2>1. PICK status \in Ended, rev \in job[j].rev..project :
          job' = [job EXCEPT ![j].status = status, ![j].rev = IF status = "completed" THEN rev ELSE @]
    BY <1>5 DEF JobEnds, Ended
  <2> DEFINE w == [job[j] EXCEPT !.status = status, !.rev = IF status = "completed" THEN rev ELSE job[j].rev]
  <2>2. job' = [job EXCEPT ![j] = w]
    BY <2>1
  <2>3. w.rev >= job[j].rev /\ w.rev <= project /\ w.rev \in Nat
    BY <1>0, <2>1 DEF JobRecord
  <2> HIDE DEF w
  <2>4. DOMAIN job' = DOMAIN job /\ job'[j] = w /\ \A i \in DOMAIN job : i # j => job'[i] = job[i]
    BY <2>2
  <2> QED
    BY <1>0, <2>3, <2>4 DEF JobsGrow
<1> QED
  BY <1>1, <1>2, <1>3, <1>4, <1>5, Cases, ZenonT(40) DEF Action, WorldStep, Ask, Serve, Advance, Recover, vars, file, world,
     Start, Pause, Lookup, RetryRefresh, Cancel, Resume, Approve, Replay, Retry, CancelJobs, Schedule,
     Read, Mark, Complete, Review, LeaveReview, Begin, Work, AttachJob, Attached, Drop, Poll, Reconcile,
     Finish, Fail, Interrupt, Boot, Settle, Edit

(* What a step does to what the file holds of the stages. *)
EndsStage(s, status) ==
  /\ run.status \in {"running", "paused"} /\ Running(s)
  /\ exec' = [exec EXCEPT ![s].status = status]
  /\ run' = [run EXCEPT !.status = status, !.current = s]

Resumes(r) ==
  /\ Resume(r) /\ run.status = "paused" /\ ask[r].rev >= run.rev
  /\ exec' = Refreshed(ask[r].rev)
  /\ run' = [run EXCEPT !.status = "running", !.rev = ask[r].rev] /\ UNCHANGED review

Approves(r) ==
  /\ Approve(r) /\ Approvable(ask[r])
  /\ exec' = [Refreshed(ask[r].rev) EXCEPT ![ask[r].stage].status = "completed"]
  /\ review' = [review EXCEPT ![ask[r].stage][ask[r].n] = "approved"]
  /\ run' = [status |-> "running", current |-> NoStage, rev |-> ask[r].rev]

Replays(r) ==
  /\ Replay(r) /\ Replayable(ask[r])
  /\ exec' = [s \in Stage |-> IF s \in Downstream(ask[r].stage) THEN Forgotten(exec[s]) ELSE exec[s]]
  /\ review' = [s \in Stage |-> IF s \in Downstream(ask[r].stage) THEN Superseded(review[s]) ELSE review[s]]
  /\ run' = [status |-> "running", current |-> NoStage, rev |-> ask[r].rev]

Retries(r) ==
  /\ Retry(r) /\ MayRetry(ask[r].stage)
  /\ exec' = [exec EXCEPT ![ask[r].stage] = Cleared(@, "ready")]
  /\ run' = [run EXCEPT !.status = "running", !.current = NoStage] /\ UNCHANGED review

Reviews(r) ==
  /\ Review(r) /\ MayReview(loop[r].stage)
  /\ exec' = [exec EXCEPT ![loop[r].stage] = Begun(loop[r].stage, "waiting_review")]
  /\ review' = [review EXCEPT ![loop[r].stage] = Append(@, "waiting_review")]
  /\ run' = [run EXCEPT !.status = "waiting_review", !.current = loop[r].stage]

Begins(r) == Begin(r) /\ UNCHANGED review /\ \E s \in Stage, e \in Execution : Claimed(r, s, e)

Attaches(r) ==
  /\ AttachJob(r) /\ Attachable(loop[r].stage) /\ UNCHANGED <<run, review>>
  /\ exec' = [exec EXCEPT ![loop[r].stage].jobs = Append(@, loop[r].job)]

Finishes(r) ==
  /\ Finish(r) /\ Running(loop[r].stage) /\ UNCHANGED review
  /\ exec' = [exec EXCEPT ![loop[r].stage].status = "completed"]
  /\ run' = [run EXCEPT !.rev = Larger(@, loop[r].rev), !.current = IF @ = loop[r].stage THEN NoStage ELSE @]

Ends(r) ==
  /\ Fail(r) \/ Interrupt(r) \/ Settle(r)
  /\ UNCHANGED review /\ \E status \in {"failed", "interrupted"} : EndsStage(loop[r].stage, status)

FileStep(r) ==
  \/ UNCHANGED <<run, exec, review>>
  \/ Start(r) \/ Pause(r) \/ RetryRefresh(r) \/ Cancel(r) \/ Complete(r) \/ Mark(r)
  \/ Resumes(r) \/ Approves(r) \/ Replays(r) \/ Retries(r)
  \/ Reviews(r) \/ Begins(r) \/ Attaches(r) \/ Finishes(r) \/ Ends(r)

LEMMA FileSteps ==
  ASSUME TypeOK, Placed, NEW r \in Runner, Action(r)
  PROVE  FileStep(r)
<1>1. CASE Ask(r)
  BY <1>1 DEF Ask, FileStep, Lookup, file
<1>2. CASE Serve(r)
  BY <1>2 DEF Serve, FileStep, Resumes, Approves, Replays, Retries, Resume, Approve, Replay, Retry, Refuse, CancelJobs, Schedule, file
<1>3. CASE Begin(r)
  BY <1>3, BeginClaims DEF FileStep, Begins, Begin
<1>4. CASE Advance(r) /\ ~Begin(r)
  BY <1>4, ZenonT(40) DEF Advance, FileStep, Reviews, Attaches, Finishes, Ends, Read, Complete, Review, LeaveReview, Work, StartJob, AttachJob, Attached,
     Drop, Poll, Reconcile, Finish, Fail, Interrupt, EndStage, EndsStage, file
<1>5. CASE Recover(r)
  BY <1>5 DEF Recover, FileStep, Ends, Boot, Settle, EndStage, EndsStage, file
<1> QED
  BY <1>1, <1>2, <1>3, <1>4, <1>5 DEF Action

LEMMA WorldKeepsFile ==
  WorldStep => UNCHANGED <<run, exec, review>>
BY DEF WorldStep, Crash, JobEnds, Edit, file

(* What a step of a process does to one stage.  Restated: to its status only. *)
Restated(t, status) ==
  /\ exec'[t].status = status
  /\ exec'[t].attempt = exec[t].attempt /\ exec'[t].ops = exec[t].ops /\ exec'[t].jobs = exec[t].jobs
  /\ exec'[t].inputs = exec[t].inputs /\ exec'[t].base = exec[t].base /\ exec'[t].epoch = exec[t].epoch

StageMove(r, t) ==
  \/ exec'[t] = exec[t]
  \/ /\ Mark(r) /\ run.status = "running" /\ Restated(t, "ready")
     /\ exec[t].status \in {"pending", "invalidated"} /\ DependenciesReady(t)
  \/ (Resume(r) \/ Approve(r)) /\ exec[t].status = "ready" /\ exec'[t] = Invalidated(exec[t])
  \/ Approve(r) /\ Approvable(ask[r]) /\ t = ask[r].stage /\ exec[t].status = "waiting_review" /\ Restated(t, "completed")
  \/ Replay(r) /\ Replayable(ask[r]) /\ t \in Downstream(ask[r].stage) /\ exec'[t] = Forgotten(exec[t])
  \/ Retry(r) /\ MayRetry(t) /\ t = ask[r].stage /\ exec'[t] = Cleared(exec[t], "ready")
  \/ Review(r) /\ MayReview(t) /\ t = loop[r].stage /\ exec'[t] = Begun(t, "waiting_review")
  \/ Begin(r) /\ Claimed(r, t, exec'[t])
  \/ /\ AttachJob(r) /\ Attachable(t) /\ t = loop[r].stage /\ exec'[t].jobs = Append(exec[t].jobs, loop[r].job)
     /\ exec'[t] = [exec[t] EXCEPT !.jobs = Append(exec[t].jobs, loop[r].job)]
  \/ Finish(r) /\ Running(t) /\ t = loop[r].stage /\ Restated(t, "completed")
  \/ /\ Fail(r) \/ Interrupt(r) \/ Settle(r)
     /\ Running(t) /\ t = loop[r].stage /\ \E status \in {"failed", "interrupted"} : Restated(t, status)
  \/ Cancel(r) /\ t = run.current /\ Stoppable(exec[t]) /\ Restated(t, "cancelled")

LEMMA OnlyStatus ==
  ASSUME TypeOK, NEW t \in Stage, NEW status \in StageStatus, exec'[t] = [exec[t] EXCEPT !.status = status]
  PROVE  Restated(t, status)
<1>1. exec[t] \in Execution
  BY StateTypes
<1> QED
  BY <1>1 DEF Restated, Execution

LEMMA StageMoves ==
  ASSUME TypeOK, Placed, NEW r \in Runner, Action(r), NEW t \in Stage
  PROVE  StageMove(r, t)
<1>0. exec \in [Stage -> Execution] /\ exec[t] \in Execution /\ {"ready", "completed", "failed", "interrupted", "cancelled"} \subseteq StageStatus
  BY StateTypes DEF StageStatus, RunStatus
<1>1. CASE UNCHANGED exec
  BY <1>1 DEF StageMove
<1>2. CASE Mark(r) /\ ~UNCHANGED exec
  <2>1. exec' = Marked /\ run.status = "running"
    BY <1>2 DEF Mark
  <2>2. CASE exec[t].status \in {"pending", "invalidated"} /\ DependenciesReady(t)
    <3>1. exec'[t] = [exec[t] EXCEPT !.status = "ready"]
      BY <2>1, <2>2 DEF Marked
    <3> QED
      BY <1>0, <1>2, <2>1, <2>2, <3>1, OnlyStatus DEF StageMove
  <2>3. CASE ~(exec[t].status \in {"pending", "invalidated"} /\ DependenciesReady(t))
    BY <2>1, <2>3 DEF Marked, StageMove
  <2> QED
    BY <2>2, <2>3
<1>3. CASE Resumes(r)
  BY <1>3 DEF Resumes, StageMove, Refreshed
<1>4. CASE Approves(r)
  <2> DEFINE s == ask[r].stage
  <2>0. Approve(r) /\ Approvable(ask[r]) /\ exec' = [Refreshed(ask[r].rev) EXCEPT ![s].status = "completed"]
    BY <1>4 DEF Approves
  <2>1. s \in Stage /\ exec[s].status = "waiting_review"
    BY <2>0 DEF Approve, Asked, Placed, Approvable
  <2>2. Refreshed(ask[r].rev)[s] = exec[s] /\ Refreshed(ask[r].rev) \in [Stage -> Execution]
    BY <2>1, RefreshedType DEF Refreshed
  <2>3. CASE t = s
    <3>1. exec'[t] = [exec[t] EXCEPT !.status = "completed"]
      BY <2>0, <2>2, <2>3
    <3> QED
      BY <1>0, <2>0, <2>1, <2>3, <3>1, OnlyStatus DEF StageMove
  <2>4. CASE t # s
    <3>1. exec'[t] = Refreshed(ask[r].rev)[t]
      BY <2>0, <2>2, <2>4
    <3> QED
      BY <2>0, <3>1 DEF StageMove, Refreshed
  <2> QED
    BY <2>3, <2>4
<1>5. CASE Replays(r)
  BY <1>5 DEF Replays, StageMove
<1>6. CASE Retries(r)
  BY <1>0, <1>6 DEF Retries, StageMove
<1>7. CASE Reviews(r)
  BY <1>0, <1>7 DEF Reviews, StageMove
<1>8. CASE Begins(r)
  <2>1. PICK s \in Stage, e \in Execution : Claimed(r, s, e)
    BY <1>8 DEF Begins
  <2>2. exec' = [exec EXCEPT ![s] = e]
    BY <2>1 DEF Claimed
  <2>3. t = s => exec'[t] = e
    BY <1>0, <2>2
  <2>4. t # s => exec'[t] = exec[t]
    BY <1>0, <2>2
  <2> QED
    BY <1>8, <2>1, <2>3, <2>4 DEF Begins, StageMove
<1>9. CASE Attaches(r)
  <2>1. t # loop[r].stage => exec'[t] = exec[t]
    BY <1>0, <1>9 DEF Attaches
  <2>2. t = loop[r].stage => exec'[t] = [exec[t] EXCEPT !.jobs = Append(exec[t].jobs, loop[r].job)]
    BY <1>0, <1>9 DEF Attaches
  <2>3. [exec[t] EXCEPT !.jobs = Append(exec[t].jobs, loop[r].job)].jobs = Append(exec[t].jobs, loop[r].job)
    BY <1>0 DEF Execution
  <2> QED
    BY <1>9, <2>1, <2>2, <2>3 DEF Attaches, StageMove
<1>10. CASE Finishes(r)
  BY <1>0, <1>10, OnlyStatus DEF Finishes, StageMove
<1>11. CASE Ends(r)
  <2>1. PICK status \in {"failed", "interrupted"} : EndsStage(loop[r].stage, status)
    BY <1>11 DEF Ends
  <2>2. t # loop[r].stage => exec'[t] = exec[t]
    BY <1>0, <2>1 DEF EndsStage
  <2>3. t = loop[r].stage => exec'[t] = [exec[t] EXCEPT !.status = status] /\ Running(t)
    BY <1>0, <2>1 DEF EndsStage
  <2> QED
    BY <1>0, <1>11, <2>2, <2>3, OnlyStatus DEF Ends, StageMove
<1>12. CASE Cancel(r) /\ ~UNCHANGED exec
  <2>1. Stoppable(exec[run.current]) /\ exec' = [exec EXCEPT ![run.current].status = "cancelled"]
    BY <1>12 DEF Cancel
  <2> QED
    BY <1>0, <1>12, <2>1, OnlyStatus DEF StageMove
<1>13. CASE (Start(r) \/ Pause(r) \/ RetryRefresh(r) \/ Complete(r)) /\ ~UNCHANGED exec
  BY <1>13 DEF Start, Pause, RetryRefresh, Complete
<1>14. UNCHANGED <<run, exec, review>> => UNCHANGED exec
  OBVIOUS
<1>15. FileStep(r)
  BY FileSteps
<1> QED
  BY <1>1, <1>2, <1>3, <1>4, <1>5, <1>6, <1>7, <1>8, <1>9, <1>10, <1>11, <1>12, <1>13, <1>14, <1>15, Zenon DEF FileStep

(* The fields a step may give a stage. *)
LEMMA StageFields ==
  ASSUME TypeOK, Placed, NEW r \in Runner, Action(r), NEW t \in Stage
  PROVE  /\ exec'[t].base \in {exec[t].base, 0, run.rev}
         /\ exec'[t].attempt \in {exec[t].attempt, exec[t].attempt + 1}
<1>1. exec[t] \in Execution
  BY StateTypes
<1>2. "ready" \in StageStatus /\ "waiting_review" \in StageStatus
  BY DEF StageStatus, RunStatus
<1>3. /\ Invalidated(exec[t]).base = 0 /\ Invalidated(exec[t]).attempt = exec[t].attempt
      /\ Forgotten(exec[t]).base = 0 /\ Forgotten(exec[t]).attempt = exec[t].attempt
      /\ Cleared(exec[t], "ready").base = 0 /\ Cleared(exec[t], "ready").attempt = exec[t].attempt
      /\ Begun(t, "waiting_review").base = run.rev /\ Begun(t, "waiting_review").attempt = exec[t].attempt + 1
  BY <1>1, <1>2, InvalidatedType, ForgottenType, ClearedType, BegunType
<1>4. AttachJob(r) /\ exec'[t] = [exec[t] EXCEPT !.jobs = Append(exec[t].jobs, loop[r].job)]
        => exec'[t].base = exec[t].base /\ exec'[t].attempt = exec[t].attempt
  BY <1>1 DEF Execution
<1> QED
  BY <1>3, <1>4, StageMoves DEF StageMove, Restated, Claimed

-------------------------------------------------------------------------------
(* No revision is ahead of the project. *)
LEMMA RunRevisions ==
  ASSUME TypeOK, Placed, NoneAhead, NEW r \in Runner, Action(r)
  PROVE  run'.rev <= project
<1>0. /\ run.rev \in Nat /\ project \in Nat /\ ask[r].rev \in Nat /\ loop[r].rev \in Nat
      /\ run.rev <= project /\ ask[r].rev <= project /\ loop[r].rev <= project
      /\ run \in RunRecord
  BY StateTypes DEF NoneAhead, AskRecord, LoopRecord, RunRecord
<1>1. Larger(run.rev, project) <= project /\ Larger(run.rev, loop[r].rev) <= project
  BY <1>0, LargerType
<1>2. CASE UNCHANGED <<run, exec, review>> \/ Mark(r) \/ Attaches(r)
  BY <1>0, <1>2 DEF Mark, Attaches
<1>3. CASE Start(r) \/ Pause(r) \/ Cancel(r) \/ Complete(r)
  BY <1>0, <1>3 DEF Start, Pause, Cancel, Complete, RunRecord
<1>6. CASE RetryRefresh(r)
  <2> DEFINE n == Larger(run.rev, project)
  <2>1. run' = [run EXCEPT !.rev = n] /\ n <= project
    BY <1>1, <1>6 DEF RetryRefresh
  <2> HIDE DEF n
  <2>2. [run EXCEPT !.rev = n].rev = n
    BY <1>0 DEF RunRecord
  <2> QED
    BY <2>1, <2>2
<1>4. CASE Resumes(r) \/ Approves(r) \/ Replays(r) \/ Retries(r)
  <2>1. CASE Resumes(r)
    <3>1. run' = [run EXCEPT !.status = "running", !.rev = ask[r].rev]
      BY <2>1 DEF Resumes
    <3> QED
      BY <1>0, <3>1 DEF RunRecord
  <2>2. CASE Approves(r) \/ Replays(r)
    <3>1. run'.rev = ask[r].rev
      BY <2>2 DEF Approves, Replays
    <3> QED
      BY <1>0, <3>1
  <2>3. CASE Retries(r)
    <3>1. run' = [run EXCEPT !.status = "running", !.current = NoStage]
      BY <2>3 DEF Retries
    <3> QED
      BY <1>0, <3>1 DEF RunRecord
  <2> QED
    BY <1>4, <2>1, <2>2, <2>3
<1>5. CASE Reviews(r) \/ Begins(r) \/ Finishes(r) \/ Ends(r)
  BY <1>0, <1>1, <1>5 DEF Reviews, Begins, Claimed, Finishes, Ends, EndsStage, RunRecord
<1> QED
  BY <1>2, <1>3, <1>4, <1>5, <1>6, FileSteps DEF FileStep

LEMMA NoneAheadStep ==
  ASSUME TypeOK, Placed, NoneAhead, NextStep
  PROVE  NoneAhead'
<1>0. /\ project \in Nat /\ project' \in Nat /\ project <= project'
      /\ run.rev \in Nat /\ run.rev <= project
      /\ \A s \in Stage : exec[s].base \in Nat /\ exec[s].base <= project
      /\ \A q \in Runner : /\ loop[q].rev \in Nat /\ ask[q].rev \in Nat /\ loop[q].ex.base \in Nat
                           /\ loop[q].rev <= project /\ ask[q].rev <= project /\ loop[q].ex.base <= project
  BY ProjectGrows, StateTypes DEF NoneAhead, LoopRecord, AskRecord, Execution
<1>1. \A j \in DOMAIN job' : job'[j].rev <= project'
  BY JobsStayThere DEF JobsGrow
<1> DEFINE Low(n) == n \in Nat /\ n <= project'
<1>2. Low(0) /\ Low(project) /\ (project + 1 <= project' => Low(project + 1))
  BY <1>0
<1>3. Pending.base = 0
  BY DEF Pending
<1>4. CASE UNCHANGED <<run, exec, review, loop, ask>>
  BY <1>0, <1>1, <1>4 DEF NoneAhead
<1>5. CASE Crash
  <2>1. \A q \in Runner : loop'[q].rev = 0 /\ ask'[q].rev = 0 /\ loop'[q].ex.base = 0
    BY <1>3, <1>5, RestType, NoAskType DEF Crash
  <2>2. UNCHANGED <<run, exec>>
    BY <1>5 DEF Crash, file
  <2> QED
    BY <1>0, <1>1, <1>2, <2>1, <2>2 DEF NoneAhead
<1>6. ASSUME NEW r \in Runner, Action(r) PROVE NoneAhead'
  <2>1. run'.rev <= project'
    <3>1. run'.rev \in Nat
      BY TypeStep, StateTypes DEF TypeOK, RunRecord
    <3> QED
      BY <1>0, <1>6, <3>1, RunRevisions
  <2>2. \A s \in Stage : exec'[s].base <= project'
    BY <1>0, <1>2, <1>6, StageFields
  <2>3. \A q \in Runner : q # r => loop'[q] = loop[q] /\ ask'[q] = ask[q]
    <3>1. CASE Ask(r) \/ Serve(r)
      BY <3>1, AskPlaces DEF Rested, Moved
    <3>2. CASE Advance(r)
      BY <3>2, AdvancePlaces
    <3>3. CASE Recover(r)
      BY <3>3, RecoverMoves
    <3> QED
      BY <1>6, <3>1, <3>2, <3>3 DEF Action
  <2>4. Low(ask'[r].rev)
    <3>1. CASE Ask(r)
      BY <1>0, <1>2, <3>1, AllAsking DEF Ask, Asking, Quiet, Asks
    <3>2. CASE Serve(r)
      BY <1>2, <3>2, AllAsking DEF Serve, Asking, Quiet, Asks
    <3>3. CASE Advance(r) \/ Recover(r)
      BY <1>0, <3>3, AdvancePlaces, RecoverMoves
    <3> QED
      BY <1>6, <3>1, <3>2, <3>3 DEF Action
  <2>5. Low(loop'[r].rev) /\ Low(loop'[r].ex.base)
    <3>1. CASE Ask(r) \/ Serve(r)
      BY <1>0, <1>2, <1>3, <3>1, AskPlaces DEF Rested, Moved
    <3>2. CASE Begin(r)
      <4>1. CASE Rested(r, "read")
        BY <1>2, <1>3, <4>1 DEF Rested, Moved
      <4>2. CASE \E s \in Stage, e \in Execution : Claimed(r, s, e)
        BY <1>0, <4>2 DEF Claimed, Moved
      <4> QED
        BY <3>2, <4>1, <4>2, BeginClaims
    <3>3. CASE Work(r)
      BY <1>0, <1>2, <3>3, AllLooped DEF Looped, Stepped, Moved
    <3>4. CASE Advance(r) /\ ~Begin(r) /\ ~Work(r)
      BY <1>0, <1>2, <1>3, <3>4, AllLooped DEF Advance, Looped, Rested, Stepped, Moved
    <3>5. CASE Recover(r)
      BY <1>0, <1>2, <1>3, <3>5, RecoverMoves DEF Recover, Rested, Moved
    <3> QED
      BY <1>6, <3>1, <3>2, <3>3, <3>4, <3>5 DEF Action
  <2>6. \A q \in Runner : ask'[q].rev <= project' /\ loop'[q].rev <= project' /\ loop'[q].ex.base <= project'
    BY <1>0, <2>3, <2>4, <2>5
  <2> QED
    BY <1>1, <2>1, <2>2, <2>6 DEF NoneAhead
<1>7. UNCHANGED vars \/ (WorldStep /\ ~Crash) => UNCHANGED <<run, exec, review, loop, ask>>
  BY DEF vars, file, WorldStep, JobEnds, Edit
<1> QED
  BY <1>4, <1>5, <1>6, <1>7, Cases

-------------------------------------------------------------------------------
(* What a stage reads.  Whatever depends on a stage of Downstream is in it. *)
LEMMA DownstreamHolds ==
  ASSUME NEW s, NEW d \in Downstream(s), NEW t \in Stage, d \in Deps[t]
  PROVE  t \in Downstream(s)
<1> SUFFICES ASSUME NEW S \in SUBSET Stage, s \in S, Closed(S) PROVE t \in S
  BY DEF Downstream
<1>1. d \in S
  BY DEF Downstream
<1> QED
  BY <1>1 DEF Closed

Busy == {"ready", "running", "waiting_review", "completed", "failed", "interrupted"}
Begun3 == {"running", "waiting_review", "completed"}

(* A dependency that is done stays done, and its attempt the same, unless the stage *)
(* is invalidated with it.                                                       *)
LEMMA DoneStays ==
  ASSUME TypeOK, Placed, NEW r \in Runner, Action(r), NEW d \in Stage, Done(d),
         ~(Replay(r) /\ Replayable(ask[r]) /\ d \in Downstream(ask[r].stage) /\ exec'[d] = Forgotten(exec[d]))
  PROVE  exec'[d].status = "completed" /\ exec'[d].attempt = exec[d].attempt
<1>1. StageMove(r, d) /\ exec[d].status = "completed" /\ exec[d] \in Execution
  BY StageMoves, StateTypes DEF Done
<1>2. AttachJob(r) /\ exec'[d] = [exec[d] EXCEPT !.jobs = Append(exec[d].jobs, loop[r].job)]
        => exec'[d].status = exec[d].status /\ exec'[d].attempt = exec[d].attempt
  BY <1>1 DEF Execution
<1> QED
  BY <1>1, <1>2 DEF StageMove, Restated, Approvable, MayRetry, MayReview, Claimed, Claimable, Running, Stoppable

LEMMA FedStep ==
  ASSUME TypeOK, Placed, Fed, NextStep
  PROVE  Fed'
<1> DEFINE FedNow(t) == /\ exec'[t].status \in Busy => \A d \in Deps[t] : exec'[d].status = "completed"
                        /\ exec'[t].status \in Begun3 =>
                             exec'[t].inputs = [d \in Stage |-> IF d \in Deps[t] THEN exec'[d].attempt ELSE 0]
<1>0. (\A t \in Stage : FedNow(t)) => Fed'
  BY DEF Fed, Done, Inputs, Busy, Begun3
<1>1. CASE UNCHANGED exec
  BY <1>1 DEF Fed, Done, Inputs
<1>2. ASSUME NEW r \in Runner, Action(r) PROVE Fed'
  <2> SUFFICES ASSUME NEW t \in Stage PROVE FedNow(t)
    BY <1>0
  <2>0. Deps[t] \subseteq Stage /\ exec[t] \in Execution
    BY DefinitionAssumption, StateTypes
  <2>1. CASE Replay(r) /\ Replayable(ask[r])
    <3>1. exec' = [s \in Stage |-> IF s \in Downstream(ask[r].stage) THEN Forgotten(exec[s]) ELSE exec[s]]
      BY <2>1 DEF Replay
    <3>2. CASE t \in Downstream(ask[r].stage)
      <4>1. exec'[t].status = "invalidated"
        BY <2>0, <3>1, <3>2, ForgottenType
      <4> QED
        BY <4>1 DEF Busy, Begun3
    <3>3. CASE t \notin Downstream(ask[r].stage)
      <4>1. \A d \in Deps[t] : d \notin Downstream(ask[r].stage) /\ d \in Stage
        BY <2>0, <3>3, DownstreamHolds
      <4>2. exec'[t] = exec[t] /\ \A d \in Deps[t] : exec'[d] = exec[d]
        BY <3>1, <3>3, <4>1
      <4> QED
        BY <4>2 DEF Fed, Done, Inputs, Busy, Begun3
    <3> QED
      BY <3>2, <3>3
  <2>2. CASE ~(Replay(r) /\ Replayable(ask[r]))
    <3>1. \A d \in Deps[t] : Done(d) => exec'[d].status = "completed" /\ exec'[d].attempt = exec[d].attempt
      BY <1>2, <2>0, <2>2, DoneStays
    <3>2. ASSUME \A d \in Deps[t] : Done(d), exec'[t].status \in Begun3 => exec'[t].inputs = Inputs(t)
          PROVE  FedNow(t)
      <4>1. Inputs(t) = [d \in Stage |-> IF d \in Deps[t] THEN exec'[d].attempt ELSE 0]
        BY <3>1, <3>2 DEF Inputs
      <4> QED
        BY <3>1, <3>2, <4>1
    <3>3. CASE exec'[t] = exec[t]
      <4>1. CASE exec[t].status \in Busy
        BY <3>2, <3>3, <4>1 DEF Fed, Busy, Begun3
      <4>2. CASE exec[t].status \notin Busy
        BY <3>3, <4>2 DEF Busy, Begun3
      <4> QED
        BY <4>1, <4>2
    <3>4. CASE Restated(t, "ready") /\ DependenciesReady(t)
      BY <3>2, <3>4 DEF Restated, DependenciesReady, Begun3
    <3>5. CASE exec'[t] = Invalidated(exec[t]) \/ Restated(t, "cancelled")
      <4>1. exec'[t].status \in {"invalidated", "cancelled"}
        BY <2>0, <3>5, InvalidatedType DEF Restated
      <4> QED
        BY <4>1 DEF Busy, Begun3
    <3>6. CASE exec[t].status = "waiting_review" /\ Restated(t, "completed")
      BY <3>2, <3>6 DEF Restated, Fed
    <3>7. CASE MayRetry(t) /\ exec'[t] = Cleared(exec[t], "ready")
      <4>1. exec'[t].status = "ready" /\ \A d \in Deps[t] : Done(d)
        BY <2>0, <3>7, ClearedType DEF MayRetry, Fed, StageStatus
      <4> QED
        BY <3>2, <4>1 DEF Begun3
    <3>8. CASE MayReview(t) /\ exec'[t] = Begun(t, "waiting_review")
      <4>1. exec'[t].inputs = Inputs(t)
        BY <3>8, BegunType DEF StageStatus, RunStatus
      <4>2. \A d \in Deps[t] : Done(d)
        BY <3>8 DEF MayReview, Fed
      <4> QED
        BY <3>2, <4>1, <4>2
    <3>9. CASE Claimed(r, t, exec'[t])
      <4>1. exec'[t].inputs = Inputs(t)
        BY <3>9 DEF Claimed
      <4>2. \A d \in Deps[t] : Done(d)
        BY <3>9 DEF Claimed, Claimable, Fed
      <4> QED
        BY <3>2, <4>1, <4>2
    <3>10. CASE Attachable(t) /\ exec'[t] = [exec[t] EXCEPT !.jobs = Append(exec[t].jobs, loop[r].job)]
      <4>1. exec'[t].inputs = exec[t].inputs
        BY <2>0, <3>10 DEF Execution
      <4> QED
        BY <3>2, <3>10, <4>1 DEF Attachable, Fed
    <3>11. CASE Running(t) /\ \E status \in {"completed", "failed", "interrupted"} : Restated(t, status)
      BY <3>2, <3>11 DEF Running, Restated, Fed
    <3> HIDE DEF FedNow
    <3> QED
      BY <1>2, <2>2, <3>3, <3>4, <3>5, <3>6, <3>7, <3>8, <3>9, <3>10, <3>11, StageMoves DEF StageMove
  <2> QED
    BY <2>1, <2>2
<1>3. UNCHANGED vars \/ WorldStep => UNCHANGED exec
  BY WorldKeepsFile DEF vars, file
<1> QED
  BY <1>1, <1>2, <1>3, Cases

-------------------------------------------------------------------------------
(* The reviews of a checkpoint, against its status. *)
Right(status, q) ==
  /\ status = "completed" <=> q # << >> /\ Latest(q) = "approved"
  /\ \A n \in DOMAIN q : n < Len(q) => q[n] = "superseded"
  /\ (\E n \in DOMAIN q : q[n] = "waiting_review") <=> status = "waiting_review" \/ (status = "cancelled" /\ q # << >>)

Calm(status) == status \notin {"running", "failed", "interrupted"}

CheckpointsRight == \A s \in Stage : Kind[s] = "checkpoint" => Right(exec[s].status, review[s]) /\ Calm(exec[s].status)
ReviewIsCurrent == run.status = "waiting_review" => \E s \in Stage : run.current = s /\ exec[s].status = "waiting_review"
OnlyCurrent == \A s \in Stage : Kind[s] = "checkpoint" /\ run.current = s => run.status = "waiting_review"

LEMMA ReviewsInParts == ReviewsHold /\ OnlyReviewed <=> CheckpointsRight /\ ReviewIsCurrent /\ OnlyCurrent
BY DEF ReviewsHold, OnlyReviewed, CheckpointsRight, ReviewIsCurrent, OnlyCurrent, Right, Calm, Done, Waiting

LEMMA SupersededRight ==
  ASSUME NEW q \in Seq(Checkpoint)
  PROVE  Right("invalidated", Superseded(q))
<1> DEFINE w == Superseded(q)
<1>1. DOMAIN q = 1..Len(q) /\ Len(q) \in Nat
  OBVIOUS
<1>2. w = [n \in 1..Len(q) |-> "superseded"]
  BY <1>1 DEF Superseded
<1>3. w \in Seq(Checkpoint) /\ Len(w) = Len(q) /\ DOMAIN w = 1..Len(q)
  BY <1>1, <1>2 DEF Checkpoint
<1>4. \A n \in DOMAIN w : w[n] = "superseded"
  BY <1>2, <1>3
<1>5. w # << >> => Latest(w) = "superseded"
  BY <1>3, <1>4 DEF Latest
<1> HIDE DEF w
<1>6. ~(w # << >> /\ Latest(w) = "approved")
  BY <1>5
<1>7. ~\E n \in DOMAIN w : w[n] = "waiting_review"
  BY <1>4
<1>8. Right("invalidated", w)
  BY <1>4, <1>6, <1>7 DEF Right
<1> QED
  BY <1>8 DEF w

LEMMA AppendedRight ==
  ASSUME NEW q \in Seq(Checkpoint), Right("ready", q)
  PROVE  Right("waiting_review", Append(q, "waiting_review"))
<1> DEFINE w == Append(q, "waiting_review")
<1>1. /\ Len(q) \in Nat /\ DOMAIN q = 1..Len(q) /\ Len(w) = Len(q) + 1 /\ DOMAIN w = 1..(Len(q) + 1)
      /\ w[Len(q) + 1] = "waiting_review" /\ (\A n \in 1..Len(q) : w[n] = q[n]) /\ w # << >>
  OBVIOUS
<1>2. \A n \in DOMAIN q : q[n] = "superseded"
  <2>1. \A n \in DOMAIN q : q[n] \in Checkpoint /\ q[n] # "waiting_review"
    BY DEF Right
  <2>2. q # << >> => Latest(q) = q[Len(q)] /\ Latest(q) # "approved" /\ Len(q) \in DOMAIN q
    BY DEF Right, Latest
  <2>3. \A n \in DOMAIN q : n < Len(q) => q[n] = "superseded"
    BY DEF Right
  <2>4. \A n \in DOMAIN q : n = Len(q) => q[n] = "superseded"
    BY <2>1, <2>2 DEF Checkpoint
  <2> QED
    BY <1>1, <2>3, <2>4
<1>3. Latest(w) = "waiting_review"
  BY <1>1 DEF Latest
<1> HIDE DEF w
<1>4. \A n \in DOMAIN w : n < Len(w) => w[n] = "superseded"
  BY <1>1, <1>2
<1>5. \E n \in DOMAIN w : w[n] = "waiting_review"
  BY <1>1
<1>6. Right("waiting_review", w)
  BY <1>3, <1>4, <1>5 DEF Right
<1> QED
  BY <1>6 DEF w

LEMMA ApprovedRight ==
  ASSUME NEW q \in Seq(Checkpoint), Right("waiting_review", q), NEW n \in DOMAIN q, q[n] = "waiting_review"
  PROVE  Right("completed", [q EXCEPT ![n] = "approved"])
<1> DEFINE w == [q EXCEPT ![n] = "approved"]
<1>1. Len(q) \in Nat /\ DOMAIN q = 1..Len(q)
  OBVIOUS
<1>2. n = Len(q)
  BY <1>1 DEF Right
<1>3. /\ w \in Seq(Checkpoint) /\ Len(w) = Len(q) /\ DOMAIN w = DOMAIN q
      /\ w[Len(q)] = "approved" /\ \A m \in DOMAIN q : m # Len(q) => w[m] = q[m]
  BY <1>1, <1>2, SequenceSet DEF Checkpoint
<1>4. w # << >> /\ Latest(w) = "approved"
  BY <1>1, <1>2, <1>3 DEF Latest
<1>5. \A m \in DOMAIN q : m < Len(q) => q[m] = "superseded"
  BY DEF Right
<1>6. \A m \in DOMAIN w : (m < Len(w) => w[m] = "superseded") /\ w[m] # "waiting_review"
  BY <1>1, <1>3, <1>5
<1> HIDE DEF w
<1>7. Right("completed", w)
  BY <1>4, <1>6 DEF Right
<1> QED
  BY <1>7 DEF w

LEMMA CheckpointsStep ==
  ASSUME TypeOK, Placed, CheckpointsRight, ReviewIsCurrent, OnlyCurrent, NEW r \in Runner, Action(r)
  PROVE  CheckpointsRight'
<1> SUFFICES ASSUME NEW t \in Stage, Kind[t] = "checkpoint"
             PROVE  Right(exec'[t].status, review'[t]) /\ Calm(exec'[t].status)
  BY DEF CheckpointsRight, Right, Calm
<1>0. /\ review[t] \in Seq(Checkpoint) /\ exec[t] \in Execution /\ StageMove(r, t)
      /\ Right(exec[t].status, review[t]) /\ Calm(exec[t].status)
      /\ exec \in [Stage -> Execution] /\ review \in [Stage -> Seq(Checkpoint)]
  BY StageMoves, StateTypes DEF CheckpointsRight
<1>1. CASE Approve(r) /\ Approvable(ask[r])
  <2> DEFINE a == ask[r]
  <2>1. /\ exec' = [Refreshed(a.rev) EXCEPT ![a.stage].status = "completed"]
        /\ review' = [review EXCEPT ![a.stage][a.n] = "approved"]
        /\ a.stage \in Stage /\ a.n \in DOMAIN review[a.stage]
    BY <1>1 DEF Approve, Asked, Placed
  <2>2. Refreshed(a.rev) \in [Stage -> Execution]
    BY RefreshedType
  <2>3. CASE t = a.stage
    <3>1. review'[t] = [review[t] EXCEPT ![a.n] = "approved"]
      BY <1>0, <2>1, <2>3
    <3>2. exec'[t].status = "completed"
      <4>1. exec'[t] = [Refreshed(a.rev)[t] EXCEPT !.status = "completed"] /\ Refreshed(a.rev)[t] \in Execution
        BY <2>1, <2>2, <2>3
      <4> QED
        BY <4>1 DEF Execution
    <3>3. exec[t].status = "waiting_review" /\ review[t][a.n] = "waiting_review"
      BY <1>1, <2>3 DEF Approvable
    <3> QED
      BY <1>0, <2>1, <2>3, <3>1, <3>2, <3>3, ApprovedRight DEF Calm
  <2>4. CASE t # a.stage
    <3>1. review'[t] = review[t] /\ exec'[t] = Refreshed(a.rev)[t]
      BY <1>0, <2>1, <2>2, <2>4
    <3>2. exec'[t].status = exec[t].status \/ (exec[t].status = "ready" /\ exec'[t].status = "invalidated")
      BY <1>0, <3>1, InvalidatedType DEF Refreshed
    <3> QED
      BY <1>0, <3>1, <3>2 DEF Right, Calm
  <2> QED
    BY <2>3, <2>4
<1>2. CASE Replay(r) /\ Replayable(ask[r])
  <2>1. /\ exec'[t] = IF t \in Downstream(ask[r].stage) THEN Forgotten(exec[t]) ELSE exec[t]
        /\ review'[t] = IF t \in Downstream(ask[r].stage) THEN Superseded(review[t]) ELSE review[t]
    BY <1>2 DEF Replay
  <2>2. Forgotten(exec[t]).status = "invalidated"
    BY <1>0, ForgottenType
  <2> QED
    BY <1>0, <2>1, <2>2, SupersededRight DEF Calm
<1>3. CASE Review(r) /\ MayReview(loop[r].stage)
  <2>1. /\ exec' = [exec EXCEPT ![loop[r].stage] = Begun(loop[r].stage, "waiting_review")]
        /\ review' = [review EXCEPT ![loop[r].stage] = Append(@, "waiting_review")]
    BY <1>3 DEF Review
  <2>2. CASE t = loop[r].stage
    <3>1. exec'[t].status = "waiting_review" /\ review'[t] = Append(review[t], "waiting_review")
      BY <1>0, <2>1, <2>2, BegunType DEF StageStatus, RunStatus
    <3> QED
      BY <1>0, <1>3, <2>2, <3>1, AppendedRight DEF MayReview, Calm
  <2>3. CASE t # loop[r].stage
    <3>1. exec'[t] = exec[t] /\ review'[t] = review[t]
      BY <1>0, <2>1, <2>3
    <3> QED
      BY <1>0, <3>1
  <2> QED
    BY <2>2, <2>3
<1>4. CASE ~(Approve(r) /\ Approvable(ask[r])) /\ ~(Replay(r) /\ Replayable(ask[r])) /\ ~(Review(r) /\ MayReview(loop[r].stage))
  <2>1. review' = review
    BY <1>4, FileSteps DEF FileStep, Start, Pause, RetryRefresh, Cancel, Complete, Mark, Resumes, Approves, Replays, Retries,
       Reviews, Begins, Attaches, Finishes, Ends
  <2>2. CASE exec'[t].status = exec[t].status
    BY <1>0, <2>1, <2>2
  <2>3. CASE exec[t].status \in {"pending", "invalidated", "ready"} /\ exec'[t].status \in {"invalidated", "ready"}
    BY <1>0, <2>1, <2>3 DEF Right, Calm
  <2>4. CASE Cancel(r) /\ t = run.current /\ Restated(t, "cancelled")
    <3>1. exec[t].status = "waiting_review"
      BY <2>4 DEF OnlyCurrent, ReviewIsCurrent
    <3>2. review[t] # << >>
      <4>1. \E n \in DOMAIN review[t] : review[t][n] = "waiting_review"
        BY <1>0, <3>1 DEF Right
      <4> QED
        BY <1>0, <4>1
    <3> QED
      BY <1>0, <2>1, <2>4, <3>1, <3>2 DEF Restated, Right, Calm
  <2>5. ~Begin(r) \/ ~Claimed(r, t, exec'[t])
    BY DEF Begin, Claimed, At, Placed
  <2>6. exec'[t] = Invalidated(exec[t]) => exec'[t].status = "invalidated"
    BY <1>0, InvalidatedType
  <2>7. ~Running(t) /\ ~MayRetry(t) /\ ~Attachable(t)
    BY <1>0 DEF Running, MayRetry, Attachable, Calm
  <2> QED
    BY <1>0, <1>4, <2>2, <2>3, <2>4, <2>5, <2>6, <2>7 DEF StageMove, Restated
<1> QED
  BY <1>1, <1>2, <1>3, <1>4

LEMMA CurrentStep ==
  ASSUME TypeOK, Placed, CheckpointsRight, ReviewIsCurrent, OnlyCurrent, NEW r \in Runner, Action(r)
  PROVE  ReviewIsCurrent' /\ OnlyCurrent'
<1>0. run \in RunRecord /\ exec \in [Stage -> Execution] /\ NoStage \notin Stage
  BY OrderAssumption DEF TypeOK
<1>1. CASE UNCHANGED <<run, exec, review>>
  BY <1>1 DEF ReviewIsCurrent, OnlyCurrent
<1>2. CASE Start(r) \/ Pause(r)
  <2>1. run.status \in {"pending", "running"} /\ run'.status # "waiting_review" /\ run'.current = run.current
    BY <1>0, <1>2 DEF Start, Pause, RunRecord
  <2> QED
    BY <2>1 DEF ReviewIsCurrent, OnlyCurrent
<1>3. CASE RetryRefresh(r)
  <2>1. run'.status = run.status /\ run'.current = run.current /\ UNCHANGED exec
    BY <1>0, <1>3 DEF RetryRefresh, RunRecord
  <2> QED
    BY <2>1 DEF ReviewIsCurrent, OnlyCurrent
<1>4. CASE Cancel(r) \/ Approves(r) \/ Replays(r) \/ Retries(r)
  <2>1. CASE Cancel(r)
    <3>1. run' = [run EXCEPT !.status = "cancelled", !.current = NoStage]
      BY <2>1 DEF Cancel
    <3>2. run'.status # "waiting_review" /\ run'.current = NoStage
      BY <1>0, <3>1 DEF RunRecord
    <3> QED
      BY <1>0, <3>2 DEF ReviewIsCurrent, OnlyCurrent
  <2>2. CASE Approves(r) \/ Replays(r)
    <3>1. run'.status # "waiting_review" /\ run'.current = NoStage
      BY <2>2 DEF Approves, Replays
    <3> QED
      BY <1>0, <3>1 DEF ReviewIsCurrent, OnlyCurrent
  <2>3. CASE Retries(r)
    <3>1. run' = [run EXCEPT !.status = "running", !.current = NoStage]
      BY <2>3 DEF Retries
    <3>2. run'.status # "waiting_review" /\ run'.current = NoStage
      BY <1>0, <3>1 DEF RunRecord
    <3> QED
      BY <1>0, <3>2 DEF ReviewIsCurrent, OnlyCurrent
  <2> QED
    BY <1>4, <2>1, <2>2, <2>3
<1>5. CASE Complete(r)
  <2>1. run' = run \/ (run'.status = "completed" /\ run'.current = NoStage)
    BY <1>0, <1>5 DEF Complete, RunRecord
  <2>2. UNCHANGED exec
    BY <1>5 DEF Complete
  <2> QED
    BY <1>0, <2>1, <2>2 DEF ReviewIsCurrent, OnlyCurrent
<1>6. CASE Mark(r)
  <2>1. run' = run /\ (run.status = "running" \/ exec' = exec)
    BY <1>6 DEF Mark
  <2> QED
    BY <2>1 DEF ReviewIsCurrent, OnlyCurrent
<1>7. CASE Resumes(r)
  <2>1. run.status = "paused" /\ run'.status = "running" /\ run'.current = run.current
    BY <1>0, <1>7 DEF Resumes, RunRecord
  <2> QED
    BY <2>1 DEF ReviewIsCurrent, OnlyCurrent
<1>8. CASE Reviews(r)
  <2>1. loop[r].stage \in Stage
    BY <1>8, AtStageHasStage DEF Reviews, Review, AtStage
  <2>2. exec'[loop[r].stage].status = "waiting_review"
    BY <1>0, <1>8, <2>1, BegunType DEF Reviews, StageStatus, RunStatus
  <2>3. run'.status = "waiting_review" /\ run'.current = loop[r].stage
    BY <1>0, <1>8 DEF Reviews, RunRecord
  <2> QED
    BY <2>1, <2>2, <2>3 DEF ReviewIsCurrent, OnlyCurrent
<1>9. CASE Begins(r)
  <2>1. PICK s \in Stage, e \in Execution : Claimed(r, s, e)
    BY <1>9 DEF Begins
  <2>2. run.status = "running" /\ run'.status = "running" /\ run'.current = s /\ Kind[s] # "checkpoint"
    BY <1>0, <1>9, <2>1 DEF Begins, Begin, At, Placed, Claimed, Claimable, RunRecord
  <2> QED
    BY <2>2 DEF ReviewIsCurrent, OnlyCurrent
<1>10. CASE Attaches(r)
  <2>1. run' = run /\ run.status \in {"running", "paused"}
    BY <1>10 DEF Attaches, Attachable
  <2> QED
    BY <2>1 DEF ReviewIsCurrent, OnlyCurrent
<1>11. CASE Finishes(r)
  <2> DEFINE s == loop[r].stage
  <2>1. /\ exec' = [exec EXCEPT ![s].status = "completed"] /\ exec[s].status = "running"
        /\ run'.status = run.status /\ run'.current \in {run.current, NoStage}
        /\ run'.current = NoStage => run.current \in {s, NoStage}
    BY <1>0, <1>11 DEF Finishes, Running, RunRecord
  <2>2. ASSUME run.status = "waiting_review" PROVE \E c \in Stage : run'.current = c /\ exec'[c].status = "waiting_review"
    <3>1. PICK c \in Stage : run.current = c /\ exec[c].status = "waiting_review"
      BY <2>2 DEF ReviewIsCurrent
    <3>2. run'.current = c /\ c # s
      BY <1>0, <2>1, <3>1
    <3>3. exec'[c] = exec[c]
      BY <1>0, <2>1, <3>2
    <3> QED
      BY <3>1, <3>2, <3>3
  <2> HIDE DEF s
  <2> QED
    BY <1>0, <2>1, <2>2 DEF ReviewIsCurrent, OnlyCurrent
<1>12. CASE Ends(r)
  <2>1. PICK status \in {"failed", "interrupted"} : EndsStage(loop[r].stage, status)
    BY <1>12 DEF Ends
  <2>2. run'.status = status /\ run'.current = loop[r].stage /\ exec[loop[r].stage].status = "running"
    BY <1>0, <2>1 DEF EndsStage, Running, RunRecord
  <2>3. ~(loop[r].stage \in Stage /\ Kind[loop[r].stage] = "checkpoint")
    BY <2>2 DEF CheckpointsRight, Calm
  <2> QED
    BY <2>2, <2>3 DEF ReviewIsCurrent, OnlyCurrent
<1> QED
  BY <1>1, <1>2, <1>3, <1>4, <1>5, <1>6, <1>7, <1>8, <1>9, <1>10, <1>11, <1>12, FileSteps DEF FileStep

LEMMA ReviewStep ==
  ASSUME TypeOK, Placed, ReviewsHold, OnlyReviewed, NextStep
  PROVE  ReviewsHold' /\ OnlyReviewed'
<1>1. CASE UNCHANGED <<run, exec, review>>
  BY <1>1 DEF ReviewsHold, OnlyReviewed, Done, Waiting
<1>2. ASSUME NEW r \in Runner, Action(r) PROVE ReviewsHold' /\ OnlyReviewed'
  <2>1. CheckpointsRight /\ ReviewIsCurrent /\ OnlyCurrent
    BY ReviewsInParts
  <2>2. CheckpointsRight' /\ ReviewIsCurrent' /\ OnlyCurrent'
    BY <1>2, <2>1, CheckpointsStep, CurrentStep
  <2> QED
    BY <2>2 DEF ReviewsHold, OnlyReviewed, CheckpointsRight, ReviewIsCurrent, OnlyCurrent, Right, Calm, Done, Waiting
<1>3. UNCHANGED vars \/ WorldStep => UNCHANGED <<run, exec, review>>
  BY WorldKeepsFile DEF vars, file
<1> QED
  BY <1>1, <1>2, <1>3, Cases

-------------------------------------------------------------------------------
(* The mutation of a stage.  How a step may change the operations a stage answers for. *)
OpsMove(r, t) ==
  \/ exec'[t].attempt = exec[t].attempt /\ exec'[t].ops \in {exec[t].ops, {}}
  \/ exec'[t].attempt = exec[t].attempt + 1 /\ exec'[t].ops = exec[t].ops
  \/ /\ exec'[t].attempt = exec[t].attempt + 1 /\ exec'[t].ops = exec[t].ops \cup {exec[t].attempt + 1}
     /\ Begin(r) /\ Claimed(r, t, exec'[t])

LEMMA OpsMoves ==
  ASSUME TypeOK, Placed, NEW r \in Runner, Action(r), NEW t \in Stage
  PROVE  OpsMove(r, t)
<1>1. exec[t] \in Execution /\ StageMove(r, t)
  BY StateTypes, StageMoves
<1>2. "ready" \in StageStatus /\ "waiting_review" \in StageStatus
  BY DEF StageStatus, RunStatus
<1>3. /\ Invalidated(exec[t]).ops = exec[t].ops /\ Invalidated(exec[t]).attempt = exec[t].attempt
      /\ Forgotten(exec[t]).ops = {} /\ Forgotten(exec[t]).attempt = exec[t].attempt
      /\ Cleared(exec[t], "ready").ops = exec[t].ops /\ Cleared(exec[t], "ready").attempt = exec[t].attempt
      /\ Begun(t, "waiting_review").ops = exec[t].ops /\ Begun(t, "waiting_review").attempt = exec[t].attempt + 1
  BY <1>1, <1>2, InvalidatedType, ForgottenType, ClearedType, BegunType
<1>4. exec'[t] = [exec[t] EXCEPT !.jobs = Append(exec[t].jobs, loop[r].job)]
        => exec'[t].ops = exec[t].ops /\ exec'[t].attempt = exec[t].attempt
  BY <1>1 DEF Execution
<1>5. Claimed(r, t, exec'[t]) => exec'[t].attempt = exec[t].attempt + 1 /\ exec'[t].ops = exec[t].ops \cup {exec[t].attempt + 1}
  BY DEF Claimed
<1> QED
  BY <1>1, <1>3, <1>4, <1>5 DEF StageMove, OpsMove, Restated

LEMMA OnceTypes ==
  ASSUME TypeOK
  PROVE  /\ \A t \in Stage : exec[t].attempt \in Nat /\ exec[t].ops \in SUBSET Nat /\ applied[t] \in SUBSET Nat
         /\ \A q \in Runner : loop[q].ex \in Execution /\ loop[q].ex.attempt \in Nat /\ loop[q].ex.ops \in SUBSET Nat
                              /\ loop[q].ex.base \in Nat
         /\ project \in Nat
BY StateTypes DEF Execution, LoopRecord

(* What an executor knows stays true while nothing is applied. *)
LEMMA KnowsStays ==
  ASSUME TypeOK, Placed, Once, NEW r \in Runner, Action(r), UNCHANGED applied, NEW t \in Stage,
         NEW e \in Execution, Knows(e, t), project' >= project, project' \in Nat
  PROVE  /\ e.attempt \in 1..exec'[t].attempt
         /\ e.attempt \in exec'[t].ops =>
              /\ \A a \in exec'[t].ops : a <= e.attempt => a \in e.ops
              /\ (\E a \in applied'[t] \cap exec'[t].ops : a > e.attempt) => project' > e.base
<1> DEFINE n == exec[t].attempt
           O == exec[t].ops
<1>0. n \in Nat /\ O \in SUBSET Nat /\ applied[t] \in SUBSET Nat /\ project \in Nat /\ e.attempt \in Nat /\ e.base \in Nat
  BY OnceTypes DEF Execution
<1>1. e.attempt \in 1..n /\ O \subseteq 1..n /\ applied[t] \subseteq 1..n
  BY DEF Knows, Once
<1>2. /\ exec'[t].attempt \in {n, n + 1}
      /\ exec'[t].ops \in {O, {}, O \cup {n + 1}}
  BY OpsMoves DEF OpsMove
<1>3. e.attempt \in exec'[t].ops => e.attempt \in O
  BY <1>0, <1>1, <1>2
<1>4. \A a \in exec'[t].ops : a <= e.attempt => a \in O
  BY <1>0, <1>1, <1>2
<1>5. \A a \in applied'[t] \cap exec'[t].ops : a \in applied[t] \cap O
  BY <1>0, <1>1, <1>2
<1>6. e.attempt \in 1..exec'[t].attempt
  BY <1>0, <1>1, <1>2
<1> QED
  BY <1>0, <1>3, <1>4, <1>5, <1>6 DEF Knows

(* So does what a stage holds. *)
LEMMA OnceStays ==
  ASSUME TypeOK, Placed, Once, NEW r \in Runner, Action(r), UNCHANGED applied
  PROVE  Once'
<1> SUFFICES ASSUME NEW t \in Stage
             PROVE  /\ exec'[t].ops \subseteq 1..exec'[t].attempt
                    /\ applied'[t] \subseteq 1..exec'[t].attempt
                    /\ \A a, b \in applied'[t] \cap exec'[t].ops : a = b
  BY DEF Once
<1> DEFINE n == exec[t].attempt
           O == exec[t].ops
<1>0. n \in Nat /\ O \in SUBSET Nat /\ applied[t] \in SUBSET Nat
  BY OnceTypes
<1>1. O \subseteq 1..n /\ applied[t] \subseteq 1..n /\ \A a, b \in applied[t] \cap O : a = b
  BY DEF Once
<1>2. \/ exec'[t].attempt = n /\ exec'[t].ops \in {O, {}}
      \/ exec'[t].attempt = n + 1 /\ exec'[t].ops \in {O, O \cup {n + 1}}
  BY OpsMoves DEF OpsMove
<1>3. n + 1 \notin applied[t]
  BY <1>0, <1>1
<1> QED
  BY <1>0, <1>1, <1>2, <1>3

(* The mutation is applied: nothing this stage answers for had been. *)
LEMMA AppliedNow ==
  ASSUME TypeOK, Placed, NoneAhead, Once, Informed, NEW r \in Runner, Work(r), ~UNCHANGED applied
  PROVE  Once' /\ \A q \in Runner : loop[q].pc = "work" /\ q # r => Knows(loop[q].ex, loop[q].stage)'
<1> DEFINE s == loop[r].stage
           e == loop[r].ex
<1>0. /\ s \in Stage /\ loop[r].pc = "work" /\ Knows(e, s)
      /\ ~Recovered(s, e) /\ project = e.base /\ project' = project + 1
      /\ applied' = [applied EXCEPT ![s] = @ \cup {e.attempt}] /\ UNCHANGED exec
  BY AtStageHasStage DEF Work, At, AtStage, Informed, file
<1>1. /\ e.attempt \in Nat /\ e.base \in Nat /\ project \in Nat
      /\ exec[s].attempt \in Nat /\ exec[s].ops \in SUBSET Nat /\ applied[s] \in SUBSET Nat
      /\ exec[s].ops \subseteq 1..exec[s].attempt /\ applied[s] \subseteq 1..exec[s].attempt
  BY <1>0, OnceTypes DEF Once
<1>2. applied'[s] = applied[s] \cup {e.attempt} /\ \A t \in Stage : t # s => applied'[t] = applied[t]
  BY <1>0, StateTypes
<1>3. e.attempt \in exec[s].ops => applied[s] \cap exec[s].ops = {}
  <2> SUFFICES ASSUME e.attempt \in exec[s].ops, NEW a \in applied[s] \cap exec[s].ops PROVE FALSE
    OBVIOUS
  <2>1. a \in Nat
    BY <1>1
  <2>2. CASE a <= e.attempt
    <3>1. a \in e.ops
      BY <1>0, <2>2 DEF Knows
    <3> QED
      BY <1>0, <3>1 DEF Recovered
  <2>3. CASE a > e.attempt
    <3>1. project > e.base
      BY <1>0, <2>3 DEF Knows
    <3> QED
      BY <1>0, <1>1, <3>1
  <2> QED
    BY <1>1, <2>1, <2>2, <2>3
<1>4. \A a, b \in applied'[s] \cap exec[s].ops : a = b
  <2>1. CASE e.attempt \in exec[s].ops
    BY <1>2, <1>3, <2>1
  <2>2. CASE e.attempt \notin exec[s].ops
    BY <1>0, <1>2, <2>2 DEF Once
  <2> QED
    BY <2>1, <2>2
<1>5. e.attempt \in 1..exec[s].attempt
  BY <1>0 DEF Knows
<1>6. Once'
  BY <1>0, <1>1, <1>2, <1>4, <1>5 DEF Once
<1>7. ASSUME NEW q \in Runner, loop[q].pc = "work", q # r PROVE Knows(loop[q].ex, loop[q].stage)'
  <2> DEFINE f == loop[q].ex
             t == loop[q].stage
  <2>0. t \in Stage /\ Knows(f, t) /\ f.attempt \in Nat /\ f.base \in Nat /\ f.base <= project /\ loop'[q] = loop[q]
    BY <1>7, OnceTypes, AllLooped DEF Placed, AtStage, Informed, NoneAhead, Looped, Stepped, Moved
  <2>1. CASE t # s
    BY <1>0, <1>1, <1>2, <2>0, <2>1 DEF Knows
  <2>2. CASE t = s
    BY <1>0, <1>1, <1>2, <2>0, <2>2 DEF Knows
  <2> QED
    BY <2>1, <2>2
<1> QED
  BY <1>6, <1>7

LEMMA WorkLeavesWork ==
  ASSUME TypeOK, Placed, NEW r \in Runner, Work(r)
  PROVE  loop'[r].pc \in {"finish", "fail"} /\ \A q \in Runner : q # r => loop'[q] = loop[q]
BY AllLooped DEF Looped, Stepped, Moved

LEMMA OtherLoops ==
  ASSUME TypeOK, Placed, NEW r \in Runner, Action(r)
  PROVE  /\ \A q \in Runner : q # r => loop'[q] = loop[q] /\ ask'[q] = ask[q] /\ up'[q] = up[q]
         /\ loop'[r].pc = "work" => loop'[r] = loop[r] \/ (Begin(r) /\ \E s \in Stage, e \in Execution : Claimed(r, s, e))
<1>1. CASE Ask(r) \/ Serve(r)
  BY <1>1, AskPlaces DEF Rested, Moved
<1>2. CASE Recover(r)
  BY <1>2, RecoverMoves DEF Recover, Rested, Moved
<1>3. CASE Begin(r)
  BY <1>3, BeginClaims DEF Rested, Claimed, Moved, Begin
<1>4. CASE Advance(r) /\ ~Begin(r)
  BY <1>4, AdvancePlaces, AllLooped DEF Advance, Looped, Rested, Stepped, Moved
<1> QED
  BY <1>1, <1>2, <1>3, <1>4 DEF Action, Advance

LEMMA OnceStep ==
  ASSUME TypeOK, Placed, NoneAhead, Once, Informed, NextStep
  PROVE  Once' /\ Informed'
<1>0. project' >= project /\ project' \in Nat
  BY ProjectGrows
<1>w. \A q \in Runner : loop[q].pc = "work" => loop[q].stage \in Stage /\ loop[q].ex \in Execution /\ Knows(loop[q].ex, loop[q].stage)
  BY OnceTypes DEF Placed, AtStage, Informed
<1>1. CASE UNCHANGED <<exec, applied, project, loop>>
  BY <1>1 DEF Once, Informed, Knows
<1>2. CASE Crash
  <2>1. \A q \in Runner : loop'[q].pc = "none"
    BY <1>2, RestType DEF Crash
  <2>2. UNCHANGED <<exec, applied>>
    BY <1>2 DEF Crash, file
  <2> QED
    BY <2>1, <2>2 DEF Once, Informed
<1>3. CASE Edit
  <2>1. project' = project + 1 /\ UNCHANGED <<exec, applied, loop>>
    BY <1>3 DEF Edit, file
  <2>2. \A q \in Runner : loop[q].pc = "work" => loop[q].ex.base \in Nat /\ project \in Nat
    BY OnceTypes
  <2> QED
    BY <2>1, <2>2 DEF Once, Informed, Knows
<1>4. ASSUME NEW r \in Runner, Action(r) PROVE Once' /\ Informed'
  <2>1. CASE UNCHANGED applied
    <3>1. Once'
      BY <1>4, <2>1, OnceStays
    <3>2. ASSUME NEW q \in Runner, loop'[q].pc = "work" PROVE Knows(loop[q].ex, loop[q].stage)'
      <4>1. CASE loop'[q] = loop[q]
        <5>1. Knows(loop[q].ex, loop[q].stage) /\ loop[q].ex \in Execution /\ loop[q].stage \in Stage
          BY <1>w, <3>2, <4>1
        <5> QED
          BY <1>0, <1>4, <2>1, <4>1, <5>1, KnowsStays DEF Knows
      <4>2. CASE loop'[q] # loop[q]
        <5>1. q = r /\ \E s \in Stage, e \in Execution : Claimed(r, s, e)
          BY <1>4, <3>2, <4>2, OtherLoops
        <5>2. PICK s \in Stage, e \in Execution : Claimed(r, s, e)
          BY <5>1
        <5>3. /\ loop'[q].ex = e /\ loop'[q].stage = s /\ exec'[s] = e /\ e.attempt = exec[s].attempt + 1
              /\ e.ops = exec[s].ops \cup {e.attempt} /\ applied' = applied
          BY <2>1, <5>1, <5>2, StateTypes DEF Claimed, Moved
        <5>4. exec[s].attempt \in Nat /\ applied[s] \subseteq 1..exec[s].attempt
          BY OnceTypes DEF Once
        <5>5. e.attempt \in 1..e.attempt /\ \A a \in applied[s] : ~(a > e.attempt)
          BY <5>3, <5>4
        <5> QED
          BY <5>3, <5>5 DEF Knows
      <4> QED
        BY <4>1, <4>2
    <3> QED
      BY <3>1, <3>2 DEF Informed
  <2>2. CASE ~UNCHANGED applied
    <3>1. Work(r)
      BY <1>4, <2>2 DEF Action, Ask, Serve, Advance, Recover, world, Start, Pause, Lookup, RetryRefresh, Cancel, Resume,
         Approve, Replay, Retry, CancelJobs, Schedule, Read, Mark, Complete, Review, LeaveReview, Begin, StartJob, AttachJob,
         Attached, Drop, Poll, Reconcile, Finish, Fail, Interrupt, Boot, Settle
    <3>2. loop'[r].pc # "work" /\ \A q \in Runner : q # r => loop'[q] = loop[q]
      BY <3>1, WorkLeavesWork
    <3>3. Once' /\ \A q \in Runner : loop[q].pc = "work" /\ q # r => Knows(loop[q].ex, loop[q].stage)'
      BY <2>2, <3>1, AppliedNow
    <3> QED
      BY <3>2, <3>3 DEF Informed
  <2> QED
    BY <2>1, <2>2
<1>5. UNCHANGED vars \/ (WorldStep /\ ~Crash /\ ~Edit) => UNCHANGED <<exec, applied, project, loop>>
  BY DEF vars, file, world, WorldStep, JobEnds
<1> QED
  BY <1>1, <1>2, <1>3, <1>4, <1>5, Cases

LEMMA AtMostOne ==
  ASSUME NEW S, \A a, b \in S : a = b
  PROVE  Cardinality(S) <= 1
<1>1. CASE S = {}
  BY <1>1, FS_EmptySet
<1>2. CASE S # {}
  <2>1. PICK a \in S : TRUE
    BY <1>2
  <2>2. S = {a}
    BY <2>1
  <2> QED
    BY <2>2, FS_Singleton
<1> QED
  BY <1>1, <1>2

-------------------------------------------------------------------------------
(* The invariant of every number of processes. *)
LEMMA InitFile == Init => FileInv
<1> SUFFICES ASSUME Init PROVE FileInv
  OBVIOUS
<1>0. Pending \in Execution /\ Rest \in LoopRecord /\ NoAsk \in AskRecord /\ Rest.pc = "none" /\ NoAsk.pc = "none"
  BY PendingType, RestType, NoAskType
<1>p. Pending.status = "pending" /\ Pending.base = 0 /\ Pending.ops = {} /\ Pending.attempt = 0
  BY DEF Pending
<1>1. TypeOK
  <2>1. run \in RunRecord
    BY DEF Init, RunRecord, RunStatus
  <2>2. job \in Seq(JobRecord) /\ \A s \in Stage : << >> \in Seq(Checkpoint)
    BY DEF Init
  <2>3. Types(run, exec, review, job, project, applied, epoch, up, loop, ask)
    BY <1>0, <2>1, <2>2 DEF Init, Types
  <2> QED
    BY <2>3, TypesAreTypeOK
<1>2. Placed
  BY <1>0 DEF Init, Placed, AtStage
<1>3. NoneAhead
  BY <1>0, <1>p, RestType, NoAskType DEF Init, NoneAhead
<1>4. Fed
  BY <1>p DEF Init, Fed
<1>5. ReviewsHold /\ OnlyReviewed
  BY <1>p, OrderAssumption DEF Init, ReviewsHold, OnlyReviewed, Done, Waiting
<1>6. Once /\ Informed
  BY <1>0, <1>p DEF Init, Once, Informed
<1> QED
  BY <1>1, <1>2, <1>3, <1>4, <1>5, <1>6 DEF FileInv

LEMMA FileStepKeeps ==
  ASSUME FileInv, [Next]_vars
  PROVE  FileInv'
<1>1. NextStep /\ TypeOK /\ Placed /\ NoneAhead /\ Fed /\ ReviewsHold /\ OnlyReviewed /\ Once /\ Informed
  BY DEF NextStep, FileInv
<1>2. TypeOK'
  BY <1>1, TypeStep
<1>3. Placed'
  BY <1>1, PlacedStep
<1>4. NoneAhead'
  BY <1>1, NoneAheadStep
<1>5. Fed'
  BY <1>1, FedStep
<1>6. ReviewsHold' /\ OnlyReviewed'
  BY <1>1, ReviewStep
<1>7. Once' /\ Informed'
  BY <1>1, OnceStep
<1> QED
  BY <1>2, <1>3, <1>4, <1>5, <1>6, <1>7 DEF FileInv

LEMMA FileInvAlways == Spec => []FileInv
BY InitFile, FileStepKeeps, PTL DEF Spec

(* Every variable keeps its type, whatever the definition of the stages. *)
THEOREM TypeCorrect == Spec => []TypeOK
<1>1. FileInv => TypeOK
  BY DEF FileInv
<1> QED
  BY <1>1, FileInvAlways, PTL

(* No stage is ready, runs or is done unless all it depends on is done, and what  *)
(* a completed stage was made from is what its dependencies have now: for any     *)
(* number of server processes, and through retries, replays, edits and crashes.  *)
THEOREM InputsStayFresh == Spec => []FreshInputs
<1>1. FileInv => FreshInputs
  BY DEF FileInv, Fed, FreshInputs, Done
<1> QED
  BY <1>1, FileInvAlways, PTL

(* The project holds the mutation of a stage at most once until it is replayed,   *)
(* however many processes and attempts compete to apply it.                      *)
THEOREM AppliedAtMostOnce == Spec => []AppliedOnce
<1>1. FileInv => AppliedOnce
  BY AtMostOne DEF FileInv, Once, AppliedOnce
<1> QED
  BY <1>1, FileInvAlways, PTL

(* A run waits for the review of its current stage, and a checkpoint has passed    *)
(* exactly while its last review is an approval: for any number of processes.     *)
THEOREM ReviewsStand == Spec => []ReviewsHold
<1>1. FileInv => ReviewsHold
  BY DEF FileInv
<1> QED
  BY <1>1, FileInvAlways, PTL

-------------------------------------------------------------------------------
(* One server process.  The jobs a stage names are there. *)
StartMove(r) ==
  LET e == loop[r].ex IN
  \/ Stepped(r, "fail") /\ UNCHANGED job
  \/ \E j \in Prior(e) : /\ Moved(r, "attach", loop[r].stage, e, j, loop[r].rev)
                         /\ \/ UNCHANGED job
                            \/ job[j].status # "active" /\ job' = [job EXCEPT ![j] = NewJob]
  \/ job' = Append(job, NewJob) /\ Moved(r, "attach", loop[r].stage, e, Len(job) + 1, loop[r].rev)

LEMMA StartMoves ==
  ASSUME TypeOK, NEW r \in Runner, StartJob(r)
  PROVE  StartMove(r)
<1> DEFINE e == loop[r].ex
<1>1. e \in Execution /\ Len(job) + 1 \in Nat /\ "attach" \in LoopPc /\ "fail" \in LoopPc
  BY StateTypes DEF LoopRecord, LoopPc, AtStage
<1>2. \A j \in Prior(e) : j \in Nat
  BY <1>1, LatestJob DEF Prior
<1>3. \A j \in Nat : Goto(r, [loop[r] EXCEPT !.pc = "attach", !.job = j]) =>
        Moved(r, "attach", loop[r].stage, e, j, loop[r].rev)
  BY <1>1, LoopFields
<1>4. Step(r, "fail") => Stepped(r, "fail")
  BY <1>1, LoopFields
<1> QED
  BY <1>1, <1>2, <1>3, <1>4 DEF StartJob, StartMove

LEMMA AttachedMoves ==
  ASSUME TypeOK, Placed, NEW r \in Runner, Attached(r)
  PROVE  \/ Rested(r, "read")
         \/ /\ exec[loop[r].stage].jobs # << >>
            /\ Moved(r, "poll", loop[r].stage, loop[r].ex, JobOf(exec[loop[r].stage]), loop[r].rev)
<1>1. loop[r].stage \in Stage /\ "poll" \in LoopPc
  BY AtStageHasStage DEF Attached, AtStage, LoopPc
<1>2. exec[loop[r].stage].jobs # << >> => JobOf(exec[loop[r].stage]) \in Nat
  BY <1>1, LatestJob, StateTypes
<1> QED
  BY <1>1, <1>2, LoopFields, RestSteps DEF Attached

JobsMove(r, t) ==
  \/ exec'[t].jobs \in {exec[t].jobs, << >>}
  \/ AttachJob(r) /\ t = loop[r].stage /\ exec'[t].jobs = Append(exec[t].jobs, loop[r].job)

LEMMA JobsMoves ==
  ASSUME TypeOK, Placed, NEW r \in Runner, Action(r), NEW t \in Stage
  PROVE  JobsMove(r, t)
<1>1. exec[t] \in Execution /\ StageMove(r, t) /\ "ready" \in StageStatus /\ "waiting_review" \in StageStatus
  BY StateTypes, StageMoves DEF StageStatus, RunStatus
<1>2. /\ Invalidated(exec[t]).jobs = exec[t].jobs /\ Forgotten(exec[t]).jobs = << >>
      /\ Cleared(exec[t], "ready").jobs = exec[t].jobs /\ Begun(t, "waiting_review").jobs = exec[t].jobs
  BY <1>1, InvalidatedType, ForgottenType, ClearedType, BegunType
<1>3. Claimed(r, t, exec'[t]) => exec'[t].jobs = exec[t].jobs
  BY DEF Claimed
<1> QED
  BY <1>1, <1>2, <1>3 DEF StageMove, JobsMove, Restated

LEMMA KnownStep ==
  ASSUME TypeOK, Placed, NoneAhead, Known, NextStep
  PROVE  Known'
<1>0. DOMAIN job \subseteq DOMAIN job'
  BY JobsStayThere DEF JobsGrow
<1>1. CASE UNCHANGED <<exec, loop>>
  BY <1>0, <1>1 DEF Known, Refs
<1>2. CASE Crash
  <2>1. UNCHANGED exec /\ \A q \in Runner : loop'[q].pc = "none"
    BY <1>2, RestType DEF Crash, file
  <2> QED
    BY <1>0, <2>1 DEF Known, Refs
<1>3. ASSUME NEW r \in Runner, Action(r) PROVE Known'
  <2>1. ASSUME NEW t \in Stage PROVE \A i \in DOMAIN exec'[t].jobs : exec'[t].jobs[i] \in DOMAIN job'
    <3>0. exec[t].jobs \in Seq(Nat) /\ \A i \in DOMAIN exec[t].jobs : exec[t].jobs[i] \in DOMAIN job
      BY StateTypes DEF Execution, Known, Refs
    <3>1. CASE exec'[t].jobs \in {exec[t].jobs, << >>}
      BY <1>0, <3>0, <3>1
    <3>2. CASE AttachJob(r) /\ exec'[t].jobs = Append(exec[t].jobs, loop[r].job)
      <4>1. loop[r].job \in DOMAIN job
        BY <3>2 DEF AttachJob, At, Known
      <4> QED
        BY <1>0, <3>0, <3>2, <4>1
    <3> QED
      BY <1>3, <3>1, <3>2, JobsMoves DEF JobsMove
  <2>2. ASSUME NEW q \in Runner, loop'[q].pc = "start" PROVE \A i \in DOMAIN loop'[q].ex.jobs : loop'[q].ex.jobs[i] \in DOMAIN job'
    <3>1. CASE loop'[q] = loop[q]
      BY <1>0, <2>2, <3>1 DEF Known, Refs
    <3>2. CASE loop'[q] # loop[q]
      <4>1. Begin(r) /\ q = r /\ \E s \in Stage, e \in Execution : Claimed(r, s, e)
        <5>1. q = r
          BY <1>3, <3>2, OtherLoops
        <5>2. ~(Ask(r) \/ Serve(r)) /\ ~Recover(r)
          BY <2>2, <3>2, <5>1, AskPlaces, RecoverMoves DEF Recover, Rested, Moved
        <5>3. Begin(r)
          BY <1>3, <2>2, <3>2, <5>1, <5>2, AllLooped DEF Action, Advance, Looped, Rested, Stepped, Moved
        <5> QED
          BY <2>2, <5>1, <5>3, BeginClaims DEF Rested, Moved
      <4>2. PICK s \in Stage, e \in Execution : Claimed(r, s, e)
        BY <4>1
      <4>3. loop'[q].ex.jobs = exec[s].jobs
        BY <4>1, <4>2 DEF Claimed, Moved
      <4> QED
        BY <1>0, <4>2, <4>3 DEF Known, Refs
    <3> QED
      BY <3>1, <3>2
  <2>3. ASSUME NEW q \in Runner, loop'[q].pc = "attach" PROVE loop'[q].job \in DOMAIN job'
    <3>1. CASE loop'[q] = loop[q]
      BY <1>0, <2>3, <3>1 DEF Known
    <3>2. CASE loop'[q] # loop[q]
      <4>1. q = r
        BY <1>3, <3>2, OtherLoops
      <4>2. ~(Ask(r) \/ Serve(r)) /\ ~Recover(r)
        BY <2>3, <3>2, <4>1, AskPlaces, RecoverMoves DEF Recover, Rested, Moved
      <4>3. ~Begin(r)
        BY <2>3, <4>1, BeginClaims DEF Rested, Claimed, Moved
      <4>4. StartJob(r)
        BY <1>3, <2>3, <3>2, <4>1, <4>2, <4>3, AllLooped DEF Action, Advance, Looped, Rested, Stepped, Moved
      <4>5. loop[r].ex \in Execution /\ Refs(loop[r].ex) /\ job \in Seq(JobRecord)
        BY <4>4, StateTypes DEF StartJob, At, Known, LoopRecord
      <4>6. \A j \in Prior(loop[r].ex) : j \in DOMAIN job
        BY <4>5, LatestJob DEF Prior, Refs
      <4>7. job' = Append(job, NewJob) => Len(job) + 1 \in DOMAIN job'
        BY <4>5
      <4> QED
        BY <1>0, <2>3, <4>1, <4>4, <4>6, <4>7, StartMoves DEF StartMove, Stepped, Moved
    <3> QED
      BY <3>1, <3>2
  <2> QED
    BY <2>1, <2>2, <2>3 DEF Known, Refs
<1>4. UNCHANGED vars \/ (WorldStep /\ ~Crash) => UNCHANGED <<exec, loop>>
  BY DEF vars, file, WorldStep, JobEnds, Edit
<1> QED
  BY <1>1, <1>2, <1>3, <1>4, Cases

-------------------------------------------------------------------------------
(* One server process, and the stage that it runs. *)
OneServer == \E r : Runner = {r}

LEMMA Alone ==
  ASSUME OneServer
  PROVE  \A p, q \in Runner : p = q
BY DEF OneServer

(* A stage runs because it did before, or because it was claimed. *)
LEMMA RunningFrom ==
  ASSUME TypeOK, Placed, NEW r \in Runner, Action(r), NEW t \in Stage, Running(t)'
  PROVE  \/ /\ Running(t) /\ exec'[t].epoch = exec[t].epoch /\ exec'[t].base = exec[t].base
            /\ exec'[t] = exec[t] \/ (AttachJob(r) /\ t = loop[r].stage)
         \/ Begin(r) /\ Claimed(r, t, exec'[t])
<1>1. exec[t] \in Execution /\ StageMove(r, t) /\ "ready" \in StageStatus /\ "waiting_review" \in StageStatus
      /\ exec'[t].status = "running"
  BY StateTypes, StageMoves DEF StageStatus, RunStatus, Running
<1>2. /\ Invalidated(exec[t]).status = "invalidated" /\ Forgotten(exec[t]).status = "invalidated"
      /\ Cleared(exec[t], "ready").status = "ready" /\ Begun(t, "waiting_review").status = "waiting_review"
  BY <1>1, InvalidatedType, ForgottenType, ClearedType, BegunType
<1>3. exec'[t] = [exec[t] EXCEPT !.jobs = Append(exec[t].jobs, loop[r].job)]
        => exec'[t].epoch = exec[t].epoch /\ exec'[t].base = exec[t].base
  BY <1>1 DEF Execution
<1> QED
  BY <1>1, <1>2, <1>3 DEF StageMove, Restated, Running, Attachable

(* While it runs, the file says that it does. *)
LEMMA RunningIsCurrent ==
  ASSUME TypeOK, Placed, OneStage, NEW r \in Runner, Action(r), NEW t \in Stage, Running(t), Running(t)'
  PROVE  run'.current = t /\ run'.status \in {"running", "paused"}
<1>0. /\ run \in RunRecord /\ run.current = t /\ run.status \in {"running", "paused"} /\ exec[t].status = "running"
      /\ loop[r].pc \notin {"mark", "complete", "review", "begin", "leave"} /\ exec'[t].status = "running"
      /\ \A s \in Stage : exec[s].status = "running" => s = t
  BY StateTypes DEF OneStage, Running, RunRecord
<1>1. ~(Start(r) \/ RetryRefresh(r) \/ Complete(r) \/ Mark(r) \/ Approves(r) \/ Replays(r) \/ Retries(r) \/ Reviews(r) \/ Begins(r))
  BY <1>0 DEF Start, RetryRefresh, MayRetry, Complete, Mark, Approves, Approvable, Replays, Replayable, Retries, Reviews, Review, Begins,
     Begin, At
<1>2. ~Finishes(r) /\ ~Ends(r)
  <2>1. Finishes(r) \/ Ends(r) => loop[r].stage = t \/ loop[r].stage \notin Stage
    BY <1>0 DEF Finishes, Ends, EndsStage, Running
  <2>2. Finishes(r) \/ Ends(r) => loop[r].stage \in Stage
    BY DEF Finishes, Ends, Finish, Fail, Interrupt, Settle, At, AtStage, Placed
  <2>3. Finishes(r) /\ loop[r].stage = t => exec'[t].status = "completed"
    BY StateTypes DEF Finishes, Execution
  <2>4. Ends(r) /\ loop[r].stage = t => exec'[t].status \in {"failed", "interrupted"}
    BY StateTypes DEF Ends, EndsStage, Execution
  <2> QED
    BY <1>0, <2>1, <2>2, <2>3, <2>4
<1>3. ~Cancel(r)
  <2>1. Cancel(r) => exec' = [exec EXCEPT ![t].status = "cancelled"]
    BY <1>0, OrderAssumption DEF Cancel, Stoppable
  <2> QED
    BY <1>0, <2>1, StateTypes DEF Execution
<1>4. Pause(r) \/ Resumes(r) => run'.current = t /\ run'.status \in {"running", "paused"}
  BY <1>0 DEF Pause, Resumes, RunRecord
<1>5. FileStep(r)
  BY FileSteps
<1>6. UNCHANGED run => run'.current = t /\ run'.status \in {"running", "paused"}
  BY <1>0
<1>7. UNCHANGED <<run, exec, review>> \/ Attaches(r) => UNCHANGED run
  BY DEF Attaches
<1> QED
  BY <1>1, <1>2, <1>3, <1>4, <1>5, <1>6, <1>7, Zenon DEF FileStep

(* Where the loop is while a stage runs. *)
AtTheStage(l, t) ==
  /\ l.pc \notin {"mark", "complete", "review", "begin", "leave"}
  /\ l.pc \in AtStage => l.stage = t

LEMMA LoopStaysThere ==
  ASSUME TypeOK, Placed, OneStage, NEW r \in Runner, Action(r), NEW t \in Stage, Running(t)
  PROVE  AtTheStage(loop'[r], t)
<1>0. /\ AtTheStage(loop[r], t) /\ exec[t].status = "running"
      /\ \A s \in Stage : exec[s].status = "running" => s = t
  BY DEF OneStage, Running, AtTheStage
<1>1. \A pc \in {"none", "read"} : Rested(r, pc) => AtTheStage(loop'[r], t)
  BY DEF Rested, Moved, AtTheStage, AtStage
<1>2. CASE Ask(r) \/ Serve(r)
  BY <1>0, <1>1, <1>2, AskPlaces
<1>3. CASE Recover(r)
  BY <1>0, <1>1, <1>3, RecoverMoves DEF Recover, Moved, AtTheStage, AtStage
<1>4. CASE Read(r)
  <2>1. With("running") # {}
    BY <1>0 DEF With
  <2> QED
    BY <1>0, <1>1, <1>4, <2>1, AllLooped DEF Looped, Moved, AtTheStage, AtStage
<1>5. ~(Mark(r) \/ Complete(r) \/ Review(r) \/ Begin(r) \/ LeaveReview(r))
  BY <1>0 DEF Mark, Complete, Review, Begin, LeaveReview, At, AtTheStage
<1>6. CASE Work(r) \/ StartJob(r) \/ AttachJob(r) \/ Attached(r) \/ Poll(r) \/ Reconcile(r)
  <2>1. loop[r].stage = t
    BY <1>0, <1>6 DEF Work, StartJob, AttachJob, Attached, Poll, Reconcile, At, AtTheStage, AtStage
  <2> QED
    BY <1>1, <1>6, <2>1, AllLooped DEF Looped, Stepped, Moved, AtTheStage, AtStage
<1>7. CASE Drop(r) \/ Finish(r) \/ Fail(r) \/ Interrupt(r)
  BY <1>1, <1>7, AllLooped DEF Looped
<1> QED
  BY <1>2, <1>3, <1>4, <1>5, <1>6, <1>7 DEF Action, Advance

(* Whether a process is up, and what its loop does meanwhile. *)
LEMMA UpMoves ==
  ASSUME TypeOK, Placed, OneStage, NEW r \in Runner, Action(r)
  PROVE  UNCHANGED epoch /\ (epoch' = 1 => up'[r] # "settle") /\ (up'[r] # "up" => loop'[r].pc = "none")
<1>0. UNCHANGED epoch
  BY DEF Action, Ask, Serve, Advance, Recover, Start, Pause, Lookup, RetryRefresh, Cancel, Resume, Approve, Replay,
     Retry, CancelJobs, Schedule, Read, Mark, Complete, Review, LeaveReview, Begin, Work, StartJob, AttachJob,
     Attached, Drop, Poll, Reconcile, Finish, Fail, Interrupt, Boot, Settle
<1>1. CASE Ask(r) \/ Serve(r)
  <2>1. up'[r] = "up"
    BY <1>1, AskPlaces DEF Ask, Serve, Asked, Start, Pause, Lookup, RetryRefresh, Cancel, Resume, Approve, Replay,
       Retry, CancelJobs, Schedule
  <2> QED
    BY <1>0, <2>1
<1>2. CASE Advance(r)
  BY <1>0, <1>2, AdvancePlaces
<1>3. CASE Recover(r)
  <2>1. \A s \in Stage : LeftByFormer(s) => epoch # 1
    BY StateTypes DEF LeftByFormer, OneStage, Running, Execution
  <2> QED
    BY <1>0, <1>3, <2>1, RecoverMoves DEF Recover, Moved
<1> QED
  BY <1>1, <1>2, <1>3 DEF Action

LEMMA OneStageStep ==
  ASSUME OneServer, TypeOK, Placed, OneStage, NextStep
  PROVE  OneStage'
<1>1. CASE UNCHANGED vars \/ (WorldStep /\ ~Crash)
  BY <1>1 DEF vars, file, WorldStep, JobEnds, Edit, OneStage, Running
<1>2. CASE Crash
  <2>1. UNCHANGED <<run, exec>> /\ epoch' = epoch + 1 /\ epoch \in Nat /\ epoch >= 1
        /\ \A q \in Runner : loop'[q].pc = "none" /\ up'[q] = "down"
    BY <1>2, RestType, StateTypes DEF Crash, file, OneStage
  <2> QED
    BY <2>1 DEF OneStage, Running, AtStage
<1>3. ASSUME NEW r \in Runner, Action(r) PROVE OneStage'
  <2>0. \A q \in Runner : q = r
    BY Alone
  <2>1. epoch' >= 1 /\ \A q \in Runner : (epoch' = 1 => up'[q] # "settle") /\ (up'[q] # "up" => loop'[q].pc = "none")
    BY <1>3, <2>0, UpMoves DEF OneStage
  <2>2. CASE \A t \in Stage : Running(t)' => Running(t) /\ exec'[t].epoch = exec[t].epoch
    <3>1. \A t \in Stage : Running(t)' => run'.current = t /\ run'.status \in {"running", "paused"} /\ exec'[t].epoch >= 1
      BY <1>3, <2>2, RunningIsCurrent DEF OneStage
    <3>2. \A t \in Stage : Running(t)' => AtTheStage(loop'[r], t)
      BY <1>3, <2>2, LoopStaysThere
    <3> QED
      BY <2>0, <2>1, <3>1, <3>2 DEF OneStage, AtTheStage, Running
  <2>3. CASE \E t \in Stage : Begin(r) /\ Claimed(r, t, exec'[t])
    <3>1. PICK t \in Stage : Begin(r) /\ Claimed(r, t, exec'[t])
      BY <2>3
    <3>2. \A s \in Stage : Running(s)' => s = t
      <4>1. \A s \in Stage : ~Running(s)
        BY <3>1 DEF Begin, At, OneStage
      <4>2. exec'= [exec EXCEPT ![t] = exec'[t]]
        BY <3>1 DEF Claimed
      <4>3. \A s \in Stage : s # t => exec'[s] = exec[s]
        BY <4>2, StateTypes
      <4> QED
        BY <4>1, <4>3 DEF Running
    <3>3. run'.current = t /\ run'.status = "running" /\ exec'[t].epoch = epoch
      BY <3>1, StateTypes DEF Claimed, Claimable
    <3>4. loop'[r].pc \in {"work", "start"} /\ loop'[r].stage = t
      BY <3>1 DEF Claimed, Moved
    <3>5. \A s \in Stage : Running(s)' => run'.current = s /\ run'.status \in {"running", "paused"} /\ exec'[s].epoch >= 1
                                          /\ AtTheStage(loop'[r], s)
      BY <3>2, <3>3, <3>4 DEF OneStage, AtTheStage
    <3> QED
      BY <2>0, <2>1, <3>5 DEF OneStage, AtTheStage, Running
  <2> QED
    BY <1>3, <2>2, <2>3, RunningFrom
<1> QED
  BY <1>1, <1>2, <1>3, Cases

(* A render that is about to finish has seen what it shows. *)
AwaitedBy(l, s) ==
  /\ l.pc \in {"poll", "reconcile"} => exec[s].jobs # << >> /\ l.job = JobOf(exec[s])
  /\ l.pc = "finish" /\ Kind[s] = "job" => exec[s].jobs # << >> /\ job[JobOf(exec[s])].rev >= exec[s].base
  /\ l.pc = "start" => exec[s].jobs = l.ex.jobs
  /\ l.pc = "attach" /\ l.job \in JobsOf(exec[s]) => l.job = JobOf(exec[s])

ShowsIt(e, J) == e.jobs # << >> /\ J[JobOf(e)].rev >= e.base

LEMMA ShownStays ==
  ASSUME TypeOK, Placed, NoneAhead, Known, NextStep, NEW t \in Stage, ShowsIt(exec[t], job),
         exec'[t].jobs = exec[t].jobs, exec'[t].base = exec[t].base, TypeOK'
  PROVE  ShowsIt(exec'[t], job')
<1> DEFINE j == JobOf(exec[t])
<1>1. exec[t] \in Execution /\ exec[t].jobs # << >> /\ job[j].rev >= exec[t].base /\ exec[t].base \in Nat
  BY StateTypes DEF ShowsIt, Execution
<1>2. j \in DOMAIN job
  BY <1>1, LatestJob DEF Known, Refs
<1>5. JobOf(exec'[t]) = j
  BY DEF JobOf
<1> HIDE DEF j
<1>3. job[j].rev \in Nat /\ job'[j].rev >= job[j].rev
  <2>1. \A i \in DOMAIN job : job[i] \in JobRecord
    BY StateTypes
  <2> QED
    BY <1>2, <2>1, JobsStayThere DEF JobsGrow, JobRecord
<1>4. job'[j].rev \in Nat
  <2>0. job' \in Seq(JobRecord)
    BY DEF TypeOK, JobRecord
  <2>1. \A i \in DOMAIN job' : job'[i] \in JobRecord
    BY <2>0
  <2>2. j \in DOMAIN job'
    BY <1>2, JobsStayThere DEF JobsGrow
  <2> QED
    BY <2>1, <2>2 DEF JobRecord
<1> QED
  BY <1>1, <1>3, <1>4, <1>5 DEF ShowsIt

LEMMA AwaitedStays ==
  ASSUME TypeOK, TypeOK', Placed, NoneAhead, Known, NextStep, NEW r \in Runner, NEW t \in Stage,
         AwaitedBy(loop[r], t), loop'[r] = loop[r], exec'[t] = exec[t]
  PROVE  AwaitedBy(loop[r], t)'
BY ShownStays DEF AwaitedBy, ShowsIt, JobOf, JobsOf

LEMMA OnlyThoseStep ==
  ASSUME TypeOK, Placed, OnlyThose, NextStep
  PROVE  OnlyThose'
<1>1. CASE UNCHANGED exec
  BY <1>1 DEF OnlyThose
<1>2. ASSUME NEW r \in Runner, Action(r), NEW t \in Stage, exec'[t].status = "waiting_review"
      PROVE  Kind[t] = "checkpoint"
  <2>1. exec[t] \in Execution /\ StageMove(r, t) /\ "ready" \in StageStatus
    BY <1>2, StateTypes, StageMoves DEF StageStatus, RunStatus
  <2>2. /\ Invalidated(exec[t]).status = "invalidated" /\ Forgotten(exec[t]).status = "invalidated"
        /\ Cleared(exec[t], "ready").status = "ready"
    BY <2>1, InvalidatedType, ForgottenType, ClearedType
  <2>3. exec'[t] = [exec[t] EXCEPT !.jobs = Append(exec[t].jobs, loop[r].job)] => exec'[t].status = exec[t].status
    BY <2>1 DEF Execution
  <2>4. Review(r) /\ t = loop[r].stage => Kind[t] = "checkpoint"
    BY DEF Review, At, Placed
  <2> QED
    BY <1>2, <2>1, <2>2, <2>3, <2>4 DEF StageMove, Restated, OnlyThose, Claimed
<1> QED
  BY <1>1, <1>2, WorldKeepsFile, Cases DEF OnlyThose, vars, file

LEMMA ShownStep ==
  ASSUME TypeOK, TypeOK', Placed, NoneAhead, Known, OneStage, Awaits, OnlyThose, Shown, NextStep
  PROVE  Shown'
<1> SUFFICES ASSUME NEW t \in Stage, exec'[t].status = "completed", Kind[t] = "job"
             PROVE  ShowsIt(exec'[t], job')
  BY DEF Shown, Done, ShowsIt
<1>1. CASE exec'[t].status = exec[t].status /\ exec'[t].jobs = exec[t].jobs /\ exec'[t].base = exec[t].base
  BY <1>1, ShownStays DEF Shown, Done, ShowsIt
<1>2. ASSUME NEW r \in Runner, Action(r)
      PROVE  exec'[t] = exec[t] \/ (Finish(r) /\ Running(t) /\ t = loop[r].stage /\ Restated(t, "completed"))
  <2>1. exec[t] \in Execution /\ StageMove(r, t) /\ "ready" \in StageStatus /\ "waiting_review" \in StageStatus
    BY <1>2, StateTypes, StageMoves DEF StageStatus, RunStatus
  <2>2. /\ Invalidated(exec[t]).status = "invalidated" /\ Forgotten(exec[t]).status = "invalidated"
        /\ Cleared(exec[t], "ready").status = "ready" /\ Begun(t, "waiting_review").status = "waiting_review"
    BY <2>1, InvalidatedType, ForgottenType, ClearedType, BegunType
  <2>3. exec'[t] = [exec[t] EXCEPT !.jobs = Append(exec[t].jobs, loop[r].job)] => exec'[t].status = exec[t].status
    BY <2>1 DEF Execution
  <2>4. exec[t].status # "waiting_review"
    BY DEF OnlyThose
  <2> QED
    BY <2>1, <2>2, <2>3, <2>4 DEF StageMove, Restated, Claimed, Attachable
<1>3. ASSUME NEW r \in Runner, Finish(r), Running(t), t = loop[r].stage, Restated(t, "completed")
      PROVE  ShowsIt(exec'[t], job')
  <2>1. ShowsIt(exec[t], job)
    BY <1>3 DEF Finish, At, AtStage, Awaits, ShowsIt
  <2> QED
    BY <1>3, <2>1, ShownStays DEF Restated
<1>4. UNCHANGED vars \/ WorldStep => exec'[t] = exec[t]
  BY WorldKeepsFile DEF vars, file
<1> QED
  BY <1>1, <1>2, <1>3, <1>4, Cases

LEMMA AwaitsStep ==
  ASSUME OneServer, TypeOK, TypeOK', Placed, Placed', NoneAhead, Known, OneStage, OneStage', Awaits, NextStep
  PROVE  Awaits'
<1> DEFINE Good(r) == \A t \in Stage : loop'[r].pc \in AtStage /\ Running(t)' /\ loop'[r].stage = t => AwaitedBy(loop[r], t)'
<1>0. (\A r \in Runner : Good(r)) => Awaits'
  BY DEF Placed, Awaits, AwaitedBy
<1>1. \A r \in Runner, t \in Stage : loop[r].pc \in AtStage /\ Running(t) /\ loop[r].stage = t => AwaitedBy(loop[r], t)
  BY DEF Awaits, AwaitedBy
<1>2. CASE UNCHANGED vars \/ (WorldStep /\ ~Crash)
  <2>1. UNCHANGED <<exec, loop>>
    BY <1>2 DEF vars, file, WorldStep, JobEnds, Edit
  <2> QED
    BY <1>0, <1>1, <2>1, AwaitedStays DEF Running
<1>3. CASE Crash
  <2>1. \A r \in Runner : loop'[r].pc = "none"
    BY <1>3, RestType DEF Crash
  <2> QED
    BY <1>0, <2>1 DEF AtStage
<1>4. ASSUME NEW r \in Runner, Action(r) PROVE Awaits'
  <2> SUFFICES ASSUME NEW t \in Stage, loop'[r].pc \in AtStage, Running(t)', loop'[r].stage = t
               PROVE  AwaitedBy(loop[r], t)'
    BY <1>0, Alone
  <2>0. loop'[r].pc \notin {"mark", "complete", "review", "begin", "leave", "none", "read"}
    BY DEF OneStage, AtStage
  <2>1. CASE Begin(r)
    <3>1. PICK s \in Stage, e \in Execution : Claimed(r, s, e)
      BY <2>0, <2>1, BeginClaims DEF Rested, Moved
    <3>2. s = t /\ loop'[r].pc \in {"work", "start"} /\ loop'[r].ex = e /\ exec' = [exec EXCEPT ![s] = e]
      BY <3>1 DEF Claimed, Moved
    <3>3. exec'[t] = e
      BY <3>2, StateTypes
    <3> QED
      BY <3>2, <3>3 DEF AwaitedBy
  <2>2. CASE ~Begin(r)
    <3>0. Running(t) /\ (exec'[t] = exec[t] \/ (AttachJob(r) /\ t = loop[r].stage))
      BY <1>4, <2>2, RunningFrom
    <3>1. CASE UNCHANGED loop
      <4>1. exec'[t] = exec[t]
        <5>1. AttachJob(r) => loop'[r].pc # loop[r].pc
          BY AllLooped DEF Looped, Stepped, Moved, AttachJob, At
        <5> QED
          BY <3>0, <3>1, <5>1
      <4> QED
        BY <1>1, <3>0, <3>1, <4>1, AwaitedStays
    <3>2. CASE Read(r)
      <4>1. loop'[r].pc = "poll" /\ exec[t].jobs # << >> /\ loop'[r].job = JobOf(exec[t]) /\ UNCHANGED exec
        BY <2>0, <3>2, AllLooped DEF Looped, Rested, Moved, Read, file
      <4> QED
        BY <4>1 DEF AwaitedBy
    <3>3. CASE Work(r)
      <4>1. loop'[r].pc \in {"finish", "fail"} /\ Kind[t] = "work"
        BY <3>3, AllLooped, ZenonT(40) DEF Looped, Stepped, Moved, Work, At, Placed
      <4> QED
        BY <4>1 DEF AwaitedBy
    <3>4. CASE StartJob(r)
      <4>1. loop[r].pc = "start" /\ loop[r].stage = t /\ UNCHANGED exec
        BY <3>4, StartMoves DEF StartMove, Stepped, Moved, StartJob, At, file
      <4>2. exec[t].jobs = loop[r].ex.jobs /\ exec[t] \in Execution /\ loop[r].ex \in Execution
        BY <1>1, <3>0, <4>1, StateTypes DEF AwaitedBy, AtStage, LoopRecord
      <4>3. JobOf(exec[t]) = JobOf(loop[r].ex)
        BY <4>2 DEF JobOf
      <4>4. Len(job) + 1 \notin JobsOf(exec[t])
        <5>1. job \in Seq(JobRecord) /\ Refs(exec[t])
          BY StateTypes DEF Known
        <5>2. Len(job) + 1 \notin DOMAIN job
          BY <5>1
        <5> QED
          BY <5>1, <5>2 DEF JobsOf, Refs
      <4>5. loop'[r].pc \in {"fail", "attach"}
        BY <3>4, StartMoves DEF StartMove, Stepped, Moved
      <4>6. loop'[r].pc = "attach" => loop'[r].job = JobOf(exec[t]) \/ loop'[r].job = Len(job) + 1
        BY <3>4, <4>3, StartMoves DEF StartMove, Stepped, Moved, Prior
      <4> QED
        BY <4>1, <4>4, <4>5, <4>6 DEF AwaitedBy
    <3>5. CASE AttachJob(r)
      <4>1. loop'[r].pc \in {"attached", "drop"}
        BY <3>5, AllLooped DEF Looped, Stepped, Moved
      <4> QED
        BY <4>1 DEF AwaitedBy
    <3>6. CASE Attached(r)
      <4>1. loop'[r].pc = "poll" /\ exec[t].jobs # << >> /\ loop'[r].job = JobOf(exec[t]) /\ UNCHANGED exec
        BY <2>0, <3>6, AttachedMoves DEF Rested, Moved, Attached, file
      <4> QED
        BY <4>1 DEF AwaitedBy
    <3>7. CASE Poll(r)
      <4>1. /\ loop'[r].pc \in {"reconcile", "interrupt", "fail"} /\ loop'[r].job = loop[r].job /\ UNCHANGED exec
            /\ loop[r].stage = t /\ loop[r].pc = "poll"
        BY <2>0, <3>7, AllLooped DEF Looped, Rested, Stepped, Moved, Poll, file, At
      <4>2. exec[t].jobs # << >> /\ loop[r].job = JobOf(exec[t])
        BY <1>1, <3>0, <4>1 DEF AwaitedBy, AtStage
      <4> QED
        BY <4>1, <4>2 DEF AwaitedBy
    <3>8. CASE Reconcile(r)
      <4>1. /\ loop'[r].pc \in {"finish", "fail"} /\ UNCHANGED <<exec, job>>
            /\ loop[r].stage = t /\ loop[r].pc = "reconcile"
        BY <2>0, <3>8, AllLooped DEF Looped, Rested, Stepped, Moved, Reconcile, file, world, At
      <4>2. exec[t].jobs # << >> /\ loop[r].job = JobOf(exec[t])
        BY <1>1, <3>0, <4>1 DEF AwaitedBy, AtStage
      <4>3. loop'[r].pc = "finish" => job[loop[r].job].rev = project
        <5>1. Rested(r, "read") \/ Stepped(r, "fail") => loop'[r].pc # "finish"
          BY DEF Rested, Stepped, Moved
        <5>2. Look(r) \/ Step(r, "fail") => Rested(r, "read") \/ Stepped(r, "fail")
          BY RestSteps, LoopFields DEF LoopPc, AtStage
        <5> QED
          BY <3>8, <5>1, <5>2 DEF Reconcile, Current
      <4>4. exec[t].base <= project /\ exec[t].base \in Nat /\ project \in Nat
        BY StateTypes DEF NoneAhead, Execution
      <4>5. loop'[r].pc = "finish" => job[JobOf(exec[t])].rev >= exec[t].base
        BY <4>2, <4>3, <4>4
      <4> QED
        BY <4>1, <4>2, <4>5 DEF AwaitedBy
    <3>9. CASE Mark(r) \/ Complete(r) \/ Review(r) \/ LeaveReview(r) \/ Drop(r) \/ Finish(r) \/ Fail(r) \/ Interrupt(r)
      BY <2>0, <3>9, AllLooped DEF Looped, Rested, Moved
    <3>10. CASE Ask(r) \/ Serve(r)
      BY <2>0, <3>1, <3>10, AskPlaces DEF Rested, Moved
    <3>11. CASE Recover(r)
      BY <2>0, <3>1, <3>11, RecoverMoves DEF Recover, Rested, Moved
    <3> QED
      BY <1>4, <2>2, <3>1, <3>2, <3>3, <3>4, <3>5, <3>6, <3>7, <3>8, <3>9, <3>10, <3>11 DEF Action, Advance
  <2> QED
    BY <2>1, <2>2
<1> QED
  BY <1>2, <1>3, <1>4, Cases

(* A job that goes on uncancelled is not among those just cancelled.              *)
LEMMA SparedFrom ==
  ASSUME TypeOK, NEW J, job' = JobsCancelled(J), NEW j \in DOMAIN job', Live(j)'
  PROVE  j \in DOMAIN job /\ Live(j) /\ j \notin J
BY JobsCancelledType DEF Live

(* It went on before, or a render has just started it. *)
LEMMA LiveFrom ==
  ASSUME TypeOK, Placed, NextStep, UNCHANGED epoch, NEW j \in DOMAIN job', Live(j)'
  PROVE  \/ j \in DOMAIN job /\ Live(j)
         \/ \E r \in Runner : StartJob(r) /\ loop'[r].pc = "attach" /\ loop'[r].job = j
<1>0. job \in Seq(JobRecord) /\ epoch \in Nat
  BY StateTypes
<1>1. CASE UNCHANGED job
  BY <1>1 DEF Live
<1>2. ASSUME NEW r \in Runner, CancelJobs(r) \/ Drop(r) PROVE j \in DOMAIN job /\ Live(j)
  BY <1>2, SparedFrom DEF CancelJobs, Drop
<1>3. ASSUME NEW r \in Runner, StartJob(r), ~UNCHANGED job, ~(loop'[r].pc = "attach" /\ loop'[r].job = j)
      PROVE  j \in DOMAIN job /\ Live(j)
  <2>1. CASE job' = Append(job, NewJob) /\ loop'[r].job = Len(job) + 1
    <3>1. j \in 1..(Len(job) + 1) /\ Len(job) \in Nat /\ DOMAIN job = 1..Len(job)
      BY <1>0, <2>1
    <3>2. j # Len(job) + 1
      BY <1>3, <2>1, StartMoves DEF StartMove, Stepped, Moved
    <3>3. j \in DOMAIN job /\ job'[j] = job[j]
      BY <1>0, <2>1, <3>1, <3>2
    <3> QED
      BY <3>3 DEF Live
  <2>2. CASE \E k \in Prior(loop[r].ex) : loop'[r].pc = "attach" /\ loop'[r].job = k /\ job' = [job EXCEPT ![k] = NewJob]
    BY <1>0, <1>3, <2>2 DEF Live
  <2> QED
    BY <1>3, <2>1, <2>2, StartMoves DEF StartMove, Moved
<1>4. ~Crash
  BY <1>0 DEF Crash
<1>5. ASSUME NEW i \in DOMAIN job, JobEnds(i) PROVE j \in DOMAIN job /\ Live(j)
  <2>1. PICK status \in Ended, rev \in job[i].rev..project :
          job' = [job EXCEPT ![i].status = status, ![i].rev = IF status = "completed" THEN rev ELSE @]
    BY <1>5 DEF JobEnds, Ended
  <2> DEFINE w == [job[i] EXCEPT !.status = status, !.rev = IF status = "completed" THEN rev ELSE job[i].rev]
  <2>2. job' = [job EXCEPT ![i] = w]
    BY <2>1
  <2>3. w.status # "active"
    BY <1>0, <2>1 DEF Ended, JobRecord
  <2> HIDE DEF w
  <2> QED
    BY <1>0, <2>2, <2>3 DEF Live
<1> QED
  BY <1>1, <1>2, <1>3, <1>4, <1>5, Cases, ZenonT(40) DEF Action, WorldStep, Ask, Serve, Advance, Recover, vars, file, world,
     Start, Pause, Lookup, RetryRefresh, Cancel, Resume, Approve, Replay, Retry, Schedule,
     Read, Mark, Complete, Review, LeaveReview, Begin, Work, AttachJob, Attached, Poll, Reconcile,
     Finish, Fail, Interrupt, Boot, Settle, Edit

LEMMA AppendedLast ==
  ASSUME NEW q \in Seq(Nat), NEW j \in Nat
  PROVE  Append(q, j) # << >> /\ Latest(Append(q, j)) = j
<1>1. Len(Append(q, j)) = Len(q) + 1 /\ Append(q, j)[Len(q) + 1] = j /\ Len(q) \in Nat
  OBVIOUS
<1> QED
  BY <1>1 DEF Latest

(* The first way to pursue a job: a loop is about to attach or to drop it. *)
LEMMA PursuedByLoop ==
  ASSUME TypeOK, Placed, OneStage, Awaits, NEW r \in Runner, Action(r), NEW j \in DOMAIN job', Live(j)',
         loop[r].pc \in {"attach", "drop"}, loop[r].job = j
  PROVE  Pursued(j, r)'
<1>1. CASE UNCHANGED loop
  BY <1>1 DEF Pursued
<1>2. CASE Ask(r) \/ Serve(r)
  <2>1. CASE Schedule(r)
    <3>1. loop' = [loop EXCEPT ![r] = loop[r]]
      BY <2>1 DEF Schedule
    <3> QED
      BY <1>1, <3>1, StateTypes
  <2> QED
    BY <1>1, <1>2, <2>1, AskPlaces
<1>3. ~Recover(r)
  BY DEF Recover, Boot, Settle, OneStage
<1>4. CASE AttachJob(r)
  <2> DEFINE s == loop[r].stage
  <2>0. s \in Stage /\ loop[r].pc = "attach" /\ exec \in [Stage -> Execution] /\ exec[s].jobs \in Seq(Nat) /\ j \in Nat
    BY <1>4, StateTypes DEF AttachJob, At, Placed, AtStage, Execution, LoopRecord
  <2>1. CASE Attachable(s)
    <3>1. Running(s)
      BY <2>1 DEF Attachable, Running
    <3>2. loop'[r].pc = "attached"
      <4>1. Step(r, "attached") /\ "attached" \in LoopPc
        BY <1>4, <2>1 DEF AttachJob, LoopPc, AtStage
      <4> QED
        BY <4>1, LoopFields DEF Stepped, Moved
    <3>3. CASE \E i \in DOMAIN exec[s].jobs : exec[s].jobs[i] = j
      <4>1. UNCHANGED exec
        BY <1>4, <2>1, <3>3 DEF AttachJob
      <4>2. exec[s].jobs # << >>
        BY <2>0, <3>3
      <4>3. j = JobOf(exec[s])
        BY <2>0, <3>1, <3>3 DEF Awaits, AtStage, JobsOf
      <4> QED
        BY <2>0, <3>1, <3>2, <4>1, <4>2, <4>3 DEF Pursued, Running, JobOf
    <3>4. CASE ~\E i \in DOMAIN exec[s].jobs : exec[s].jobs[i] = j
      <4>1. exec' = [exec EXCEPT ![s].jobs = Append(exec[s].jobs, j)]
        BY <1>4, <2>1, <3>4 DEF AttachJob
      <4>2. exec'[s].jobs = Append(exec[s].jobs, j) /\ exec'[s].status = exec[s].status
        BY <2>0, <4>1 DEF Execution
      <4>3. exec'[s].jobs # << >> /\ Latest(exec'[s].jobs) = j
        BY <2>0, <4>2, AppendedLast
      <4> QED
        BY <2>0, <3>1, <3>2, <4>2, <4>3 DEF Pursued, Running, JobOf
    <3> QED
      BY <3>3, <3>4
  <2>2. CASE ~Attachable(s)
    <3>1. Step(r, "drop") /\ "drop" \in LoopPc
      BY <1>4, <2>2 DEF AttachJob, LoopPc, AtStage
    <3>2. loop'[r].pc = "drop" /\ loop'[r].job = j
      BY <3>1, LoopFields DEF Stepped, Moved
    <3> QED
      BY <3>2 DEF Pursued
  <2> QED
    BY <2>1, <2>2
<1>5. ~Drop(r)
  BY SparedFrom DEF Drop
<1>6. ~(Advance(r) /\ ~AttachJob(r) /\ ~Drop(r))
  BY DEF Advance, At, Read, Mark, Complete, Review, LeaveReview, Begin, Work, StartJob, Attached,
     Poll, Reconcile, Finish, Fail, Interrupt
<1> QED
  BY <1>2, <1>3, <1>4, <1>5, <1>6 DEF Action

(* The second: a cancel is about to reach it. *)
LEMMA PursuedByCancel ==
  ASSUME TypeOK, Placed, NEW r \in Runner, Action(r), NEW j \in DOMAIN job', Live(j)',
         ask[r].pc = "cancelJobs", j \in ask[r].jobs
  PROVE  Pursued(j, r)'
<1>1. ~(Ask(r) \/ Serve(r))
  BY SparedFrom DEF Ask, Serve, Asked, Start, Pause, Lookup, RetryRefresh, Cancel, Resume, Approve, Replay, Retry, CancelJobs, Schedule
<1>2. UNCHANGED ask
  BY <1>1, AdvancePlaces, RecoverMoves DEF Action
<1> QED
  BY <1>2 DEF Pursued

(* The third: its stage runs, and the loop is on its way to wait for it. *)
LEMMA PursuedByStage ==
  ASSUME TypeOK, Placed, OneStage, Awaits, epoch = 1, NEW r \in Runner, Action(r), NEW j \in DOMAIN job, Live(j),
         loop[r].pc \in {"none", "read", "attached", "poll"}, NEW s \in Stage, Running(s), exec[s].jobs # << >>,
         j = JobOf(exec[s])
  PROVE  Pursued(j, r)'
<1>0. /\ exec[s] \in Execution /\ exec[s].status = "running" /\ run.current = s /\ s # NoStage
      /\ loop[r].pc \in AtStage => loop[r].stage = s
  BY StateTypes, OrderAssumption DEF OneStage, Running
<1>1. CASE exec'[s] = exec[s] /\ loop'[r].pc \in {"none", "read", "attached", "poll"}
  BY <1>0, <1>1 DEF Pursued, Running
<1>2. CASE Cancel(r)
  <2>1. ask'[r].pc = "cancelJobs" /\ ask'[r].jobs = JobsOf(exec[s])
    BY <1>0, <1>2, AllAsking DEF Asking, Asks
  <2>2. j \in JobsOf(exec[s])
    BY <1>0, LatestJob DEF JobsOf
  <2> QED
    BY <2>1, <2>2 DEF Pursued
<1>3. CASE (Ask(r) \/ Serve(r)) /\ ~Cancel(r)
  <2>1. exec'[s] = exec[s]
    <3>1. run.status \in {"running", "paused"}
      BY DEF OneStage
    <3>2. CASE Resume(r)
      BY <1>0, <3>2 DEF Resume, Refuse, Refreshed, file
    <3>3. Approve(r) \/ Replay(r) \/ Retry(r) => UNCHANGED exec
      BY <3>1 DEF Approve, Approvable, Replay, Replayable, Retry, MayRetry, Refuse, file
    <3> QED
      BY <1>3, <3>2, <3>3 DEF Ask, Serve, Start, Pause, Lookup, RetryRefresh, CancelJobs, Schedule, file
  <2>2. loop'[r].pc \in {"none", "read", "attached", "poll"}
    BY <1>3, AskPlaces DEF Rested, Moved
  <2> QED
    BY <1>1, <2>1, <2>2
<1>4. CASE Recover(r)
  <2>1. ~Settle(r)
    BY DEF Settle, OneStage
  <2>2. up'[r] # "settle"
    BY <1>4, UpMoves DEF Action
  <2>3. loop'[r].pc \in {"none", "read", "attached", "poll"} /\ UNCHANGED exec
    BY <1>4, <2>1, <2>2, RecoverMoves DEF Recover, Rested, Moved, Boot, file
  <2> QED
    BY <1>1, <2>3
<1>5. CASE Read(r) \/ Attached(r)
  <2>1. With("running") # {}
    BY <1>0 DEF With
  <2>2. loop'[r].pc \in {"none", "read", "attached", "poll"} /\ UNCHANGED exec
    BY <1>5, <2>1, AllLooped DEF Looped, Rested, Moved, Read, Attached, file
  <2> QED
    BY <1>1, <2>2
<1>6. CASE Poll(r)
  <2>1. loop[r].job = j
    BY <1>0, <1>6 DEF Poll, At, AtStage, Awaits
  <2>2. Look(r) /\ UNCHANGED exec
    BY <1>6, <2>1 DEF Poll, Live, Ended, file
  <2>3. loop'[r].pc = "read"
    BY <2>2, RestSteps DEF Rested, Moved
  <2> QED
    BY <1>1, <2>2, <2>3
<1>7. ~(Advance(r) /\ ~Read(r) /\ ~Attached(r) /\ ~Poll(r))
  BY DEF Advance, At, Mark, Complete, Review, LeaveReview, Begin, Work, StartJob, AttachJob, Drop,
     Reconcile, Finish, Fail, Interrupt
<1> QED
  BY <1>2, <1>3, <1>4, <1>5, <1>6, <1>7 DEF Action

LEMMA TendedStep ==
  ASSUME OneServer, TypeOK, Placed, OneStage, Awaits, Tended, NextStep
  PROVE  Tended'
<1> SUFFICES ASSUME epoch' = 1, NEW q \in Runner, NEW j \in DOMAIN job', Live(j)'
             PROVE  Pursued(j, q)'
  BY DEF Tended
<1>1. epoch = 1 /\ ~Crash
  <2>1. epoch \in Nat /\ epoch >= 1
    BY StateTypes DEF OneStage
  <2>2. ~Crash
    BY <2>1 DEF Crash
  <2>3. UNCHANGED vars \/ JobEnds(j) \/ Edit => UNCHANGED epoch
    BY DEF vars, JobEnds, Edit
  <2>4. (\E i \in DOMAIN job : JobEnds(i)) => UNCHANGED epoch
    BY DEF JobEnds
  <2> QED
    BY <2>2, <2>3, <2>4, Cases, UpMoves DEF WorldStep
<1>2. CASE \E r \in Runner : StartJob(r) /\ loop'[r].pc = "attach" /\ loop'[r].job = j
  BY <1>2, Alone DEF Pursued
<1>3. CASE j \in DOMAIN job /\ Live(j)
  <2>1. Pursued(j, q)
    BY <1>1, <1>3 DEF Tended
  <2>2. CASE UNCHANGED vars \/ WorldStep
    <3>1. UNCHANGED <<loop, ask, exec>>
      BY <1>1, <2>2 DEF vars, file, WorldStep, JobEnds, Edit
    <3> QED
      BY <2>1, <3>1 DEF Pursued, Running
  <2>3. ASSUME NEW r \in Runner, Action(r) PROVE Pursued(j, q)'
    <3>1. q = r
      BY Alone
    <3> QED
      BY <1>1, <1>3, <2>1, <2>3, <3>1, PursuedByLoop, PursuedByCancel, PursuedByStage DEF Pursued
  <2> QED
    BY <2>2, <2>3, Cases
<1>4. UNCHANGED epoch
  BY <1>1
<1> QED
  BY <1>2, <1>3, <1>4, LiveFrom

-------------------------------------------------------------------------------
(* What one server process guarantees. *)
ServedInv == FileInv /\ OneServerInv

LEMMA InitServed == Init => ServedInv
<1> SUFFICES ASSUME Init PROVE ServedInv
  OBVIOUS
<1>1. FileInv
  BY InitFile
<1>2. \A r \in Runner : loop[r].pc = "none" /\ up[r] = "down"
  BY RestType DEF Init
<1>3. \A s \in Stage : exec[s].status = "pending" /\ exec[s].jobs = << >>
  BY PendingType DEF Init
<1>4. job = << >> /\ epoch = 1
  BY DEF Init
<1>5. Known
  BY <1>2, <1>3 DEF Known, Refs
<1>6. OneStage /\ Awaits /\ OnlyThose /\ Shown /\ Tended
  BY <1>2, <1>3, <1>4 DEF OneStage, Awaits, OnlyThose, Shown, Tended, Running, Done, AtStage
<1> QED
  BY <1>1, <1>5, <1>6 DEF ServedInv, OneServerInv

LEMMA ServedStepKeeps ==
  ASSUME OneServer, ServedInv, [Next]_vars
  PROVE  ServedInv'
<1>1. FileInv' /\ NextStep
  BY FileStepKeeps DEF ServedInv, NextStep
<1>2. TypeOK /\ Placed /\ NoneAhead /\ Known /\ OneStage /\ Awaits /\ OnlyThose /\ Shown /\ Tended
  BY DEF ServedInv, FileInv, OneServerInv
<1>3. TypeOK' /\ Placed'
  BY <1>1 DEF FileInv
<1>4. Known'
  BY <1>1, <1>2, KnownStep
<1>5. OneStage'
  BY <1>1, <1>2, OneStageStep
<1>6. Awaits' /\ OnlyThose' /\ Shown' /\ Tended'
  BY <1>1, <1>2, <1>3, <1>5, AwaitsStep, OnlyThoseStep, ShownStep, TendedStep
<1> QED
  BY <1>1, <1>4, <1>5, <1>6 DEF ServedInv, OneServerInv

LEMMA ServedInvAlways ==
  ASSUME OneServer
  PROVE  Spec => []ServedInv
<1>1. ServedInv /\ [Next]_vars => ServedInv'
  BY ServedStepKeeps
<1> QED
  BY <1>1, InitServed, PTL DEF Spec

(* What a completed render shows is a project no older than the one its stage     *)
(* began with, whichever attempt started the job, and through retries, replays,  *)
(* cancels and crashes: when one server process works on the run.                *)
THEOREM RenderStaysFresh ==
  ASSUME OneServer
  PROVE  Spec => []RenderIsFresh
<1>1. ServedInv => RenderIsFresh
  BY DEF ServedInv, OneServerInv, Shown, RenderIsFresh, JobOf
<1> QED
  BY <1>1, ServedInvAlways, PTL

(* Reviews stand; and when a cancelled run has come to rest no job of it goes on   *)
(* uncancelled, attached to its stage or not.                                    *)
THEOREM DecisionsAlwaysStand ==
  ASSUME OneServer
  PROVE  Spec => []DecisionsStand
<1>1. ServedInv => DecisionsStand
  <2> SUFFICES ASSUME ServedInv PROVE ReviewsHold /\ CancelReachesJobs
    BY DEF DecisionsStand
  <2>1. ReviewsHold
    BY DEF ServedInv, FileInv
  <2>2. CancelReachesJobs
    <3> SUFFICES ASSUME epoch = 1, run.status = "cancelled",
                        \A r \in Runner : up[r] = "up" /\ loop[r].pc = "none" /\ ask[r].pc = "none",
                        NEW j \in DOMAIN job, job[j].status = "active", ~job[j].cancel
                 PROVE  FALSE
      BY DEF CancelReachesJobs
    <3>1. PICK r : r \in Runner
      BY DEF OneServer
    <3>2. Pursued(j, r)
      BY <3>1 DEF ServedInv, OneServerInv, Tended, Live
    <3>3. \E s \in Stage : Running(s)
      BY <3>1, <3>2 DEF Pursued
    <3> QED
      BY <3>3 DEF ServedInv, OneServerInv, OneStage
  <2> QED
    BY <2>1, <2>2
<1> QED
  BY <1>1, ServedInvAlways, PTL
================================================================================
