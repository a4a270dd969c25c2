------------------------------- MODULE WorkflowRun ------------------------------
(* lib/workflows/runner.ts, with lib/workflows/service.ts in front of it and    *)
(* the stage executors behind it: one workflow run, which server processes     *)
(* drive through the stages of its definition, and its reviewer.               *)
(*                                                                             *)
(* workflow.json is read and replaced under the lock of the run: that is one   *)
(* step.  Everything a process does between two such steps interleaves: its    *)
(* loop over the stages (at most one a process), the requests it answers, its  *)
(* recovery, the durable jobs, and edits of the project by its user.           *)
(* A durable job is abstracted to the part of DurableJobs a workflow sees.     *)
EXTENDS Naturals, Sequences, FiniteSets

CONSTANTS
  Runner,       \* server processes: a WorkflowRunner each
  Order,        \* the stages, in the order of the definition
  Deps,         \* of each stage: dependsOn
  Invalidates,  \* of each stage: invalidates
  Kind,         \* of each stage: "checkpoint", "work" or "job"
  Retryable,    \* the stages that can be retried or replayed
  MaxAttempt,   \* bound: nobody asks to retry or replay a stage at this attempt
  MaxRevision,  \* bound: the user does not edit the project at this revision
  MaxEpoch,     \* bound: there is no crash in this runtime
  HastyReview,  \* whether a review may be answered before the loop that asked has ended
  HastyResume,  \* whether a run may be resumed while its loop is entering a review
  CrashIn,      \* the run statuses in which the server may crash
  NoStage

Stage == {Order[i] : i \in DOMAIN Order}

ASSUME OrderAssumption == Order \in Seq(Stage) /\ NoStage \notin Stage
ASSUME DefinitionAssumption ==
  /\ Deps \in [Stage -> SUBSET Stage]
  /\ Invalidates \in [Stage -> SUBSET Stage]
  /\ Kind \in [Stage -> {"checkpoint", "work", "job"}]
  /\ Retryable \subseteq Stage
  /\ \A s \in Stage : s \notin Deps[s]
ASSUME BoundAssumption == {MaxAttempt, MaxRevision, MaxEpoch} \subseteq Nat
ASSUME FlagAssumption == {HastyReview, HastyResume} \subseteq BOOLEAN

VARIABLES
  run,      \* workflow.json: status, currentStageId, lastKnownProjectRevision
  exec,     \* workflow.json: stageExecutions
  review,   \* workflow.json: of each stage, the status of its checkpoints in turn
  job,      \* the durable jobs created for the run
  project,  \* the revision of the project
  applied,  \* of each stage: the attempts whose mutation the project holds
  epoch,    \* the runtime that owns the data, by number
  up,       \* of each process: whether it has recovered
  loop,     \* of each process: where its loop over the stages is
  ask       \* of each process: the request it is answering

file   == <<run, exec, review>>
world  == <<job, project, applied>>
vars   == <<run, exec, review, job, project, applied, epoch, up, loop, ask>>

-------------------------------------------------------------------------------
(* inputs stands for inputDigest: the attempts that made what the stage reads.  *)
(* ops are operationIds, by attempt; epoch stands for startedAt.                *)
Pending == [status |-> "pending", attempt |-> 0, base |-> 0, jobs |-> << >>, ops |-> {},
            inputs |-> [s \in Stage |-> 0], epoch |-> 0]
Rest    == [pc |-> "none", stage |-> NoStage, ex |-> Pending, job |-> 0, rev |-> 0]
NoAsk   == [pc |-> "none", stage |-> NoStage, n |-> 0, rev |-> 0, jobs |-> {}]

Init ==
  /\ run = [status |-> "pending", current |-> NoStage, rev |-> 0]
  /\ exec = [s \in Stage |-> Pending]
  /\ review = [s \in Stage |-> << >>]
  /\ job = << >>
  /\ project = 0
  /\ applied = [s \in Stage |-> {}]
  /\ epoch = 1
  /\ up = [r \in Runner |-> "down"]
  /\ loop = [r \in Runner |-> Rest]
  /\ ask = [r \in Runner |-> NoAsk]

Done(s) == exec[s].status = "completed"
Latest(seq) == seq[Len(seq)]

JobOf(e)  == Latest(e.jobs)
JobsOf(e) == {e.jobs[i] : i \in DOMAIN e.jobs}
Larger(m, n) == IF m > n THEN m ELSE n
Inputs(s) == [d \in Stage |-> IF d \in Deps[s] THEN exec[d].attempt ELSE 0]

-------------------------------------------------------------------------------
(* Invalidation.  collectInvalidationStageIds is the least set that holds the   *)
(* stage, what its members invalidate and what depends on a member.             *)
Closed(S) == \A s \in Stage :
  /\ s \in S => Invalidates[s] \subseteq S
  /\ Deps[s] \cap S # {} => s \in S

(* Mutant: only the reviews of the stage, not what was made from it. *)
OnlyItsReviews(s) == {s} \cup {t \in Stage : Kind[t] = "checkpoint" /\ s \in Deps[t]}

Downstream(s) == {t \in Stage : \A S \in SUBSET Stage : s \in S /\ Closed(S) => t \in S}

MayInvalidate(e) == e.status \notin {"running", "failed", "interrupted", "cancelled"}

Cleared(e, status) == [e EXCEPT !.status = status, !.base = 0, !.inputs = Pending.inputs, !.epoch = 0]

Invalidated(e) == Cleared(e, "invalidated")

(* clearDurableAttemptRefs: its jobs and operations become history. *)
Forgotten(e) == [Invalidated(e) EXCEPT !.jobs = << >>, !.ops = {}]

(* The ready stages, when the project has changed behind them. *)
Refreshed(rev) ==
  [s \in Stage |-> IF exec[s].status = "ready" /\ rev > run.rev THEN Invalidated(exec[s]) ELSE exec[s]]

-------------------------------------------------------------------------------
(* Requests.  A process answers one at a time (bound); what it reads before it  *)
(* takes the lock, and what it does after, are steps of their own.              *)
Asked(r, pc) == up[r] = "up" /\ ask[r].pc = pc
Answer(r, a) == ask' = [ask EXCEPT ![r] = a]
ThenSchedule(r) == Answer(r, [NoAsk EXCEPT !.pc = "schedule"])
Refuse(r) == Answer(r, NoAsk) /\ UNCHANGED file

Start(r) ==
  /\ Asked(r, "none")
  /\ run.status = "pending"
  /\ run' = [run EXCEPT !.status = "running"]
  /\ ThenSchedule(r)
  /\ UNCHANGED <<exec, review, world, epoch, up, loop>>

Pause(r) ==
  /\ Asked(r, "none")
  /\ run.status = "running"
  /\ run' = [run EXCEPT !.status = "paused"]
  /\ UNCHANGED <<exec, review, world, epoch, up, loop, ask>>

(* What the workflow panel offers for the state it shows; the state may have    *)
(* changed when the request is carried out.  First, latestProjectRevision.      *)
Lookup(r) ==
  /\ Asked(r, "none")
  /\ \/ /\ run.status = "paused"
        /\ Answer(r, [NoAsk EXCEPT !.pc = "resume", !.rev = project])
     \/ \E s \in Stage : \E n \in DOMAIN review[s] :
          /\ run.status = "waiting_review" /\ review[s][n] = "waiting_review"
          /\ Answer(r, [NoAsk EXCEPT !.pc = "approve", !.stage = s, !.n = n, !.rev = project])
     \/ \E s \in Stage :
          /\ run.status = "waiting_review" /\ Done(s) /\ exec[s].attempt < MaxAttempt
          /\ Answer(r, [NoAsk EXCEPT !.pc = "replay", !.stage = s, !.rev = project])
  /\ UNCHANGED <<file, world, epoch, up, loop>>

(* The deployment: how soon a person can answer. *)
Seen    == HastyReview \/ \A r \in Runner : loop[r].pc # "leave"
Settled == HastyResume \/ \A r \in Runner : loop[r].pc # "review"

Resume(r) ==
  /\ Asked(r, "resume") /\ Settled
  /\ \/ /\ run.status = "paused" /\ ask[r].rev >= run.rev
        /\ exec' = Refreshed(ask[r].rev)
        /\ run' = [run EXCEPT !.status = "running", !.rev = ask[r].rev]
        /\ ThenSchedule(r)
        /\ UNCHANGED review
     \/ ~(run.status = "paused" /\ ask[r].rev >= run.rev) /\ Refuse(r)
  /\ UNCHANGED <<world, epoch, up, loop>>

Approvable(a) ==
  /\ run.status = "waiting_review"
  /\ review[a.stage][a.n] = "waiting_review"
  /\ exec[a.stage].status = "waiting_review"
  /\ a.rev >= run.rev

Approve(r) ==
  LET a == ask[r] IN
  /\ Asked(r, "approve") /\ Seen
  /\ \/ /\ Approvable(a)
        /\ exec' = [Refreshed(a.rev) EXCEPT ![a.stage].status = "completed"]
        /\ review' = [review EXCEPT ![a.stage][a.n] = "approved"]
        /\ run' = [status |-> "running", current |-> NoStage, rev |-> a.rev]
        /\ ThenSchedule(r)
     \/ ~Approvable(a) /\ Refuse(r)
  /\ UNCHANGED <<world, epoch, up, loop>>

Waiting(s) == \E n \in DOMAIN review[s] : review[s][n] = "waiting_review"

Replayable(a) ==
  /\ run.status = "waiting_review"
  /\ a.rev >= run.rev
  /\ a.stage \in Retryable
  /\ \E s \in Downstream(a.stage) : Waiting(s)
  /\ \A s \in Downstream(a.stage) : MayInvalidate(exec[s])

(* Mutant: the reviews of the replayed stages stand. *)
LeftStanding(q) == q

Superseded(q) == [n \in DOMAIN q |-> "superseded"]

Replay(r) ==
  LET a == ask[r] IN
  /\ Asked(r, "replay") /\ Seen
  /\ \/ /\ Replayable(a)
        /\ exec' = [s \in Stage |-> IF s \in Downstream(a.stage) THEN Forgotten(exec[s]) ELSE exec[s]]
        /\ review' = [s \in Stage |-> IF s \in Downstream(a.stage) THEN Superseded(review[s]) ELSE review[s]]
        /\ run' = [status |-> "running", current |-> NoStage, rev |-> a.rev]
        /\ ThenSchedule(r)
     \/ ~Replayable(a) /\ Refuse(r)
  /\ UNCHANGED <<world, epoch, up, loop>>

MayRetry(s) ==
  /\ run.status \in {"failed", "interrupted"}
  /\ s \in Retryable
  /\ exec[s].status \in {"failed", "interrupted"}

(* WorkflowService.retryStage first brings the revision up to date.             *)
RetryRefresh(r) ==
  /\ Asked(r, "none")
  /\ \E s \in Stage :
       /\ MayRetry(s) /\ exec[s].attempt < MaxAttempt
       /\ Answer(r, [NoAsk EXCEPT !.pc = "retry", !.stage = s])
  /\ run' = [run EXCEPT !.rev = Larger(@, project)]
  /\ UNCHANGED <<exec, review, world, epoch, up, loop>>

Retry(r) ==
  LET s == ask[r].stage IN
  /\ Asked(r, "retry")
  /\ \/ /\ MayRetry(s)
        /\ exec' = [exec EXCEPT ![s] = Cleared(@, "ready")]
        /\ run' = [run EXCEPT !.status = "running", !.current = NoStage]
        /\ ThenSchedule(r)
        /\ UNCHANGED review
     \/ ~MayRetry(s) /\ Refuse(r)
  /\ UNCHANGED <<world, epoch, up, loop>>

Stoppable(e) == e.status \in {"pending", "ready", "running", "waiting_review", "failed", "interrupted"}

Cancel(r) ==
  LET s == run.current IN
  /\ Asked(r, "none")
  /\ run.status \notin {"completed", "cancelled"}
  /\ run' = [run EXCEPT !.status = "cancelled", !.current = NoStage]
  /\ exec' = IF s # NoStage /\ Stoppable(exec[s]) THEN [exec EXCEPT ![s].status = "cancelled"] ELSE exec
  /\ Answer(r, [NoAsk EXCEPT !.pc = "cancelJobs",
                  !.jobs = IF s = NoStage THEN {} ELSE JobsOf(exec[s])])
  /\ UNCHANGED <<review, world, epoch, up, loop>>

(* jobs.cancel: a request that an active job may still be serving. *)
JobsCancelled(J) == [j \in DOMAIN job |-> [job[j] EXCEPT !.cancel = @ \/ (j \in J /\ job[j].status = "active")]]

CancelJobs(r) ==
  /\ Asked(r, "cancelJobs")
  /\ job' = JobsCancelled(ask[r].jobs)
  /\ Answer(r, NoAsk)
  /\ UNCHANGED <<file, project, applied, epoch, up, loop>>

(* schedule: does nothing while the process has a loop for the run. *)
Schedule(r) ==
  /\ Asked(r, "schedule")
  /\ loop' = [loop EXCEPT ![r] = IF @.pc = "none" THEN [Rest EXCEPT !.pc = "read"] ELSE @]
  /\ Answer(r, NoAsk)
  /\ UNCHANGED <<file, world, epoch, up>>

-------------------------------------------------------------------------------
(* The loop over the stages: runLoop. *)
At(r, pc) == up[r] = "up" /\ loop[r].pc = pc
Goto(r, l) == loop' = [loop EXCEPT ![r] = l]
Look(r)  == Goto(r, [Rest EXCEPT !.pc = "read"])
Leave(r) == Goto(r, Rest)
Step(r, pc) == Goto(r, [loop[r] EXCEPT !.pc = pc])

First(s, S) == \E i \in DOMAIN Order : s = Order[i] /\ s \in S /\ \A k \in 1..(i - 1) : Order[k] \notin S

With(status) == {s \in Stage : exec[s].status = status}

Read(r) ==
  /\ At(r, "read")
  /\ \/ run.status # "running" /\ Leave(r)
     \/ /\ run.status = "running"
        /\ \E s \in Stage :
             /\ First(s, With("running"))
             /\ \/ exec[s].jobs = << >> /\ Leave(r)
                \/ /\ exec[s].jobs # << >>
                   /\ Goto(r, [Rest EXCEPT !.pc = "poll", !.stage = s, !.job = JobOf(exec[s])])
     \/ /\ run.status = "running"
        /\ With("running") = {}
        /\ Goto(r, [Rest EXCEPT !.pc = "mark"])
  /\ UNCHANGED <<file, world, epoch, up, ask>>

DependenciesReady(s) == \A d \in Deps[s] : Done(d)

Marked ==
  [s \in Stage |-> IF exec[s].status \in {"pending", "invalidated"} /\ DependenciesReady(s)
                     THEN [exec[s] EXCEPT !.status = "ready"] ELSE exec[s]]

Mark(r) ==
  /\ At(r, "mark")
  /\ \/ run.status # "running" /\ Leave(r) /\ UNCHANGED exec
     \/ /\ run.status = "running"
        /\ exec' = Marked
        /\ \/ (\A s \in Stage : Done(s)) /\ Goto(r, [Rest EXCEPT !.pc = "complete"])
           \/ /\ \E s \in Stage : ~Done(s)
              /\ \A s \in Stage : Marked[s].status # "ready"
              /\ Leave(r)
           \/ \E s \in Stage :
                /\ First(s, {t \in Stage : Marked[t].status = "ready"})
                /\ Goto(r, [Rest EXCEPT !.pc = IF Kind[s] = "checkpoint" THEN "review" ELSE "begin",
                                        !.stage = s])
  /\ UNCHANGED <<run, review, world, epoch, up, ask>>

Complete(r) ==
  /\ At(r, "complete")
  /\ \/ /\ run.status = "running" /\ \A s \in Stage : Done(s)
        /\ run' = [run EXCEPT !.status = "completed", !.current = NoStage]
     \/ ~(run.status = "running" /\ \A s \in Stage : Done(s)) /\ UNCHANGED run
  /\ Leave(r)
  /\ UNCHANGED <<exec, review, world, epoch, up, ask>>

Begun(s, status) ==
  [exec[s] EXCEPT !.status = status, !.attempt = @ + 1, !.base = run.rev,
                  !.inputs = Inputs(s), !.epoch = epoch]

(* enterCheckpoint.  The loop ends when it has appended to the activity log. *)
MayReview(s) == run.status = "running" /\ exec[s].status = "ready"

Review(r) ==
  LET s == loop[r].stage IN
  /\ At(r, "review")
  /\ \/ /\ MayReview(s)
        /\ exec' = [exec EXCEPT ![s] = Begun(s, "waiting_review")]
        /\ review' = [review EXCEPT ![s] = Append(@, "waiting_review")]
        /\ run' = [run EXCEPT !.status = "waiting_review", !.current = s]
        /\ Goto(r, [Rest EXCEPT !.pc = "leave"])
     \/ /\ ~MayReview(s)
        /\ IF run.status = "waiting_review" THEN Goto(r, [Rest EXCEPT !.pc = "leave"]) ELSE Leave(r)
        /\ UNCHANGED file
  /\ UNCHANGED <<world, epoch, up, ask>>

LeaveReview(r) ==
  /\ At(r, "leave")
  /\ Leave(r)
  /\ UNCHANGED <<file, world, epoch, up, ask>>

(* executeStage: the claim of a ready stage. *)
Claimable(s) == run.status = "running" /\ exec[s].status = "ready"

Begin(r) ==
  LET s == loop[r].stage
      e == [Begun(s, "running") EXCEPT !.ops = @ \cup {exec[s].attempt + 1}] IN
  /\ At(r, "begin")
  /\ \/ /\ Claimable(s)
        /\ exec' = [exec EXCEPT ![s] = e]
        /\ run' = [run EXCEPT !.current = s]
        /\ Goto(r, [loop[r] EXCEPT !.pc = IF Kind[s] = "work" THEN "work" ELSE "start", !.ex = e])
     \/ ~Claimable(s) /\ Look(r) /\ UNCHANGED <<run, exec>>
  /\ UNCHANGED <<review, world, epoch, up, ask>>

-------------------------------------------------------------------------------
(* The executors. *)
(* Mutant: only the operation of this attempt is looked for. *)
RecoveredOwn(s, e) == e.attempt \in applied[s]

Recovered(s, e) == e.ops \cap applied[s] # {}

(* A stage of analysis or mutation: nothing to apply; already applied by an     *)
(* earlier attempt; applied now, at the revision the stage began with; or it    *)
(* throws, before the mutation or after.                                        *)
Work(r) ==
  LET s == loop[r].stage
      e == loop[r].ex IN
  /\ At(r, "work")
  /\ \/ Step(r, "finish") /\ UNCHANGED <<project, applied>>
     \/ /\ Recovered(s, e)
        /\ Goto(r, [loop[r] EXCEPT !.pc = "finish", !.rev = project])
        /\ UNCHANGED <<project, applied>>
     \/ /\ ~Recovered(s, e)
        /\ project = e.base
        /\ project' = project + 1
        /\ applied' = [applied EXCEPT ![s] = @ \cup {e.attempt}]
        /\ \/ Goto(r, [loop[r] EXCEPT !.pc = "finish", !.rev = project + 1])
           \/ Step(r, "fail")
     \/ Step(r, "fail") /\ UNCHANGED <<project, applied>>
  /\ UNCHANGED <<file, job, epoch, up, ask>>

(* Its rev is the project it renders, and until that is known a lower bound.    *)
NewJob == [status |-> "active", cancel |-> FALSE, rev |-> project]
Ended  == {"completed", "failed", "cancelled", "interrupted"}

(* A render: the job of the attempt before if it is active, that job again if   *)
(* it did not complete, a new one otherwise.                                    *)
Prior(e) == IF e.jobs = << >> THEN {} ELSE {JobOf(e)}

StartJob(r) ==
  LET e == loop[r].ex
      Attach(j) == Goto(r, [loop[r] EXCEPT !.pc = "attach", !.job = j]) IN
  /\ At(r, "start")
  /\ \/ Step(r, "fail") /\ UNCHANGED job
     \/ /\ project = e.base
        /\ \/ \E j \in Prior(e) : job[j].status = "active" /\ Attach(j) /\ UNCHANGED job
           \/ \E j \in Prior(e) :
                /\ job[j].status \in {"failed", "cancelled", "interrupted"}
                /\ job' = [job EXCEPT ![j] = NewJob]
                /\ Attach(j)
           \/ /\ \A j \in Prior(e) : job[j].status = "completed"
              /\ job' = Append(job, NewJob)
              /\ Attach(Len(job) + 1)
  /\ UNCHANGED <<file, project, applied, epoch, up, ask>>

Attachable(s) == run.status \in {"running", "paused"} /\ exec[s].status = "running"

AttachJob(r) ==
  LET s == loop[r].stage
      j == loop[r].job IN
  /\ At(r, "attach")
  /\ \/ /\ Attachable(s)
        /\ exec' = IF \E i \in DOMAIN exec[s].jobs : exec[s].jobs[i] = j
                     THEN exec ELSE [exec EXCEPT ![s].jobs = Append(@, j)]
        /\ Step(r, "attached")
     \/ ~Attachable(s) /\ Step(r, "drop") /\ UNCHANGED exec
  /\ UNCHANGED <<run, review, world, epoch, up, ask>>

Attached(r) ==
  LET s == loop[r].stage IN
  /\ At(r, "attached")
  /\ IF run.status = "running" /\ exec[s].jobs # << >>
       THEN Goto(r, [loop[r] EXCEPT !.pc = "poll", !.job = JobOf(exec[s])])
       ELSE Look(r)
  /\ UNCHANGED <<file, world, epoch, up, ask>>

(* cancelUnattachedJob *)
Drop(r) ==
  /\ At(r, "drop")
  /\ job' = JobsCancelled({loop[r].job})
  /\ Look(r)
  /\ UNCHANGED <<file, project, applied, epoch, up, ask>>

(* reconcileJobStage: wait for the job, then settle the stage by how it ended. *)
Poll(r) ==
  LET status == job[loop[r].job].status IN
  /\ At(r, "poll")
  /\ \/ run.status = "cancelled" /\ Look(r)
     \/ /\ run.status # "cancelled" /\ status \in Ended
        /\ Step(r, CASE status = "completed" -> "reconcile"
                     [] status = "interrupted" -> "interrupt"
                     [] OTHER -> "fail")
  /\ UNCHANGED <<file, world, epoch, up, ask>>

(* Mutant: the revision that was rendered is not compared. *)
AnyRevision(j) == TRUE

(* The render is refused when the project has changed since. *)
Current(j) == job[j].rev = project

Reconcile(r) ==
  /\ At(r, "reconcile")
  /\ \/ run.status # "running" /\ Look(r)
     \/ run.status = "running" /\ Current(loop[r].job) /\ Step(r, "finish")
     \/ run.status = "running" /\ Step(r, "fail")
  /\ UNCHANGED <<file, world, epoch, up, ask>>

-------------------------------------------------------------------------------
(* How a stage ends: completeStage, failStage, markInterrupted. *)
Running(s) == exec[s].status = "running"

Finish(r) ==
  LET s == loop[r].stage IN
  /\ At(r, "finish")
  /\ \/ /\ Running(s)
        /\ exec' = [exec EXCEPT ![s].status = "completed"]
        /\ run' = [run EXCEPT !.rev = Larger(@, loop[r].rev),
                              !.current = IF @ = s THEN NoStage ELSE @]
     \/ ~Running(s) /\ UNCHANGED <<run, exec>>
  /\ Look(r)
  /\ UNCHANGED <<review, world, epoch, up, ask>>

EndStage(s, status) ==
  \/ /\ run.status \in {"running", "paused"} /\ Running(s)
     /\ exec' = [exec EXCEPT ![s].status = status]
     /\ run' = [run EXCEPT !.status = status, !.current = s]
  \/ ~(run.status \in {"running", "paused"} /\ Running(s)) /\ UNCHANGED <<run, exec>>

Fail(r) ==
  /\ At(r, "fail")
  /\ EndStage(loop[r].stage, "failed")
  /\ Look(r)
  /\ UNCHANGED <<review, world, epoch, up, ask>>

Interrupt(r) ==
  /\ At(r, "interrupt")
  /\ EndStage(loop[r].stage, "interrupted")
  /\ Look(r)
  /\ UNCHANGED <<review, world, epoch, up, ask>>

-------------------------------------------------------------------------------
(* Starting: recover, which every process awaits before its first request.      *)
(* Mutant: what a former runtime left running is taken for done. *)
LeftToOthers(s) == FALSE

LeftByFormer(s) == exec[s].status = "running" /\ exec[s].jobs = << >> /\ exec[s].epoch < epoch

ActiveStage(s) == IF run.current # NoStage THEN s = run.current ELSE First(s, With("running"))

Boot(r) ==
  /\ up[r] = "down"
  /\ \/ \E s \in Stage :
          /\ run.status = "running" /\ ActiveStage(s) /\ LeftByFormer(s)
          /\ up' = [up EXCEPT ![r] = "settle"]
          /\ Goto(r, [Rest EXCEPT !.stage = s])
     \/ /\ run.status = "running" /\ \A s \in Stage : ActiveStage(s) => ~LeftByFormer(s)
        /\ up' = [up EXCEPT ![r] = "up"]
        /\ Look(r)
     \/ /\ run.status # "running"
        /\ up' = [up EXCEPT ![r] = "up"]
        /\ UNCHANGED loop
  /\ UNCHANGED <<file, world, epoch, ask>>

Settle(r) ==
  /\ up[r] = "settle"
  /\ EndStage(loop[r].stage, "interrupted")
  /\ up' = [up EXCEPT ![r] = "up"]
  /\ Leave(r)
  /\ UNCHANGED <<review, world, epoch, ask>>

(* The process tree dies: what the processes hold in memory is gone.  A job     *)
(* that was running is interrupted by the job runtime's recovery, one that was  *)
(* queued is queued again.                                                      *)
Crash ==
  /\ run.status \in CrashIn
  /\ epoch < MaxEpoch
  /\ epoch' = epoch + 1
  /\ \E lost \in SUBSET {j \in DOMAIN job : job[j].status = "active"} :
       job' = [j \in DOMAIN job |-> IF j \in lost THEN [job[j] EXCEPT !.status = "interrupted"] ELSE job[j]]
  /\ up' = [r \in Runner |-> "down"]
  /\ loop' = [r \in Runner |-> Rest]
  /\ ask' = [r \in Runner |-> NoAsk]
  /\ UNCHANGED <<file, project, applied>>

(* A cancelled job does not complete (CancelIsHonoured of DurableJobs). *)
JobEnds(j) ==
  /\ job[j].status = "active"
  /\ \E status \in IF job[j].cancel THEN {"cancelled"} ELSE {"completed", "failed"}, rev \in job[j].rev..project :
       job' = [job EXCEPT ![j].status = status, ![j].rev = IF status = "completed" THEN rev ELSE @]
  /\ UNCHANGED <<file, project, applied, epoch, up, loop, ask>>

Edit ==
  /\ project < MaxRevision
  /\ project' = project + 1
  /\ UNCHANGED <<file, job, applied, epoch, up, loop, ask>>

-------------------------------------------------------------------------------
Ask(r)    == Start(r) \/ Pause(r) \/ Lookup(r) \/ RetryRefresh(r) \/ Cancel(r)
Serve(r)  == Resume(r) \/ Approve(r) \/ Replay(r) \/ Retry(r) \/ CancelJobs(r) \/ Schedule(r)
Advance(r) ==
  \/ Read(r) \/ Mark(r) \/ Complete(r) \/ Review(r) \/ LeaveReview(r) \/ Begin(r)
  \/ Work(r) \/ StartJob(r) \/ AttachJob(r) \/ Attached(r) \/ Drop(r)
  \/ Poll(r) \/ Reconcile(r) \/ Finish(r) \/ Fail(r) \/ Interrupt(r)
Recover(r) == Boot(r) \/ Settle(r)

Next ==
  \/ \E r \in Runner : Ask(r) \/ Serve(r) \/ Advance(r) \/ Recover(r)
  \/ Crash
  \/ \E j \in DOMAIN job : JobEnds(j)
  \/ Edit

Spec == Init /\ [][Next]_vars

(* What a process has begun it goes on with; executors and jobs end (their      *)
(* tools run under a timeout); a server that went down is started again.        *)
Fairness ==
  /\ \A r \in Runner : WF_vars(Serve(r)) /\ WF_vars(Advance(r)) /\ WF_vars(Recover(r))
  /\ WF_vars(\E j \in DOMAIN job : JobEnds(j))

FairSpec == Spec /\ Fairness

-------------------------------------------------------------------------------
(* Properties. *)
RunStatus   == {"pending", "running", "waiting_review", "paused", "completed", "failed",
                "cancelled", "interrupted"}
StageStatus == (RunStatus \ {"paused"}) \cup {"ready", "invalidated"}
Execution ==
  [status : StageStatus, attempt : Nat, base : Nat, jobs : Seq(Nat), ops : SUBSET Nat,
   inputs : [Stage -> Nat], epoch : Nat]

RunRecord   == [status : RunStatus, current : Stage \cup {NoStage}, rev : Nat]
Checkpoint  == {"waiting_review", "approved", "superseded"}

(* The types of the state. *)
TypeOK ==
  /\ run \in RunRecord
  /\ exec \in [Stage -> Execution]
  /\ review \in [Stage -> Seq(Checkpoint)]
  /\ job \in Seq([status : Ended \cup {"active"}, cancel : BOOLEAN, rev : Nat])
  /\ project \in Nat
  /\ applied \in [Stage -> SUBSET Nat]
  /\ epoch \in Nat
  /\ up \in [Runner -> {"down", "settle", "up"}]
  /\ loop \in [Runner -> [pc : {"none", "read", "mark", "complete", "review", "leave", "begin",
                                "work", "start", "attach", "attached", "drop", "poll",
                                "reconcile", "finish", "fail", "interrupt"},
                          stage : Stage \cup {NoStage}, ex : Execution, job : Nat, rev : Nat]]
  /\ ask \in [Runner -> [pc : {"none", "resume", "approve", "replay", "retry", "cancelJobs", "schedule"},
                         stage : Stage \cup {NoStage}, n : Nat, rev : Nat, jobs : SUBSET Nat]]

(* "A stage may become ready only when all required dependencies are valid and  *)
(* completed": so it is for as long as the stage is ready, runs or is done,     *)
(* across replays of what it depends on.  And "downstream stages must not       *)
(* silently reuse stale outputs": what a completed stage was made from are the  *)
(* outputs its dependencies have now.                                           *)
FreshInputs ==
  \A s \in Stage :
    /\ exec[s].status \in {"ready", "running", "waiting_review", "completed"} => \A d \in Deps[s] : Done(d)
    /\ Done(s) => exec[s].inputs = Inputs(s)

(* A run waits for review of exactly one checkpoint, the current stage; and a   *)
(* checkpoint counts as passed exactly while its last review is an approval     *)
(* (enterCheckpoint, approveCheckpoint, replayFromStage).                       *)
ReviewsHold ==
  /\ run.status = "waiting_review" =>
       \E s \in Stage : run.current = s /\ exec[s].status = "waiting_review"
  /\ \A s \in Stage : Kind[s] = "checkpoint" =>
       /\ Done(s) <=> review[s] # << >> /\ Latest(review[s]) = "approved"
       /\ \A n \in DOMAIN review[s] : n < Len(review[s]) => review[s][n] = "superseded"
       /\ Waiting(s) <=> exec[s].status = "waiting_review" \/ (exec[s].status = "cancelled" /\ review[s] # << >>)

(* "Retry/recovery must reconcile alreadyApplied rather than duplicate          *)
(* captions": however often a stage is retried, the project holds its mutation  *)
(* at most once until the stage is replayed.                                    *)
AppliedOnce == \A s \in Stage : Cardinality(applied[s] \cap exec[s].ops) <= 1

(* What a completed render shows is a project no older than the one the stage   *)
(* began with, whichever attempt's job it is (reconcileJob of the render).      *)
RenderIsFresh ==
  \A s \in Stage : Done(s) /\ Kind[s] = "job" => job[Latest(exec[s].jobs)].rev >= exec[s].base

(* "Cancel requests cancellation of active cancellable Jobs": when the run is   *)
(* cancelled and nobody is busy with it, no job of it goes on uncancelled,      *)
(* attached or not.  A server that crashes between the two forgets to cancel    *)
(* them: this is about a runtime before its first crash.                        *)
CancelReachesJobs ==
  /\ epoch = 1
  /\ run.status = "cancelled"
  /\ \A r \in Runner : up[r] = "up" /\ loop[r].pc = "none" /\ ask[r].pc = "none"
  => \A j \in DOMAIN job : job[j].status = "active" => job[j].cancel

(* What the user decides stands: reviews and the cancel of the run.             *)
DecisionsStand == ReviewsHold /\ CancelReachesJobs

(* A run that is running gets somewhere: to its end, a failure, an interruption *)
(* or a person.                                                                 *)
RunSettles == run.status = "running" ~> run.status # "running"
===============================================================================
