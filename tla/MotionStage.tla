------------------------------ MODULE MotionStage ------------------------------
(* The stage MOTION_GENERATION of lib/workflows/production-stages.ts, as the    *)
(* workflow's runner drives it (module WorkflowRun), over the durable jobs that *)
(* render HyperFrames (jobs/executors.ts, hyperframes/render-service.ts) and    *)
(* the visual plan it carries out (visual-planner/service.ts).                  *)
(*                                                                             *)
(* Each HyperFrames suggestion of the plan gets a job of its own, one after the *)
(* other, and each job adds a clip; then the Remotion suggestions are applied   *)
(* together. An attempt has its own operation ids, so that what tells a later   *)
(* attempt that a clip is there already is the stage's record of its jobs.      *)
EXTENDS Naturals, Sequences, FiniteSets

CONSTANTS
  Plan,         \* the plans that may be in ai-director-plan.json: their HyperFrames suggestions
  CutShort,     \* subset of {"committed", "created"}: after which steps the server may die,
                \* or a job be cancelled, before the step is recorded
  Replaces,     \* whether another plan may be generated once the stage has begun
  MaxTries,     \* bound: the stage is not retried at this attempt
  MaxUserEdits, \* bound: edits of the project by the user
  MaxDeaths     \* bound: deaths of the server

ASSUME MotionAssumption ==
  /\ Plan # << >> /\ \A p \in DOMAIN Plan : Plan[p] \in Seq(STRING)
  /\ CutShort \subseteq {"committed", "created"} /\ Replaces \in BOOLEAN
  /\ {MaxTries, MaxUserEdits, MaxDeaths} \subseteq Nat

VARIABLES
  stage,    \* the stage's execution and lastKnownProjectRevision, in workflow.json
  renders,   \* the durable jobs, in the order they were created
  edits,    \* what each revision of the project was made by
  plan,     \* the plan's file
  drive,    \* the runner's loop over this stage
  deaths    \* of the server, so far

motionVars == <<stage, renders, edits, plan, drive, deaths>>

-------------------------------------------------------------------------------
Off  == [pc |-> "none", jobs |-> << >>, what |-> "", rev |-> 0, job |-> 0]

MotionInit ==
  /\ stage = [status |-> "ready", attempt |-> 0, base |-> 0, known |-> 0, jobs |-> << >>]
  /\ renders = << >>
  /\ edits = << >>
  /\ plan = 1
  /\ drive = Off
  /\ deaths = 0

RevisionNow == Len(edits)
Made(op) == \E i \in DOMAIN edits : edits[i] = op

(* An operation's id: the attempt's, and what the operation is for. *)
OperationId(what) == <<stage.attempt, what>>

Go(pc) == drive' = [drive EXCEPT !.pc = pc]
Working(pc) == drive.pc = pc

(* executeStage: the attempt begins at the revision the run knows. *)
BeginAttempt ==
  /\ Working("none") /\ stage.status = "ready"
  /\ stage' = [stage EXCEPT !.status = "running", !.attempt = @ + 1, !.base = stage.known]
  /\ drive' = [Off EXCEPT !.pc = "next", !.jobs = stage.jobs]
  /\ UNCHANGED <<renders, edits, plan, deaths>>

(* failStage, markInterrupted: only of a stage that still runs. *)
EndAttempt(status) ==
  /\ stage' = IF stage.status = "running" THEN [stage EXCEPT !.status = status] ELSE stage
  /\ drive' = Off

(* knownHyperframesJob: of the stage's jobs, those for the suggestion. *)
KnownJobs(jobs, s) == {i \in DOMAIN jobs : renders[jobs[i]].of = s}
Known(jobs, s) == jobs[CHOOSE i \in KnownJobs(jobs, s) : \A k \in KnownJobs(jobs, s) : k <= i]

CompletedJob(jobs, s) == KnownJobs(jobs, s) # {} /\ renders[Known(jobs, s)].status = "completed"

(* nextPendingHyperframesJob: the first suggestion of the plan, as it is in the *)
(* file, whose job is not completed.                                            *)
PendingSuggestions(jobs) == {i \in DOMAIN Plan[plan] : ~CompletedJob(jobs, Plan[plan][i])}
NextOf(jobs)  == Plan[plan][CHOOSE i \in PendingSuggestions(jobs) : \A k \in PendingSuggestions(jobs) : i <= k]

(* stageOwnedProjectRevision: the attempt's base, or what its jobs have made.   *)
Owned ==
  LET completed == {i \in DOMAIN drive.jobs : renders[drive.jobs[i]].status = "completed"}
      made == {renders[drive.jobs[i]].made : i \in completed}
  IN  CHOOSE r \in made \cup {stage.base} : \A q \in made \cup {stage.base} : q <= r

(* ensureHyperframesJob.  A job that has to be created is created at the        *)
(* revision the stage has come to, if that is the project's.                    *)
NothingPending ==
  /\ Working("next") /\ PendingSuggestions(drive.jobs) = {}
  /\ Go("remotion")
  /\ UNCHANGED <<stage, renders, edits, plan, deaths>>

Reuse ==
  /\ Working("next") /\ PendingSuggestions(drive.jobs) # {}
  /\ LET s == NextOf(drive.jobs) IN
     /\ KnownJobs(drive.jobs, s) # {}
     /\ LET j == Known(drive.jobs, s) IN
        \/ /\ renders[j].status \in {"queued", "rendering", "committed"}
           /\ drive' = [drive EXCEPT !.pc = "attach", !.job = j]
           /\ UNCHANGED <<stage, renders>>
        \/ /\ renders[j].status = "refused"
           /\ EndAttempt("failed")
           /\ UNCHANGED renders
        \/ /\ renders[j].status \in {"failed", "cancelled", "interrupted"}
           /\ renders' = [renders EXCEPT ![j].status = "queued"]
           /\ drive' = [drive EXCEPT !.pc = "attach", !.job = j]
           /\ UNCHANGED stage
  /\ UNCHANGED <<edits, plan, deaths>>

Compare ==
  /\ Working("next") /\ PendingSuggestions(drive.jobs) # {}
  /\ LET s == NextOf(drive.jobs) IN
     /\ KnownJobs(drive.jobs, s) # {} => renders[Known(drive.jobs, s)].status = "stale"
     /\ IF Owned = RevisionNow
        THEN drive' = [drive EXCEPT !.pc = "create", !.what = s, !.rev = RevisionNow] /\ UNCHANGED stage
        ELSE EndAttempt("failed")
  /\ UNCHANGED <<renders, edits, plan, deaths>>

CreateJob ==
  /\ Working("create")
  /\ renders' = Append(renders, [of |-> drive.what, op |-> OperationId(drive.what), expected |-> drive.rev,
                               status |-> "queued", made |-> 0])
  /\ drive' = [drive EXCEPT !.pc = "attach", !.job = Len(renders')]
  /\ UNCHANGED <<stage, edits, plan, deaths>>

(* attachJob.  A job that is not accepted is cancelled. *)
Withdrawn(r) == [r EXCEPT !.status = CASE @ = "queued" -> "cancelled" [] OTHER -> @]

Attach ==
  /\ Working("attach")
  /\ \/ /\ stage.status = "running"
        /\ stage' = [stage EXCEPT !.jobs = IF \E i \in DOMAIN @ : @[i] = drive.job THEN @ ELSE Append(@, drive.job)]
        /\ Go("poll")
        /\ UNCHANGED renders
     \/ /\ stage.status # "running"
        /\ renders' = [renders EXCEPT ![drive.job] = Withdrawn(@)]
        /\ drive' = Off
        /\ UNCHANGED stage
  /\ UNCHANGED <<edits, plan, deaths>>

(* reconcileJobStage: the stage's last job. *)
LatestRender == renders[stage.jobs[Len(stage.jobs)]]

ReconcileJob ==
  /\ Working("poll")
  /\ \/ stage.status # "running" /\ drive' = Off /\ UNCHANGED stage
     \/ /\ stage.status = "running" /\ LatestRender.status = "completed"
        /\ drive' = [Off EXCEPT !.pc = "next", !.jobs = stage.jobs]
        /\ UNCHANGED stage
     \/ stage.status = "running" /\ LatestRender.status = "interrupted" /\ EndAttempt("interrupted")
     \/ stage.status = "running" /\ LatestRender.status \in {"failed", "refused", "stale", "cancelled"} /\ EndAttempt("failed")
  /\ UNCHANGED <<renders, edits, plan, deaths>>

-------------------------------------------------------------------------------
(* completeMotionPlan: the Remotion suggestions, in one transaction.            *)

(* Mutant: an operation of a former attempt is not looked for. *)
AppliedByThis == Made(OperationId("remotion"))

(* appliedHistoricalOperation. *)
Applied == \E a \in 1 .. stage.attempt : Made(<<a, "remotion">>)

Found ==
  /\ Working("remotion") /\ Applied
  /\ drive' = [drive EXCEPT !.pc = "complete", !.rev = RevisionNow]
  /\ UNCHANGED <<stage, renders, edits, plan, deaths>>

AssertRevision ==
  /\ Working("remotion") /\ ~Applied
  /\ IF Owned = RevisionNow THEN drive' = [drive EXCEPT !.pc = "apply", !.rev = RevisionNow] /\ UNCHANGED stage
                     ELSE EndAttempt("failed")
  /\ UNCHANGED <<renders, edits, plan, deaths>>

(* VisualPlanService.apply, and the coordinator at the expected revision. *)
Apply ==
  /\ Working("apply")
  /\ IF RevisionNow = drive.rev
     THEN /\ edits' = Append(edits, OperationId("remotion"))
          /\ drive' = [drive EXCEPT !.pc = "complete", !.rev = Len(edits')]
          /\ UNCHANGED stage
     ELSE EndAttempt("failed") /\ UNCHANGED edits
  /\ UNCHANGED <<renders, plan, deaths>>

CompleteMotion ==
  /\ Working("complete")
  /\ stage' = IF stage.status = "running"
              THEN [stage EXCEPT !.status = "completed", !.known = IF @ < drive.rev THEN drive.rev ELSE @]
              ELSE stage
  /\ drive' = Off
  /\ UNCHANGED <<renders, edits, plan, deaths>>

-------------------------------------------------------------------------------
(* A job, in the job runtime: hyperFramesExecutor, renderAndAdd.                *)
Becomes(j, status) == renders' = [renders EXCEPT ![j].status = status]

(* The project is loaded, and compared, before anything is rendered.            *)
RenderStarts ==
  /\ \E j \in DOMAIN renders :
       renders[j].status = "queued" /\ Becomes(j, IF RevisionNow = renders[j].expected THEN "rendering" ELSE "stale")
  /\ UNCHANGED <<stage, edits, plan, drive, deaths>>

(* The mutation, at the revision the job's input names. *)
RenderCommits ==
  /\ \E j \in DOMAIN renders :
       /\ renders[j].status = "rendering"
       /\ IF RevisionNow = renders[j].expected
          THEN /\ edits' = Append(edits, renders[j].op)
               /\ renders' = [renders EXCEPT ![j].status = "committed", ![j].made = Len(edits')]
          ELSE Becomes(j, "stale") /\ UNCHANGED edits
  /\ UNCHANGED <<stage, plan, drive, deaths>>

RenderEnds ==
  /\ \E j \in DOMAIN renders : renders[j].status = "committed" /\ Becomes(j, "completed")
  /\ UNCHANGED <<stage, edits, plan, drive, deaths>>

(* Until its end is recorded, an executor may be aborted: the record then says  *)
(* cancelled, and names no revision.                                            *)
Abortable == {"queued", "rendering"} \cup (CutShort \cap {"committed"})

RenderFails ==
  /\ \E j \in DOMAIN renders :
       \/ renders[j].status = "rendering" /\ \E status \in {"failed", "refused"} : Becomes(j, status)
       \/ renders[j].status \in Abortable /\ Becomes(j, "cancelled")
  /\ UNCHANGED <<stage, edits, plan, drive, deaths>>

-------------------------------------------------------------------------------
(* The user, and the server. *)

(* WorkflowService.retryStage: the run is brought to the project's revision.    *)
RetryStage ==
  /\ stage.status \in {"failed", "interrupted"} /\ stage.attempt < MaxTries
  /\ stage' = [stage EXCEPT !.status = "ready", !.base = 0, !.known = IF @ < RevisionNow THEN RevisionNow ELSE @]
  /\ UNCHANGED <<renders, edits, plan, drive, deaths>>

CancelWorkflow ==
  /\ stage.status \in {"ready", "running", "failed", "interrupted"}
  /\ stage' = [stage EXCEPT !.status = "cancelled"]
  /\ renders' = [j \in DOMAIN renders |-> IF \E i \in DOMAIN stage.jobs : stage.jobs[i] = j
                                        THEN Withdrawn(renders[j]) ELSE renders[j]]
  /\ UNCHANGED <<edits, plan, drive, deaths>>

UserEdits ==
  /\ Cardinality({i \in DOMAIN edits : edits[i] = <<0, "user">>}) < MaxUserEdits
  /\ edits' = Append(edits, <<0, "user">>)
  /\ UNCHANGED <<stage, renders, plan, drive, deaths>>

(* VisualPlanService.generate, from the AI Director's page: the file is written *)
(* again, whoever works from it.                                                *)
Replan ==
  /\ stage.attempt = 0 \/ Replaces
  /\ plan' \in DOMAIN Plan \ {plan}
  /\ UNCHANGED <<stage, renders, edits, drive, deaths>>

(* The server dies and comes back: the job runtime's recovery interrupts what   *)
(* ran, the runner's what had no job, and the loop goes on with what has one.   *)
Interrupted(r) == IF r.status \in {"rendering", "committed"} THEN [r EXCEPT !.status = "interrupted"] ELSE r

Restart ==
  /\ deaths < MaxDeaths
  /\ deaths' = deaths + 1
  /\ "created" \in CutShort \/ ~Working("attach")
  /\ "committed" \in CutShort \/ \A j \in DOMAIN renders : renders[j].status # "committed"
  /\ renders' = [j \in DOMAIN renders |-> Interrupted(renders[j])]
  /\ IF stage.status = "running" /\ stage.jobs = << >>
     THEN EndAttempt("interrupted")
     ELSE /\ drive' = IF stage.status = "running" THEN [Off EXCEPT !.pc = "poll"] ELSE Off
          /\ UNCHANGED stage
  /\ UNCHANGED <<edits, plan>>

MotionNext ==
  \/ BeginAttempt \/ NothingPending \/ Reuse \/ Compare \/ CreateJob \/ Attach \/ ReconcileJob
  \/ Found \/ AssertRevision \/ Apply \/ CompleteMotion
  \/ RenderStarts \/ RenderCommits \/ RenderEnds \/ RenderFails
  \/ RetryStage \/ CancelWorkflow \/ UserEdits \/ Replan \/ Restart

MotionSpec == MotionInit /\ [][MotionNext]_motionVars

-------------------------------------------------------------------------------
(* Properties.                                                                  *)
Statuses == {"queued", "rendering", "committed", "completed", "failed", "refused", "stale", "cancelled", "interrupted"}

(* The variables hold what the schemas allow. *)
MotionTypeOK ==
  /\ stage \in [status : {"ready", "running", "completed", "failed", "interrupted", "cancelled"},
                attempt : 0 .. MaxTries, base : Nat, known : Nat, jobs : Seq(DOMAIN renders)]
  /\ renders \in Seq([of : STRING, op : Nat \X STRING, expected : Nat, status : Statuses, made : 0 .. RevisionNow])
  /\ edits \in Seq(Nat \X STRING)
  /\ plan \in DOMAIN Plan
  /\ drive.pc \in {"none", "next", "create", "attach", "poll", "remotion", "apply", "complete"}
  /\ deaths \in 0 .. MaxDeaths

Suggestions(p) == {Plan[p][i] : i \in DOMAIN Plan[p]}

(* A suggestion of the plan enters the timeline once, and the Remotion ones     *)
(* once together, over all the attempts, jobs, retries of jobs, restarts and    *)
(* edits in between; and a stage that reads completed has brought in all of one *)
(* plan and nothing else, and knows the revision that holds it.                 *)
ShownOnce ==
  /\ \A i, j \in DOMAIN edits : edits[i][2] = edits[j][2] /\ edits[i][2] # "user" => i = j
  /\ stage.status = "completed" =>
       \E p \in DOMAIN Plan : {edits[i][2] : i \in 1 .. stage.known} \ {"user"} = Suggestions(p) \cup {"remotion"}
===============================================================================
