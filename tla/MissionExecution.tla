--------------------------- MODULE MissionExecution ----------------------------
(* lib/production/execution/executor.ts over execution/repository.ts, with what *)
(* it shares with mission/service.ts, planner/service.ts and the step runner    *)
(* (autonomy/runner.ts, application-runner.ts, repair-step-port.ts): one         *)
(* Production Mission, its plans, and the executions of its plans.              *)
(*                                                                             *)
(* A Mission and an execution are two files, each read and replaced in a step.  *)
(* The executor holds the mission's lock across both; the planner and a cancel  *)
(* from the Mission's page do not, and the runner of a step works outside it.   *)
(* A section under the lock reads the Mission, then the project, and writes the *)
(* execution: what others may do in between touches neither what was read       *)
(* before nor what is read after it, so that these are one step.  The change    *)
(* of the Mission that follows is another.                                      *)
EXTENDS Naturals, Sequences, FiniteSets

CONSTANTS
  Call,         \* processes that run the executor, one call each at a time
  Kind,         \* the kinds of a plan's steps, in the order of the plan
  Deps,         \* of each step: dependsOn
  Gated,        \* the steps that need a checkpoint under the mission's policy
  MaxAttempts,  \* budget.maxStepAttempts
  MaxTotal,     \* budget.maxTotalAttempts
  MaxPlan,      \* bound: plans that are generated
  MaxEdits,     \* bound: edits of the project by others
  MaxLife,      \* bound: lives of a process
  Nobody        \* no call

Step == DOMAIN Kind

ASSUME PlanAssumption ==
  /\ Kind \in Seq({"inspection", "edit", "workflow"}) /\ Kind # << >>
  /\ Deps \in [Step -> SUBSET Step]
  /\ Gated \subseteq Step
ASSUME BoundAssumption == {MaxAttempts, MaxTotal, MaxPlan, MaxEdits, MaxLife} \subseteq Nat
ASSUME NobodyAssumption == Nobody \notin Call

VARIABLES
  mission,  \* the Mission's file: status, planId, executionId
  base,     \* of each plan, by number: baseProjectRevision
  execs,    \* the executions' files, in the order they were created
  project,  \* the edits the project was made by: <<execution, step>>, or <<0, 0>>
  draft,    \* the plan that is being generated, if any
  lock,     \* who holds the mission's lock
  life,     \* of each process: which of its lives this is
  call,     \* of each process: the call of the executor in progress
  torn      \* history: a process died between its change of an execution and of the Mission

files == <<mission, base, execs>>
vars  == <<mission, base, execs, project, draft, lock, life, call, torn>>

-------------------------------------------------------------------------------
(* A step of status "stopped" is blocked with the failure MISSION_CANCELLED.    *)
(* Its owner is the process that claimed it: pid, start and token in one.       *)
NotStarted == [status |-> "pending", attempts |-> 0, owner |-> <<Nobody, 0>>, checkpoint |-> "none"]
Idle       == [at |-> "idle", plan |-> 0, exec |-> 0, step |-> 1, word |-> "", rev |-> {}, next |-> "idle"]
NoDraft    == [base |-> 0, status |-> "", plan |-> 0]

Init ==
  /\ mission = [status |-> "draft", plan |-> 0, exec |-> 0]
  /\ base = << >>
  /\ execs = << >>
  /\ project = << >>
  /\ draft = NoDraft
  /\ lock = Nobody
  /\ life = [c \in Call |-> 1]
  /\ call = [c \in Call |-> Idle]
  /\ torn = FALSE

Revision  == Len(project)
Me(c)     == <<c, life[c]>>
NoOwner   == <<Nobody, 0>>

Alive(owner) == \E c \in Call : owner = Me(c)

Current == IF mission.exec # 0 THEN mission.exec ELSE Len(execs)

Finished(x)   == {s \in Step : x.step[s].status = "completed"}
Unfinished(x) == Step \ Finished(x)
Runnable(x)   == {s \in Step : x.step[s].status \in {"pending", "retrying"} /\ Deps[s] \subseteq Finished(x)}
Working(x)    == {s \in Step : x.step[s].status = "running"}
First(S)      == CHOOSE s \in S : \A t \in S : s <= t
OverBudget(x, s) == x.step[s].attempts >= MaxAttempts \/ x.total >= MaxTotal

SetStep(x, s, status) == [x EXCEPT !.step[s].status = status, !.step[s].owner = NoOwner]

(* blockExecution: the step that is blocked is the first unfinished one. *)
Blocked(x) ==
  LET y == [x EXCEPT !.status = "blocked", !.active = 0]
  IN  IF Unfinished(x) = {} THEN y ELSE SetStep(y, First(Unfinished(x)), "blocked")

(* terminalizeInFlightSteps: a runner that works keeps its claim, so that what  *)
(* it has done can still be recorded.                                           *)
(* Mutant: a step that waits for its review is forgotten.                       *)
StoppedButReviews(x) ==
  LET stopped(s) == [x.step[s] EXCEPT !.status = "stopped",
                                      !.owner = IF x.step[s].status = "running" THEN @ ELSE NoOwner]
  IN  [x EXCEPT !.status = "cancelled", !.active = 0,
                !.step = [s \in Step |-> IF x.step[s].status \in {"running", "retrying"}
                                         THEN stopped(s) ELSE x.step[s]]]
Stopped(x) ==
  LET stopped(s) == [x.step[s] EXCEPT !.status = "stopped",
                                      !.owner = IF x.step[s].status = "running" THEN @ ELSE NoOwner]
  IN  [x EXCEPT !.status = "cancelled", !.active = 0,
                !.step = [s \in Step |-> IF x.step[s].status \in {"running", "retrying", "waiting-review"}
                                         THEN stopped(s) ELSE x.step[s]]]

-------------------------------------------------------------------------------
(* Sections under the mission's lock.                                           *)

Hold(c) == lock = Nobody /\ lock' = c

(* The execution is written, the Mission is to be marked with a status, and the *)
(* call goes on at a place.                                                     *)
ThenMark(c, e, word, next) ==
  call' = [call EXCEPT ![c].at = "marking", ![c].exec = e, ![c].word = word, ![c].next = next]

Write(e, x) == execs' = [execs EXCEPT ![e] = x]

WriteAndMark(c, e, x, next) ==
  /\ Write(e, x)
  /\ ThenMark(c, e, x.status, next)

(* markMission.  A Mission that was cancelled or planned again is left alone.   *)
Marked(e, word) ==
  IF mission.status = "cancelled" \/ mission.plan # execs[e].plan
  THEN mission
  ELSE [mission EXCEPT !.exec = e, !.status = word]

Mark(c) ==
  /\ call[c].at = "marking"
  /\ mission' = Marked(call[c].exec, call[c].word)
  /\ call' = [call EXCEPT ![c] = IF @.next = "idle" THEN Idle
                                 ELSE [@ EXCEPT !.at = call[c].next, !.word = "", !.next = "idle"]]
  /\ lock' = IF call[c].next = "claiming" THEN c ELSE Nobody
  /\ UNCHANGED <<base, execs, project, draft, life, torn>>

Leave(c) ==
  /\ lock' = Nobody
  /\ call' = [call EXCEPT ![c] = Idle]

-------------------------------------------------------------------------------
(* advance: claimAdvance.                                                       *)

(* The Mission is read. *)
Advance(c) ==
  /\ call[c].at = "idle" /\ Hold(c)
  /\ mission.status \notin {"cancelled", "completed"} /\ mission.plan # 0
  /\ call' = [call EXCEPT ![c] = [Idle EXCEPT !.at = "claiming", !.plan = mission.plan, !.exec = Current]]
  /\ UNCHANGED <<files, project, draft, life, torn>>

Claiming(c) == call[c].at = "claiming"
Target(c)   == execs[call[c].exec]
Found(c)    == Claiming(c) /\ call[c].exec # 0 /\ Target(c).plan = call[c].plan

(* ensureCurrentExecution: an execution of an older plan is blocked. *)
Supersede(c) ==
  /\ Claiming(c) /\ call[c].exec # 0 /\ Target(c).plan # call[c].plan
  /\ IF Target(c).status \in {"completed", "cancelled", "blocked"}
     THEN UNCHANGED execs
     ELSE Write(call[c].exec, Blocked(Target(c)))
  /\ call' = [call EXCEPT ![c].exec = 0]
  /\ UNCHANGED <<mission, base, project, draft, lock, life, torn>>

Create(c) ==
  /\ Claiming(c) /\ call[c].exec = 0
  /\ execs' = Append(execs, [plan |-> call[c].plan, expected |-> base[call[c].plan], status |-> "running",
                             active |-> 0, total |-> 0, step |-> [s \in Step |-> NotStarted]])
  /\ ThenMark(c, Len(execs'), "running", "claiming")
  /\ UNCHANGED <<mission, base, project, draft, lock, life, torn>>

(* There is nothing to do: the execution does not run. *)
Rest(c) ==
  /\ Found(c) /\ Target(c).status # "running"
  /\ Leave(c)
  /\ UNCHANGED <<files, project, draft, life, torn>>

(* The revision at which a step that is running may be taken over.  For an edit *)
(* it may be the next one: that may be the edit.                                *)
Reached(x, s) ==
  \/ Revision = x.expected
  \/ Kind[s] = "edit" /\ Revision = x.expected + 1

(* A running step.  The revision is compared first, whoever runs the step. *)
Overtaken(c) ==
  /\ Found(c) /\ Target(c).status = "running"
  /\ \E s \in Working(Target(c)) : ~Reached(Target(c), s)
  /\ WriteAndMark(c, call[c].exec, Blocked(Target(c)), "idle")
  /\ UNCHANGED <<mission, base, project, draft, lock, life, torn>>

LetRun(c) ==
  /\ Found(c) /\ Target(c).status = "running"
  /\ \E s \in Working(Target(c)) : Reached(Target(c), s) /\ Alive(Target(c).step[s].owner)
  /\ Leave(c)
  /\ UNCHANGED <<files, project, draft, life, torn>>

TakeOver(c) ==
  /\ Found(c) /\ Target(c).status = "running"
  /\ \E s \in Working(Target(c)) :
       /\ Reached(Target(c), s) /\ ~Alive(Target(c).step[s].owner)
       /\ Write(call[c].exec, [Target(c) EXCEPT !.step[s].owner = Me(c)])
       /\ call' = [call EXCEPT ![c].at = "running", ![c].step = s]
  /\ lock' = Nobody
  /\ UNCHANGED <<mission, base, project, draft, life, torn>>

(* No step is running: the first runnable one is taken. *)
Free(c) == Found(c) /\ Target(c).status = "running" /\ Working(Target(c)) = {}
Ready(c, s) ==
  /\ Free(c) /\ Runnable(Target(c)) # {} /\ s = First(Runnable(Target(c)))
  /\ Revision = Target(c).expected
Awaits(x, s) == s \in Gated /\ x.step[s].checkpoint # "approved"

(* The dependencies of no step are satisfied, or the project has moved on.      *)
DeadEnd(c) ==
  /\ Free(c)
  /\ Runnable(Target(c)) = {} \/ Revision # Target(c).expected
  /\ WriteAndMark(c, call[c].exec, Blocked(Target(c)), "idle")
  /\ UNCHANGED <<mission, base, project, draft, lock, life, torn>>

AskReview(c) ==
  /\ \E s \in Step :
       /\ Ready(c, s) /\ Awaits(Target(c), s)
       /\ WriteAndMark(c, call[c].exec,
                       [SetStep(Target(c), s, "waiting-review")
                          EXCEPT !.status = "waiting-review", !.active = s,
                                 !.step[s].checkpoint = "pending"], "idle")
  /\ UNCHANGED <<mission, base, project, draft, lock, life, torn>>

Exhausted(c) ==
  /\ \E s \in Step : Ready(c, s) /\ ~Awaits(Target(c), s) /\ OverBudget(Target(c), s)
  /\ WriteAndMark(c, call[c].exec, Blocked(Target(c)), "idle")
  /\ UNCHANGED <<mission, base, project, draft, lock, life, torn>>

Claim(c) ==
  /\ \E s \in Step :
       /\ Ready(c, s) /\ ~Awaits(Target(c), s) /\ ~OverBudget(Target(c), s)
       /\ Write(call[c].exec, [Target(c) EXCEPT !.total = @ + 1, !.active = s, !.step[s].attempts = @ + 1,
                                                !.step[s].status = "running", !.step[s].owner = Me(c)])
       /\ call' = [call EXCEPT ![c].at = "marking", ![c].step = s, ![c].word = "running", ![c].next = "running"]
  /\ UNCHANGED <<mission, base, project, draft, lock, life, torn>>

-------------------------------------------------------------------------------
(* The runner of a step, outside the lock.  The revision it works for is the one *)
(* of its claim, which nothing changes while the claim stands.                  *)

Running(c, kind) == call[c].at = "running" /\ Kind[call[c].step] = kind
Operation(c)     == <<call[c].exec, call[c].step>>

(* A report may name the revision the step has come to: projectRevisionAfter.    *)
(* "overspent" is completed, with a usage beyond the budget.                    *)
Report(c, words, rev) ==
  \E w \in words : call' = [call EXCEPT ![c].at = "reporting", ![c].word = w, ![c].rev = rev]

(* Not completed; a step of a kind that says so may be tried again. *)
Fail(c) ==
  /\ call[c].at = "running" /\ Kind[call[c].step] # "edit"
  /\ Report(c, {"retryable", "blocked"}, {})
  /\ UNCHANGED <<files, project, draft, lock, life, torn>>

(* What leaves the project alone: an agent's turn, which names no revision, a    *)
(* render or a QA report, which counts if it shows the expected one.            *)
Inspect(c) ==
  /\ Running(c, "inspection")
  /\ \/ Report(c, {"completed", "overspent"}, {})
     \/ Revision = Target(c).expected /\ Report(c, {"completed"}, {Revision})
  /\ UNCHANGED <<files, project, draft, lock, life, torn>>

(* A workflow, whose mutations have ids of their own (module WorkflowRun).  It   *)
(* names the revision that is there when it is over, whoever made it.           *)
WorkflowEdits(c) ==
  /\ Running(c, "workflow")
  /\ Revision = Target(c).expected
  /\ project' = Append(project, Operation(c))
  /\ UNCHANGED <<files, draft, lock, life, call, torn>>
WorkflowEnds(c) ==
  /\ Running(c, "workflow")
  /\ Report(c, {"completed"}, {Revision})
  /\ UNCHANGED <<files, project, draft, lock, life, torn>>

(* An edit or a repair is applied at the expected revision and at no other:     *)
(* visualPlans.apply and the repair port both compare it before they come to    *)
(* the coordinator, which would know the operation by its id.                   *)
(* Mutants: a runner that applies to whatever it finds; one that takes the next *)
(* revision for its own edit, unseen.                                           *)
EditAnything(c) ==
  /\ Running(c, "edit")
  /\ project' = Append(project, Operation(c))
  /\ Report(c, {"completed", "overspent"}, {Len(project')})
  /\ UNCHANGED <<files, draft, lock, life, torn>>
EditCredulously(c) ==
  /\ Running(c, "edit")
  /\ Revision \in {Target(c).expected, Target(c).expected + 1}
  /\ project' = IF Revision = Target(c).expected THEN Append(project, Operation(c)) ELSE project
  /\ Report(c, {"completed", "overspent"}, {Target(c).expected + 1})
  /\ UNCHANGED <<files, draft, lock, life, torn>>
Edit(c) ==
  /\ Running(c, "edit")
  /\ Revision = Target(c).expected
  /\ project' = Append(project, Operation(c))
  /\ Report(c, {"completed", "overspent"}, {Len(project')})
  /\ UNCHANGED <<files, draft, lock, life, torn>>

(* A proposal that adds nothing, or a QA report that passes, needs no edit. *)
EditNothing(c) ==
  /\ Running(c, "edit")
  /\ Report(c, {"completed"}, {Target(c).expected})
  /\ UNCHANGED <<files, project, draft, lock, life, torn>>

(* At any other revision it is refused; at the expected one it may be, because  *)
(* of what it would edit.                                                       *)
EditRefused(c) ==
  /\ Running(c, "edit")
  /\ Report(c, {"blocked"}, {})
  /\ UNCHANGED <<files, project, draft, lock, life, torn>>

-------------------------------------------------------------------------------
(* advance: reconcileRunnerResult and handleRunnerResult.                       *)

Reporting(c, words) == call[c].at = "reporting" /\ call[c].word \in words /\ lock = Nobody
Mission(c) == IF mission.status = "cancelled" THEN "cancelled"
              ELSE IF mission.plan # call[c].plan THEN "planned anew" ELSE "same"

(* The claim still stands, in the execution that is the Mission's. *)
Held(c) ==
  /\ Current = call[c].exec
  /\ Target(c).step[call[c].step].owner = Me(c)
  /\ \/ Target(c).step[call[c].step].status = "running"
     \/ Target(c).step[call[c].step].status = "stopped" /\ Target(c).status = "cancelled"

Dropped(c) ==
  /\ call[c].at = "reporting" /\ lock = Nobody /\ ~Held(c)
  /\ call' = [call EXCEPT ![c] = Idle]
  /\ UNCHANGED <<files, project, draft, lock, life, torn>>

(* What is written without a change of the Mission. *)
WriteAndLeave(c, x) ==
  /\ Write(call[c].exec, x)
  /\ call' = [call EXCEPT ![c] = Idle]
  /\ UNCHANGED lock

WriteAndMarkMission(c, x) == WriteAndMark(c, call[c].exec, x, "idle") /\ lock' = c

After(c) == IF call[c].rev = {} THEN Target(c).expected ELSE CHOOSE r \in call[c].rev : TRUE
Verified(c) == call[c].rev \subseteq {Revision}
Overspent(c) == call[c].word = "overspent"

Completed(c) ==
  LET x == [SetStep(Target(c), call[c].step, "completed") EXCEPT !.expected = After(c), !.active = 0]
  IN  /\ Reporting(c, {"completed", "overspent"}) /\ Held(c) /\ Verified(c)
      /\ IF Mission(c) = "cancelled"
         THEN WriteAndLeave(c, Stopped(x))
         ELSE WriteAndMarkMission(c,
                IF Mission(c) = "planned anew" \/ Overspent(c) THEN Blocked(x)
                ELSE [x EXCEPT !.status = IF Unfinished(x) = {} THEN "completed" ELSE "running"])
      /\ UNCHANGED <<mission, base, project, draft, life, torn>>

Unverified(c) ==
  /\ Reporting(c, {"completed", "overspent"}) /\ Held(c) /\ ~Verified(c)
  /\ IF Mission(c) = "cancelled"
     THEN WriteAndLeave(c, [SetStep(Target(c), call[c].step, "blocked")
                              EXCEPT !.status = "cancelled", !.active = 0])
     ELSE WriteAndMarkMission(c, Blocked(Target(c)))
  /\ UNCHANGED <<mission, base, project, draft, life, torn>>

(* A step that was not completed.  Of one that was stopped only the claim goes. *)
Stranded(c) ==
  LET x == IF Target(c).status = "cancelled" THEN Target(c) ELSE Stopped(Target(c))
  IN  /\ Reporting(c, {"retryable", "blocked"}) /\ Held(c)
      /\ Target(c).status = "cancelled" \/ Mission(c) = "cancelled"
      /\ WriteAndLeave(c, [x EXCEPT !.step[call[c].step].owner = NoOwner])
      /\ UNCHANGED <<mission, base, project, draft, life, torn>>

Failed(c) ==
  LET s == call[c].step
      x == [SetStep(Target(c), s, "retrying") EXCEPT !.status = "running", !.active = s]
  IN  /\ Reporting(c, {"retryable", "blocked"}) /\ Held(c)
      /\ Target(c).status # "cancelled" /\ Mission(c) # "cancelled"
      /\ IF Mission(c) = "planned anew" \/ call[c].word = "blocked"
         THEN WriteAndMarkMission(c, Blocked(Target(c)))
         ELSE WriteAndMarkMission(c, IF OverBudget(x, s) THEN Blocked(x) ELSE x)
      /\ UNCHANGED <<mission, base, project, draft, life, torn>>

-------------------------------------------------------------------------------
(* review: the checkpoint is named by its id, which is that of its step and     *)
(* execution; an answer to an earlier one is refused.                           *)
Reviewed(c, s) ==
  /\ call[c].at = "idle" /\ Hold(c)
  /\ mission.status # "cancelled" /\ mission.plan # 0 /\ mission.exec # 0
  /\ execs[mission.exec].plan = mission.plan
  /\ execs[mission.exec].status = "waiting-review"
  /\ execs[mission.exec].active = s
  /\ execs[mission.exec].step[s].status = "waiting-review"
  /\ execs[mission.exec].step[s].checkpoint = "pending"
  /\ UNCHANGED <<mission, base, project, draft, life, torn>>

Approve(c) ==
  \E s \in Step :
    /\ Reviewed(c, s)
    /\ WriteAndMark(c, mission.exec, [SetStep(execs[mission.exec], s, "pending")
                                        EXCEPT !.status = "running", !.active = 0,
                                               !.step[s].checkpoint = "approved"], "idle")

Reject(c) ==
  \E s \in Step :
    /\ Reviewed(c, s)
    /\ WriteAndMark(c, mission.exec, [SetStep(execs[mission.exec], s, "blocked")
                                        EXCEPT !.status = "blocked", !.active = 0,
                                               !.step[s].checkpoint = "rejected"], "idle")

(* cancel: the Mission first, then its execution. *)
Cancel(c) ==
  /\ call[c].at = "idle" /\ Hold(c)
  /\ mission.status # "completed"
  /\ mission' = [mission EXCEPT !.status = "cancelled"]
  /\ call' = [call EXCEPT ![c] = [Idle EXCEPT !.at = "cancelling"]]
  /\ UNCHANGED <<base, execs, project, draft, life, torn>>

Stop(c) ==
  /\ call[c].at = "cancelling"
  /\ IF Current = 0 \/ execs[Current].status = "cancelled"
     THEN UNCHANGED execs
     ELSE Write(Current, Stopped(execs[Current]))
  /\ Leave(c)
  /\ UNCHANGED <<mission, base, project, draft, life, torn>>

-------------------------------------------------------------------------------
(* Others.  The planner and the Mission's page know nothing of the executor's   *)
(* lock.                                                                        *)

(* ProductionMissionService.cancel. *)
CancelFromPage ==
  /\ mission.status \notin {"cancelled", "completed"}
  /\ mission' = [mission EXCEPT !.status = "cancelled"]
  /\ UNCHANGED <<base, execs, project, draft, lock, life, call, torn>>

(* ProductionPlannerService.generate: the revision it began with and found      *)
(* again after the model answered, then the Mission, if it is still the same.   *)
Plannable == mission.status \in {"draft", "ready", "blocked"}

DraftPlan ==
  /\ draft = NoDraft /\ Plannable /\ Len(base) < MaxPlan
  /\ draft' = [base |-> Revision, status |-> mission.status, plan |-> mission.plan]
  /\ UNCHANGED <<files, project, lock, life, call, torn>>

SavePlan ==
  /\ draft # NoDraft
  /\ draft' = NoDraft
  /\ IF mission.status = draft.status /\ mission.plan = draft.plan
     THEN /\ base' = Append(base, draft.base)
          /\ mission' = [mission EXCEPT !.plan = Len(base'), !.status = "ready"]
     ELSE UNCHANGED <<base, mission>>
  /\ UNCHANGED <<execs, project, lock, life, call, torn>>

EditByOthers ==
  /\ Cardinality({i \in DOMAIN project : project[i] = <<0, 0>>}) < MaxEdits
  /\ project' = Append(project, <<0, 0>>)
  /\ UNCHANGED <<files, draft, lock, life, call, torn>>

(* A process dies.  The lock is recovered from the dead. *)
Crash(c) ==
  /\ life[c] < MaxLife
  /\ life' = [life EXCEPT ![c] = @ + 1]
  /\ call' = [call EXCEPT ![c] = Idle]
  /\ lock' = IF lock = c THEN Nobody ELSE lock
  /\ torn' = (torn \/ call[c].at \in {"marking", "cancelling"})
  /\ UNCHANGED <<files, project, draft>>

Next ==
  \/ \E c \in Call :
       \/ Advance(c) \/ Supersede(c) \/ Create(c) \/ Rest(c) \/ Overtaken(c) \/ LetRun(c) \/ TakeOver(c)
       \/ DeadEnd(c) \/ AskReview(c) \/ Exhausted(c) \/ Claim(c) \/ Mark(c)
       \/ Inspect(c) \/ WorkflowEdits(c) \/ WorkflowEnds(c) \/ Fail(c) \/ Edit(c) \/ EditNothing(c) \/ EditRefused(c)
       \/ Dropped(c) \/ Completed(c) \/ Unverified(c) \/ Stranded(c) \/ Failed(c)
       \/ Approve(c) \/ Reject(c) \/ Cancel(c) \/ Stop(c) \/ Crash(c)
  \/ CancelFromPage \/ DraftPlan \/ SavePlan \/ EditByOthers

Spec == Init /\ [][Next]_vars

-------------------------------------------------------------------------------
(* Properties.                                                                  *)
StepState ==
  {s \in [status : {"pending", "running", "waiting-review", "retrying", "completed", "blocked", "stopped"},
          attempts : 0 .. MaxAttempts, owner : (Call \cup {Nobody}) \X Nat,
          checkpoint : {"none", "pending", "approved", "rejected"}] :
     /\ s.status = "waiting-review" => s.checkpoint = "pending"
     /\ s.owner[1] # Nobody => s.status \in {"running", "blocked", "stopped"}}
ExecState == [plan : Nat, expected : Nat, total : 0 .. MaxTotal, step : [Step -> StepState], active : {0} \cup Step,
              status : {"running", "waiting-review", "blocked", "completed", "cancelled"}]

MissionState == [status : {"draft", "ready", "running", "waiting-review", "blocked", "completed", "cancelled"},
                 plan : Nat, exec : Nat]

(* The variables hold what the schemas allow. *)
TypeOK ==
  /\ mission \in MissionState /\ mission.plan <= Len(base) /\ mission.exec <= Len(execs)
  /\ base \in Seq(Nat)
  /\ execs \in Seq(ExecState)
  /\ project \in Seq(Nat \X Nat)
  /\ draft \in [base : Nat, status : {"", "draft", "ready", "blocked"}, plan : Nat]
  /\ lock \in Call \cup {Nobody}
  /\ life \in [Call -> Nat]
  /\ call \in [Call -> [at : {"idle", "claiming", "marking", "running", "reporting", "cancelling"},
                        plan : Nat, exec : 0 .. Len(execs), step : Step,
                        word : {"", "running", "waiting-review", "blocked", "completed", "overspent", "retryable"},
                        rev : SUBSET (0 .. Revision), next : {"idle", "claiming", "running"}]]
  /\ torn \in BOOLEAN

(* What the schema accepts of a step, and of an execution.                      *)
AcceptedStep(t) ==
  /\ t.status = "waiting-review" => t.checkpoint = "pending"
  /\ t.owner # NoOwner => t.status \in {"running", "stopped"}

Accepted(x) ==
  /\ \A s \in Step : AcceptedStep(x.step[s])
  /\ x.status \in {"completed", "cancelled"} =>
       /\ x.active = 0
       /\ \A s \in Step : x.step[s].status \notin {"running", "retrying", "waiting-review"}
  /\ x.status = "completed" => Finished(x) = Step
  /\ x.status = "waiting-review" => x.active # 0 /\ x.step[x.active].status = "waiting-review"
  /\ x.expected >= base[x.plan]

(* Whatever calls come in whatever order, what is to be saved of an execution   *)
(* is accepted by its schema: a change that it refused would throw in the       *)
(* middle of a call, and leave the Mission without a word of what was done.     *)
RecordsAreAccepted == \A e \in DOMAIN execs : Accepted(execs[e])

Operations == {project[i] : i \in DOMAIN project} \ {<<0, 0>>}

(* A step has one runner at a time, and edits the project at most once, whoever *)
(* claims it and however often.                                                 *)
EditedOnce ==
  /\ \A i, j \in DOMAIN project : project[i] = project[j] /\ project[i] # <<0, 0>> => i = j
  /\ \A c, d \in Call :
       c # d /\ call[c].at = "running" /\ call[d].at = "running" => Operation(c) # Operation(d)

(* What an execution builds on is its own work.  From the plan's base revision  *)
(* to the one it expects, the project was edited by its completed steps and by  *)
(* nobody else, until a workflow has been completed, which takes in what it     *)
(* finds; and whatever a completed step has edited is part of that.             *)
BuildsOnItsOwn ==
  \A e \in DOMAIN execs :
    LET own   == {<<e, s>> : s \in Finished(execs[e])}
        built == base[execs[e].plan] + 1 .. execs[e].expected
    IN  /\ execs[e].expected <= Revision
        /\ \A i \in DOMAIN project : project[i] \in own => i \in built
        /\ (\A s \in Finished(execs[e]) : Kind[s] # "workflow") => {project[i] : i \in built} \subseteq own

(* A Mission that reads completed has had every step of its own plan completed. *)
(* And when no call is under way, the Mission and the execution of its plan     *)
(* agree, unless a process died between the two files or the Mission was        *)
(* cancelled: whatever path a call takes, it marks the Mission.                 *)
MissionAgrees ==
  /\ mission.status = "completed" =>
       execs[mission.exec].plan = mission.plan /\ Finished(execs[mission.exec]) = Step
  /\ (/\ lock = Nobody /\ ~torn /\ mission.status # "cancelled"
      /\ Current # 0 /\ execs[Current].plan = mission.plan)
     => mission.status = execs[Current].status

(* A runner that ends while the project is one revision on by its own edit, has *)
(* not been refused: what an interrupted mutation left is recovered.            *)
RecoversItsEdit ==
  \A c \in Call :
    (/\ call[c].at = "reporting" /\ Kind[call[c].step] = "edit"
     /\ Revision = Target(c).expected + 1 /\ project[Revision] = Operation(c))
    => call[c].word # "blocked"

-------------------------------------------------------------------------------
(* The workspace of the Mission, lib/production/workspace/service.ts: what its  *)
(* page is told.  Nothing is kept: a snapshot is computed from the Mission's    *)
(* file, its plan and the execution it names, all read at one moment here.  The *)
(* page offers reviews, retries and planning by what the snapshot says, so it   *)
(* has to be what the executor would do.  Final readiness and QA are left out:  *)
(* no report is kept here.                                                      *)
Shown == execs[mission.exec]

(* A snapshot of a Mission whose execution is of another plan is refused.       *)
Refused == mission.exec # 0 /\ (mission.plan = 0 \/ Shown.plan # mission.plan)

ActiveStep == IF mission.exec = 0 \/ Shown.active = 0 THEN "none"
              ELSE Shown.step[Shown.active].status
ExecutionStatus == IF mission.exec = 0 THEN "none" ELSE Shown.status

Said(status) == status \in {ActiveStep, ExecutionStatus, mission.status}

(* Each rule counts where none before it does.                                  *)
ActivityOf(rules) ==
  LET first == {i \in DOMAIN rules : rules[i][1] /\ \A j \in 1 .. i - 1 : ~rules[j][1]}
  IN  IF first = {} THEN mission.status ELSE rules[CHOOSE i \in first : TRUE][2]

OfTheMission == mission.status \in {"cancelled", "completed"}
OfTheExecution ==
  << <<ActiveStep = "retrying", "retrying">>,
     <<Said("waiting-review"), "waiting-review">>,
     <<Said("blocked"), "blocked">>,
     <<ExecutionStatus \in {"cancelled", "completed"}, ExecutionStatus>>,
     <<Said("running"), "running">> >>

Activity == ActivityOf(<< <<OfTheMission, mission.status>> >> \o OfTheExecution)

PlanIsStale == mission.plan # 0 /\ mission.exec = 0 /\ base[mission.plan] # Revision
ExecutionIsStale == mission.exec # 0 /\ Shown.expected # Revision

(* The reviews the page lists; a decided one is listed with its decision.       *)
PendingReviews ==
  IF mission.exec = 0 THEN {}
  ELSE {s \in Step : Shown.step[s].checkpoint = "pending"}

-------------------------------------------------------------------------------
(* What the executor would do with the Mission as it is.                        *)
Reviewable(s) ==
  /\ mission.status # "cancelled" /\ mission.exec # 0 /\ Shown.plan = mission.plan
  /\ Shown.status = "waiting-review" /\ Shown.active = s
Advances == ~Refused /\ mission.exec # 0 /\ Shown.status = "running"

(* What the page says is what can be done: when no call holds the Mission and   *)
(* no process died between its two files, it offers a review exactly when the   *)
(* executor would take an answer, to a checkpoint it lists; a Mission that reads *)
(* blocked can be planned anew; one that reads running or retrying is advanced; *)
(* one that reads completed has all its plan's steps done.  All of this beside  *)
(* the Mission's agreement with its execution.                                  *)
WorkspaceIsTrue ==
  /\ MissionAgrees
  /\ (lock = Nobody /\ ~torn /\ ~Refused) =>
       /\ Activity = "waiting-review" <=> \E s \in PendingReviews : Reviewable(s)
       /\ Activity = "blocked" => Plannable
       /\ Activity \in {"running", "retrying"} => Advances
       /\ Activity = "completed" => Finished(Shown) = Step

(* Refuted, see README: the page of every Mission is shown.                     *)
AlwaysShown == ~Refused
===============================================================================
