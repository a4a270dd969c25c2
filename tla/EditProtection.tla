----------------------------- MODULE EditProtection -----------------------------
(* What an autonomous Mission may change of a project, and why: the steps edit,  *)
(* render, QA and repair of a plan (lib/production/execution), their guard       *)
(* (lib/production/autonomy: targets, protection records, policy, runner), and   *)
(* the QA reports repairs are made from (lib/production/qa), while users edit,   *)
(* lock tracks and mark things.  One runner at a time; it may die and another    *)
(* takes the step up with the same operation id.  The executor itself is the     *)
(* subject of MissionExecution.                                                  *)
EXTENDS Naturals, Sequences, FiniteSets

CONSTANTS
  Target,     \* the Mission's target duration, in frames
  Plans,      \* of each plan: the targets it declares, whether its steps are approved, its repair loops
  Marked,     \* the targets whose protection records change
  MaxEdits,   \* bound: edits by users
  MaxMarks,   \* bound: protection records that are changed
  MaxDeaths   \* bound: runners that die

ASSUME TargetAssumption == Target \in Nat \ {0}

VARIABLES
  project,    \* project.json
  records,    \* edit-protection.json: the state of each target, or "none"
  exec,       \* the execution of the newest plan
  runner,     \* its runner
  reports,    \* the QA reports, and those of them the Mission links
  used,       \* how often each bound has been used
  changes     \* history: what the autonomous steps changed, and what they went by

protectionVars == <<project, records, exec, runner, reports, used, changes>>

-------------------------------------------------------------------------------
(* A project: three things on the timeline that overlap its end, and the clip    *)
(* "new" that the visual plan adds.  The script names the scenes of its segments. *)
Clips  == {"clip", "new"}
Scenes == {"intro", "outro"}
Things == Clips \union Scenes \union {"marker"}
Tracks == {"video", "motion"}
Keys   == Things \union Tracks \union {"canvas", "script"}
TrackOf(k) == IF k = "clip" THEN {"video"} ELSE IF k = "new" THEN {"motion"} ELSE {k} \intersect Tracks

Gone   == <<0, 0>>
Spans(length) == {span \in (0 .. length - 1) \X (1 .. length) : span[1] < span[2]}
First == [rev |-> 0, length |-> 3, locked |-> {}, told |-> TRUE, named |-> Scenes,
          at |-> [clip |-> <<1, 3>>, new |-> Gone, intro |-> <<0, 2>>, outro |-> <<2, 3>>, marker |-> <<2, 3>>]]

(* What a plan comes with, by the actions on targets that it may declare.         *)
Actions == {"create", "append", "modify", "remove"}
Offers == [declared : SUBSET (Keys \X Actions), approved : BOOLEAN, loops : Nat]
ASSUME PlansAssumption == Plans \in Seq(SUBSET Offers) /\ Len(Plans) > 0 /\ Plans[1] # {}

Present(p, k) == k \notin Things \/ p.at[k] # Gone
Fits(p)   == \A t \in Things : p.at[t] = Gone \/ p.at[t] \in Spans(p.length)
Becomes(p, q) == [q EXCEPT !.rev = p.rev + 1]

(* buildDurationRepairCommands.  A project that is not too long has nothing late  *)
(* and nothing overlong.  remove-scene also takes the scene out of the script.    *)
Late(p) == {t \in Things : Present(p, t) /\ p.at[t][1] >= Target}
Overlong(p) == {t \in Things : Present(p, t) /\ p.at[t][1] < Target /\ p.at[t][2] > Target}
Trimmed(p) ==
  [p EXCEPT !.length = Target, !.named = @ \ Late(p),
            !.at = [t \in Things |-> IF t \in Late(p) THEN Gone
                                     ELSE IF t \in Overlong(p) THEN <<p.at[t][1], Target>> ELSE p.at[t]]]

(* productionMutationTargetsForCommands of them.  (Mutant: of what is removed.)   *)
RemovalTargets(p) == {<<"canvas", "modify">>} \union {<<t, "remove">> : t \in Late(p)}
RepairTargets(p)  == {<<"canvas", "modify">>} \union {<<t, "remove">> : t \in Late(p)}
                       \union {<<t, "modify">> : t \in Overlong(p)}

(* The visual plan's one suggestion: a clip on the motion track.                  *)
VisualTargets == {<<"motion", "append">>, <<"new", "create">>}
Illustrated(p) == [p EXCEPT !.at["new"] = <<0, 1>>]

-------------------------------------------------------------------------------
(* evaluateProductionEditProtection.                                              *)
Locked(p, k)  == TrackOf(k) \intersect p.locked # {}
Blocked(p, recs, k, action) ==
  \/ Locked(p, k) /\ Present(p, k)
  \/ recs[k] = "protected"
  \/ action \in {"modify", "remove", "append"} /\ ~Present(p, k)
InReview(p, recs, k, action) ==
  \/ action = "create" /\ Present(p, k)
  \/ recs[k] = "human-modified"
  \/ recs[k] = "none" /\ action \notin {"create", "append"}
Decision(p, recs, targets) ==
  IF \E t \in targets : Blocked(p, recs, t[1], t[2]) THEN "block"
  ELSE IF \E t \in targets : InReview(p, recs, t[1], t[2]) THEN "review"
  ELSE "allow"

-------------------------------------------------------------------------------
(* ProductionQAService.run, of a render and what ffprobe says of it: what it finds *)
(* wrong.  A probe that answers says a duration and, if any, a rate that are good.   *)
(* Of a render that is not of the project as it is, nothing else is said.           *)
Probes == {"sound", "absent"}
Covered(p) == Cardinality(UNION {p.at[s][1] .. p.at[s][2] - 1 : s \in {x \in Scenes : Present(p, x)}})
Failures(p, render, probe) ==
  {f \in {"revision", "artifact", "goal", "coverage", "content"} :
     CASE f = "revision" -> render.rev # p.rev
       [] f = "artifact" -> probe = "absent"
       [] f = "goal"     -> render.rev = p.rev /\ probe # "absent" /\ render.length # Target
       [] f = "coverage" -> render.rev = p.rev /\ 5 * Covered(p) < 4 * p.length
       [] OTHER          -> render.rev = p.rev /\ ~p.told}
StatusOf(failures) ==
  IF failures \intersect {"revision", "artifact"} # {} THEN "fail"
  ELSE IF failures # {} THEN "repair-recommended"
  ELSE "pass"
ActionsOf(failures) ==
  (IF failures \intersect {"revision", "artifact"} # {} THEN {"full-rerender"} ELSE {})
  \union (IF failures \intersect {"goal", "coverage"} # {} THEN {"adjust-scene-timing"} ELSE {})
  \union (IF "content" \in failures THEN {"other"} ELSE {})
Report(id, p, render, probe) ==
  LET failures == Failures(p, render, probe)
  IN  [id |-> id, rev |-> p.rev, source |-> render.rev, linked |-> FALSE,
       status |-> StatusOf(failures), actions |-> ActionsOf(failures)]
ReportsOf(id) == {r \in reports : r.id = id}

-------------------------------------------------------------------------------
Steps == <<"edit", "render", "qa", "repair">>
Kind  == Steps[exec.step]
Operation == <<exec.plan, Kind>>
NoRender == [rev |-> 0, length |-> 0]
Unread == [k \in Keys |-> "unread"]
Still == [at |-> "idle", targets |-> {}, saw |-> First, by |-> Unread]

ProtectionInit ==
  /\ project \in {First, Trimmed(First)}
  /\ \E word \in {"none", "ai-owned"} : records = [k \in Keys |-> word]
  /\ exec = [plan |-> 0, status |-> "none", step |-> 1, expected |-> 0, begun |-> FALSE,
             render |-> NoRender, terms |-> CHOOSE t \in Plans[1] : TRUE]
  /\ runner = Still /\ reports = {}
  /\ used = [edits |-> 0, marks |-> 0, deaths |-> 0]
  /\ changes = << >>

(* A plan of the project as it is, with an execution of its own: the first, or one *)
(* in place of one that is blocked.                                               *)
PlanAnew ==
  /\ exec.status \in {"none", "blocked"} /\ runner = Still /\ exec.plan < Len(Plans)
  /\ \E terms \in Plans[exec.plan + 1] :
       exec' = [plan |-> exec.plan + 1, status |-> "running", step |-> 1, expected |-> project.rev,
                begun |-> FALSE, render |-> NoRender, terms |-> terms]
  /\ UNCHANGED <<project, records, runner, reports, used, changes>>

Fails == exec' = [exec EXCEPT !.status = "blocked"] /\ runner' = Still
(* handleRunnerResult: a step is completed at the revision it names, or blocked.   *)
Completes(rev) ==
  IF project'.rev # rev THEN Fails
  ELSE /\ exec' = IF exec.step = Len(Steps) THEN [exec EXCEPT !.status = "completed", !.expected = rev]
                  ELSE [exec EXCEPT !.step = @ + 1, !.expected = rev, !.begun = FALSE]
       /\ runner' = Still

(* claimAdvance.  A step that was begun is taken up again, one that changes the    *)
(* project also if it has been changed once.                                      *)
ClaimStep ==
  /\ exec.status = "running" /\ runner = Still
  /\ IF \/ project.rev = exec.expected
        \/ exec.begun /\ Kind \in {"edit", "repair"} /\ project.rev = exec.expected + 1
     THEN exec' = [exec EXCEPT !.begun = TRUE] /\ runner' = [Still EXCEPT !.at = Kind]
     ELSE Fails
  /\ UNCHANGED <<project, records, reports, used, changes>>

RunnerDies ==
  /\ runner.at # "idle" /\ used.deaths < MaxDeaths
  /\ runner' = Still /\ used' = [used EXCEPT !.deaths = @ + 1]
  /\ UNCHANGED <<project, records, exec, reports, changes>>

(* executeRender: the job may have rendered what was there before an edit, or      *)
(* what came after it.                                                            *)
Render ==
  /\ runner.at = "render"
  /\ IF project.rev = exec.expected
     THEN exec' = [exec EXCEPT !.step = @ + 1, !.begun = FALSE,
                               !.render = [rev |-> project.rev, length |-> project.length]] /\ runner' = Still
     ELSE Fails
  /\ UNCHANGED <<project, records, reports, used, changes>>

-------------------------------------------------------------------------------
(* ApplicationProductionQAStepPort.  A report of this operation must be of the     *)
(* revision that is there now; a new one is of the revision that is there by then.  *)
FindReport ==
  /\ runner.at = "qa"
  /\ \/ ReportsOf(Operation) = {} /\ runner' = [runner EXCEPT !.at = "evaluate"] /\ UNCHANGED exec
     \/ /\ ReportsOf(Operation) # {}
        /\ IF \E r \in ReportsOf(Operation) : r.rev = project.rev
           THEN runner' = [runner EXCEPT !.at = "link"] /\ UNCHANGED exec
           ELSE Fails
  /\ UNCHANGED <<project, records, reports, used, changes>>

Evaluate ==
  /\ runner.at = "evaluate"
  /\ \E probe \in Probes : reports' = reports \union {Report(Operation, project, exec.render, probe)}
  /\ runner' = [runner EXCEPT !.at = "link"]
  /\ UNCHANGED <<project, records, exec, used, changes>>

(* linkQAReport, and the end of the step.  (Mutant: whatever it was of.)           *)
ProvenAtAll(r) == TRUE
Proven(r) == r.rev = exec.expected /\ r.source = exec.expected
Link ==
  /\ runner.at = "link"
  /\ \E r \in ReportsOf(Operation) :
       /\ reports' = (reports \ {r}) \union {[r EXCEPT !.linked = TRUE]}
       /\ UNCHANGED project
       /\ IF Proven(r) THEN Completes(r.rev) ELSE Fails
  /\ UNCHANGED <<records, used, changes>>

-------------------------------------------------------------------------------
(* ProtectedProductionStepRunner.  First what the step would change.               *)
Evidence == CHOOSE r \in reports : r.id = <<exec.plan, "qa">>
Current  == Evidence.rev = exec.expected
TimingOnly == Evidence.actions = {"adjust-scene-timing"}

(* Past the guard, or past what makes it needless.                                *)
Admitted == IF Kind = "edit" THEN "edit now" ELSE "repair now"
GoesOn(by) == runner' = [runner EXCEPT !.at = Admitted, !.by = by] /\ UNCHANGED exec

ResolveEdit ==
  /\ runner.at = "edit"
  /\ IF VisualTargets \subseteq exec.terms.declared
     THEN runner' = [runner EXCEPT !.at = "load", !.targets = VisualTargets] /\ UNCHANGED exec
     ELSE Fails
  /\ UNCHANGED <<project, records, reports, used, changes>>

(* Nothing, if the report says pass.                                              *)
ResolveRepair ==
  /\ runner.at = "repair"
  /\ IF Current /\ Evidence.status = "pass"
     THEN GoesOn(Unread)
     ELSE IF Current /\ TimingOnly /\ project.rev = exec.expected
     THEN runner' = [runner EXCEPT !.at = "load", !.targets = RepairTargets(project)] /\ UNCHANGED exec
     ELSE Fails
  /\ UNCHANGED <<project, records, reports, used, changes>>

(* Then the project.  A begun step whose edit may have been made already goes on.  *)
LoadProject ==
  /\ runner.at = "load"
  /\ IF project.rev = exec.expected
     THEN runner' = [runner EXCEPT !.at = "inspect", !.saw = project] /\ UNCHANGED exec
     ELSE IF project.rev = exec.expected + 1
     THEN GoesOn(Unread)
     ELSE Fails
  /\ UNCHANGED <<project, records, reports, used, changes>>

(* Then the records.  (Mutant: what is in review goes through.)                    *)
LetInUnlessBlocked(decision) == decision # "block"
LetIn(decision) == decision = "allow" \/ (decision = "review" /\ exec.terms.approved)
Inspect ==
  /\ runner.at = "inspect"
  /\ LET decision == Decision(runner.saw, records, runner.targets)
     IN  IF LetIn(decision)
         THEN GoesOn(records)
         ELSE Fails
  /\ UNCHANGED <<project, records, reports, used, changes>>

-------------------------------------------------------------------------------
(* A transaction of the mutation coordinator, of the revision that is expected,    *)
(* and what it is remembered by.                                                   *)
Expected(p)  == p.rev = exec.expected
Transact(q) ==
  /\ project' = Becomes(project, q)
  /\ changes' = Append(changes, [kind |-> Kind, plan |-> exec.plan, from |-> project, to |-> project',
                                 targets |-> runner.targets, by |-> runner.by, approved |-> exec.terms.approved])
  /\ Completes(project.rev + 1)
Leaves == UNCHANGED <<project, changes>>

(* VisualPlanService.apply: a clip that is there already is left as it is.          *)
ApplyEdit ==
  /\ runner.at = "edit now"
  /\ CASE ~Expected(project) -> Fails /\ Leaves
       [] Expected(project) /\ Present(project, "new") -> Leaves /\ Completes(project.rev)
       [] OTHER -> Transact(Illustrated(project))
  /\ UNCHANGED <<records, reports, used>>

(* ApplicationProductionRepairStepPort.                                            *)
ApplyRepair ==
  /\ runner.at = "repair now"
  /\ CASE Evidence.status = "pass" -> Leaves /\ Completes(exec.expected)
       [] Evidence.status # "pass" /\ (exec.terms.loops = 0 \/ ~Expected(project)) -> Fails /\ Leaves
       [] OTHER -> Transact(Trimmed(project))
  /\ UNCHANGED <<records, reports, used>>

-------------------------------------------------------------------------------
(* Users: a thing is moved, removed or changed in length, a track locked or        *)
(* unlocked, the words of hook, call to action or proof lost or found.             *)
UserEdit ==
  /\ used.edits < MaxEdits
  /\ \/ \E t \in Things, s \in {<<0, 1>>, <<1, 3>>, <<2, 3>>, Gone} :
          /\ s # project.at[t] /\ Present(project, t)
          /\ project' = Becomes(project, [project EXCEPT !.at[t] = s, !.named = IF s = Gone THEN @ \ {t} ELSE @])
     \/ \E n \in {2, 3} \ {project.length} : project' = Becomes(project, [project EXCEPT !.length = n])
     \/ \E track \in Tracks :
          project' = Becomes(project, [project EXCEPT !.locked = IF track \in @ THEN @ \ {track} ELSE @ \union {track}])
     \/ project' = Becomes(project, [project EXCEPT !.told = ~@])
  /\ Fits(project')
  /\ used' = [used EXCEPT !.edits = @ + 1]
  /\ UNCHANGED <<records, exec, runner, reports, changes>>

(* markAiOwned, markHumanModified, protect and protectSystem, clear.               *)
Mark ==
  /\ used.marks < MaxMarks
  /\ \E k \in Marked, state \in {"none", "ai-owned", "human-modified", "protected"} :
       records' = [records EXCEPT ![k] = state] /\ state # records[k]
  /\ used' = [used EXCEPT !.marks = @ + 1]
  /\ UNCHANGED <<project, exec, runner, reports, changes>>

RunnerStep ==
  \/ ClaimStep \/ Render \/ FindReport \/ Evaluate \/ Link
  \/ ResolveEdit \/ ResolveRepair \/ LoadProject \/ Inspect \/ ApplyEdit \/ ApplyRepair

ProtectionNext == PlanAnew \/ RunnerStep \/ RunnerDies \/ UserEdit \/ Mark

ProtectionSpec == ProtectionInit /\ [][ProtectionNext]_protectionVars

-------------------------------------------------------------------------------
(* What a change does: the targets whose state differs.                            *)
Touched(c) ==
  {t \in Things : c.from.at[t] # c.to.at[t]}
  \union (IF c.from.length # c.to.length THEN {"canvas"} ELSE {})
  \union {track \in Tracks : \E t \in Clips : TrackOf(t) = {track} /\ ~Present(c.from, t) /\ Present(c.to, t)}

(* Whatever an autonomous step changes of a project, but the script, it had said   *)
(* it would before its targets were inspected, and then each was neither locked nor *)
(* protected, and the Agent's own, new, or approved; and a lock stands to the end.  *)
(* However users edit and mark meanwhile, and though the runner may die and begin   *)
(* again (lib/production/autonomy/runner.ts).                                        *)
EditsAreInspected ==
  \A i \in DOMAIN changes :
    LET c == changes[i]
    IN  \A k \in Touched(c) :
          /\ \E t \in c.targets : t[1] = k
          /\ ~Locked(c.from, k) /\ c.by[k] # "protected"
          /\ \/ c.approved \/ c.by[k] = "ai-owned"
             \/ c.by[k] = "none" /\ (k \in Tracks \/ ~Present(c.from, k))

(* A repair is made at most once by a plan, of the project exactly as a linked     *)
(* report saw it and the render it is of, if that report found timing wrong and     *)
(* nothing else; and what it leaves fits and lasts as long as the Mission asks.      *)
(* And a plan that was completed left a report of what it ended with, or a repair   *)
(* of what that report is of (lib/production/execution/repair-step-port.ts).         *)
RepairIsDue ==
  /\ \A i \in DOMAIN changes :
       LET c == changes[i]
       IN  c.kind = "repair" =>
             /\ \A j \in DOMAIN changes : changes[j].plan = c.plan /\ changes[j].kind = "repair" => j = i
             /\ \E r \in reports :
                  /\ r.id = <<c.plan, "qa">> /\ r.linked
                  /\ r.rev = c.from.rev /\ r.source = c.from.rev
                  /\ r.status # "pass" /\ r.actions = {"adjust-scene-timing"}
             /\ Fits(c.to) /\ c.to.length = Target
  /\ exec.status = "completed" =>
       \E r \in reports :
         /\ r.id = <<exec.plan, "qa">> /\ r.linked /\ r.source = r.rev
         /\ \/ r.rev = exec.expected /\ r.status = "pass"
            \/ \E i \in DOMAIN changes : /\ changes[i].plan = exec.plan /\ changes[i].kind = "repair"
                                         /\ changes[i].from.rev = r.rev /\ changes[i].to.rev = exec.expected

(* What an autonomous plan changes of a project is what it was let change.          *)
AutonomyIsBounded == EditsAreInspected /\ RepairIsDue

(* Refuted, see README: a protected script is left as it is.                        *)
ScriptIsPreserved ==
  \A i \in DOMAIN changes :
    changes[i].by["script"] = "protected" => changes[i].from.named = changes[i].to.named
===============================================================================
