--------------------------- MODULE MCWorkflowStages ----------------------------
(* The workflow's runner; beside it the stage that brings the visual plan into  *)
(* the timeline, the registry of definitions, the record of which runtime the   *)
(* server's workers belong to, and the scenes and the plan themselves.  They     *)
(* share no variable, and which of them moves is chosen at the start.           *)
EXTENDS MCWorkflowRun, MotionStage, RuntimeOwner, WorkflowDefinition, VisualPlan

TwoPlans == << <<"title", "chart">>, << >> >>

CONSTANTS hook, proof, call
Words == (hook :> Span(0, 3)) @@ (proof :> Span(3, 9)) @@ (call :> Span(10, 16))
ThreeSegments == <<hook, proof, call>>
Cards == (hook :> 4) @@ (proof :> 3) @@ (call :> 3)
OneSpan == {Span(1, 5)}

VARIABLE part

SideBySideInit ==
  /\ part \in {"runner", "motion", "owner", "registry", "plan"}
  /\ Init /\ MotionInit /\ OwnerInit /\ RegistryInit /\ PlanInit
  /\ part = "plan" \/ script.base = << >>

SideBySideNext ==
  /\ UNCHANGED part
  /\ \/ part = "runner" /\ Next /\ UNCHANGED <<motionVars, ownerVars, registryVars, sceneVars, planVars>>
     \/ part = "motion" /\ MotionNext /\ UNCHANGED <<vars, ownerVars, registryVars, sceneVars, planVars>>
     \/ part = "owner" /\ OwnerNext /\ UNCHANGED <<vars, motionVars, registryVars, sceneVars, planVars>>
     \/ part = "registry" /\ RegistryNext /\ UNCHANGED <<vars, motionVars, ownerVars, sceneVars, planVars>>
     \/ part = "plan" /\ PlanStep /\ UNCHANGED <<vars, motionVars, ownerVars, registryVars>>

SideBySide ==
  SideBySideInit /\ [][SideBySideNext]_<<part, vars, motionVars, ownerVars, registryVars, sceneVars, planVars>>

(* A run is made of stages that can be reached, the one that shows the plan      *)
(* shows each suggestion once, scenes do not overlap, and a plan keeps its        *)
(* distances.                                                                   *)
StagesAreSound ==
  \/ part = "plan" /\ ScenesAreSound /\ PlanIsModest /\ ScopeIsKept
  \/ part # "plan" /\ DefinitionsAreSound /\ ShownOnce
===============================================================================
