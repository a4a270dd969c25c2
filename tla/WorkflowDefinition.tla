--------------------------- MODULE WorkflowDefinition --------------------------
(* lib/workflows/schema.ts and registry.ts: which definitions of a workflow are *)
(* accepted, and the two that lib/workflows/production-definitions.ts          *)
(* registers.  A definition is [stages, entries]; its stages are a sequence of  *)
(* records [id, kind, dependsOn, invalidates, retryable], and what a stage      *)
(* depends on is a sequence too.                                                *)
EXTENDS Naturals, Sequences, FiniteSets
LOCAL INSTANCE SequencesExt
LOCAL INSTANCE TLC

Ids(d) == {d.stages[i].id : i \in DOMAIN d.stages}
StageOf(d, id) == d.stages[CHOOSE i \in DOMAIN d.stages : d.stages[i].id = id]
DependsOn(d, id) == StageOf(d, id).dependsOn

Repeats(seq) == \E i, j \in DOMAIN seq : i # j /\ seq[i] = seq[j]

(* A list that names each other stage of the definition once at most.           *)
NamesOthers(d, id, list) == ~Repeats(list) /\ ToSet(list) \subseteq Ids(d) \ {id}

EntriesAreFirst(d) ==
  /\ d.entries # << >> /\ ~Repeats(d.entries) /\ ToSet(d.entries) \subseteq Ids(d)
  /\ \A i \in DOMAIN d.entries : DependsOn(d, d.entries[i]) = << >>

(* visit: depth first along dependsOn, from each stage in turn.  It knows the   *)
(* stages on its path and those it has left behind.                             *)
Searched(cycle, visited) == [cycle |-> cycle, visited |-> visited]

RECURSIVE Visit(_, _, _, _), VisitAll(_, _, _, _)
Visit(d, id, path, visited) ==
  LET below == VisitAll(d, DependsOn(d, id), path \union {id}, visited)
  IN  IF id \in path \union visited THEN Searched(id \in path, visited)
      ELSE Searched(below.cycle, below.visited \union {id})

VisitAll(d, ids, path, visited) ==
  IF ids = << >> THEN Searched(FALSE, visited)
  ELSE LET first == IF Head(ids) \in Ids(d) THEN Visit(d, Head(ids), path, visited) ELSE Searched(FALSE, visited)
           rest  == VisitAll(d, Tail(ids), path, first.visited)
       IN  Searched(first.cycle \/ rest.cycle, rest.visited)

FindsCycle(d) == VisitAll(d, [i \in DOMAIN d.stages |-> d.stages[i].id], {}, {}).cycle

AcceptedButForCycles(d) ==
  /\ d.stages # << >>
  /\ \A i, j \in DOMAIN d.stages : d.stages[i].id = d.stages[j].id => i = j
  /\ \A i \in DOMAIN d.stages :
       /\ NamesOthers(d, d.stages[i].id, d.stages[i].dependsOn)
       /\ NamesOthers(d, d.stages[i].id, d.stages[i].invalidates)
  /\ EntriesAreFirst(d)

Accepted(d) == AcceptedButForCycles(d) /\ ~FindsCycle(d)

-------------------------------------------------------------------------------
(* The production definitions: each stage depends on the one before it.         *)
Capabilities ==
  <<"MEDIA_IMPORT", "MEDIA_PROBE", "MEDIA_NORMALIZE", "TRANSCRIBE", "SCRIPT_ANALYSIS",
    "SCENE_DETECTION", "CAPTION_GENERATION", "VISUAL_PLANNING", "MOTION_GENERATION",
    "BROLL_ASSEMBLY", "AUDIO_ASSEMBLY", "TIMELINE_ASSEMBLY", "PREVIEW", "FINAL_RENDER">>

Reviews == {"CONTENT_REVIEW", "ASSEMBLY_REVIEW"}

Reviewed ==
  SubSeq(Capabilities, 1, 8) \o <<"CONTENT_REVIEW">> \o SubSeq(Capabilities, 9, 13)
    \o <<"ASSEMBLY_REVIEW">> \o SubSeq(Capabilities, 14, 14)

KindOf(id) ==
  CASE id \in Reviews -> "checkpoint"
    [] id = "FINAL_RENDER" -> "render"
    [] id \in {"TRANSCRIBE", "MOTION_GENERATION"} -> "job"
    [] id \in {"SCENE_DETECTION", "CAPTION_GENERATION", "BROLL_ASSEMBLY", "AUDIO_ASSEMBLY",
               "TIMELINE_ASSEMBLY"} -> "mutation"
    [] OTHER -> "analysis"

CanRetry(id) == id \notin Reviews \union {"MEDIA_IMPORT", "MEDIA_PROBE", "MEDIA_NORMALIZE"}

Chained(ids) ==
  [entries |-> <<"MEDIA_IMPORT">>,
   stages |-> [i \in DOMAIN ids |->
     [id |-> ids[i], kind |-> KindOf(ids[i]), retryable |-> CanRetry(ids[i]), invalidates |-> << >>,
      dependsOn |-> IF i = 1 THEN << >> ELSE <<ids[i - 1]>>]]]

W2 == Chained(Capabilities)
W3 == Chained(Reviewed)

-------------------------------------------------------------------------------
(* The registry knows a definition by its id and version: it takes accepted     *)
(* ones only, and none a second time.                                           *)
CONSTANTS
  Stages,       \* the names of stages somebody makes a definition of
  Missing       \* a name that is no stage of it

VARIABLES
  registry,     \* this.definitions
  offer         \* the definition offered last, if any, and whether it was taken

registryVars == <<registry, offer>>

RegistryInit == registry = << >> /\ offer = << >>

Takes(key, d) == key \notin DOMAIN registry /\ Accepted(d)

(* registerProductionWorkflowDefinitions: what is known by that name already is  *)
(* left alone.                                                                  *)
Scenarios == {"talking-head", "product-ad", "explainer"}
ProductionNames == {"w2-capability", "video-production"} \X Scenarios
Production == [name \in ProductionNames |-> IF name[1] = "w2-capability" THEN W2 ELSE W3]

RegisterProduction ==
  /\ registry' = registry @@ [name \in {n \in ProductionNames : Takes(n, Production[n])} |-> Production[name]]
  /\ offer' = << >>

(* Somebody's own definition, under a name of his own or one of production's.   *)
Own(ids, deps, first) ==
  [entries |-> <<first>>,
   stages |-> [i \in DOMAIN ids |->
     [id |-> ids[i], kind |-> "analysis", retryable |-> TRUE, invalidates |-> << >>,
      dependsOn |-> SetToSeq(deps[ids[i]])]]]

(* Bound: no second one is offered after it.                                    *)
RegisterOwn ==
  /\ offer = << >> /\ \A key \in DOMAIN registry : registry[key] \in {W2, W3}
  /\ \E deps \in [Stages -> SUBSET (Stages \union {Missing})], first \in Stages,
        key \in {<<"own", "1">>, <<"video-production", "explainer">>} :
       LET d == Own(SetToSeq(Stages), deps, first)
       IN  /\ registry' = IF Takes(key, d) THEN registry @@ (key :> d) ELSE registry
           /\ offer' = <<[definition |-> d, fresh |-> key \notin DOMAIN registry, taken |-> Takes(key, d)]>>

RegistryNext == RegisterProduction \/ RegisterOwn

-------------------------------------------------------------------------------
(* The stages that a run can ever make ready: those whose dependencies it can   *)
(* complete.                                                                    *)
Reachable(d) ==
  LET done[n \in 0..Len(d.stages)] ==
        LET before == IF n = 0 THEN {} ELSE done[n - 1]
        IN  IF n = 0 THEN {} ELSE {id \in Ids(d) : ToSet(DependsOn(d, id)) \subseteq before}
  IN  done[Len(d.stages)]

(* No run waits for ever because of its definition: in what is registered every *)
(* stage can be reached; a definition is refused only because it is not so,     *)
(* its entry has dependencies, or its name is taken.                            *)
DefinitionsAreSound ==
  /\ \A d \in {registry[key] : key \in DOMAIN registry} : Reachable(d) = Ids(d)
  /\ \A i \in DOMAIN offer :
       LET d == offer[i].definition
       IN  offer[i].taken <=> /\ offer[i].fresh /\ Reachable(d) = Ids(d)
                              /\ \A e \in ToSet(d.entries) : DependsOn(d, e) = << >>
===============================================================================
