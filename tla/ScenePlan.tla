------------------------------- MODULE ScenePlan -------------------------------
(* The scenes of a project, lib/scenes/model.ts: made of the script's segments     *)
(* where they are on the timeline, split before a segment, merged with the next     *)
(* and cleared (components/scenes/ScenePanel, and the stage SCENE_DETECTION), while *)
(* the video under them may be edited; and the captions made of the same segments  *)
(* (the stage CAPTION_GENERATION of lib/workflows/production-stages.ts).            *)
(*                                                                               *)
(* The identifier of a scene is the sequence the code makes its name of: its number *)
(* and the segments it was split before.  Names, summaries, styles and preferred    *)
(* engines are left out; of a text's kind only what makes a scene a call to action  *)
(* or a proof is kept, since these and the first are the ones that are intense.     *)
EXTENDS ScriptTimeline, FiniteSetsExt, TLC

CONSTANTS
  Script,          \* the segments in the order they are spoken
  Cta, Proof,      \* those whose text reads as a call to action, as a proof
  Length,          \* frames of the video
  SceneFrames,     \* frames a scene lasts at most, if it has two segments (10 s)
  SceneSegments,   \* segments a scene has at most
  MaxScriptEdits,  \* bound: cuts of the script and edits of the video
  MaxChanges       \* bound: changes of the project

ASSUME SceneAssumption ==
  /\ Script \in Seq(Segment) /\ ToSet(Script) = Segment
  /\ {Cta, Proof} \subseteq SUBSET Segment
  /\ {Length, SceneFrames, SceneSegments, MaxScriptEdits, MaxChanges} \subseteq Nat

VARIABLES
  script,      \* the document
  scenes,      \* the scenes by identifier
  sceneOf,     \* the scene a segment is assigned to
  captions,    \* where the caption of a segment shows, if it has one
  trimmed,     \* the video was edited since the scenes were made, or out of order then
  changes      \* how many changes were made

sceneVars == <<script, scenes, sceneOf, captions, trimmed, changes>>

Unassigned == << >>
Changed == changes < MaxChanges /\ changes' = changes + 1

-------------------------------------------------------------------------------
(* The segments that are spoken on the timeline, and where; where some of them are. *)
OnTimeline(segments) == UNION {SegmentOnTimeline(script, s) : s \in segments}
Spot(s) == CHOOSE r \in SegmentOnTimeline(script, s) : TRUE
Spoken == SelectSeq(Script, LAMBDA s : s \notin script.cut /\ SegmentOnTimeline(script, s) # {})
HeardInOrder ==
  LET spots == [i \in DOMAIN Spoken |-> Spot(Spoken[i])]
  IN \A i, j \in DOMAIN spots : i < j => spots[i].to <= spots[j].from
Bounds(segments) ==
  {Span(Min({r.from : r \in on}), Max({r.to : r \in on})) : on \in {OnTimeline(segments)} \ {{}}}

(* A scene; one that ends before it begins, or beyond the project, is refused with   *)
(* the change that adds it.                                                         *)
Intense == {"hook", "proof", "cta"}
SceneOn(range, kind) ==
  [from |-> range.from, to |-> range.to, kind |-> kind,
   intensity |-> IF kind \in Intense THEN "high" ELSE "medium"]
Placed(scene, range) == [scene EXCEPT !.from = range.from, !.to = range.to]
Fitting(scene) == scene.from < scene.to /\ scene.to <= script.length

(* The scenes become these, and the segments these scenes'.                         *)
Replace(made, of) ==
  /\ \A id \in DOMAIN made : Fitting(made[id])
  /\ scenes' = made /\ sceneOf' = of
  /\ Changed /\ UNCHANGED <<script, captions>>

-------------------------------------------------------------------------------
(* buildAutoScenesTransaction: a scene ends before a segment that would make it too  *)
(* long, that it has no room for, or that calls to action.                          *)
EndsAfter(scene, s) ==
  \/ Spot(s).to - Spot(Head(scene)).from > SceneFrames
  \/ Len(scene) >= SceneSegments
  \/ s \in Cta
Buckets ==
  LET Adds(made, s) ==
        IF made = << >> \/ EndsAfter(Last(made), s) THEN Append(made, <<s>>)
        ELSE [made EXCEPT ![Len(made)] = Append(@, s)]
  IN FoldLeft(Adds, << >>, Spoken)

SceneKind(i, segments) ==
  IF i = 1 THEN "hook"
  ELSE IF segments \intersect Cta # {} THEN "cta"
  ELSE IF segments \intersect Proof # {} THEN "proof" ELSE "custom"

MakeScenes ==
  /\ Spoken # << >>
  /\ LET buckets == Buckets
         Lasts(i) == Span(Spot(Head(buckets[i])).from, Spot(Last(buckets[i])).to)
         Of(s) == {i \in DOMAIN buckets : s \in ToSet(buckets[i])}
     IN Replace([id \in {<<i>> : i \in DOMAIN buckets} |-> SceneOn(Lasts(id[1]), SceneKind(id[1], ToSet(buckets[id[1]])))],
                [s \in Segment |-> SetToSeq(Of(s))])
  /\ trimmed' = ~HeardInOrder

(* buildSplitSceneTransaction: what comes before the segment keeps the identifier.   *)
Assigned(id) == SelectSeq(Script, LAMBDA s : sceneOf[s] = id /\ s \notin script.cut)
SplitScene(id, s) ==
  LET segments == Assigned(id)
      later == {segments[i] : i \in {j \in DOMAIN segments : \E k \in 2 .. j : segments[k] = s}}
      new == Append(id, s)
  IN /\ later # {} /\ new \notin DOMAIN scenes
     /\ \E left \in Bounds(ToSet(segments) \ later), right \in Bounds(later) :
          Replace([scenes EXCEPT ![id] = Placed(@, left)] @@ (new :> Placed(scenes[id], right)),
                  [t \in Segment |-> IF t \in later THEN new ELSE sceneOf[t]])
     /\ UNCHANGED trimmed

(* buildMergeSceneWithNextTransaction; of scenes that begin together, either may be  *)
(* the one that is listed first.                                                    *)
Follows(id, next) ==
  /\ next # id /\ scenes[id].from <= scenes[next].from
  /\ \A other \in DOMAIN scenes \ {id, next} :
       scenes[other].from <= scenes[id].from \/ scenes[next].from <= scenes[other].from
MergeScenes(id, next) ==
  /\ Follows(id, next)
  /\ LET both == Span(Min({scenes[id].from, scenes[next].from}), Max({scenes[id].to, scenes[next].to}))
     IN Replace([other \in DOMAIN scenes \ {next} |-> IF other = id THEN Placed(scenes[id], both) ELSE scenes[other]],
                [s \in Segment |-> IF sceneOf[s] = next THEN id ELSE sceneOf[s]])
  /\ UNCHANGED trimmed

(* clearScenes, and the update of a scene's intensity.                              *)
ClearScenes ==
  /\ scenes # << >>
  /\ Replace(<< >>, [s \in Segment |-> Unassigned])
  /\ UNCHANGED trimmed
RateScene(id, intensity) ==
  /\ Replace([scenes EXCEPT ![id].intensity = intensity], sceneOf)
  /\ UNCHANGED trimmed

-------------------------------------------------------------------------------
(* buildCaptionTransaction                                                         *)
MakeCaptions ==
  /\ Spoken # << >>
  /\ captions' = [s \in ToSet(Spoken) |-> Span(Spot(s).from, Max({Spot(s).to, Spot(s).from + 1}))]
  /\ \A s \in DOMAIN captions' : captions'[s].to <= script.length
  /\ Changed /\ UNCHANGED <<script, scenes, sceneOf, trimmed>>

Edited(doc) ==
  /\ script.revision < MaxScriptEdits
  /\ script' = [doc EXCEPT !.revision = script.revision + 1]

(* assertScriptEditingSafe: a segment is cut or comes back before there are scenes   *)
(* and captions.                                                                    *)
CutScript(s) ==
  /\ scenes = << >> /\ captions = << >>
  /\ StatusAllowed(script, s, s \notin script.cut)
  /\ Edited(WithStatus(script, s, s \notin script.cut))
  /\ Changed /\ UNCHANGED <<scenes, sceneOf, captions, trimmed>>

(* The timeline's edits of the video.                                              *)
EditVideo ==
  /\ script.revision < MaxScriptEdits
  /\ \E doc \in TimelineEdits(script) : Edited(doc)
  /\ trimmed' = TRUE
  /\ Changed /\ UNCHANGED <<scenes, sceneOf, captions>>

WholeVideo == {[start |-> 0, len |-> Length, source |-> 0]}
SceneInit ==
  /\ \E base \in {<< >>, <<Span(0, Length)>>} :
       script = [revision |-> 0, base |-> base, cut |-> {}, length |-> Length, clips |-> WholeVideo]
  /\ scenes = << >> /\ captions = << >>
  /\ sceneOf = [s \in Segment |-> Unassigned]
  /\ trimmed = FALSE /\ changes = 0

SceneStep ==
  /\ changes < MaxChanges
  /\ \/ MakeScenes \/ ClearScenes \/ MakeCaptions \/ EditVideo
     \/ \E id \in DOMAIN scenes :
          \/ \E s \in Segment : SplitScene(id, s)
          \/ \E next \in DOMAIN scenes : MergeScenes(id, next)
          \/ \E intensity \in {"low", "medium", "high"} : RateScene(id, intensity)

-------------------------------------------------------------------------------
SceneTypeOK ==
  /\ \A id \in DOMAIN scenes : scenes[id].from \in Nat /\ scenes[id].intensity \in {"low", "medium", "high"}
  /\ DOMAIN sceneOf = Segment /\ DOMAIN captions \subseteq Segment
  /\ trimmed \in BOOLEAN /\ changes \in 0 .. MaxChanges

(* However the scenes are made, split, merged and rated: a segment belongs to a scene *)
(* that is there, and until the video under them is edited every segment that is      *)
(* heard belongs to one, which lasts from the first of its segments to the last, and  *)
(* no frame belongs to two (lib/scenes/model.ts computes each from what it finds).    *)
ScenesAreSound ==
  /\ \A s \in Segment : sceneOf[s] \in DOMAIN scenes \union {Unassigned}
  /\ \A id \in DOMAIN scenes : Fitting(scenes[id])
  /\ ~trimmed /\ scenes # << >> =>
       /\ \A s \in Segment : sceneOf[s] = Unassigned => s \notin ToSet(Spoken)
       /\ \A id \in DOMAIN scenes : Bounds(ToSet(Assigned(id))) = {Span(scenes[id].from, scenes[id].to)}
       /\ \A id, other \in DOMAIN scenes :
            id # other => scenes[id].to <= scenes[other].from \/ scenes[other].to <= scenes[id].from
================================================================================
