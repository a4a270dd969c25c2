------------------------------- MODULE VisualPlan ------------------------------
(* The AI Director: the rules that plan motion cards for what the captions say      *)
(* (lib/visual-planner/rules.ts), guarded by how dense the cards already are         *)
(* (density.ts), the preview of what a selection of the plan would add (diff.ts), and *)
(* its application (service.ts), from components/planner/VisualPlannerPanel, while   *)
(* the scenes, the captions and the cards are edited (ScenePlan).                    *)
(*                                                                               *)
(* A card is identified by the suggestion it comes of, a suggestion by its scene and *)
(* caption.  What a card shows is left out: of a caption is kept for how long its    *)
(* text deserves a card, of a scene for how long its kind does.  B-roll, which the   *)
(* rules only name as an alternative, and the canvas's guard, which withholds a card *)
(* as the density's does, are left out.  MotionStage has the workflow's stage that   *)
(* applies a plan.                                                                  *)
EXTENDS ScenePlan

CONSTANTS
  Deserves,        \* of each segment: the frames its text deserves a card for, or 0
  KindDeserves,    \* the frames a scene that is not custom deserves one for
  Fps,
  Wish,            \* the intents a plan may be asked for: "restrained", "plain", "energetic"
  OwnCard          \* the spans the user may give a card

ASSUME PlanAssumption ==
  /\ Deserves \in [Segment -> Nat] /\ {KindDeserves, Fps} \subseteq Nat
  /\ Wish \subseteq {"restrained", "plain", "energetic"}

VARIABLES
  cards,       \* the clips of the motion track
  hidden,      \* whether that track is
  proposed,    \* the suggestions of the plan the page shows
  asked,       \* what it was asked for: the selection and the intent
  fresh        \* no card was changed since, but by applying it

planVars == <<cards, hidden, proposed, asked, fresh>>

-------------------------------------------------------------------------------
(* minGapSeconds, intentGapMultiplier and their product, rounded; intentDensityLimit. *)
MinGapSeconds == [low |-> 7, medium |-> 5, high |-> 3]
GapPercent == [restrained |-> 135, plain |-> 100, energetic |-> 85]
MinGap(intensity, wish) == (Fps * MinGapSeconds[intensity] * GapPercent[wish] + 50) \div 100
DensityLimit == [restrained |-> 5, plain |-> 8, energetic |-> 9]

(* density.ts: the cards that count, whether so many are more in a minute than the   *)
(* limit, and what is told of them.                                                 *)
Visible == IF hidden THEN {} ELSE cards
Distance(x, y) == IF x.from < y.from THEN y.from - x.from ELSE x.from - y.from
Overlaps(x, y) == x.from < y.to /\ y.from < x.to
Window == Max({12 * Fps, script.length})
TooMany(n, limit) == n * 60 * Fps > limit * Window
Density(shown) ==
  [cards |-> Cardinality(shown),
   peak |-> Max({0} \union {Cardinality({y \in shown : y.from <= x.from /\ x.from < y.to}) : x \in shown}),
   gap |-> Min({script.length} \union UNION {{Distance(x, y) : y \in shown \ {x}} : x \in shown})]

-------------------------------------------------------------------------------
(* selectionScopedCaptions.  The words of a selection of the script are where they   *)
(* are in the source, the captions where they are on the timeline.                  *)
Everything == [kind |-> "all"]
Selections ==
  {Everything}
  \union {[kind |-> "caption", caption |-> s] : s \in DOMAIN captions}
  \union {[kind |-> "words", first |-> s, last |-> t] : s, t \in Segment}
  \union {[kind |-> "scene", scene |-> id] : id \in DOMAIN scenes}
  \union {[kind |-> "card", card |-> c] : c \in cards}
CaptionsOver(span) == {s \in DOMAIN captions : Overlaps(captions[s], span)}
Scoped(selection) ==
  CASE selection.kind = "all"     -> DOMAIN captions
    [] selection.kind = "caption" -> {selection.caption}
    [] selection.kind = "scene"   -> CaptionsOver(scenes[selection.scene])
    [] selection.kind = "card"    -> CaptionsOver(selection.card)
    [] selection.kind = "words"   ->
         IF {selection.first, selection.last} \intersect script.cut # {} THEN {}
         ELSE LET r == SegmentRange[selection.first]  q == SegmentRange[selection.last]
              IN CaptionsOver(Span(Min({r.from, q.from}), Max({r.to, q.to})))

(* sceneForFrame; of scenes that overlap any.                                       *)
ScenesAt(frame) == {id \in DOMAIN scenes : scenes[id].from <= frame /\ frame < scenes[id].to}

(* candidateFor: the frames a card would last, or 0.                                *)
Candidate(s, scene) ==
  IF Deserves[s] > 0 THEN Deserves[s] ELSE IF scene.kind # "custom" THEN KindDeserves ELSE 0

(* densityBlocked                                                                  *)
Dense(card, gap, prior, wish, scoped) ==
  \/ \E other \in prior : Distance(card, other) < gap
  \/ Cardinality({other \in prior : Overlaps(other, card)}) >= 2
  \/ ~scoped /\ TooMany(Cardinality(prior) + 1, DensityLimit[wish])

(* generate: the captions of the selection one after the other, each a suggestion    *)
(* with a card, or without if it would be too dense.                                *)
PlanOf(selection, wish) ==
  LET inTime == SetToSortSeq(Scoped(selection), LAMBDA s, t : captions[s].from < captions[t].from)
      Weigh(plan, s) ==
        LET from == captions[s].from
            at == ScenesAt(from)
            id == CHOOSE id \in at : TRUE
            to == Min({script.length, scenes[id].to, from + Candidate(s, scenes[id])})
            card == [id |-> Append(id, s), from |-> from, to |-> to]
            prior == Visible \union {p.card : p \in {q \in plan : q.shows}}
        IN IF at = {} THEN plan
           ELSE IF to <= from THEN plan
           ELSE plan \union {[card |-> card, of |-> s,
                              shows |-> ~Dense(card, MinGap(scenes[id].intensity, wish), prior, wish,
                                               selection # Everything)]}
  IN FoldLeft(Weigh, {}, inTime)

(* buildVisualPlanDiff: the cards a selection of the suggestions adds, whose clips   *)
(* are not there.                                                                  *)
Actionable(chosen) ==
  {p.card : p \in {q \in chosen : q.shows /\ q.card.id \notin {c.id : c \in cards}}}
DensityAfter(chosen) == Density(Visible \union Actionable(chosen))

-------------------------------------------------------------------------------
Generate(selection, wish) ==
  /\ captions # << >> /\ scenes # << >>
  /\ proposed' = PlanOf(selection, wish)
  /\ asked' = [selection |-> selection, wish |-> wish]
  /\ fresh' = TRUE
  /\ UNCHANGED <<cards, hidden>>

(* apply, of the revision the page shows: in one transaction.  The plan's guards are  *)
(* not looked at again.                                                             *)
ApplyPlan(chosen) ==
  /\ chosen # {} /\ Actionable(chosen) # {}
  /\ cards' = cards \union Actionable(chosen)
  /\ UNCHANGED <<hidden, proposed, asked, fresh>>

(* add-clip, remove-clip, update-clip-timing and set-track-state, of the motion track. *)
OwnId == << >>
Room == {span \in OwnCard : span.to <= script.length}
EditCards ==
  /\ \/ /\ \E span \in Room : cards' = cards \union {[id |-> OwnId, from |-> span.from, to |-> span.to]}
        /\ OwnId \notin {c.id : c \in cards} /\ UNCHANGED hidden
     \/ \E c \in cards :
          /\ \/ cards' = cards \ {c}
             \/ \E span \in Room : cards' = (cards \ {c}) \union {[c EXCEPT !.from = span.from, !.to = span.to]}
          /\ UNCHANGED hidden
     \/ hidden' = ~hidden /\ UNCHANGED cards
  /\ fresh' = FALSE /\ UNCHANGED <<proposed, asked>>

PlanInit ==
  /\ SceneInit
  /\ cards = {} /\ hidden = FALSE /\ proposed = {} /\ fresh = TRUE
  /\ asked = [selection |-> Everything, wish |-> "plain"]

PlanStep ==
  \/ SceneStep /\ UNCHANGED planVars
  \/ /\ changes < MaxChanges
     /\ \/ /\ cards = {}
           /\ \E s \in Segment : CutScript(s)
           /\ UNCHANGED planVars
        \/ /\ \/ \E selection \in Selections, wish \in Wish : Generate(selection, wish)
              \/ \E chosen \in SUBSET proposed : ApplyPlan(chosen)
              \/ EditCards
           /\ Changed /\ UNCHANGED <<script, scenes, sceneOf, captions, trimmed>>

-------------------------------------------------------------------------------
PlanTypeOK ==
  /\ \A c \in cards : c.from < c.to /\ c.to <= script.length
  /\ hidden \in BOOLEAN /\ fresh \in BOOLEAN
  /\ \A p \in proposed : p.of \in Segment /\ p.shows \in BOOLEAN

(* Whatever part of a plan is applied, in one go or in several, as long as no card is  *)
(* changed beside it: its cards begin far enough from all others, never more than two   *)
(* show where one of them does, a plan for the whole video does not exceed the intent's *)
(* limit of cards in a minute; and no suggestion is ever applied twice                 *)
(* (lib/visual-planner/service.ts applies without asking again).                       *)
PlanIsModest ==
  /\ \A c, d \in cards : c.id = d.id => c = d
  /\ fresh => \A chosen \in SUBSET proposed :
       LET added == Actionable(chosen)
           shown == Visible \union added
       IN /\ \A c \in added : \A d \in shown \ {c} : Distance(c, d) >= MinGap("high", asked.wish)
          /\ DensityAfter(chosen).peak <= Max({2, Density(Visible).peak})
          /\ \A c \in added : \A f \in c.from .. c.to - 1 : Cardinality({d \in shown : d.from <= f /\ f < d.to}) <= 2
          /\ added # {} /\ asked.selection = Everything => ~TooMany(Cardinality(shown), DensityLimit[asked.wish])

(* A plan for a selection of the script is about what is selected, as long as nothing  *)
(* is cut and the video is not edited (lib/visual-planner/rules.ts compares the words'  *)
(* frames in the source with the captions' on the timeline).                          *)
ScopeIsKept ==
  asked.selection.kind = "words" /\ script.clips = WholeVideo =>
    LET at(s) == CHOOSE i \in DOMAIN Script : Script[i] = s
        ends == {at(asked.selection.first), at(asked.selection.last)}
    IN \A p \in proposed : at(p.of) \in Min(ends) .. Max(ends)
================================================================================
