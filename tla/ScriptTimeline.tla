----------------------------- MODULE ScriptTimeline -----------------------------
(* The spoken track of a project: lib/script/model.ts and lib/script/editing.ts,   *)
(* which cut segments of the transcript out of the video, and the commands of      *)
(* lib/project/commands.ts the timeline gives its video clips.                     *)
(*                                                                               *)
(* A document holds the clips of the video track, the segments that are cut, the   *)
(* source the script started from (none until the first cut, unless the            *)
(* transcription recorded it), its length and its revision.  A range is half open. *)
(* A clip's presentation, the words of a segment beyond its range, and all else a  *)
(* project holds are left out: the script is edited before design begins, and is    *)
(* refused afterwards.                                                             *)
EXTENDS Naturals, Sequences, FiniteSets, SequencesExt

CONSTANTS
  Segment,         \* the segments of the transcript
  SegmentRange     \* of each segment: where its words are in the source

Span(from, to) == [from |-> from, to |-> to]
Size(r) == r.to - r.from

ASSUME SegmentAssumption ==
  SegmentRange \in [Segment -> {r \in [from : Nat, to : Nat] : r.from < r.to}]

-------------------------------------------------------------------------------
(* mergeSourceRanges: ranges that touch become one.                                *)
MergeRanges(ranges) ==
  LET Before(r, s) == r.from < s.from \/ (r.from = s.from /\ r.to < s.to)
      Add(merged, r) ==
        IF merged # <<>> /\ r.from <= Last(merged).to
        THEN [merged EXCEPT ![Len(merged)].to = IF r.to > @ THEN r.to ELSE @]
        ELSE Append(merged, r)
  IN FoldLeft(Add, <<>>, SetToSortSeq(ranges, Before))

(* subtractSourceRanges: what one cut leaves of a range, of all of them, and what   *)
(* all the cuts do.                                                                *)
Pieces(base, cut) ==
  IF cut.to <= base.from \/ cut.from >= base.to THEN {base}
  ELSE {r \in {Span(base.from, cut.from), Span(cut.to, base.to)} : r.from < r.to}
SubtractRanges(base, cuts) ==
  LET Cut(remaining, cut) == UNION {Pieces(r, cut) : r \in remaining}
  IN MergeRanges(FoldLeft(Cut, ToSet(MergeRanges(base)), MergeRanges(cuts)))

(* getScriptKeepSourceRanges, of a script that has its base.                        *)
Keep(base, cut) == SubtractRanges(ToSet(base), {SegmentRange[s] : s \in cut})

(* Where the i-th of the ranges begins when they are laid end to end.               *)
Offset(ranges, i) == FoldLeft(LAMBDA sum, r : sum + Size(r), 0, SubSeq(ranges, 1, i - 1))

-------------------------------------------------------------------------------
End(clip) == clip.start + clip.len
SourceOf(clip) == Span(clip.source, clip.source + clip.len)

(* The clips of the track in the order they play.                                  *)
Sorted(clips) ==
  SetToSortSeq(clips, LAMBDA c, d : c.start < d.start \/ (c.start = d.start /\ c.source < d.source))

(* Mutant: whatever clips are there are replaced. *)
CanonicalAnyClips(doc) == doc.clips # {}

(* resolveScriptVideoContext: the base, and whether the track is what the script    *)
(* makes of it, which a cut replaces as a whole.                                    *)
Base(doc) == IF doc.base # <<>> THEN doc.base ELSE MergeRanges({SourceOf(c) : c \in doc.clips})
Canonical(doc) ==
  LET clips == Sorted(doc.clips)
      expected == Keep(Base(doc), IF doc.base # <<>> THEN doc.cut ELSE {})
  IN /\ doc.clips # {}
     /\ doc.base # <<>> \/ Cardinality(doc.clips) = 1
     /\ Len(expected) = Len(clips)
     /\ \A i \in DOMAIN clips : clips[i].start = Offset(expected, i) /\ SourceOf(clips[i]) = expected[i]

(* buildScriptStatusTransaction: the document with the segment cut or back, the     *)
(* track laid out anew.                                                            *)
LaidOut(ranges) ==
  {[start |-> Offset(ranges, i), len |-> Size(ranges[i]), source |-> ranges[i].from] : i \in DOMAIN ranges}
WithStatus(doc, s, removed) ==
  LET gone == IF removed THEN doc.cut \union {s} ELSE doc.cut \ {s}
      keep == Keep(Base(doc), gone)
  IN [doc EXCEPT !.base = Base(doc), !.cut = gone, !.clips = LaidOut(keep),
                 !.length = Offset(keep, Len(keep) + 1)]
StatusAllowed(doc, s, removed) ==
  /\ removed # (s \in doc.cut)
  /\ Canonical(doc)
  /\ WithStatus(doc, s, removed).clips # {}

-------------------------------------------------------------------------------
(* split-clip, remove-clip and update-clip-timing, as the timeline offers them of   *)
(* a clip; a drag moves or shortens it by one frame.                                *)
Split(doc, c, f) ==
  LET left  == [c EXCEPT !.len = f - c.start]
      right == [start |-> f, len |-> End(c) - f, source |-> c.source + left.len]
  IN [doc EXCEPT !.clips = (@ \ {c}) \union {left, right}]
WithoutClip(doc, c) == [doc EXCEPT !.clips = @ \ {c}]
Timed(doc, c, start, len) == [doc EXCEPT !.clips = (@ \ {c}) \union {[c EXCEPT !.start = start, !.len = len]}]
TimelineEdits(doc) ==
  UNION {{Split(doc, c, f) : f \in c.start + 1 .. End(c) - 1}
         \union {WithoutClip(doc, c)}
         \union {Timed(doc, c, c.start, len) : len \in {c.len - 1} \ {0}}
         \union {Timed(doc, c, start, c.len) : start \in {c.start + 1} \intersect 0 .. doc.length - c.len}
         : c \in doc.clips}

-------------------------------------------------------------------------------
ToTimeline(doc, frame) ==
  LET playing == SelectSeq(Sorted(doc.clips), LAMBDA c : c.source <= frame /\ frame < SourceOf(c).to)
  IN IF playing = <<>> THEN {} ELSE {Head(playing).start + (frame - Head(playing).source)}

(* getSegmentTimelineRange: where the page shows a segment that is not cut.         *)
SegmentOnTimeline(doc, s) ==
  {Span(first, IF last + 1 < doc.length THEN last + 1 ELSE doc.length) :
     first \in ToTimeline(doc, SegmentRange[s].from),
     last \in ToTimeline(doc, SegmentRange[s].to - 1)}

(* For the properties: the frames of a range, and what the track plays at a frame.  *)
FramesOf(r) == r.from .. r.to - 1
Plays(doc) == [f \in UNION {c.start .. End(c) - 1 : c \in doc.clips} |->
                 {c.source + (f - c.start) : c \in {d \in doc.clips : d.start <= f /\ f < End(d)}}]
================================================================================
