------------------------------ MODULE RenderOutput ------------------------------
(* The render of a video: a job's executor (lib/jobs/executors.ts) loads the      *)
(* project, gives it the frame rate of the export profile (lib/render/profile.ts) *)
(* and has the Remotion command line draw it, once more by another way if that    *)
(* misses a frame (adapters/remotion-cli.ts); what is drawn at a frame is what    *)
(* remotion/MasterComposition.tsx puts there. The user edits the project          *)
(* meanwhile, and servers die. That a job has one executor at a time is           *)
(* DurableJobs' subject.                                                          *)
(*                                                                               *)
(* A document is what is drawn of a project: its length, its clips, the types     *)
(* whose track is hidden (a track of each type), its scenes and its markers. A    *)
(* clip's place in its track is its id. Sizes, styles, volumes and fades are left *)
(* out; the arithmetic is exact.                                                  *)
EXTENDS Integers, Sequences, FiniteSets

CONSTANTS
  Document,       \* the documents a project may have at first
  Media,          \* its media files,
  MediaKind,      \* of each: "video", "audio" or "image",
  MediaLength,    \* of each: its frames, 0 if they are not known
  Absent,         \* those of them whose file is not there
  Fps,            \* the project's frames in a unit of time
  ExportFps,      \* those a profile may ask for
  Outlives,       \* whether the command line works on when its server dies
  RenderEdits, MaxRenders   \* bounds: edits, attempts of the job

VARIABLES
  video,          \* the documents of the project's revisions
  render,         \* the job
  propsFile,      \* what the command line is to draw
  outputFile,     \* what it has drawn
  orphan          \* what one whose server is dead goes on drawing

renderVars == <<video, render, propsFile, outputFile, orphan>>

ASSUME RenderAssumption ==
  /\ Fps \in Nat \ {0} /\ ExportFps \subseteq Nat \ {0}
  /\ MediaLength \in [Media -> Nat]

NoFile == [state |-> "gone"]
PartFile == [state |-> "part"]
Drawing(doc, mode, backend) == [state |-> "whole", doc |-> doc, mode |-> mode, backend |-> backend]

Least(a, b) == IF a < b THEN a ELSE b
Most(a, b) == IF a < b THEN b ELSE a
EndOf(clip) == clip.start + clip.len
IsMedia(clip) == clip.type \in {"video", "audio", "broll"}
FramesIn(m, lengths) == IF m \in Media THEN lengths[m] ELSE 0

-------------------------------------------------------------------------------
(* ProjectSchema: what a project may hold.                                        *)
Acceptable(doc, lengths) ==
  /\ \A c \in doc.clips :
       /\ c.start >= 0 /\ c.len > 0 /\ c.source >= 0
       /\ EndOf(c) <= doc.length
       /\ IsMedia(c) /\ FramesIn(c.media, lengths) > 0 => c.source + c.len <= FramesIn(c.media, lengths)
  /\ \A s \in doc.scenes : s.start >= 0 /\ s.len > 0 /\ EndOf(s) <= doc.length
  /\ \A m \in doc.markers : 0 <= m /\ m < doc.length

(* Frames at another rate: rounded, half up.                                      *)
Rounded(frame, rate) == (2 * frame * rate + Fps) \div (2 * Fps)
Stretch(length, rate) == Most(1, Rounded(length, rate))
BoundedStart(frame, rate, end) == Least(end - 1, Rounded(frame, rate))

(* Mutant: the length is rounded by itself.                                       *)
LengthAlone(start, len, rate, end) ==
  LET from == BoundedStart(start, rate, end)
  IN  [start |-> from, len |-> Least(Stretch(len, rate), end - from)]
Interval(start, len, rate, end) ==
  LET from == BoundedStart(start, rate, end)
      to == Most(from + 1, Least(end, Rounded(start + len, rate)))
  IN  [start |-> from, len |-> to - from]

Lengths(rate) ==
  [m \in Media |-> IF MediaLength[m] = 0 \/ rate = Fps THEN MediaLength[m] ELSE Stretch(MediaLength[m], rate)]

(* projectForExportProfile: a clip of a file ends where the file does.            *)
ExportedClip(c, rate, length) ==
  LET at == Interval(c.start, c.len, rate, length)
      frames == FramesIn(c.media, Lengths(rate))
      from == IF frames > 0 THEN BoundedStart(c.source, rate, frames) ELSE Rounded(c.source, rate)
  IN  IF ~IsMedia(c) THEN [c EXCEPT !.start = at.start, !.len = at.len]
      ELSE [c EXCEPT !.start = at.start, !.source = from,
                     !.len = IF frames > 0 THEN Least(at.len, frames - from) ELSE at.len]

Exported(doc, rate) ==
  IF rate = Fps THEN doc
  ELSE LET length == Stretch(doc.length, rate)
       IN  [doc EXCEPT !.length = length,
                       !.clips = {ExportedClip(c, rate, length) : c \in @},
                       !.scenes = {Interval(s.start, s.len, rate, length) : s \in @},
                       !.markers = {BoundedStart(m, rate, length) : m \in @}]

-------------------------------------------------------------------------------
(* MasterComposition: what is drawn, and what over what.                          *)
Drawn(doc, mode) ==
  {c \in doc.clips : c.type \notin doc.hidden /\ (mode = "overlay" => c.type \in {"motion", "caption"})}
Playing(doc, mode, f) == {c \in Drawn(doc, mode) : c.start <= f /\ f < EndOf(c)}

TypeRank == [video |-> 0, broll |-> 1, motion |-> 2, caption |-> 3]
BrollRank(c) == IF c.type = "broll" /\ c.media \in Media /\ MediaKind[c.media] = "image" THEN 1 ELSE 0
Over(c, d) ==
  LET rank(x) == <<x.layer, TypeRank[x.type], BrollRank(x), x.id>>
  IN  \E i \in 1..4 : rank(c)[i] > rank(d)[i] /\ \A j \in 1..(i - 1) : rank(c)[j] = rank(d)[j]

(* What a viewer sees of the pictures that fill the screen: the one over all      *)
(* others.                                                                        *)
Seen(doc, mode, f) ==
  LET filling == {c \in Playing(doc, mode, f) : c.type \in {"video", "broll"}}
  IN  {c \in filling : \A d \in filling \ {c} : Over(c, d)}

-------------------------------------------------------------------------------
Unasked == [at |-> "idle", mode |-> "final", rate |-> Fps, attempt |-> 0, rev |-> 0,
         doc |-> NoFile, backend |-> "offthread-video"]

RenderIdle(revisions) ==
  /\ video = revisions
  /\ render = Unasked
  /\ propsFile = NoFile /\ outputFile = NoFile /\ orphan = NoFile
RenderInit == \E doc \in Document : RenderIdle(<<doc>>)

At(stage) == render.at = stage
Goes(stage) == render' = [render EXCEPT !.at = stage]

(* What the user may do meanwhile: take a clip away, hide a track or show it, or  *)
(* put a clip on another layer. What was done before is in the first document.    *)
Edits(doc) ==
  {[doc EXCEPT !.clips = @ \ {c}] : c \in doc.clips}
  \union {[doc EXCEPT !.hidden = IF c.type \in @ THEN @ \ {c.type} ELSE @ \union {c.type}] : c \in doc.clips}
  \union {[doc EXCEPT !.clips = (@ \ {c}) \union {[c EXCEPT !.layer = 1 - @]}] : c \in doc.clips}

EditVideo ==
  /\ Len(video) <= RenderEdits
  /\ render.at \notin {"idle", "done"}
  /\ \E doc \in Edits(video[Len(video)]) : video' = Append(video, doc)
  /\ UNCHANGED <<render, propsFile, outputFile, orphan>>

(* An overlay has no profile.                                                     *)
StartRender ==
  /\ At("idle")
  /\ \E mode \in {"final", "overlay"}, rate \in ExportFps :
       /\ mode = "overlay" => rate = Fps
       /\ render' = [Unasked EXCEPT !.at = "load", !.mode = mode, !.rate = rate, !.attempt = 1]
  /\ UNCHANGED <<video, propsFile, outputFile, orphan>>

(* A file that is not there is missed, though its track be hidden.                *)
Referenced(doc) == {c.media : c \in doc.clips} \intersect Media

LoadVideo ==
  /\ At("load")
  /\ LET doc == video[Len(video)]
         made == IF render.mode = "final" THEN Exported(doc, render.rate) ELSE doc
     IN  render' = [render EXCEPT !.rev = Len(video), !.doc = made, !.backend = "offthread-video",
           !.at = CASE Referenced(doc) \intersect Absent # {} -> "missing"
                    [] ~Acceptable(made, Lengths(render.rate)) -> "rejected"
                    [] OTHER -> "prepare"]
  /\ UNCHANGED <<video, propsFile, outputFile, orphan>>

WriteProps ==
  /\ At("prepare")
  /\ propsFile' = Drawing(render.doc, render.mode, render.backend)
  /\ Goes("draw")
  /\ UNCHANGED <<video, outputFile, orphan>>

Draw ==
  /\ At("draw")
  /\ outputFile' = propsFile
  /\ Goes("drawn")
  /\ UNCHANGED <<video, propsFile, orphan>>

(* A frame of a video cannot be extracted: once, another backend is tried.        *)
MissFrame ==
  /\ At("draw")
  /\ \E c \in Drawn(propsFile.doc, propsFile.mode) : c.type \in {"video", "broll"}
  /\ IF render.backend = "offthread-video"
     THEN /\ outputFile' = NoFile
          /\ render' = [render EXCEPT !.backend = "html5-video", !.at = "prepare"]
     ELSE outputFile' \in {outputFile, PartFile} /\ Goes("broken")
  /\ UNCHANGED <<video, propsFile, orphan>>

(* The command line fails, takes too long, or is cancelled.                       *)
BreakOff ==
  /\ At("draw")
  /\ outputFile' \in {outputFile, PartFile}
  /\ Goes("broken")
  /\ UNCHANGED <<video, propsFile, orphan>>

(* withErrorPreservingCleanup: a file that cannot be removed is a failure too.    *)
CleanUp ==
  /\ render.at \in {"drawn", "broken"}
  /\ \/ propsFile' = NoFile /\ Goes(IF At("drawn") THEN "done" ELSE "failed")
     \/ Goes("failed") /\ UNCHANGED propsFile
  /\ UNCHANGED <<video, outputFile, orphan>>

ServerDies ==
  /\ render.at \in {"load", "prepare", "draw", "drawn", "broken"}
  /\ orphan' = IF At("draw") /\ Outlives THEN propsFile ELSE orphan
  /\ Goes("interrupted")
  /\ UNCHANGED <<video, propsFile, outputFile>>

OrphanDraws ==
  /\ orphan # NoFile
  /\ outputFile' = orphan /\ orphan' = NoFile
  /\ UNCHANGED <<video, render, propsFile>>

(* The job is retried: the project is loaded anew, the file is the same. Neither  *)
(* a missing file nor a project that is rejected lets it be.                      *)
RetryRender ==
  /\ render.at \in {"failed", "interrupted"}
  /\ render.attempt < MaxRenders
  /\ render' = [render EXCEPT !.at = "load", !.attempt = @ + 1]
  /\ UNCHANGED <<video, propsFile, outputFile, orphan>>

RenderNext ==
  \/ StartRender \/ LoadVideo \/ WriteProps \/ Draw \/ MissFrame \/ BreakOff \/ CleanUp
  \/ ServerDies \/ OrphanDraws \/ RetryRender \/ EditVideo

RenderSpec == RenderInit /\ [][RenderNext]_renderVars

-------------------------------------------------------------------------------
(* How far frame f of the project is from frame g of the export, in frames: the   *)
(* difference times the rate of the other.                                        *)
Apart(f, g) == LET d == f * render.rate - g * Fps IN IF d < 0 THEN -d ELSE d
OneFrame == Most(Fps, render.rate)
FramesAt(doc) == 0..(doc.length - 1)
Same(c, d) == c.id = d.id

(* Nothing is seen in the export that is not seen within a frame of there in the  *)
(* project, whatever plays in the project plays within two frames of there, and   *)
(* it plays what it should: sound and picture of a clip are less than two frames  *)
(* from where they were.                                                          *)
PlaysAlike(doc, made, mode) ==
  /\ \A g \in FramesAt(made) : \A c \in Seen(made, mode, g) :
       \E f \in FramesAt(doc) : Apart(f, g) <= OneFrame /\ \E d \in Playing(doc, mode, f) : Same(c, d)
  /\ \A f \in FramesAt(doc) : \A d \in Playing(doc, mode, f) :
       \E g \in FramesAt(made) : Apart(f, g) <= 2 * OneFrame /\ \E c \in Playing(made, mode, g) : Same(c, d)
  /\ \A c \in made.clips : \A d \in doc.clips : Same(c, d) =>
       Apart(d.source - d.start, c.source - c.start) < 2 * Fps

(* Where the project shows a picture throughout, the export does, but where a     *)
(* clip ends with its file.                                                       *)
EndsWithItsFile(c) == c.source + c.len = FramesIn(c.media, Lengths(render.rate))
NoNewGap(doc, made, mode) ==
  (\A f \in FramesAt(doc) : Seen(doc, mode, f) # {}) =>
    \A g \in FramesAt(made) :
      \/ Seen(made, mode, g) # {}
      \/ \E c \in made.clips : EndOf(c) = g /\ EndsWithItsFile(c)

(* At no lower a rate, clips that follow one another do not overlap.              *)
NoNewOverlap(doc, made) ==
  render.rate >= Fps =>
    \A c, d \in doc.clips : EndOf(c) <= d.start =>
      \A x, y \in made.clips : Same(x, c) /\ Same(y, d) => EndOf(x) <= y.start

(* A render that is done is, whole, what its record says it is: the video of the  *)
(* recorded revision, at the rate asked for, by the backend recorded; nothing is  *)
(* left beside it, and nothing it shows was missing. No export is refused for     *)
(* what the change of rate makes of a project.                                    *)
OutputIsTrue ==
  /\ ~At("rejected")
  /\ At("done") =>
       LET doc == video[render.rev]
       IN  /\ outputFile = Drawing(render.doc, render.mode, render.backend)
           /\ propsFile = NoFile
           /\ Referenced(outputFile.doc) \intersect Absent = {}
           /\ PlaysAlike(doc, outputFile.doc, render.mode)
           /\ NoNewGap(doc, outputFile.doc, render.mode)
           /\ NoNewOverlap(doc, outputFile.doc)

RenderTypeOK ==
  /\ Len(video) \in 1..(RenderEdits + 1)
  /\ \A i \in DOMAIN video : Acceptable(video[i], MediaLength)
  /\ render.at \in {"idle", "load", "missing", "rejected", "prepare", "draw", "drawn", "broken",
                    "done", "failed", "interrupted"}
  /\ render.mode \in {"final", "overlay"} /\ render.rate \in ExportFps
  /\ render.attempt \in 0..MaxRenders /\ render.rev \in 0..Len(video)
  /\ render.backend \in {"offthread-video", "html5-video"}
  /\ {propsFile.state, outputFile.state, orphan.state} \subseteq {"gone", "part", "whole"}
===============================================================================
