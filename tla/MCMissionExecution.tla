--------------------------- MODULE MCMissionExecution --------------------------
(* MissionExecution on a plan whose order is not that of its dependencies: an   *)
(* edit that is reviewed, of what an inspection before it proposes, and then a  *)
(* workflow. RecordStore and RenderOutput are checked beside it: they share no  *)
(* variable, and which of them moves is chosen at the start.                    *)
EXTENDS MissionExecution, RecordStore, RenderOutput, TLC

EditInspectionWorkflow == <<"edit", "inspection", "workflow">>
Chain == <<{2}, {}, {1}>>
FirstIsGated == {1}
Interchangeable == Permutations(Call)

CONSTANTS r1, r2, r3
TwoServers == r1 :> "first" @@ r2 :> "first" @@ r3 :> "second"

(* Videos of five frames: a piece of a film of six; three pieces of it, one after *)
(* the other, as the script's cuts leave them; one piece, and something with it.  *)
Piece(id, type, media, start, len, source) ==
  [id |-> id, type |-> type, media |-> media, start |-> start, len |-> len, source |-> source, layer |-> 0]
Film(id, start, end, source) == Piece(id, "video", "film", start, end - start, source)
FiveFrames(clips, scenes) ==
  [length |-> 5, clips |-> clips, hidden |-> {}, scenes |-> scenes, markers |-> {s.start : s \in scenes}]
LastFrame == {[start |-> 4, len |-> 1]}

OnePiece == {FiveFrames({Film(1, i, j, p)}, {}) : i \in 0..4, j \in 1..5, p \in 0..5}
ThreePieces ==
  {FiveFrames({Film(1, 0, i, p), Film(2, i, j, q), Film(3, j, 5, r)}, LastFrame) :
     i \in 1..3, j \in 2..4, p \in 0..2, q \in 0..4, r \in 0..5}
FollowOn(doc) ==
  \A c, d \in doc.clips : c.id < d.id => EndOf(c) <= d.start /\ c.source + c.len <= d.source
WithPiece ==
  {FiveFrames({Film(1, 0, 5, 1), c}, {}) :
     c \in {Piece(2, "broll", "photo", 1, 2, 0), Piece(2, "broll", "film", 2, 2, 3), Piece(2, "broll", "lost", 1, 2, 0),
            Piece(2, "audio", "voice", 1, 3, 2), Piece(2, "caption", "none", 1, 2, 0)}}
Videos ==
  {doc \in OnePiece \union {d \in ThreePieces : FollowOn(d)} \union WithPiece : Acceptable(doc, MediaLength)}
MediaKinds == [film |-> "video", photo |-> "image", voice |-> "audio", lost |-> "video"]
MediaLengths == [film |-> 6, photo |-> 0, voice |-> 5, lost |-> 5]
NoVideo == <<FiveFrames({}, {})>>

VARIABLE part

SideBySideInit ==
  /\ part \in {"execution", "record", "render"}
  /\ Init /\ StoreInit
  /\ part # "record" => store = "job" /\ primary = Gone
  /\ IF part = "render" THEN RenderInit ELSE RenderIdle(NoVideo)

SideBySideNext ==
  /\ UNCHANGED part
  /\ \/ part = "execution" /\ Next /\ UNCHANGED <<storeVars, renderVars>>
     \/ part = "record" /\ StoreNext /\ UNCHANGED <<vars, renderVars>>
     \/ part = "render" /\ RenderNext /\ UNCHANGED <<vars, storeVars>>

SideBySide == SideBySideInit /\ [][SideBySideNext]_<<part, vars, storeVars, renderVars>>

(* What the user is shown: the page of a project, and the video it renders.       *)
ShownIsTrue == WorkspaceIsTrue /\ OutputIsTrue
===============================================================================
