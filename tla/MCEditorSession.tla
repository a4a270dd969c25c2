------------------------------ MODULE MCEditorSession ------------------------------
(* Two windows on a video of three frames and three segments that overlap. The Agent  *)
(* panel is checked beside it: they share no variable, and which of them moves is     *)
(* chosen at the start.                                                              *)
EXTENDS EditorSession, AgentPanel
CONSTANTS s1, s2, s3
Ranges == (s1 :> Span(0, 2)) @@ (s2 :> Span(1, 3)) @@ (s3 :> Span(2, 3))
Symmetry == Permutations(Window)

(* A clip, which an edit may remove, and a finding of a report that is kept.          *)
Finding == [kind |-> "qa-finding", id |-> "finding"]
ClipAndFinding == {[kind |-> "clip", id |-> "clip"], Finding}
OneFinding == {Finding}

VARIABLE part

SideBySideInit ==
  /\ part \in {"windows", "panel"}
  /\ EditorInit /\ PanelInit
  /\ part = "panel" => project.base = <<>>
  /\ part = "windows" => panelSession

SideBySideNext ==
  /\ UNCHANGED part
  /\ \/ part = "windows" /\ EditorNext /\ UNCHANGED panelVars
     \/ part = "panel" /\ PanelStep /\ UNCHANGED editorVars

SideBySide == SideBySideInit /\ [][SideBySideNext]_<<part, editorVars, panelVars>>
================================================================================
