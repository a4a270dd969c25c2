--------------------------- MODULE MCProjectMutation ---------------------------
(* Instances of ProjectMutation for TLC and, checked beside it, ProjectFiles.   *)
(* They share no variable; which of them moves is chosen at the start.          *)
EXTENDS ProjectMutation, ProjectFiles, TLC

CONSTANTS w1, w2, w3, o1, o2, o3, p1, p2, native, normalised, c1, c2, l1

Symmetry == Permutations(Worker) \cup Permutations(Op) \cup Permutations(Payload) \cup Permutations(Caller)

(* One import of a format used as it is and one that FFmpeg rewrites.           *)
EachPlan == (native :> "native") @@ (normalised :> "normalised")

VARIABLE part

SideBySideInit == part \in {"mutations", "files"} /\ Init /\ FilesInit

SideBySideNext ==
  /\ UNCHANGED part
  /\ \/ part = "mutations" /\ Next /\ UNCHANGED filesVars
     \/ part = "files" /\ FilesNext /\ UNCHANGED vars

SideBySide == SideBySideInit /\ [][SideBySideNext]_<<part, vars, filesVars>>
===============================================================================
