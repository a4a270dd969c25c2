----------------------------- MODULE MCWorkflowRun ------------------------------
(* WorkflowRun on the shapes of the production definitions: mutations, a human  *)
(* review of them, a render.                                                    *)
EXTENDS WorkflowRun, TLC

CONSTANTS draft, cut, review_, render

Kinds == [s \in Stage |-> CASE s = review_ -> "checkpoint" [] s = render -> "job" [] OTHER -> "work"]
NothingMore == [s \in Stage |-> {}]
AllButReviews == Stage \ {review_}

FourStages    == <<draft, cut, review_, render>>
ThreeStages   == <<draft, review_, render>>
DraftReviewed == <<draft, review_>>

(* The review is of every mutation before it. *)
Chain == [s \in Stage |-> Stage \cap
            CASE s = cut -> {draft} [] s = review_ -> {draft, cut} [] s = render -> {review_} [] OTHER -> {}]

Everywhere == {"pending", "running", "waiting_review", "paused", "completed", "failed", "cancelled", "interrupted"}
Unpaused == Everywhere \ {"paused"}
Interchangeable == Permutations(Runner)
===============================================================================
