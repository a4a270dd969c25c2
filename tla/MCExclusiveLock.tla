---------------------------- MODULE MCExclusiveLock -----------------------------
(* ExclusiveLock with two calls of one process and one or two of another.       *)
EXTENDS ExclusiveLock, TLC

CONSTANTS a1, a2, b1, b2, A, B

OwnerAndRivals == a1 :> A @@ b1 :> B @@ b2 :> B
TwoEach == OwnerAndRivals @@ a2 :> A
===============================================================================
