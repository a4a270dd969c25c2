------------------------------ MODULE MCDurableJobs ----------------------------
(* DurableJobs on small sets; jobs, processes and parents are interchangeable.  *)
EXTENDS DurableJobs, TLC

Interchangeable == Permutations(Job) \cup Permutations(Proc) \cup Permutations(Parent)
===============================================================================
