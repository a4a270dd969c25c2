----------------------------- MODULE JobLifecycle ------------------------------
(* What a durable job promises whoever looks at its record: it ends at most    *)
(* once per attempt, an ended job changes only by a retry, and a retry is the  *)
(* next attempt.  (validation plan H3; lib/jobs/schema.ts)                     *)
EXTENDS Naturals

CONSTANT Job

VARIABLES phase,    \* of each job: absent, queued, active or one of the ends
          attempt   \* of each job: how often it has been submitted

lifeVars == <<phase, attempt>>

Ends       == {"completed", "failed", "cancelled", "interrupted"}
Retryable  == Ends \ {"completed"}
Phases     == {"absent", "queued", "active"} \cup Ends

LifeInit == phase = [j \in Job |-> "absent"] /\ attempt = [j \in Job |-> 0]

Moves(j, from, to) == phase[j] \in from /\ phase' = [phase EXCEPT ![j] = to]

Submit(j)   == Moves(j, {"absent"}, "queued") /\ attempt' = [attempt EXCEPT ![j] = 1]
Begin(j)    == Moves(j, {"queued"}, "active") /\ UNCHANGED attempt
Withdraw(j) == Moves(j, {"queued"}, "cancelled") /\ UNCHANGED attempt
End(j)      == (\E e \in Ends : Moves(j, {"active"}, e)) /\ UNCHANGED attempt
Resubmit(j) == Moves(j, Retryable, "queued") /\ attempt' = [attempt EXCEPT ![j] = @ + 1]

LifeNext == \E j \in Job : Submit(j) \/ Begin(j) \/ Withdraw(j) \/ End(j) \/ Resubmit(j)

LifeSpec == LifeInit /\ [][LifeNext]_lifeVars
===============================================================================
