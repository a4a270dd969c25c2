------------------------------ MODULE DurableJobs ------------------------------
(* lib/jobs/runtime.ts over lib/jobs/store.ts and lib/runtime/runtime-owner.ts:*)
(* jobs are records on disk; every process that serves the application keeps a *)
(* queue of its own, runs a bounded number of executions at a time, and, when  *)
(* it starts, settles the jobs a former runtime left active.                   *)
(*                                                                             *)
(* A section under withJobLock reads one record and replaces it: it is one     *)
(* step.  Between those sections processes interleave, crash and restart.      *)
(* The four concurrency groups share no state; this is one of them.            *)
EXTENDS Naturals, Sequences, FiniteSets

CONSTANTS
  Proc,        \* server processes
  Parent,      \* the parents (ppid) processes are started by; a dead one stays dead
  Job,         \* job ids
  Limit,       \* the concurrency limit of the group
  MaxAttempt,  \* bound: a job at this attempt is not retried
  Staggered,   \* whether a process starts only when no other is starting
  Orphans,     \* whether a parent may die and leave its processes running
  WorkerDies,  \* whether a process may die alone, under a living parent
  NoJob, NoParent

ASSUME JobAssumption == IsFiniteSet(Job)
ASSUME LimitAssumption == Limit \in Nat \ {0}
ASSUME AttemptAssumption == MaxAttempt \in Nat \ {0}
ASSUME FlagAssumption == {Staggered, Orphans, WorkerDies} \subseteq BOOLEAN
ASSUME NoneAssumption == NoJob \notin Job /\ NoParent \notin Parent

VARIABLES
  job,      \* job.json of each job
  owner,    \* .runtime-owner.json: the owning parent and the runtime's epoch
  alive,    \* the parents that are alive
  up,       \* of each process: how far it has started
  parent,   \* of each process: its parent
  found,    \* of a starting process: the records it read and will mark interrupted
  queue,    \* queues and queuedIds
  slot,     \* the executions in progress, one per unit of the limit
  ctl,      \* activeControllers: of each job, the slot of its controller, or 0
  retried,  \* retries whose record is saved and whose job is not yet enqueued
  asked     \* history: the <<job, attempt>> a cancel found active

executing == <<queue, slot, ctl>>
starting  == <<owner, up, parent, found>>
vars == <<job, owner, alive, up, parent, found, queue, slot, ctl, retried, asked>>

-------------------------------------------------------------------------------
Slot   == 1..Limit
Ended  == {"completed", "failed", "cancelled", "interrupted"}
Active == {"preparing", "running"}

Absent == [status |-> "absent", attempt |-> 0, cancel |-> FALSE, retryable |-> TRUE,
           parent |-> NoParent, epoch |-> 0, output |-> 0]

(* cancel is the presence of cancellationRequestedAt; parent is executorPid;    *)
(* epoch stands for startedAt, compared with the start of the current runtime;  *)
(* output is the attempt whose execution returned it.                           *)
Record == [status : {"absent", "queued"} \cup Active \cup Ended, attempt : Nat,
           cancel : BOOLEAN, retryable : BOOLEAN,
           parent : Parent \cup {NoParent}, epoch : Nat, output : Nat]

(* An execution: taken from the queue, claimed, running its executor, returned, *)
(* or thrown out of (retryable or not).                                         *)
NoExecution == [job |-> NoJob, pc |-> "none", attempt |-> 0, abort |-> FALSE, retryable |-> TRUE]

Execution ==
  {e \in [job : Job \cup {NoJob}, pc : {"none", "claim", "enter", "run", "finish", "catch"},
          attempt : Nat, abort : BOOLEAN, retryable : BOOLEAN] : e.pc # "none" => e.job \in Job}

Taken(j) == [NoExecution EXCEPT !.job = j, !.pc = "claim"]

Idle == [s \in Slot |-> NoExecution]
NoControllers == [j \in Job |-> 0]
NothingFound == [j \in Job |-> Absent]

Init ==
  /\ job = [j \in Job |-> Absent]
  /\ owner = [parent |-> NoParent, epoch |-> 0]
  /\ alive = Parent
  /\ up = [p \in Proc |-> "down"]
  /\ parent = [p \in Proc |-> NoParent]
  /\ found = [p \in Proc |-> NothingFound]
  /\ queue = [p \in Proc |-> << >>]
  /\ slot = [p \in Proc |-> Idle]
  /\ ctl = [p \in Proc |-> NoControllers]
  /\ retried = [p \in Proc |-> {}]
  /\ asked = {}

Save(j, r) == job' = [job EXCEPT ![j] = r]

-------------------------------------------------------------------------------
(* The queue. *)
Holds(q, j) == \E i \in DOMAIN q : q[i] = j

Queued(q, j) == IF Holds(q, j) THEN q ELSE Append(q, j)

(* removeQueued: a queue holds a job at most once. *)
Unqueued(q, j) ==
  IF Holds(q, j)
    THEN LET i == CHOOSE i \in DOMAIN q : q[i] = j
         IN  SubSeq(q, 1, i - 1) \o SubSeq(q, i + 1, Len(q))
    ELSE q

(* pump, given the queue and the executions it runs on: the free slots take the *)
(* jobs at the head of the queue, in order.                                     *)
Free(ex) == {s \in Slot : ex[s].pc = "none"}
Rank(ex, s) == Cardinality({t \in Free(ex) : t <= s})
Starts(q, ex, s) == s \in Free(ex) /\ Rank(ex, s) <= Len(q)

Pump(p, q, ex, ctls) ==
  /\ slot' = [slot EXCEPT ![p] =
       [s \in Slot |-> IF Starts(q, ex, s) THEN Taken(q[Rank(ex, s)]) ELSE ex[s]]]
  /\ queue' = [queue EXCEPT ![p] =
       SubSeq(q, Cardinality({s \in Slot : Starts(q, ex, s)}) + 1, Len(q))]
  /\ ctl' = [ctl EXCEPT ![p] =
       [j \in Job |-> IF \E s \in Slot : Starts(q, ex, s) /\ q[Rank(ex, s)] = j
                        THEN CHOOSE s \in Slot : Starts(q, ex, s) /\ q[Rank(ex, s)] = j
                        ELSE ctls[j]]]

Enqueue(p, j) == Pump(p, Queued(queue[p], j), slot[p], ctl[p])

(* The finally of execute.  It follows the last section under the job lock      *)
(* without another wait, so the two are one step.                               *)
Done(p, s) ==
  Pump(p, queue[p], [slot[p] EXCEPT ![s] = NoExecution],
       [ctl[p] EXCEPT ![slot[p][s].job] = 0])

-------------------------------------------------------------------------------
(* Starting: initialize.  A process claims the runtime, lists the jobs, marks   *)
(* the abandoned ones interrupted one after the other, and begins to serve.     *)
(* The deployment: the processes that serve at a time are workers of one parent. *)
MayStartUnder(par) == \A q \in Proc :
  /\ up[q] # "down" => parent[q] = par \/ parent[q] \notin alive
  /\ Staggered => up[q] \in {"down", "ready"}

Start(p) ==
  \E par \in alive :
    LET same == owner.parent = par \/ owner.parent \in alive IN
    /\ up[p] = "down"
    /\ MayStartUnder(par)
    /\ owner' = [parent |-> par, epoch |-> IF same THEN owner.epoch ELSE owner.epoch + 1]
    /\ up' = [up EXCEPT ![p] = IF same THEN "same" ELSE "new"]
    /\ parent' = [parent EXCEPT ![p] = par]
    /\ UNCHANGED <<job, alive, found, executing, retried, asked>>

(* Mutant: only running jobs are recovered. *)
AbandonedRunning(p, r) ==
  /\ r.status = "running"
  /\ up[p] = "new" \/ r.epoch < owner.epoch \/ r.parent \notin alive

(* Mutant: every starting process takes what is active for abandoned. *)
AbandonedByAnyone(p, r) == r.status \in Active

Abandoned(p, r) ==
  /\ r.status \in Active
  /\ up[p] = "new" \/ r.epoch < owner.epoch \/ r.parent \notin alive

(* Mutant: queued jobs are not enqueued again after a restart. *)
Forgotten(S) == {<< >>}

Orders(S) == {q \in [1..Cardinality(S) -> S] : \A i, k \in DOMAIN q : q[i] = q[k] => i = k}

List(p) ==
  /\ up[p] \in {"new", "same"}
  /\ up' = [up EXCEPT ![p] = "settling"]
  /\ found' = [found EXCEPT ![p] = [j \in Job |-> IF Abandoned(p, job[j]) THEN job[j] ELSE Absent]]
  /\ \E q \in Orders({j \in Job : job[j].status = "queued"}) : queue' = [queue EXCEPT ![p] = q]
  /\ UNCHANGED <<job, owner, alive, parent, slot, ctl, retried, asked>>

Interrupted(r) == [r EXCEPT !.status = "interrupted", !.retryable = TRUE]

(* The record saved is the one that was listed, and no job lock is held. *)
Settle(p, j) ==
  /\ up[p] = "settling"
  /\ found[p][j] # Absent
  /\ Save(j, Interrupted(found[p][j]))
  /\ found' = [found EXCEPT ![p][j] = Absent]
  /\ UNCHANGED <<owner, alive, up, parent, executing, retried, asked>>

Ready(p) ==
  /\ up[p] = "settling"
  /\ found[p] = NothingFound
  /\ up' = [up EXCEPT ![p] = "ready"]
  /\ Pump(p, queue[p], slot[p], ctl[p])
  /\ UNCHANGED <<job, owner, alive, parent, found, retried, asked>>

-------------------------------------------------------------------------------
(* The operations a serving process offers. *)
Create(p, j) ==
  /\ up[p] = "ready"
  /\ job[j].status = "absent"
  /\ Save(j, [Absent EXCEPT !.status = "queued", !.attempt = 1])
  /\ Enqueue(p, j)
  /\ UNCHANGED <<starting, alive, retried, asked>>

Withdrawn(r) == [r EXCEPT !.status = "cancelled", !.cancel = TRUE, !.retryable = TRUE]

CancelQueued(p, j) ==
  /\ up[p] = "ready"
  /\ job[j].status = "queued"
  /\ Save(j, Withdrawn(job[j]))
  /\ queue' = [queue EXCEPT ![p] = Unqueued(@, j)]
  /\ UNCHANGED <<starting, alive, slot, ctl, retried, asked>>

Aborted(p, j) == IF ctl[p][j] = 0 THEN slot[p] ELSE [slot[p] EXCEPT ![ctl[p][j]].abort = TRUE]

CancelActive(p, j) ==
  /\ up[p] = "ready"
  /\ job[j].status \in Active
  /\ Save(j, [job[j] EXCEPT !.cancel = TRUE])
  /\ slot' = [slot EXCEPT ![p] = Aborted(p, j)]
  /\ asked' = asked \cup {<<j, job[j].attempt>>}
  /\ UNCHANGED <<starting, alive, queue, ctl, retried>>

(* Mutant: the attempt is not counted. *)
ResubmittedAsBefore(r) == [Absent EXCEPT !.status = "queued", !.attempt = r.attempt]

Resubmitted(r) == [Absent EXCEPT !.status = "queued", !.attempt = r.attempt + 1]

MayRetry(r) == r.status \in {"failed", "cancelled", "interrupted"} /\ r.retryable

Retry(p, j) ==
  /\ up[p] = "ready"
  /\ MayRetry(job[j])
  /\ job[j].attempt < MaxAttempt
  /\ Save(j, Resubmitted(job[j]))
  /\ retried' = [retried EXCEPT ![p] = @ \cup {<<j, job[j].attempt + 1>>}]
  /\ UNCHANGED <<starting, alive, executing, asked>>

EnqueueRetried(p) ==
  \E t \in retried[p] :
    /\ Enqueue(p, t[1])
    /\ retried' = [retried EXCEPT ![p] = @ \ {t}]
    /\ UNCHANGED <<job, starting, alive, asked>>

-------------------------------------------------------------------------------
(* One execution: execute.  Each step is in slot s of process p and about job j.*)
At(p, s, pc) == slot[p][s].pc = pc
Goto(p, s, ex) == slot' = [slot EXCEPT ![p][s] = ex] /\ UNCHANGED <<queue, ctl>>
Throw(p, s, retryable) == Goto(p, s, [slot[p][s] EXCEPT !.pc = "catch", !.retryable = retryable])

(* Mutants: a cancel is not looked for, or only in the process that took it. *)
CancelIgnored(p, s) == FALSE
CancelSeenLocally(p, s) == slot[p][s].abort

CancelRequested(p, s) == job[slot[p][s].job].cancel \/ slot[p][s].abort

(* Mutants: the claim does not see that another has claimed the job; it does    *)
(* not see a cancel.                                                            *)
ClaimableTwice(r) == r.status \notin Ended
ClaimableCancelled(r) == r.status \in {"queued", "cancelled"}

Claimable(r) == r.status = "queued"

Claimed(p, r) == [r EXCEPT !.status = "preparing", !.cancel = FALSE, !.retryable = TRUE,
                           !.parent = parent[p], !.epoch = owner.epoch]

Claim(p, s) ==
  LET j == slot[p][s].job IN
  /\ At(p, s, "claim")
  /\ \/ /\ Claimable(job[j])
        /\ Save(j, Claimed(p, job[j]))
        /\ Goto(p, s, [slot[p][s] EXCEPT !.pc = "enter", !.attempt = job[j].attempt])
     \/ /\ ~Claimable(job[j])
        /\ Done(p, s)
        /\ UNCHANGED job
  /\ UNCHANGED <<starting, alive, retried, asked>>

MayEnter(p, s) == ~CancelRequested(p, s) /\ job[slot[p][s].job].status = "preparing"

Enter(p, s) ==
  LET j == slot[p][s].job IN
  /\ At(p, s, "enter")
  /\ \/ /\ MayEnter(p, s)
        /\ Save(j, [job[j] EXCEPT !.status = "running"])
        /\ Goto(p, s, [slot[p][s] EXCEPT !.pc = "run"])
     \/ /\ ~MayEnter(p, s)
        /\ Throw(p, s, TRUE)
        /\ UNCHANGED job
  /\ UNCHANGED <<starting, alive, retried, asked>>

(* The executor returns or throws, whether or not it has seen the abort. *)
Executor(p, s) ==
  /\ At(p, s, "run")
  /\ \/ Goto(p, s, [slot[p][s] EXCEPT !.pc = "finish"])
     \/ \E retryable \in BOOLEAN : Throw(p, s, retryable)
  /\ UNCHANGED <<job, starting, alive, retried, asked>>

Completed(r, attempt) == [r EXCEPT !.status = "completed", !.cancel = FALSE,
                                   !.retryable = TRUE, !.output = attempt]

Finish(p, s) ==
  LET j == slot[p][s].job IN
  /\ At(p, s, "finish")
  /\ \/ /\ ~CancelRequested(p, s)
        /\ Save(j, Completed(job[j], slot[p][s].attempt))
        /\ Done(p, s)
     \/ /\ CancelRequested(p, s)
        /\ Throw(p, s, TRUE)
        /\ UNCHANGED job
  /\ UNCHANGED <<starting, alive, retried, asked>>

Failed(p, s, r) == [r EXCEPT !.status = IF CancelRequested(p, s) THEN "cancelled" ELSE "failed",
                             !.retryable = slot[p][s].retryable]

Catch(p, s) ==
  LET j == slot[p][s].job IN
  /\ At(p, s, "catch")
  /\ \/ job[j].status \notin Ended /\ Save(j, Failed(p, s, job[j]))
     \/ job[j].status \in Ended /\ UNCHANGED job
  /\ Done(p, s)
  /\ UNCHANGED <<starting, alive, retried, asked>>

-------------------------------------------------------------------------------
(* Processes die with all they hold in memory. *)
Lose(P) ==
  /\ up' = [p \in Proc |-> IF p \in P THEN "down" ELSE up[p]]
  /\ parent' = [p \in Proc |-> IF p \in P THEN NoParent ELSE parent[p]]
  /\ found' = [p \in Proc |-> IF p \in P THEN NothingFound ELSE found[p]]
  /\ queue' = [p \in Proc |-> IF p \in P THEN << >> ELSE queue[p]]
  /\ slot' = [p \in Proc |-> IF p \in P THEN Idle ELSE slot[p]]
  /\ ctl' = [p \in Proc |-> IF p \in P THEN NoControllers ELSE ctl[p]]
  /\ retried' = [p \in Proc |-> IF p \in P THEN {} ELSE retried[p]]
  /\ UNCHANGED <<job, owner, asked>>

(* Bound: the last living parent stays alive, so that there are finitely many   *)
(* crashes of a parent and the service comes back after each.                   *)
Dies(par) == alive # {par} /\ alive' = alive \ {par}

CrashTree(par)   == Dies(par) /\ Lose({p \in Proc : parent[p] = par})
CrashParent(par) == Orphans /\ Dies(par) /\ Lose({})
CrashWorker(p)   == WorkerDies /\ up[p] # "down" /\ Lose({p}) /\ UNCHANGED alive

-------------------------------------------------------------------------------
Startup(p)  == Start(p) \/ List(p) \/ Ready(p) \/ \E j \in Job : Settle(p, j)
Request(p)  == \E j \in Job : Create(p, j) \/ CancelQueued(p, j) \/ CancelActive(p, j) \/ Retry(p, j)
Work(p, s)  == Claim(p, s) \/ Enter(p, s) \/ Executor(p, s) \/ Finish(p, s) \/ Catch(p, s)
Crash       == (\E par \in alive : CrashTree(par) \/ CrashParent(par)) \/ \E p \in Proc : CrashWorker(p)

Next ==
  \/ \E p \in Proc : Startup(p) \/ Request(p) \/ EnqueueRetried(p) \/ \E s \in Slot : Work(p, s)
  \/ Crash

Spec == Init /\ [][Next]_vars

(* What a process has begun it goes on with; executors end (their tools run     *)
(* under a timeout); a server that went down is started again.                  *)
Fairness == \A p \in Proc :
  /\ WF_vars(Startup(p))
  /\ WF_vars(EnqueueRetried(p))
  /\ \A s \in Slot : WF_vars(Work(p, s))

FairSpec == Spec /\ Fairness
-------------------------------------------------------------------------------
(* Properties. *)
Claims(p, s) == slot[p][s].pc \in {"enter", "run", "finish", "catch"}

(* The types of the state. *)
TypeOK ==
  /\ job \in [Job -> Record]
  /\ owner \in [parent : Parent \cup {NoParent}, epoch : Nat]
  /\ alive \subseteq Parent
  /\ up \in [Proc -> {"down", "new", "same", "settling", "ready"}]
  /\ parent \in [Proc -> Parent \cup {NoParent}]
  /\ found \in [Proc -> [Job -> Record]]
  /\ queue \in [Proc -> Seq(Job)]
  /\ slot \in [Proc -> [Slot -> Execution]]
  /\ ctl \in [Proc -> [Job -> Slot \cup {0}]]
  /\ retried \in [Proc -> SUBSET (Job \X Nat)]
  /\ asked \subseteq Job \X Nat

(* Whatever the processes have in their queues, no two executions that got past *)
(* the claim are about the same job (execute; the claim is its only check).     *)
OneExecution ==
  \A p, q \in Proc : \A s, t \in Slot :
    Claims(p, s) /\ Claims(q, t) /\ slot[p][s].job = slot[q][t].job => p = q /\ s = t

(* A job that reads completed at an attempt was completed by the execution of   *)
(* that attempt, not by one an interruption or a retry had left behind.         *)
CompletedByItsAttempt ==
  \A j \in Job : job[j].status = "completed" => job[j].output = job[j].attempt

(* A cancel that found its job active is not overtaken by the executor that is  *)
(* returning: the attempt does not end completed (cancel against the finish of  *)
(* execute, which clears the request).                                          *)
CancelIsHonoured ==
  \A j \in Job : job[j].status = "completed" => <<j, job[j].attempt>> \notin asked

(* "A cancel request during preparing cannot subsequently start the executor."  *)
NoLateExecutor ==
  [][\A p \in Proc, s \in Slot :
       ~At(p, s, "run") /\ slot'[p][s].pc = "run" => <<slot[p][s].job, slot[p][s].attempt>> \notin asked]_vars

(* A cancel reaches the executor it is meant for through its AbortSignal: the   *)
(* controller that cancel finds is the one of the execution that runs the job.  *)
CancelReachesExecutor ==
  \A p \in Proc, s \in Slot : At(p, s, "run") /\ job[slot[p][s].job].cancel => slot[p][s].abort

(* When a process serves, the jobs that read preparing or running are being     *)
(* executed: those that a crash abandoned have been marked interrupted          *)
(* (initialize).                                                                *)
NoneLeftRunning ==
  \A p \in Proc, j \in Job : up[p] = "ready" /\ job[j].status \in Active =>
    \E q \in Proc, s \in Slot : Claims(q, s) /\ slot[q][s].job = j

(* Recovery marks no job interrupted while the process that executes it runs    *)
(* under a living parent.                                                       *)
NoLiveJobInterrupted ==
  [][\A p \in Proc, s \in Slot :
       LET j == slot[p][s].job IN
       Claims(p, s) /\ parent[p] \in alive /\ job[j].status \in Active
         => job'[j].status # "interrupted"]_vars

(* "GET job still returns completed": what is completed stays so. *)
CompletedIsFinal ==
  [][\A j \in Job : job[j].status = "completed" => job'[j].status = "completed"]_vars

(* "failed/cancelled/interrupted never masquerade as completed": such a job is  *)
(* completed only by way of a retry.                                            *)
NoMasquerade ==
  [][\A j \in Job : job[j].status \in Ended \ {"completed"} => job'[j].status # "completed"]_vars

(* Each record on its own is a job of JobLifecycle: an attempt ends once, an    *)
(* ended job changes only by a retry, and a retry is the next attempt.          *)
Phase(j) == IF job[j].status \in Active THEN "active" ELSE job[j].status

Life == INSTANCE JobLifecycle WITH
          phase <- [j \in Job |-> Phase(j)], attempt <- [j \in Job |-> job[j].attempt]

ImplementsLifecycle == Life!LifeSpec

(* Every job that is queued or active ends, across any number of restarts. *)
EveryJobSettles ==
  \A j \in Job : job[j].status \in Active \cup {"queued"} ~> job[j].status \in Ended

(* Every job ends, and no executor runs on that a cancel was meant for.         *)
EveryJobIsServed == EveryJobSettles /\ []CancelReachesExecutor
===============================================================================
