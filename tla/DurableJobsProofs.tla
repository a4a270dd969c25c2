--------------------------- MODULE DurableJobsProofs ---------------------------
(* Proofs about DurableJobs, for any number of processes, parents, jobs and     *)
(* slots.                                                                       *)
EXTENDS DurableJobs, FiniteSetTheorems, TLAPS

-------------------------------------------------------------------------------
(* What pump does to the executions: a slot keeps its execution, or was free    *)
(* and takes a job.                                                             *)
LEMMA RankIsPositive ==
  ASSUME NEW ex, NEW s \in Free(ex)
  PROVE  Rank(ex, s) \in Nat \ {0}
<1> DEFINE R == {t \in Free(ex) : t <= s}
<1>1. IsFiniteSet(1..Limit)
  BY LimitAssumption, FS_Interval
<1>2. IsFiniteSet(R)
  BY <1>1, FS_Subset DEF Free, Slot
<1>3. s \in R
  BY LimitAssumption DEF Free, Slot
<1>4. Cardinality(R) \in Nat /\ Cardinality(R) # 0
  BY <1>2, <1>3, FS_CardinalityType, FS_EmptySet
<1>5. QED
  BY <1>4 DEF Rank

LEMMA StartsCount ==
  ASSUME NEW q, NEW ex
  PROVE  Cardinality({s \in Slot : Starts(q, ex, s)}) \in Nat
<1>1. IsFiniteSet(1..Limit)
  BY LimitAssumption, FS_Interval
<1>2. IsFiniteSet({s \in Slot : Starts(q, ex, s)})
  BY <1>1, FS_Subset DEF Slot
<1>3. QED
  BY <1>2, FS_CardinalityType

OnlyTakes(p, ex) ==
  /\ \A r \in Proc : r # p => slot'[r] = slot[r]
  /\ \A s \in Slot : slot'[p][s] = ex[s] \/ (ex[s].pc = "none" /\ slot'[p][s].pc = "claim")

LEMMA Pumping ==
  ASSUME NEW p \in Proc, NEW q \in Seq(Job),
         NEW ex \in [Slot -> Execution], NEW ctls \in [Job -> Slot \cup {0}],
         slot \in [Proc -> [Slot -> Execution]], queue \in [Proc -> Seq(Job)],
         ctl \in [Proc -> [Job -> Slot \cup {0}]],
         Pump(p, q, ex, ctls)
  PROVE  /\ slot' \in [Proc -> [Slot -> Execution]]
         /\ queue' \in [Proc -> Seq(Job)]
         /\ ctl' \in [Proc -> [Job -> Slot \cup {0}]]
         /\ OnlyTakes(p, ex)
<1> DEFINE n == Cardinality({s \in Slot : Starts(q, ex, s)})
           new == [s \in Slot |-> IF Starts(q, ex, s) THEN Taken(q[Rank(ex, s)]) ELSE ex[s]]
<1>1. \A s \in Slot : Starts(q, ex, s) => q[Rank(ex, s)] \in Job
  BY RankIsPositive DEF Starts
<1>2. \A j \in Job : Taken(j) \in Execution /\ Taken(j).pc = "claim"
  BY DEF Taken, NoExecution, Execution
<1>3. new \in [Slot -> Execution] /\ \A s \in Slot : new[s] = ex[s] \/ (ex[s].pc = "none" /\ new[s].pc = "claim")
  BY <1>1, <1>2 DEF Starts, Free
<1>4. slot' = [slot EXCEPT ![p] = new]
  BY DEF Pump
<1>5. SubSeq(q, n + 1, Len(q)) \in Seq(Job)
  <2>1. n \in Nat
    BY StartsCount
  <2> HIDE DEF n
  <2>2. Len(q) \in Nat /\ \A i \in 1..Len(q) : q[i] \in Job
    OBVIOUS
  <2>3. QED
    BY <2>1, <2>2
<1>6. queue' = [queue EXCEPT ![p] = SubSeq(q, n + 1, Len(q))]
  BY DEF Pump
<1>7. ctl' \in [Proc -> [Job -> Slot \cup {0}]]
  BY DEF Pump
<1>8. OnlyTakes(p, ex)
  BY <1>3, <1>4 DEF OnlyTakes
<1>9. QED
  BY <1>3, <1>4, <1>5, <1>6, <1>7, <1>8

-------------------------------------------------------------------------------
(* Type correctness, whatever the deployment. *)
LEMMA QueueTypes ==
  ASSUME NEW q \in Seq(Job), NEW j \in Job
  PROVE  Queued(q, j) \in Seq(Job) /\ Unqueued(q, j) \in Seq(Job)
<1>1. Queued(q, j) \in Seq(Job)
  BY DEF Queued
<1>2. CASE Holds(q, j)
  <2> DEFINE i == CHOOSE i \in DOMAIN q : q[i] = j
  <2>1. i \in 1..Len(q)
    BY <1>2 DEF Holds
  <2> HIDE DEF i
  <2>2. SubSeq(q, 1, i - 1) \in Seq(Job) /\ SubSeq(q, i + 1, Len(q)) \in Seq(Job)
    BY <2>1
  <2>3. SubSeq(q, 1, i - 1) \o SubSeq(q, i + 1, Len(q)) \in Seq(Job)
    BY <2>2
  <2>4. QED
    BY <1>1, <1>2, <2>3 DEF Unqueued, i
<1>3. CASE ~Holds(q, j)
  BY <1>1, <1>3 DEF Unqueued
<1>4. QED
  BY <1>2, <1>3

(* What the operations make of a record is a record. *)
LEMMA RecordTypes ==
  ASSUME NEW r \in Record
  PROVE  /\ Absent \in Record
         /\ r.attempt \in Nat
         /\ [Absent EXCEPT !.status = "queued", !.attempt = 1] \in Record
         /\ Interrupted(r) \in Record
         /\ Withdrawn(r) \in Record
         /\ [r EXCEPT !.cancel = TRUE] \in Record
         /\ Resubmitted(r) \in Record
         /\ [r EXCEPT !.status = "running"] \in Record
<1> USE DEF Record, Ended, Active
<1>1. Absent \in Record /\ [Absent EXCEPT !.status = "queued", !.attempt = 1] \in Record
  BY DEF Absent
<1>2. Interrupted(r) \in Record
  BY DEF Interrupted
<1>3. Withdrawn(r) \in Record
  BY DEF Withdrawn
<1>4. r.attempt \in Nat /\ [r EXCEPT !.cancel = TRUE] \in Record /\ [r EXCEPT !.status = "running"] \in Record
  OBVIOUS
<1>5. Resubmitted(r) \in Record
  <2>1. r.attempt + 1 \in Nat
    OBVIOUS
  <2>2. QED
    BY <2>1 DEF Resubmitted, Absent
<1>6. QED
  BY <1>1, <1>2, <1>3, <1>4, <1>5

LEMMA OrdersAreSequences ==
  ASSUME NEW S, S \subseteq Job, NEW q \in Orders(S)
  PROVE  q \in Seq(Job)
<1>1. IsFiniteSet(S)
  BY JobAssumption, FS_Subset
<1>2. Cardinality(S) \in Nat
  BY <1>1, FS_CardinalityType
<1>3. q \in [1..Cardinality(S) -> Job]
  BY DEF Orders
<1>4. QED
  BY <1>2, <1>3

LEMMA InitTypeOK == Init => TypeOK
BY DEF Init, TypeOK, Absent, Record, NothingFound, Idle, NoExecution, Execution, NoControllers

LEMMA StartupTypeOK ==
  ASSUME TypeOK, NEW p \in Proc, Startup(p)
  PROVE  TypeOK'
<1> USE DEF TypeOK
<1>1. CASE Start(p)
  BY <1>1 DEF Start, executing
<1>2. CASE List(p)
  <2>1. \A j \in Job : Absent \in Record
    BY DEF Absent, Record
  <2>2. \A q \in Orders({j \in Job : job[j].status = "queued"}) : q \in Seq(Job)
    BY OrdersAreSequences
  <2>3. found' \in [Proc -> [Job -> Record]]
    BY <1>2, <2>1 DEF List
  <2>4. queue' \in [Proc -> Seq(Job)]
    BY <1>2, <2>2 DEF List
  <2>5. QED
    BY <1>2, <2>3, <2>4 DEF List
<1>3. CASE Ready(p)
  <2>1. slot' \in [Proc -> [Slot -> Execution]] /\ queue' \in [Proc -> Seq(Job)]
        /\ ctl' \in [Proc -> [Job -> Slot \cup {0}]]
    BY <1>3, Pumping DEF Ready
  <2>2. QED
    BY <1>3, <2>1 DEF Ready
<1>4. ASSUME NEW j \in Job, Settle(p, j)
      PROVE  TypeOK'
  <2>1. Interrupted(found[p][j]) \in Record /\ Absent \in Record
    BY RecordTypes
  <2>2. job' \in [Job -> Record] /\ found' \in [Proc -> [Job -> Record]]
    BY <1>4, <2>1 DEF Settle, Save
  <2>3. QED
    BY <1>4, <2>2 DEF Settle, executing
<1>5. QED
  BY <1>1, <1>2, <1>3, <1>4 DEF Startup

LEMMA EnqueueTypeOK ==
  ASSUME TypeOK, NEW p \in Proc, NEW j \in Job, Enqueue(p, j)
  PROVE  /\ slot' \in [Proc -> [Slot -> Execution]]
         /\ queue' \in [Proc -> Seq(Job)]
         /\ ctl' \in [Proc -> [Job -> Slot \cup {0}]]
<1>1. Queued(queue[p], j) \in Seq(Job)
  BY QueueTypes DEF TypeOK
<1>2. slot[p] \in [Slot -> Execution] /\ ctl[p] \in [Job -> Slot \cup {0}]
  BY DEF TypeOK
<1>3. QED
  BY <1>1, <1>2, Pumping DEF TypeOK, Enqueue

LEMMA RequestTypeOK ==
  ASSUME TypeOK, NEW p \in Proc, Request(p) \/ EnqueueRetried(p)
  PROVE  TypeOK'
<1> USE DEF TypeOK, starting, executing, Save
<1>1. ASSUME NEW j \in Job, Create(p, j)
      PROVE  TypeOK'
  <2>1. [Absent EXCEPT !.status = "queued", !.attempt = 1] \in Record
    BY RecordTypes
  <2>2. QED
    BY <1>1, <2>1, EnqueueTypeOK DEF Create
<1>2. ASSUME NEW j \in Job, CancelQueued(p, j)
      PROVE  TypeOK'
  <2>1. Withdrawn(job[j]) \in Record
    BY RecordTypes
  <2>2. Unqueued(queue[p], j) \in Seq(Job)
    BY QueueTypes
  <2>3. queue' \in [Proc -> Seq(Job)]
    BY <1>2, <2>2 DEF CancelQueued
  <2>4. QED
    BY <1>2, <2>1, <2>3 DEF CancelQueued
<1>3. ASSUME NEW j \in Job, CancelActive(p, j)
      PROVE  TypeOK'
  <2>1. [job[j] EXCEPT !.cancel = TRUE] \in Record /\ job[j].attempt \in Nat
    BY RecordTypes
  <2>2. Aborted(p, j) \in [Slot -> Execution]
    <3>1. \A e \in Execution : [e EXCEPT !.abort = TRUE] \in Execution
      BY DEF Execution, NoExecution
    <3>2. QED
      BY <3>1 DEF Aborted
  <2>3. QED
    BY <1>3, <2>1, <2>2 DEF CancelActive
<1>4. ASSUME NEW j \in Job, Retry(p, j)
      PROVE  TypeOK'
  <2>1. Resubmitted(job[j]) \in Record /\ job[j].attempt + 1 \in Nat
    <3>1. Resubmitted(job[j]) \in Record /\ job[j].attempt \in Nat
      BY RecordTypes
    <3>2. QED
      BY <3>1
  <2>2. QED
    BY <1>4, <2>1 DEF Retry
<1>5. CASE EnqueueRetried(p)
  <2>1. PICK t \in retried[p] : Enqueue(p, t[1]) /\ retried' = [retried EXCEPT ![p] = @ \ {t}]
    BY <1>5 DEF EnqueueRetried
  <2>2. t[1] \in Job
    BY <2>1
  <2>3. QED
    BY <1>5, <2>1, <2>2, EnqueueTypeOK DEF EnqueueRetried
<1>6. QED
  BY <1>1, <1>2, <1>3, <1>4, <1>5 DEF Request

LEMMA ExecutionTypes ==
  ASSUME NEW e \in Execution
  PROVE  /\ NoExecution \in Execution
         /\ e.pc # "none" => e.job \in Job
         /\ \A n \in Nat : e.pc = "claim" => [e EXCEPT !.pc = "enter", !.attempt = n] \in Execution
         /\ e.pc # "none" => \A pc \in {"run", "finish"} : [e EXCEPT !.pc = pc] \in Execution
         /\ e.pc # "none" => \A b \in BOOLEAN : [e EXCEPT !.pc = "catch", !.retryable = b] \in Execution
BY DEF Execution, NoExecution

LEMMA WorkRecordTypes ==
  ASSUME TypeOK, NEW p \in Proc, NEW s \in Slot, NEW r \in Record
  PROVE  /\ Claimed(p, r) \in Record
         /\ Completed(r, slot[p][s].attempt) \in Record
         /\ Failed(p, s, r) \in Record
<1> USE DEF TypeOK, Record, Ended, Active
<1>1. Claimed(p, r) \in Record
  BY DEF Claimed
<1>2. slot[p][s].attempt \in Nat /\ slot[p][s].retryable \in BOOLEAN
  BY DEF Execution
<1>3. Completed(r, slot[p][s].attempt) \in Record
  BY <1>2 DEF Completed
<1>4. Failed(p, s, r) \in Record
  BY <1>2 DEF Failed
<1>5. QED
  BY <1>1, <1>3, <1>4

LEMMA DoneTypeOK ==
  ASSUME TypeOK, NEW p \in Proc, NEW s \in Slot, slot[p][s].job \in Job, Done(p, s)
  PROVE  /\ slot' \in [Proc -> [Slot -> Execution]]
         /\ queue' \in [Proc -> Seq(Job)]
         /\ ctl' \in [Proc -> [Job -> Slot \cup {0}]]
         /\ \A r \in Proc : r # p => slot'[r] = slot[r]
         /\ slot'[p][s].pc \in {"none", "claim"}
         /\ \A t \in Slot : t # s => slot'[p][t] = slot[p][t] \/ (slot[p][t].pc = "none" /\ slot'[p][t].pc = "claim")
<1> DEFINE ex == [slot[p] EXCEPT ![s] = NoExecution]
           ctls == [ctl[p] EXCEPT ![slot[p][s].job] = 0]
<1>1. ex \in [Slot -> Execution] /\ ex[s].pc = "none" /\ \A t \in Slot : t # s => ex[t] = slot[p][t]
  BY ExecutionTypes DEF TypeOK, NoExecution
<1>2. ctls \in [Job -> Slot \cup {0}]
  BY DEF TypeOK
<1>3. Pump(p, queue[p], ex, ctls)
  BY DEF Done
<1>4. /\ queue[p] \in Seq(Job) /\ slot \in [Proc -> [Slot -> Execution]]
      /\ queue \in [Proc -> Seq(Job)] /\ ctl \in [Proc -> [Job -> Slot \cup {0}]]
  BY DEF TypeOK
<1> HIDE DEF ex, ctls
<1>5. /\ slot' \in [Proc -> [Slot -> Execution]]
      /\ queue' \in [Proc -> Seq(Job)]
      /\ ctl' \in [Proc -> [Job -> Slot \cup {0}]]
      /\ OnlyTakes(p, ex)
  BY <1>1, <1>2, <1>3, <1>4, Pumping
<1>6. QED
  BY <1>1, <1>5 DEF OnlyTakes

LEMMA WorkTypeOK ==
  ASSUME TypeOK, NEW p \in Proc, NEW s \in Slot, Work(p, s)
  PROVE  TypeOK'
<1> DEFINE e == slot[p][s]
           j == e.job
<1>1. e \in Execution
  BY DEF TypeOK
<1>2. j \in Job
  BY <1>1, ExecutionTypes DEF Work, Claim, Enter, Executor, Finish, Catch, At
<1>3. job[j] \in Record
  BY <1>2 DEF TypeOK
<1>4. ASSUME NEW f \in Execution, Goto(p, s, f)
      PROVE  /\ slot' \in [Proc -> [Slot -> Execution]]
             /\ queue' \in [Proc -> Seq(Job)]
             /\ ctl' \in [Proc -> [Job -> Slot \cup {0}]]
  BY <1>4 DEF Goto, TypeOK
<1>5. ASSUME e.pc # "none", NEW b \in BOOLEAN, Throw(p, s, b)
      PROVE  /\ slot' \in [Proc -> [Slot -> Execution]]
             /\ queue' \in [Proc -> Seq(Job)]
             /\ ctl' \in [Proc -> [Job -> Slot \cup {0}]]
  BY <1>1, <1>4, <1>5, ExecutionTypes DEF Throw
<1>6. ASSUME NEW r \in Record, Save(j, r)
      PROVE  job' \in [Job -> Record]
  BY <1>2, <1>6 DEF Save, TypeOK
<1>7. CASE Claim(p, s)
  <2>1. CASE Claimable(job[j]) /\ Save(j, Claimed(p, job[j]))
             /\ Goto(p, s, [e EXCEPT !.pc = "enter", !.attempt = job[j].attempt])
    <3>1. [e EXCEPT !.pc = "enter", !.attempt = job[j].attempt] \in Execution
      BY <1>1, <1>3, <1>7, RecordTypes, ExecutionTypes DEF Claim, At
    <3>2. job' \in [Job -> Record]
      BY <1>3, <1>6, <2>1, WorkRecordTypes
    <3>3. QED
      BY <1>4, <1>7, <2>1, <3>1, <3>2 DEF Claim, TypeOK, starting
  <2>2. CASE Done(p, s) /\ UNCHANGED job
    BY <1>2, <1>7, <2>2, DoneTypeOK DEF Claim, TypeOK, starting
  <2>3. QED
    BY <1>7, <2>1, <2>2 DEF Claim
<1>8. CASE Enter(p, s)
  <2>1. CASE Save(j, [job[j] EXCEPT !.status = "running"]) /\ Goto(p, s, [e EXCEPT !.pc = "run"])
    <3>1. job' \in [Job -> Record]
      BY <1>3, <1>6, <2>1, RecordTypes
    <3>2. [e EXCEPT !.pc = "run"] \in Execution
      BY <1>1, <1>8, ExecutionTypes DEF Enter, At
    <3>3. QED
      BY <1>4, <1>8, <2>1, <3>1, <3>2 DEF Enter, TypeOK, starting
  <2>2. CASE Throw(p, s, TRUE) /\ UNCHANGED job
    BY <1>5, <1>8, <2>2 DEF Enter, At, TypeOK, starting
  <2>3. QED
    BY <1>8, <2>1, <2>2 DEF Enter
<1>9. CASE Executor(p, s)
  <2>1. CASE Goto(p, s, [e EXCEPT !.pc = "finish"])
    <3>1. [e EXCEPT !.pc = "finish"] \in Execution
      BY <1>1, <1>9, ExecutionTypes DEF Executor, At
    <3>2. QED
      BY <1>4, <1>9, <2>1, <3>1 DEF Executor, TypeOK, starting
  <2>2. ASSUME NEW b \in BOOLEAN, Throw(p, s, b)
        PROVE  TypeOK'
    BY <1>5, <1>9, <2>2 DEF Executor, At, TypeOK, starting
  <2>3. QED
    BY <1>9, <2>1, <2>2 DEF Executor
<1>10. CASE Finish(p, s)
  <2>1. CASE Save(j, Completed(job[j], e.attempt)) /\ Done(p, s)
    <3>1. job' \in [Job -> Record]
      BY <1>3, <1>6, <2>1, WorkRecordTypes
    <3>2. QED
      BY <1>2, <1>10, <2>1, <3>1, DoneTypeOK DEF Finish, TypeOK, starting
  <2>2. CASE Throw(p, s, TRUE) /\ UNCHANGED job
    BY <1>5, <1>10, <2>2 DEF Finish, At, TypeOK, starting
  <2>3. QED
    BY <1>10, <2>1, <2>2 DEF Finish
<1>11. CASE Catch(p, s)
  <2>1. job' \in [Job -> Record]
    BY <1>3, <1>6, <1>11, WorkRecordTypes DEF Catch, TypeOK
  <2>2. QED
    BY <1>2, <1>11, <2>1, DoneTypeOK DEF Catch, TypeOK, starting
<1>12. QED
  BY <1>7, <1>8, <1>9, <1>10, <1>11 DEF Work

LEMMA CrashTypeOK ==
  ASSUME TypeOK, Crash
  PROVE  TypeOK'
<1>1. /\ NothingFound \in [Job -> Record] /\ Idle \in [Slot -> Execution]
      /\ NoControllers \in [Job -> Slot \cup {0}] /\ << >> \in Seq(Job)
  BY DEF NothingFound, Idle, NoControllers, Absent, Record, NoExecution, Execution
<1>2. ASSUME NEW P, Lose(P), alive' \subseteq Parent
      PROVE  TypeOK'
  BY <1>1, <1>2 DEF Lose, TypeOK
<1>3. QED
  BY <1>2 DEF Crash, CrashTree, CrashParent, CrashWorker, Dies, TypeOK

LEMMA NextTypeOK == TypeOK /\ [Next]_vars => TypeOK'
<1>1. ASSUME TypeOK, UNCHANGED vars
      PROVE  TypeOK'
  BY <1>1 DEF vars, TypeOK
<1>2. QED
  BY <1>1, StartupTypeOK, RequestTypeOK, WorkTypeOK, CrashTypeOK DEF Next

(* Every state of every behaviour has its types, in any deployment.            *)
THEOREM TypeCorrect == Spec => []TypeOK
  BY InitTypeOK, NextTypeOK, PTL DEF Spec

-------------------------------------------------------------------------------
(* The deployment the code is written for: one server whose workers start one   *)
(* after the other and die with it.                                             *)
OneServer == Staggered /\ ~Orphans /\ ~WorkerDies

(* The inductive invariant.  What serves, serves under the owner of the runtime;*)
(* an active record is executed by exactly one slot, at that attempt, or was    *)
(* left by a dead parent and is about to be settled.                            *)
Up(p) == up[p] # "down"
Begins(p) == up[p] \in {"new", "same", "settling"}
Left(r) == r.status \in Active /\ r.parent \notin alive

Deployed == \A p \in Proc : Up(p) => parent[p] = owner.parent /\ owner.parent \in alive

Startups == \A p, q \in Proc : p # q =>
  /\ Begins(p) => ~Begins(q)
  /\ up[p] = "new" => ~Up(q)

IdleUntilReady == \A p \in Proc : up[p] # "ready" => slot[p] = Idle /\ retried[p] = {}

Executed == \A p \in Proc, s \in Slot : Claims(p, s) =>
  LET r == job[slot[p][s].job] IN
  /\ r.status \in Active
  /\ r.attempt = slot[p][s].attempt
  /\ r.parent = owner.parent
  /\ r.epoch = owner.epoch

Attended == \A j \in Job : job[j].status \in Active /\ job[j].parent \in alive =>
  \E p \in Proc, s \in Slot : Claims(p, s) /\ slot[p][s].job = j

Listed == \A p \in Proc, j \in Job :
  /\ found[p][j] # Absent => up[p] = "settling" /\ found[p][j] = job[j] /\ Left(job[j])
  /\ up[p] = "settling" /\ Left(job[j]) => found[p][j] = job[j]

Settled == \A p \in Proc, j \in Job : up[p] = "ready" => ~Left(job[j])

Cancels == \A j \in Job : <<j, job[j].attempt>> \in asked =>
  /\ job[j].status \notin {"absent", "queued", "completed"}
  /\ job[j].status \in Active => job[j].cancel

AskedBefore == \A t \in asked : t[2] <= job[t[1]].attempt

Born == \A j \in Job : job[j].status = "absent" => job[j].attempt = 0

Histories == Cancels /\ AskedBefore /\ CompletedByItsAttempt /\ Born

IInv ==
  /\ TypeOK /\ Deployed /\ Startups /\ IdleUntilReady
  /\ Executed /\ Attended /\ OneExecution
  /\ Listed /\ Settled
  /\ Histories

LEMMA InitIInv == Init => IInv
<1> SUFFICES ASSUME Init PROVE IInv
  OBVIOUS
<1> USE DEF Init
<1>1. TypeOK
  BY InitTypeOK
<1>2. Deployed /\ Startups /\ IdleUntilReady
  BY DEF Deployed, Startups, IdleUntilReady, Up, Begins
<1>3. \A p \in Proc, s \in Slot : ~Claims(p, s)
  BY DEF Claims, Idle, NoExecution
<1>4. \A j \in Job : job[j].status = "absent"
  BY DEF Absent
<1>5. Executed /\ Attended /\ OneExecution
  BY <1>3, <1>4 DEF Executed, Attended, OneExecution, Active
<1>6. Listed /\ Settled
  BY <1>4 DEF Listed, Settled, NothingFound, Left, Active
<1>7. Histories
  BY <1>4, <1>1 DEF TypeOK, Absent, Histories, Cancels, AskedBefore, CompletedByItsAttempt, Born
<1>8. QED
  BY <1>1, <1>2, <1>5, <1>6, <1>7 DEF IInv

(* A process that holds an execution serves, under the owner of the runtime.    *)
LEMMA Holder ==
  ASSUME IInv, NEW p \in Proc, NEW s \in Slot, slot[p][s].pc # "none"
  PROVE  up[p] = "ready" /\ parent[p] = owner.parent /\ owner.parent \in alive
<1>1. up[p] = "ready"
  BY DEF IInv, IdleUntilReady, Idle, NoExecution
<1>2. QED
  BY <1>1 DEF IInv, Deployed, Up

(* What an active record says of its execution.                                 *)
LEMMA AliveMeansExecuted ==
  ASSUME IInv, NEW j \in Job, job[j].status \in Active, job[j].parent \in alive
  PROVE  /\ job[j].parent = owner.parent /\ job[j].epoch = owner.epoch
         /\ \E q \in Proc : up[q] = "ready"
<1>1. PICK q \in Proc, s \in Slot : Claims(q, s) /\ slot[q][s].job = j
  BY DEF IInv, Attended
<1>2. job[j].parent = owner.parent /\ job[j].epoch = owner.epoch
  BY <1>1 DEF IInv, Executed
<1>3. up[q] = "ready"
  BY <1>1, Holder DEF Claims
<1>4. QED
  BY <1>2, <1>3

(* Nothing but the start of a process changes.                                  *)
LEMMA StartIInv ==
  ASSUME OneServer, IInv, NEW p \in Proc, Start(p)
  PROVE  IInv'
<1>1. PICK par \in alive :
        LET same == owner.parent = par \/ owner.parent \in alive IN
        /\ up[p] = "down"
        /\ MayStartUnder(par)
        /\ owner' = [parent |-> par, epoch |-> IF same THEN owner.epoch ELSE owner.epoch + 1]
        /\ up' = [up EXCEPT ![p] = IF same THEN "same" ELSE "new"]
        /\ parent' = [parent EXCEPT ![p] = par]
        /\ UNCHANGED <<job, alive, found, executing, retried, asked>>
  BY DEF Start
<1> USE DEF IInv
<1>2. TypeOK'
  BY StartupTypeOK DEF Startup
<1>3. \A q \in Proc : q # p => up'[q] = up[q] /\ parent'[q] = parent[q]
  BY <1>1 DEF TypeOK
<1>4. up'[p] \in {"same", "new"} /\ parent'[p] = par /\ owner'.parent = par
  BY <1>1 DEF TypeOK
<1>5. \A q \in Proc : Up(q) => owner.parent = par /\ up[q] = "ready"
  BY <1>1 DEF MayStartUnder, Deployed, Up, OneServer, TypeOK
<1>6. \A q \in Proc : Up(q) => owner'.epoch = owner.epoch /\ up'[p] = "same"
  BY <1>1, <1>5 DEF TypeOK
<1>7. Deployed'
  BY <1>1, <1>3, <1>4, <1>5 DEF Deployed, Up
<1>8. Startups'
  BY <1>3, <1>4, <1>5, <1>6 DEF Startups, Begins, Up
<1>9. IdleUntilReady'
  BY <1>1, <1>3 DEF IdleUntilReady, executing
<1>10. \A q \in Proc, s \in Slot : Claims(q, s) => Up(q)
  BY Holder DEF Claims, Up
<1>11. Executed'
  BY <1>1, <1>4, <1>5, <1>6, <1>10 DEF Executed, Claims, executing
<1>12. Attended' /\ OneExecution'
  BY <1>1 DEF Attended, OneExecution, Claims, executing
<1>13. Listed' /\ Settled'
  BY <1>1, <1>3, <1>4 DEF Listed, Settled, Left
<1>14. Histories'
  BY <1>1 DEF Histories, Cancels, AskedBefore, CompletedByItsAttempt, Born
<1>15. QED
  BY <1>2, <1>7, <1>8, <1>9, <1>11, <1>12, <1>13, <1>14

LEMMA ListIInv ==
  ASSUME OneServer, IInv, NEW p \in Proc, List(p)
  PROVE  IInv'
<1> USE DEF IInv
<1>1. TypeOK'
  BY StartupTypeOK DEF Startup
<1>2. /\ up[p] \in {"new", "same"} /\ up'[p] = "settling"
      /\ \A q \in Proc : q # p => up'[q] = up[q] /\ found'[q] = found[q]
      /\ \A j \in Job : found'[p][j] = IF Abandoned(p, job[j]) THEN job[j] ELSE Absent
      /\ UNCHANGED <<job, owner, alive, parent, slot, retried, asked>>
  BY DEF List, TypeOK
<1>3. Deployed' /\ Startups' /\ IdleUntilReady'
  BY <1>2 DEF Deployed, Startups, IdleUntilReady, Up, Begins
<1>4. Executed' /\ Attended' /\ OneExecution'
  BY <1>2 DEF Executed, Attended, OneExecution, Claims
<1>5. ASSUME NEW j \in Job, Abandoned(p, job[j])
      PROVE  Left(job[j])
  <2>1. SUFFICES ASSUME job[j].parent \in alive
                 PROVE  FALSE
    BY <1>5 DEF Left, Abandoned
  <2>2. job[j].epoch = owner.epoch /\ owner.epoch \in Nat
    BY <1>5, <2>1, AliveMeansExecuted DEF Abandoned, TypeOK
  <2>3. up[p] # "new"
    BY <1>2, <1>5, <2>1, AliveMeansExecuted DEF Abandoned, Startups, Up
  <2>4. QED
    BY <1>5, <2>1, <2>2, <2>3 DEF Abandoned
<1>6. \A j \in Job : Left(job[j]) => Abandoned(p, job[j])
  BY DEF Left, Abandoned
<1>7. Listed'
  BY <1>2, <1>5, <1>6 DEF Listed, Left
<1>8. Settled'
  BY <1>2 DEF Settled, Left
<1>9. Histories'
  BY <1>2 DEF Histories, Cancels, AskedBefore, CompletedByItsAttempt, Born
<1>10. QED
  BY <1>1, <1>3, <1>4, <1>7, <1>8, <1>9

(* What follows when a step neither begins nor ends an execution.               *)
SameClaims == \A q \in Proc, s \in Slot :
  /\ Claims(q, s)' <=> Claims(q, s)
  /\ Claims(q, s) => slot'[q][s].job = slot[q][s].job /\ slot'[q][s].attempt = slot[q][s].attempt

SameActive == \A j \in Job :
  /\ job'[j].status \in Active <=> job[j].status \in Active
  /\ job[j].status \in Active => /\ job'[j].attempt = job[j].attempt
                                 /\ job'[j].parent = job[j].parent
                                 /\ job'[j].epoch = job[j].epoch

LEMMA ExecutionsKeep ==
  ASSUME IInv, SameClaims, SameActive, UNCHANGED <<owner, alive>>
  PROVE  Executed' /\ Attended' /\ OneExecution' /\ \A j \in Job : Left(job[j])' <=> Left(job[j])
<1> USE DEF IInv, SameClaims, SameActive
<1>1. \A q \in Proc, s \in Slot : Claims(q, s) => slot[q][s].job \in Job
  BY DEF Claims, TypeOK, Execution
<1>2. Executed'
  BY <1>1 DEF Executed
<1>3. Attended'
  BY DEF Attended
<1>4. OneExecution'
  BY DEF OneExecution
<1>5. QED
  BY <1>2, <1>3, <1>4 DEF Left

LEMMA PumpKeeps ==
  ASSUME IInv, NEW p \in Proc, NEW q \in Seq(Job), Pump(p, q, slot[p], ctl[p])
  PROVE  SameClaims /\ \A r \in Proc : r # p => slot'[r] = slot[r]
<1>1. /\ slot[p] \in [Slot -> Execution] /\ ctl[p] \in [Job -> Slot \cup {0}]
      /\ slot \in [Proc -> [Slot -> Execution]] /\ queue \in [Proc -> Seq(Job)]
      /\ ctl \in [Proc -> [Job -> Slot \cup {0}]]
  BY DEF IInv, TypeOK
<1>2. OnlyTakes(p, slot[p])
  BY <1>1, Pumping
<1>3. QED
  BY <1>2 DEF OnlyTakes, SameClaims, Claims

LEMMA ReadyIInv ==
  ASSUME IInv, NEW p \in Proc, Ready(p)
  PROVE  IInv'
<1> USE DEF IInv
<1>1. TypeOK'
  BY StartupTypeOK DEF Startup
<1>2. /\ up[p] = "settling" /\ up'[p] = "ready" /\ \A q \in Proc : q # p => up'[q] = up[q]
      /\ found[p] = NothingFound /\ Pump(p, queue[p], slot[p], ctl[p]) /\ queue[p] \in Seq(Job)
      /\ UNCHANGED <<job, owner, alive, parent, found, retried, asked>>
  BY DEF Ready, TypeOK
<1>3. SameClaims /\ \A q \in Proc : q # p => slot'[q] = slot[q]
  BY <1>2, PumpKeeps
<1>4. Deployed' /\ Startups' /\ IdleUntilReady'
  BY <1>2, <1>3 DEF Deployed, Startups, IdleUntilReady, Up, Begins
<1>5. Executed' /\ Attended' /\ OneExecution' /\ \A j \in Job : Left(job[j])' <=> Left(job[j])
  BY <1>2, <1>3, ExecutionsKeep DEF SameActive
<1>6. \A j \in Job : ~Left(job[j])
  BY <1>2 DEF Listed, Left, NothingFound, Active, Absent
<1>7. Listed' /\ Settled'
  BY <1>2, <1>5, <1>6 DEF Listed, Settled, NothingFound
<1>8. Histories'
  BY <1>2 DEF Histories, Cancels, AskedBefore, CompletedByItsAttempt, Born
<1>9. QED
  BY <1>1, <1>4, <1>5, <1>7, <1>8

LEMMA SettleIInv ==
  ASSUME IInv, NEW p \in Proc, NEW j \in Job, Settle(p, j)
  PROVE  IInv'
<1> USE DEF IInv
<1>1. TypeOK'
  BY StartupTypeOK DEF Startup
<1>2. /\ up[p] = "settling" /\ found[p][j] = job[j] /\ Left(job[j])
      /\ job' = [job EXCEPT ![j] = Interrupted(job[j])]
      /\ found'[p][j] = Absent /\ \A k \in Job : k # j => found'[p][k] = found[p][k]
      /\ \A q \in Proc : q # p => found'[q] = found[q]
      /\ UNCHANGED <<owner, alive, up, parent, slot, retried, asked>>
  BY DEF Settle, Save, Listed, TypeOK, executing
<1>3. /\ job'[j].status = "interrupted" /\ job'[j].attempt = job[j].attempt
      /\ \A k \in Job : k # j => job'[k] = job[k]
      /\ job[j].status \in Active
  BY <1>2 DEF Interrupted, TypeOK, Record, Left
<1>4. Deployed' /\ Startups' /\ IdleUntilReady'
  BY <1>2 DEF Deployed, Startups, IdleUntilReady, Up, Begins
<1>5. \A q \in Proc, s \in Slot : Claims(q, s) => slot[q][s].job \in Job /\ slot[q][s].job # j
  <2>1. owner.parent \in alive
    BY <1>2 DEF Deployed, Up
  <2>2. QED
    BY <1>2, <2>1 DEF Executed, Left, Claims, TypeOK, Execution
<1>6. Executed' /\ OneExecution'
  BY <1>2, <1>3, <1>5 DEF Executed, OneExecution, Claims
<1>7. Attended'
  BY <1>2, <1>3, <1>5 DEF Attended, Claims, Active
<1>8. \A q \in Proc : q # p => up[q] # "settling"
  BY <1>2 DEF Startups, Begins
<1>9. Listed' /\ Settled'
  BY <1>2, <1>3, <1>8 DEF Listed, Settled, Left, Active
<1>10. Histories'
  BY <1>2, <1>3 DEF Histories, Cancels, AskedBefore, CompletedByItsAttempt, Born, Active, TypeOK
<1>11. QED
  BY <1>1, <1>4, <1>6, <1>7, <1>9, <1>10

(* A serving process may change records and executions of its own, as long as   *)
(* no execution begins or ends.                                                 *)
LEMMA ServingKeeps ==
  ASSUME IInv, NEW p \in Proc, up[p] = "ready", SameClaims, SameActive,
         UNCHANGED <<starting, alive>>,
         \A q \in Proc : q # p => slot'[q] = slot[q] /\ retried'[q] = retried[q]
  PROVE  /\ Deployed' /\ Startups' /\ IdleUntilReady' /\ Executed' /\ Attended' /\ OneExecution'
         /\ Listed' /\ Settled'
<1> USE DEF IInv, starting
<1>1. Deployed' /\ Startups'
  BY DEF Deployed, Startups, Up, Begins
<1>2. IdleUntilReady'
  BY DEF IdleUntilReady
<1>3. Executed' /\ Attended' /\ OneExecution' /\ \A j \in Job : Left(job[j])' <=> Left(job[j])
  BY ExecutionsKeep
<1>4. \A j \in Job : ~Left(job[j])
  BY DEF Settled
<1>5. \A q \in Proc, j \in Job : found[q][j] = Absent
  BY <1>4 DEF Listed
<1>6. Listed' /\ Settled'
  BY <1>3, <1>4, <1>5 DEF Listed, Settled
<1>7. QED
  BY <1>1, <1>2, <1>3, <1>6

(* A record that is replaced by another keeps the invariants on records, if its *)
(* attempt and status are such.                                                 *)
LEMMA RecordsKeep ==
  ASSUME IInv, NEW j \in Job, NEW r \in Record, Save(j, r),
         r.attempt >= job[j].attempt,
         <<j, r.attempt>> \in asked' =>
           r.status \notin {"absent", "queued", "completed"} /\ (r.status \in Active => r.cancel),
         r.status = "completed" => r.output = r.attempt, r.status # "absent",
         \A t \in asked' : t \in asked \/ (t[1] = j /\ t[2] = job[j].attempt)
  PROVE  Histories'
<1> USE DEF IInv, Save
<1>1. job'[j] = r /\ \A k \in Job : k # j => job'[k] = job[k]
  BY DEF TypeOK
<1>2. Cancels'
  <2>1. ASSUME NEW k \in Job, k # j, <<k, job'[k].attempt>> \in asked'
        PROVE  <<k, job[k].attempt>> \in asked /\ job'[k] = job[k]
    BY <1>1, <2>1
  <2>2. QED
    BY <1>1, <2>1 DEF Cancels, Histories
<1>3. AskedBefore'
  <2>1. ASSUME NEW t \in asked'
        PROVE  t[2] <= job'[t[1]].attempt
    <3>1. CASE t[1] = j /\ t[2] = job[j].attempt
      BY <1>1, <3>1 DEF TypeOK, Record
    <3>2. CASE t \in asked /\ t[1] = j
      <4>1. t[2] <= job[j].attempt /\ t[2] \in Nat
        BY <3>2 DEF AskedBefore, Histories, TypeOK
      <4>2. job[j].attempt \in Nat /\ r.attempt \in Nat
        BY DEF TypeOK, Record
      <4>3. QED
        BY <1>1, <3>2, <4>1, <4>2
    <3>3. CASE t \in asked /\ t[1] # j
      <4>1. t[1] \in Job
        BY <3>3 DEF TypeOK
      <4>2. QED
        BY <1>1, <3>3, <4>1 DEF AskedBefore, Histories
    <3>4. QED
      BY <2>1, <3>1, <3>2, <3>3
  <2>2. QED
    BY <2>1 DEF AskedBefore
<1>4. CompletedByItsAttempt' /\ Born'
  BY <1>1 DEF CompletedByItsAttempt, Born, Histories
<1>5. QED
  BY <1>2, <1>3, <1>4 DEF Histories

LEMMA CreateIInv ==
  ASSUME IInv, NEW p \in Proc, NEW j \in Job, Create(p, j)
  PROVE  IInv'
<1> DEFINE r == [Absent EXCEPT !.status = "queued", !.attempt = 1]
<1>1. TypeOK'
  BY RequestTypeOK DEF Request, IInv
<1>2. r \in Record /\ r.status = "queued" /\ r.attempt = 1
  BY RecordTypes DEF Absent, IInv, TypeOK
<1> HIDE DEF r
<1>3. up[p] = "ready" /\ job[j].status = "absent" /\ Save(j, r) /\ UNCHANGED <<starting, alive, retried, asked>>
  BY DEF Create, r
<1>4. SameClaims /\ \A q \in Proc : q # p => slot'[q] = slot[q]
  <2>1. Queued(queue[p], j) \in Seq(Job)
    BY QueueTypes DEF IInv, TypeOK
  <2>2. QED
    BY <2>1, PumpKeeps DEF Create, Enqueue
<1>5. SameActive
  BY <1>2, <1>3 DEF SameActive, Save, Active, IInv, TypeOK
<1>6. Histories'
  <2>1. job[j].attempt = 0
    BY <1>3 DEF IInv, Histories, Born
  <2>2. <<j, 1>> \notin asked
    BY <2>1 DEF IInv, Histories, AskedBefore
  <2>3. QED
    BY <1>2, <1>3, <2>1, <2>2, RecordsKeep
<1>7. QED
  BY <1>1, <1>3, <1>4, <1>5, <1>6, ServingKeeps DEF IInv

LEMMA CancelQueuedIInv ==
  ASSUME IInv, NEW p \in Proc, NEW j \in Job, CancelQueued(p, j)
  PROVE  IInv'
<1>1. TypeOK'
  BY RequestTypeOK DEF Request, IInv
<1>2. job[j] \in Record
  BY DEF IInv, TypeOK
<1>3. /\ Withdrawn(job[j]) \in Record /\ Withdrawn(job[j]).status = "cancelled"
      /\ Withdrawn(job[j]).attempt = job[j].attempt /\ job[j].attempt \in Nat
  BY <1>2, RecordTypes DEF Withdrawn, Record
<1>4. /\ up[p] = "ready" /\ job[j].status = "queued" /\ Save(j, Withdrawn(job[j]))
      /\ UNCHANGED <<starting, alive, slot, retried, asked>>
  BY DEF CancelQueued
<1>5. SameClaims /\ \A q \in Proc : q # p => slot'[q] = slot[q]
  BY <1>4 DEF SameClaims, Claims
<1>6. SameActive
  BY <1>3, <1>4 DEF SameActive, Save, Active, IInv, TypeOK
<1>7. Histories'
  <2>1. asked' = asked /\ Withdrawn(job[j]).status \notin Active /\ Withdrawn(job[j]).attempt >= job[j].attempt
    BY <1>3, <1>4 DEF Active
  <2>2. \A t \in asked' : t \in asked \/ (t[1] = j /\ t[2] = job[j].attempt)
    BY <2>1
  <2>3. QED
    BY <1>3, <1>4, <2>1, <2>2, RecordsKeep
<1>8. QED
  BY <1>1, <1>4, <1>5, <1>6, <1>7, ServingKeeps DEF IInv

LEMMA CancelActiveIInv ==
  ASSUME IInv, NEW p \in Proc, NEW j \in Job, CancelActive(p, j)
  PROVE  IInv'
<1> DEFINE r == [job[j] EXCEPT !.cancel = TRUE]
<1>1. TypeOK'
  BY RequestTypeOK DEF Request, IInv
<1>2. job[j] \in Record
  BY DEF IInv, TypeOK
<1>3. /\ r \in Record /\ r.status = job[j].status /\ r.attempt = job[j].attempt /\ job[j].attempt \in Nat
      /\ r.cancel /\ r.parent = job[j].parent /\ r.epoch = job[j].epoch
  BY <1>2, RecordTypes DEF Record
<1> HIDE DEF r
<1>4. /\ up[p] = "ready" /\ job[j].status \in Active /\ Save(j, r)
      /\ slot' = [slot EXCEPT ![p] = Aborted(p, j)]
      /\ asked' = asked \cup {<<j, job[j].attempt>>}
      /\ UNCHANGED <<starting, alive, retried>>
  BY DEF CancelActive, r
<1>5. SameClaims /\ \A q \in Proc : q # p => slot'[q] = slot[q]
  <2>1. \A s \in Slot : /\ Aborted(p, j)[s].pc = slot[p][s].pc
                         /\ Aborted(p, j)[s].job = slot[p][s].job
                         /\ Aborted(p, j)[s].attempt = slot[p][s].attempt
    BY DEF Aborted, IInv, TypeOK, Execution
  <2>2. \A q \in Proc : slot'[q] = IF q = p THEN Aborted(p, j) ELSE slot[q]
    BY <1>4 DEF IInv, TypeOK
  <2>3. QED
    BY <2>1, <2>2 DEF SameClaims, Claims
<1>6. SameActive
  BY <1>3, <1>4 DEF SameActive, Save, Active, IInv, TypeOK
<1>7. Histories'
  <2>1. r.status \notin {"absent", "queued", "completed"} /\ r.attempt >= job[j].attempt
    BY <1>3, <1>4 DEF Active
  <2>2. \A t \in asked' : t \in asked \/ (t[1] = j /\ t[2] = job[j].attempt)
    BY <1>4
  <2>3. QED
    BY <1>3, <1>4, <2>1, <2>2, RecordsKeep
<1>8. QED
  BY <1>1, <1>4, <1>5, <1>6, <1>7, ServingKeeps DEF IInv

LEMMA RetryIInv ==
  ASSUME IInv, NEW p \in Proc, NEW j \in Job, Retry(p, j)
  PROVE  IInv'
<1>1. TypeOK'
  BY RequestTypeOK DEF Request, IInv
<1>2. job[j] \in Record
  BY DEF IInv, TypeOK
<1>3. /\ Resubmitted(job[j]) \in Record /\ Resubmitted(job[j]).status = "queued"
      /\ Resubmitted(job[j]).attempt = job[j].attempt + 1 /\ job[j].attempt \in Nat
  BY <1>2, RecordTypes DEF Resubmitted, Absent
<1>4. /\ up[p] = "ready" /\ MayRetry(job[j]) /\ Save(j, Resubmitted(job[j]))
      /\ retried' = [retried EXCEPT ![p] = @ \cup {<<j, job[j].attempt + 1>>}]
      /\ UNCHANGED <<starting, alive, slot, asked>>
  BY DEF Retry, executing
<1>5. SameClaims /\ \A q \in Proc : q # p => slot'[q] = slot[q] /\ retried'[q] = retried[q]
  BY <1>4 DEF SameClaims, Claims, IInv, TypeOK
<1>6. SameActive
  BY <1>3, <1>4 DEF SameActive, Save, Active, MayRetry, IInv, TypeOK
<1>7. <<j, job[j].attempt + 1>> \notin asked
  BY <1>3 DEF IInv, Histories, AskedBefore
<1>8. Histories'
  BY <1>3, <1>4, <1>7, RecordsKeep
<1>9. QED
  BY <1>1, <1>4, <1>5, <1>6, <1>8, ServingKeeps DEF IInv

LEMMA EnqueueRetriedIInv ==
  ASSUME IInv, NEW p \in Proc, EnqueueRetried(p)
  PROVE  IInv'
<1>1. TypeOK'
  BY RequestTypeOK DEF IInv
<1>2. PICK t \in retried[p] : Enqueue(p, t[1]) /\ retried' = [retried EXCEPT ![p] = @ \ {t}]
                              /\ UNCHANGED <<job, starting, alive, asked>>
  BY DEF EnqueueRetried
<1>3. t[1] \in Job /\ up[p] = "ready"
  BY <1>2 DEF IInv, TypeOK, IdleUntilReady
<1>4. SameClaims /\ \A q \in Proc : q # p => slot'[q] = slot[q]
  <2>1. Queued(queue[p], t[1]) \in Seq(Job)
    BY <1>3, QueueTypes DEF IInv, TypeOK
  <2>2. QED
    BY <1>2, <2>1, PumpKeeps DEF Enqueue
<1>5. \A q \in Proc : q # p => retried'[q] = retried[q]
  BY <1>2 DEF IInv, TypeOK
<1>6. SameActive
  BY <1>2 DEF SameActive
<1>7. Histories'
  BY <1>2 DEF IInv, Histories, Cancels, AskedBefore, CompletedByItsAttempt, Born
<1>8. QED
  BY <1>1, <1>2, <1>3, <1>4, <1>5, <1>6, <1>7, ServingKeeps DEF IInv

LEMMA CrashIInv ==
  ASSUME OneServer, IInv, Crash
  PROVE  IInv'
<1> USE DEF IInv
<1>1. TypeOK'
  BY CrashTypeOK
<1>2. PICK par \in alive : CrashTree(par)
  BY DEF Crash, CrashParent, CrashWorker, OneServer
<1> DEFINE P == {p \in Proc : parent[p] = par}
<1>3. /\ alive' = alive \ {par} /\ UNCHANGED <<job, owner, asked>>
      /\ \A p \in P : up'[p] = "down" /\ found'[p] = NothingFound /\ slot'[p] = Idle /\ retried'[p] = {}
      /\ \A p \in Proc \ P : /\ up'[p] = up[p] /\ found'[p] = found[p] /\ parent'[p] = parent[p]
                             /\ slot'[p] = slot[p] /\ retried'[p] = retried[p]
  BY <1>2 DEF CrashTree, Dies, Lose
<1>4. \A p \in P : Up(p) => owner.parent = par
  BY DEF Deployed
<1>5. \A p \in Proc : Up(p)' => Up(p) /\ p \notin P /\ up'[p] = up[p] /\ owner.parent # par
  BY <1>3 DEF Up, Deployed
<1>6. Deployed' /\ Startups' /\ IdleUntilReady'
  BY <1>3, <1>5 DEF Deployed, Startups, IdleUntilReady, Up, Begins
<1>7. \A p \in Proc, s \in Slot : Claims(p, s)' => Claims(p, s) /\ slot'[p][s] = slot[p][s] /\ owner.parent # par
  <2>1. \A s \in Slot : Idle[s].pc = "none"
    BY DEF Idle, NoExecution
  <2>2. SUFFICES ASSUME NEW p \in Proc, NEW s \in Slot, Claims(p, s)'
                 PROVE  Claims(p, s) /\ slot'[p][s] = slot[p][s] /\ owner.parent # par
    OBVIOUS
  <2>3. p \notin P
    BY <1>3, <2>1, <2>2 DEF Claims
  <2>4. Claims(p, s) /\ slot'[p][s] = slot[p][s]
    BY <1>3, <2>2, <2>3 DEF Claims
  <2>5. QED
    BY <1>5, <1>3, <2>3, <2>4, Holder DEF Claims, Up
<1>8. Executed' /\ OneExecution'
  BY <1>3, <1>7 DEF Executed, OneExecution
<1>9. Attended'
  <2>1. SUFFICES ASSUME NEW j \in Job, job[j].status \in Active, job[j].parent \in alive, job[j].parent # par
                 PROVE  \E p \in Proc, s \in Slot : Claims(p, s)' /\ slot'[p][s].job = j
    BY <1>3 DEF Attended
  <2>2. PICK p \in Proc, s \in Slot : Claims(p, s) /\ slot[p][s].job = j
    BY <2>1 DEF Attended
  <2>3. owner.parent # par /\ up[p] = "ready"
    BY <2>1, <2>2, AliveMeansExecuted, Holder DEF Claims
  <2>4. p \notin P
    BY <1>4, <2>3 DEF Up
  <2>5. QED
    BY <1>3, <2>2, <2>4 DEF Claims
<1>10. \A p \in Proc, j \in Job : Up(p)' => (Left(job[j])' <=> Left(job[j]))
  <2>1. SUFFICES ASSUME NEW p \in Proc, NEW j \in Job, Up(p)', job[j].status \in Active, job[j].parent \in alive
                 PROVE  job[j].parent # par
    BY <1>3 DEF Left
  <2>2. QED
    BY <1>5, <2>1, AliveMeansExecuted
<1>11. Listed' /\ Settled'
  <2>1. \A p \in Proc, j \in Job : found'[p][j] # Absent => p \notin P /\ found'[p][j] = found[p][j]
    BY <1>3 DEF NothingFound
  <2>2. \A p \in Proc : up'[p] # "down" => up'[p] = up[p] /\ found'[p] = found[p]
    BY <1>3, <1>5 DEF Up
  <2>3. \A p \in Proc, j \in Job : found'[p][j] # Absent =>
          up'[p] = "settling" /\ found'[p][j] = job'[j] /\ Left(job[j])'
    BY <1>3, <1>10, <2>1 DEF Listed, Up
  <2>4. \A p \in Proc, j \in Job : up'[p] = "settling" /\ Left(job[j])' => found'[p][j] = job'[j]
    BY <1>3, <1>10, <2>2 DEF Listed, Up
  <2>5. Settled'
    BY <1>10, <2>2 DEF Settled, Up
  <2>6. QED
    BY <2>3, <2>4, <2>5 DEF Listed
<1>12. Histories'
  BY <1>3 DEF Histories, Cancels, AskedBefore, CompletedByItsAttempt, Born
<1>13. QED
  BY <1>1, <1>6, <1>8, <1>9, <1>11, <1>12

(* A step of an execution in slot s of p, and what it may rely on.              *)
LEMMA WorkFrame ==
  ASSUME IInv, NEW p \in Proc, up[p] = "ready", UNCHANGED <<starting, alive, retried>>,
         \A q \in Proc : q # p => slot'[q] = slot[q]
  PROVE  /\ Deployed' /\ Startups' /\ IdleUntilReady'
         /\ (\A j \in Job : ~Left(job[j])') => Listed' /\ Settled'
         /\ \A j \in Job : ~Left(job[j])
<1> USE DEF IInv, starting
<1>1. Deployed' /\ Startups' /\ IdleUntilReady'
  BY DEF Deployed, Startups, IdleUntilReady, Up, Begins
<1>2. \A j \in Job : ~Left(job[j])
  BY DEF Settled
<1>3. \A q \in Proc, j \in Job : found[q][j] = Absent
  BY <1>2 DEF Listed
<1>4. (\A j \in Job : ~Left(job[j])') => Listed' /\ Settled'
  BY <1>3 DEF Listed, Settled
<1>5. QED
  BY <1>1, <1>2, <1>4

LEMMA Claiming ==
  ASSUME IInv, NEW p \in Proc, NEW s \in Slot, Claims(p, s)
  PROVE  /\ slot[p][s] \in Execution /\ slot[p][s].job \in Job /\ job[slot[p][s].job] \in Record
         /\ job[slot[p][s].job].status \in Active
         /\ job[slot[p][s].job].attempt = slot[p][s].attempt
         /\ up[p] = "ready"
<1>1. slot[p][s] \in Execution /\ slot[p][s].pc # "none"
  BY DEF Claims, IInv, TypeOK
<1>2. slot[p][s].job \in Job
  BY <1>1 DEF Execution
<1>3. QED
  BY <1>1, <1>2, Holder DEF IInv, TypeOK, Executed

(* An execution that goes on: Enter, Executor, and a Finish that finds a cancel.*)
LEMMA GoingOnIInv ==
  ASSUME IInv, NEW p \in Proc, NEW s \in Slot, Claims(p, s), NEW e \in Execution,
         Goto(p, s, e), e.pc \in {"run", "finish", "catch"},
         e.job = slot[p][s].job, e.attempt = slot[p][s].attempt,
         UNCHANGED <<starting, alive, retried, asked>>, TypeOK',
         UNCHANGED job \/ Save(e.job, [job[e.job] EXCEPT !.status = "running"])
  PROVE  IInv'
<1> DEFINE j == slot[p][s].job
<1>1. /\ j \in Job /\ job[j] \in Record /\ job[j].status \in Active /\ up[p] = "ready"
  BY Claiming
<1>2. \A q \in Proc : q # p => slot'[q] = slot[q]
  BY DEF Goto, IInv, TypeOK
<1>3. SameClaims
  BY DEF SameClaims, Claims, Goto, IInv, TypeOK
<1>4. CASE UNCHANGED job
  <2>1. SameActive /\ Histories'
    BY <1>4 DEF SameActive, IInv, Histories, Cancels, AskedBefore, CompletedByItsAttempt, Born
  <2>2. QED
    BY <1>1, <1>2, <1>3, <2>1, ServingKeeps DEF IInv
<1>5. CASE Save(e.job, [job[e.job] EXCEPT !.status = "running"])
  <2> DEFINE r == [job[j] EXCEPT !.status = "running"]
  <2>1. /\ r \in Record /\ r.status = "running" /\ r.attempt = job[j].attempt /\ r.cancel = job[j].cancel
        /\ r.parent = job[j].parent /\ r.epoch = job[j].epoch /\ job[j].attempt \in Nat /\ Save(j, r)
    BY <1>1, <1>5, RecordTypes DEF Record
  <2> HIDE DEF r
  <2>2. SameActive
    BY <1>1, <2>1 DEF SameActive, Save, Active, IInv, TypeOK
  <2>3. Histories'
    <3>1. <<j, r.attempt>> \in asked => r.cancel
      BY <1>1, <2>1 DEF IInv, Histories, Cancels
    <3>2. \A t \in asked' : t \in asked \/ (t[1] = j /\ t[2] = job[j].attempt)
      OBVIOUS
    <3>3. QED
      BY <1>1, <2>1, <3>1, <3>2, RecordsKeep
  <2>4. QED
    BY <1>1, <1>2, <1>3, <2>2, <2>3, ServingKeeps DEF IInv
<1>6. QED
  BY <1>4, <1>5

(* An execution that ends: Finish and Catch.                                    *)
LEMMA EndingIInv ==
  ASSUME IInv, NEW p \in Proc, NEW s \in Slot, Claims(p, s), Done(p, s),
         NEW r \in Record, Save(slot[p][s].job, r), r.status \in Ended, r.attempt = slot[p][s].attempt,
         r.status = "completed" => r.output = r.attempt /\ ~job[slot[p][s].job].cancel,
         UNCHANGED <<starting, alive, retried, asked>>, TypeOK'
  PROVE  IInv'
<1> DEFINE j == slot[p][s].job
<1>1. j \in Job /\ job[j] \in Record /\ job[j].status \in Active /\ up[p] = "ready" /\ job[j].attempt = r.attempt
  BY Claiming
<1>2. /\ \A q \in Proc : q # p => slot'[q] = slot[q]
      /\ slot'[p][s].pc \in {"none", "claim"}
      /\ \A t \in Slot : t # s => slot'[p][t] = slot[p][t] \/ (slot[p][t].pc = "none" /\ slot'[p][t].pc = "claim")
  BY <1>1, DoneTypeOK DEF IInv
<1>3. job'[j] = r /\ \A k \in Job : k # j => job'[k] = job[k]
  BY <1>1 DEF Save, IInv, TypeOK
<1>4. r.status \notin Active
  BY DEF Active, Ended
<1>5. /\ Deployed' /\ Startups' /\ IdleUntilReady'
      /\ (\A k \in Job : ~Left(job[k])') => Listed' /\ Settled'
      /\ \A k \in Job : ~Left(job[k])
  BY <1>1, <1>2, WorkFrame
<1>6. Listed' /\ Settled'
  BY <1>3, <1>4, <1>5 DEF Left
<1>7. \A q \in Proc, t \in Slot : Claims(q, t)' =>
        Claims(q, t) /\ slot'[q][t] = slot[q][t] /\ slot[q][t].job # j
  BY <1>2 DEF Claims, IInv, OneExecution
<1>8. \A q \in Proc, t \in Slot : Claims(q, t) => slot[q][t].job \in Job
  BY Claiming
<1>9. Executed' /\ OneExecution'
  BY <1>3, <1>7, <1>8 DEF IInv, Executed, OneExecution, starting
<1>10. Attended'
  <2>1. SUFFICES ASSUME NEW k \in Job, k # j, job[k].status \in Active, job[k].parent \in alive
                 PROVE  \E q \in Proc, t \in Slot : Claims(q, t)' /\ slot'[q][t].job = k
    BY <1>3, <1>4 DEF Attended
  <2>2. PICK q \in Proc, t \in Slot : Claims(q, t) /\ slot[q][t].job = k
    BY <2>1 DEF IInv, Attended
  <2>3. slot'[q][t] = slot[q][t]
    BY <1>2, <2>1, <2>2 DEF Claims
  <2>4. QED
    BY <2>2, <2>3 DEF Claims
<1>11. Histories'
  <2>1. r.status \in {"completed", "failed", "cancelled", "interrupted"} /\ r.attempt >= job[j].attempt
    BY <1>1 DEF Ended, Record
  <2>2. <<j, r.attempt>> \in asked => r.status # "completed"
    BY <1>1 DEF IInv, Histories, Cancels
  <2>3. \A t \in asked' : t \in asked \/ (t[1] = j /\ t[2] = job[j].attempt)
    OBVIOUS
  <2>4. QED
    BY <1>1, <1>4, <2>1, <2>2, <2>3, RecordsKeep
<1>12. QED
  BY <1>5, <1>6, <1>9, <1>10, <1>11 DEF IInv

(* The claim of a queued job.                                                   *)
LEMMA ClaimedIInv ==
  ASSUME IInv, NEW p \in Proc, NEW s \in Slot, slot[p][s].pc = "claim",
         NEW j \in Job, j = slot[p][s].job, Claimable(job[j]), Save(j, Claimed(p, job[j])),
         Goto(p, s, [slot[p][s] EXCEPT !.pc = "enter", !.attempt = job[j].attempt]),
         UNCHANGED <<starting, alive, retried, asked>>, TypeOK'
  PROVE  IInv'
<1> DEFINE r == Claimed(p, job[j])
<1>1. up[p] = "ready" /\ parent[p] = owner.parent /\ owner.parent \in alive
  BY Holder
<1>2. job[j] \in Record /\ job[j].status = "queued" /\ job[j].attempt \in Nat
  BY DEF IInv, TypeOK, Claimable, Record
<1>3. r \in Record /\ r.status = "preparing" /\ r.attempt = job[j].attempt /\ r.parent = owner.parent /\ r.epoch = owner.epoch
  BY <1>1, <1>2, WorkRecordTypes DEF Claimed, Record, IInv
<1> HIDE DEF r
<1>4. job'[j] = r /\ \A k \in Job : k # j => job'[k] = job[k]
  BY DEF Save, IInv, TypeOK, r
<1>5. /\ \A q \in Proc : q # p => slot'[q] = slot[q]
      /\ \A t \in Slot : t # s => slot'[p][t] = slot[p][t]
      /\ slot'[p][s].job = j /\ slot'[p][s].pc = "enter" /\ slot'[p][s].attempt = job[j].attempt
  BY SMTT(30) DEF Goto, IInv, TypeOK, Execution
<1>6. /\ Deployed' /\ Startups' /\ IdleUntilReady'
      /\ (\A k \in Job : ~Left(job[k])') => Listed' /\ Settled'
      /\ \A k \in Job : ~Left(job[k])
  BY <1>1, <1>5, WorkFrame
<1>7. Listed' /\ Settled'
  BY <1>1, <1>3, <1>4, <1>6 DEF Left
<1>8. \A q \in Proc, t \in Slot : Claims(q, t)' =>
        \/ q = p /\ t = s
        \/ Claims(q, t) /\ slot'[q][t] = slot[q][t]
  BY <1>5 DEF Claims
<1>9. \A q \in Proc, t \in Slot : Claims(q, t) => slot[q][t].job \in Job /\ slot[q][t].job # j
  BY <1>2, Claiming DEF Active
<1>10. Executed'
  <2> SUFFICES ASSUME NEW q \in Proc, NEW t \in Slot, Claims(q, t)'
               PROVE  LET e == job'[slot'[q][t].job] IN
                      /\ e.status \in Active /\ e.attempt = slot'[q][t].attempt
                      /\ e.parent = owner'.parent /\ e.epoch = owner'.epoch
    BY DEF Executed
  <2>1. owner' = owner
    BY DEF starting
  <2>2. CASE q = p /\ t = s
    BY <1>3, <1>4, <1>5, <2>1, <2>2 DEF Active
  <2>3. CASE ~(q = p /\ t = s)
    <3>1. Claims(q, t) /\ slot'[q][t] = slot[q][t]
      BY <1>8, <2>3
    <3>2. job'[slot[q][t].job] = job[slot[q][t].job]
      BY <1>4, <1>9, <3>1
    <3>3. QED
      BY <2>1, <3>1, <3>2 DEF IInv, Executed
  <2>4. QED
    BY <2>2, <2>3
<1>11. OneExecution'
  BY <1>5, <1>8, <1>9 DEF IInv, OneExecution
<1>12. Attended'
  <2>1. Claims(p, s)' /\ slot'[p][s].job = j
    BY <1>5 DEF Claims
  <2>2. ASSUME NEW k \in Job, k # j, job[k].status \in Active, job[k].parent \in alive
        PROVE  \E q \in Proc, t \in Slot : Claims(q, t)' /\ slot'[q][t].job = k
    <3>1. PICK q \in Proc, t \in Slot : Claims(q, t) /\ slot[q][t].job = k
      BY <2>2 DEF IInv, Attended
    <3>2. slot'[q][t] = slot[q][t]
      BY <1>5, <3>1 DEF Claims
    <3>3. QED
      BY <3>1, <3>2 DEF Claims
  <2>3. QED
    BY <1>4, <2>1, <2>2 DEF Attended
<1>13. Histories'
  <2>1. <<j, job[j].attempt>> \notin asked
    BY <1>2 DEF IInv, Histories, Cancels
  <2>2. \A t \in asked' : t \in asked \/ (t[1] = j /\ t[2] = job[j].attempt)
    OBVIOUS
  <2>3. r.attempt >= job[j].attempt /\ Save(j, r) /\ <<j, r.attempt>> \notin asked'
    BY <1>2, <1>3, <2>1 DEF r
  <2>4. QED
    BY <1>3, <2>2, <2>3, RecordsKeep
<1>14. QED
  BY <1>6, <1>7, <1>10, <1>11, <1>12, <1>13 DEF IInv

(* The claim of a job that is not queued any more.                              *)
LEMMA UnclaimedIInv ==
  ASSUME IInv, NEW p \in Proc, NEW s \in Slot, slot[p][s].pc = "claim", Done(p, s),
         UNCHANGED <<job, starting, alive, retried, asked>>, TypeOK'
  PROVE  IInv'
<1>1. up[p] = "ready" /\ slot[p][s].job \in Job
  BY Holder DEF IInv, TypeOK, Execution
<1>2. /\ \A q \in Proc : q # p => slot'[q] = slot[q]
      /\ slot'[p][s].pc \in {"none", "claim"}
      /\ \A t \in Slot : t # s => slot'[p][t] = slot[p][t] \/ (slot[p][t].pc = "none" /\ slot'[p][t].pc = "claim")
  BY <1>1, DoneTypeOK DEF IInv
<1>3. SameClaims
  BY <1>2 DEF SameClaims, Claims
<1>4. SameActive /\ Histories'
  BY DEF SameActive, IInv, Histories, Cancels, AskedBefore, CompletedByItsAttempt, Born
<1>5. QED
  BY <1>1, <1>2, <1>3, <1>4, ServingKeeps DEF IInv

LEMMA WorkIInv ==
  ASSUME IInv, NEW p \in Proc, NEW s \in Slot, Work(p, s)
  PROVE  IInv'
<1> DEFINE e == slot[p][s]
           j == e.job
<1>1. TypeOK'
  BY WorkTypeOK DEF IInv
<1>2. e \in Execution
  BY DEF IInv, TypeOK
<1>3. CASE Claim(p, s)
  <2>1. e.pc = "claim" /\ j \in Job
    BY <1>2, <1>3 DEF Claim, At, Execution
  <2>2. QED
    BY <1>1, <1>3, <2>1, ClaimedIInv, UnclaimedIInv DEF Claim, At
<1>4. ASSUME NEW b \in BOOLEAN, Throw(p, s, b), Claims(p, s), UNCHANGED <<job, starting, alive, retried, asked>>
      PROVE  IInv'
  <2> DEFINE f == [e EXCEPT !.pc = "catch", !.retryable = b]
  <2>1. f \in Execution /\ f.pc = "catch" /\ f.job = e.job /\ f.attempt = e.attempt
    BY <1>2, <1>4, ExecutionTypes DEF Claims, Execution
  <2>2. Goto(p, s, f)
    BY <1>4 DEF Throw
  <2> HIDE DEF f
  <2>3. QED
    BY <1>1, <1>4, <2>1, <2>2, GoingOnIInv
<1>5. CASE Enter(p, s)
  <2>1. Claims(p, s)
    BY <1>5 DEF Enter, At, Claims
  <2>2. CASE Save(j, [job[j] EXCEPT !.status = "running"]) /\ Goto(p, s, [e EXCEPT !.pc = "run"])
    <3> DEFINE f == [e EXCEPT !.pc = "run"]
    <3>1. f \in Execution /\ f.pc = "run" /\ f.job = e.job /\ f.attempt = e.attempt
      BY <1>2, <2>1, ExecutionTypes DEF Claims, Execution
    <3>2. Goto(p, s, f) /\ Save(f.job, [job[f.job] EXCEPT !.status = "running"])
      BY <2>2, <3>1
    <3> HIDE DEF f
    <3>3. QED
      BY <1>1, <1>5, <2>1, <3>1, <3>2, GoingOnIInv DEF Enter
  <2>3. QED
    BY <1>4, <1>5, <2>1, <2>2 DEF Enter
<1>6. CASE Executor(p, s)
  <2>1. Claims(p, s)
    BY <1>6 DEF Executor, At, Claims
  <2>2. CASE Goto(p, s, [e EXCEPT !.pc = "finish"])
    <3> DEFINE f == [e EXCEPT !.pc = "finish"]
    <3>1. f \in Execution /\ f.pc = "finish" /\ f.job = e.job /\ f.attempt = e.attempt
      BY <1>2, <2>1, ExecutionTypes DEF Claims, Execution
    <3>2. Goto(p, s, f)
      BY <2>2
    <3> HIDE DEF f
    <3>3. QED
      BY <1>1, <1>6, <2>1, <3>1, <3>2, GoingOnIInv DEF Executor
  <2>3. QED
    BY <1>4, <1>6, <2>1, <2>2 DEF Executor
<1>7. CASE Finish(p, s)
  <2>1. Claims(p, s)
    BY <1>7 DEF Finish, At, Claims
  <2>2. CASE ~CancelRequested(p, s) /\ Save(j, Completed(job[j], e.attempt)) /\ Done(p, s)
    <3> DEFINE r == Completed(job[j], e.attempt)
    <3>1. job[j] \in Record
      BY <2>1, Claiming
    <3>2. r \in Record /\ r.status = "completed" /\ r.attempt = job[j].attempt /\ r.output = e.attempt
      BY <3>1, WorkRecordTypes DEF Completed, Record, IInv
    <3>3. Save(j, r) /\ ~job[j].cancel
      BY <2>2 DEF CancelRequested
    <3>4. r.status \in Ended /\ r.attempt = e.attempt
      BY <2>1, <3>2, Claiming DEF Ended
    <3> HIDE DEF r
    <3>5. QED
      BY <1>1, <1>7, <2>1, <2>2, <3>2, <3>3, <3>4, EndingIInv DEF Finish
  <2>3. QED
    BY <1>4, <1>7, <2>1, <2>2 DEF Finish
<1>8. CASE Catch(p, s)
  <2> DEFINE r == Failed(p, s, job[j])
  <2>1. Claims(p, s)
    BY <1>8 DEF Catch, At, Claims
  <2>2. job[j] \in Record /\ job[j].status \in Active /\ job[j].attempt = e.attempt
    BY <2>1, Claiming
  <2>3. r \in Record /\ r.status \in {"cancelled", "failed"} /\ r.attempt = job[j].attempt
    BY <2>2, WorkRecordTypes DEF Failed, Record, IInv
  <2>4. Save(j, r)
    BY <1>8, <2>2 DEF Catch, Active, Ended
  <2>5. r.status \in Ended /\ r.attempt = e.attempt /\ r.status # "completed"
    BY <2>2, <2>3 DEF Ended
  <2> HIDE DEF r
  <2>6. QED
    BY <1>1, <1>8, <2>1, <2>3, <2>4, <2>5, EndingIInv DEF Catch
<1>9. QED
  BY <1>3, <1>5, <1>6, <1>7, <1>8 DEF Work

LEMMA NextIInv ==
  ASSUME OneServer, IInv, [Next]_vars
  PROVE  IInv'
<1>1. CASE UNCHANGED vars
  <2>1. TypeOK' /\ SameClaims /\ SameActive
    BY <1>1, NextTypeOK DEF IInv, SameClaims, SameActive, Claims, vars
  <2>2. Executed' /\ Attended' /\ OneExecution' /\ \A j \in Job : Left(job[j])' <=> Left(job[j])
    BY <1>1, <2>1, ExecutionsKeep DEF vars
  <2>3. Deployed' /\ Startups' /\ IdleUntilReady' /\ Listed' /\ Settled' /\ Histories'
    BY <1>1, <2>2 DEF vars, IInv, Deployed, Startups, IdleUntilReady, Up, Begins, Listed, Settled,
                      Histories, Cancels, AskedBefore, CompletedByItsAttempt, Born
  <2>4. QED
    BY <2>1, <2>2, <2>3 DEF IInv
<1>2. ASSUME NEW p \in Proc, Startup(p)
      PROVE  IInv'
  BY <1>2, StartIInv, ListIInv, ReadyIInv, SettleIInv DEF Startup
<1>3. ASSUME NEW p \in Proc, Request(p)
      PROVE  IInv'
  BY <1>3, CreateIInv, CancelQueuedIInv, CancelActiveIInv, RetryIInv DEF Request
<1>4. QED
  BY <1>1, <1>2, <1>3, EnqueueRetriedIInv, WorkIInv, CrashIInv DEF Next

LEMMA Invariance == ASSUME OneServer PROVE Spec => []IInv
<1>1. IInv /\ [Next]_vars => IInv'
  BY NextIInv
<1>2. QED
  BY <1>1, InitIInv, PTL DEF Spec

(* A reader of the records never sees two executions of a job, and a process    *)
(* never runs one twice, however often it is queued.                            *)
THEOREM OneExecutionEach == ASSUME OneServer PROVE Spec => []OneExecution
<1>1. IInv => OneExecution
  BY DEF IInv
<1>2. QED
  BY <1>1, Invariance, PTL

(* No attempt is completed by the execution of another.                         *)
THEOREM OwnAttempt == ASSUME OneServer PROVE Spec => []CompletedByItsAttempt
<1>1. IInv => CompletedByItsAttempt
  BY DEF IInv, Histories
<1>2. QED
  BY <1>1, Invariance, PTL

(* An attempt that a cancel found active does not end completed.                *)
THEOREM CancelWins == ASSUME OneServer PROVE Spec => []CancelIsHonoured
<1>1. IInv => CancelIsHonoured
  BY DEF IInv, Histories, Cancels, CancelIsHonoured
<1>2. QED
  BY <1>1, Invariance, PTL

(* Once a process serves, recovery has left no job that nobody executes.        *)
THEOREM RecoveryIsComplete == ASSUME OneServer PROVE Spec => []NoneLeftRunning
<1>1. IInv => NoneLeftRunning
  BY DEF IInv, Settled, Left, Attended, NoneLeftRunning
<1>2. QED
  BY <1>1, Invariance, PTL

-------------------------------------------------------------------------------
(* What one step may make of one record.                                        *)
Changes(j, r) ==
  LET old == job[j] IN
  \/ old.status = "absent" /\ r.status = "queued" /\ r.attempt = 1
  \/ old.status = "queued" /\ r.status \in Active \cup {"cancelled"} /\ r.attempt = old.attempt
  \/ old.status \in Active /\ r.status \in Active \cup {"completed", "failed", "cancelled"}
     /\ r.attempt = old.attempt
  \/ Left(old) /\ r.status = "interrupted" /\ r.attempt = old.attempt
  \/ old.status \in Ended \ {"completed"} /\ r.status = "queued" /\ r.attempt = old.attempt + 1

OneChange == UNCHANGED job \/ \E j \in Job : \E r \in Record : Save(j, r) /\ Changes(j, r)

LEMMA RequestChanges ==
  ASSUME IInv, NEW p \in Proc, Request(p)
  PROVE  OneChange
<1> USE DEF OneChange, Changes, Record, Ended, Active
<1>1. ASSUME NEW j \in Job, Create(p, j)
      PROVE  OneChange
  <2> DEFINE r == [Absent EXCEPT !.status = "queued", !.attempt = 1]
  <2>1. r \in Record /\ r.status = "queued" /\ r.attempt = 1
    BY DEF Absent
  <2>2. Save(j, r) /\ job[j].status = "absent"
    BY <1>1 DEF Create
  <2> HIDE DEF r
  <2>3. QED
    BY <2>1, <2>2
<1>2. ASSUME NEW j \in Job, CancelQueued(p, j)
      PROVE  OneChange
  <2> DEFINE r == Withdrawn(job[j])
  <2>1. job[j] \in Record
    BY DEF IInv, TypeOK
  <2>2. r \in Record /\ r.status = "cancelled" /\ r.attempt = job[j].attempt
    BY <2>1 DEF Withdrawn
  <2>3. Save(j, r) /\ job[j].status = "queued"
    BY <1>2 DEF CancelQueued
  <2> HIDE DEF r
  <2>4. QED
    BY <2>2, <2>3
<1>3. ASSUME NEW j \in Job, CancelActive(p, j)
      PROVE  OneChange
  <2> DEFINE r == [job[j] EXCEPT !.cancel = TRUE]
  <2>1. job[j] \in Record
    BY DEF IInv, TypeOK
  <2>2. r \in Record /\ r.status = job[j].status /\ r.attempt = job[j].attempt
    BY <2>1
  <2>3. Save(j, r) /\ job[j].status \in Active
    BY <1>3 DEF CancelActive
  <2> HIDE DEF r
  <2>4. QED
    BY <2>2, <2>3
<1>4. ASSUME NEW j \in Job, Retry(p, j)
      PROVE  OneChange
  <2> DEFINE r == Resubmitted(job[j])
  <2>1. job[j] \in Record /\ job[j].attempt \in Nat
    BY DEF IInv, TypeOK
  <2>2. r \in Record
    BY <2>1, RecordTypes
  <2>3. r.status = "queued" /\ r.attempt = job[j].attempt + 1
    BY DEF Resubmitted, Absent
  <2>4. Save(j, r) /\ job[j].status \in Ended \ {"completed"}
    BY <1>4 DEF Retry, MayRetry
  <2> HIDE DEF r
  <2>5. QED
    BY <2>2, <2>3, <2>4
<1>5. QED
  BY <1>1, <1>2, <1>3, <1>4 DEF Request

LEMMA WorkChanges ==
  ASSUME IInv, NEW p \in Proc, NEW s \in Slot, Work(p, s)
  PROVE  OneChange
<1> DEFINE j == slot[p][s].job
<1>1. slot[p][s] \in Execution
  BY DEF IInv, TypeOK
<1>2. j \in Job
  BY <1>1, ExecutionTypes DEF Work, Claim, Enter, Executor, Finish, Catch, At
<1>3. job[j] \in Record
  BY <1>2 DEF IInv, TypeOK
<1>4. ASSUME NEW r \in Record, Save(j, r), Changes(j, r)
      PROVE  OneChange
  BY <1>2, <1>4 DEF OneChange
<1>5. CASE Claim(p, s) /\ Claimable(job[j]) /\ Save(j, Claimed(p, job[j]))
  <2> DEFINE r == Claimed(p, job[j])
  <2>1. r \in Record /\ r.status = "preparing" /\ r.attempt = job[j].attempt
    BY <1>3, WorkRecordTypes DEF Claimed, Record, IInv
  <2>2. Save(j, r) /\ job[j].status = "queued"
    BY <1>5 DEF Claimable
  <2> HIDE DEF r
  <2>3. Changes(j, r)
    BY <2>1, <2>2 DEF Changes, Active
  <2>4. QED
    BY <1>4, <2>1, <2>2, <2>3
<1>6. ASSUME Claims(p, s), NEW r \in Record, Save(j, r), r.attempt = job[j].attempt,
             r.status \in Active \cup {"completed", "failed", "cancelled"}
      PROVE  OneChange
  <2>1. job[j].status \in Active
    BY <1>6, Claiming
  <2>2. Changes(j, r)
    BY <1>6, <2>1 DEF Changes
  <2>3. QED
    BY <1>4, <1>6, <2>2
<1>7. CASE Enter(p, s)
  <2> DEFINE r == [job[j] EXCEPT !.status = "running"]
  <2>1. r \in Record /\ r.status \in Active /\ r.attempt = job[j].attempt
    BY <1>3 DEF Record, Active
  <2>2. UNCHANGED job \/ Save(j, r)
    BY <1>7 DEF Enter
  <2>3. Claims(p, s)
    BY <1>7 DEF Enter, At, Claims
  <2> HIDE DEF r
  <2>4. QED
    BY <1>6, <2>1, <2>2, <2>3 DEF OneChange
<1>8. CASE Finish(p, s)
  <2> DEFINE r == Completed(job[j], slot[p][s].attempt)
  <2>1. r \in Record /\ r.status = "completed" /\ r.attempt = job[j].attempt
    BY <1>3, WorkRecordTypes DEF Completed, Record, IInv
  <2>2. UNCHANGED job \/ Save(j, r)
    BY <1>8 DEF Finish
  <2>3. Claims(p, s)
    BY <1>8 DEF Finish, At, Claims
  <2> HIDE DEF r
  <2>4. QED
    BY <1>6, <2>1, <2>2, <2>3 DEF OneChange
<1>9. CASE Catch(p, s)
  <2> DEFINE r == Failed(p, s, job[j])
  <2>1. r \in Record /\ r.status \in {"cancelled", "failed"} /\ r.attempt = job[j].attempt
    BY <1>3, WorkRecordTypes DEF Failed, Record, IInv
  <2>2. UNCHANGED job \/ Save(j, r)
    BY <1>9 DEF Catch
  <2>3. Claims(p, s)
    BY <1>9 DEF Catch, At, Claims
  <2> HIDE DEF r
  <2>4. QED
    BY <1>6, <2>1, <2>2, <2>3 DEF OneChange
<1>10. CASE Executor(p, s) \/ (Claim(p, s) /\ UNCHANGED job)
  BY <1>10 DEF Executor, OneChange
<1>11. QED
  BY <1>5, <1>7, <1>8, <1>9, <1>10 DEF Work, Claim

LEMMA StepChanges ==
  ASSUME IInv, [Next]_vars
  PROVE  OneChange
<1>1. ASSUME NEW p \in Proc, NEW j \in Job, Settle(p, j)
      PROVE  OneChange
  <2> DEFINE r == Interrupted(job[j])
  <2>1. found[p][j] = job[j] /\ Left(job[j]) /\ job[j] \in Record
    BY <1>1 DEF Settle, IInv, Listed, TypeOK
  <2>2. r \in Record /\ r.status = "interrupted" /\ r.attempt = job[j].attempt
    BY <2>1, RecordTypes DEF Interrupted, Record
  <2>3. Save(j, r)
    BY <1>1, <2>1 DEF Settle
  <2> HIDE DEF r
  <2>4. QED
    BY <2>1, <2>2, <2>3 DEF Changes, OneChange
<1>2. ASSUME NEW p \in Proc, Startup(p)
      PROVE  OneChange
  BY <1>1, <1>2 DEF Startup, Start, List, Ready, OneChange
<1>3. QED
  BY <1>2, RequestChanges, WorkChanges
     DEF Next, EnqueueRetried, Crash, CrashTree, CrashParent, CrashWorker, Lose, OneChange, vars

LEMMA Untouched ==
  ASSUME IInv, NEW j \in Job, NEW k \in Job, NEW r \in Record, Save(j, r)
  PROVE  job'[k] = IF k = j THEN r ELSE job[k]
BY DEF Save, IInv, TypeOK

(* Recovery interrupts only what a dead parent has left.                        *)
THEOREM RecoverySparesTheLiving == ASSUME OneServer PROVE Spec => NoLiveJobInterrupted
<1> DEFINE Spared == \A p \in Proc, s \in Slot :
       LET j == slot[p][s].job IN
       Claims(p, s) /\ parent[p] \in alive /\ job[j].status \in Active
         => job'[j].status # "interrupted"
<1>1. IInv /\ [Next]_vars => [Spared]_vars
  <2> SUFFICES ASSUME IInv, [Next]_vars, NEW p \in Proc, NEW s \in Slot, Claims(p, s)
               PROVE  job'[slot[p][s].job].status # "interrupted"
    BY DEF vars
  <2> DEFINE k == slot[p][s].job
  <2>1. k \in Job /\ job[k].status \in Active /\ ~Left(job[k])
    BY Claiming, Holder DEF IInv, Executed, Left, Claims
  <2>2. CASE UNCHANGED job
    BY <2>1, <2>2 DEF Active
  <2>3. ASSUME NEW j \in Job, NEW r \in Record, Save(j, r), Changes(j, r)
        PROVE  job'[k].status # "interrupted"
    <3>1. job'[k] = IF k = j THEN r ELSE job[k]
      BY <2>1, <2>3, Untouched
    <3>2. k = j => r.status # "interrupted"
      BY <2>1, <2>3 DEF Changes, Active, Ended
    <3>3. QED
      BY <2>1, <3>1, <3>2 DEF Active
  <2>4. QED
    BY <2>2, <2>3, StepChanges DEF OneChange
<1>2. QED
  BY <1>1, Invariance, PTL DEF Spec, NoLiveJobInterrupted

(* What one server has recorded as completed is not taken back; a restart       *)
(* included (the run durable_jobs_stale_recovery shows the step that breaks     *)
(* this when two workers start at once).                                        *)
THEOREM CompletedStays == ASSUME OneServer PROVE Spec => CompletedIsFinal
<1> DEFINE Stays == \A j \in Job : job[j].status = "completed" => job'[j].status = "completed"
<1>1. IInv /\ [Next]_vars => [Stays]_vars
  <2> SUFFICES ASSUME IInv, [Next]_vars, NEW k \in Job, job[k].status = "completed"
               PROVE  job'[k].status = "completed"
    OBVIOUS
  <2>1. ASSUME NEW j \in Job, NEW r \in Record, Save(j, r), Changes(j, r)
        PROVE  job'[k].status = "completed"
    <3>1. job'[k] = IF k = j THEN r ELSE job[k]
      BY <2>1, Untouched
    <3>2. k # j
      BY <2>1 DEF Changes, Left, Active
    <3>3. QED
      BY <3>1, <3>2
  <2>2. QED
    BY <2>1, StepChanges DEF OneChange
<1>2. QED
  BY <1>1, Invariance, PTL DEF Spec, CompletedIsFinal

(* An attempt that failed, was cancelled or interrupted is not turned into a    *)
(* completed one.                                                               *)
THEOREM EndsAreHonest == ASSUME OneServer PROVE Spec => NoMasquerade
<1> DEFINE Honest == \A j \in Job :
      job[j].status \in Ended \ {"completed"} => job'[j].status # "completed"
<1>1. IInv /\ [Next]_vars => [Honest]_vars
  <2> SUFFICES ASSUME IInv, [Next]_vars, NEW k \in Job, job[k].status \in Ended \ {"completed"}
               PROVE  job'[k].status # "completed"
    OBVIOUS
  <2>1. ASSUME NEW j \in Job, NEW r \in Record, Save(j, r), Changes(j, r)
        PROVE  job'[k].status # "completed"
    <3>1. job'[k] = IF k = j THEN r ELSE job[k]
      BY <2>1, Untouched
    <3>2. k = j => r.status = "queued"
      BY <2>1 DEF Changes, Left, Active, Ended
    <3>3. QED
      BY <3>1, <3>2
  <2>2. QED
    BY <2>1, StepChanges DEF OneChange
<1>2. QED
  BY <1>1, Invariance, PTL DEF Spec, NoMasquerade

-------------------------------------------------------------------------------
(* An executor starts only by Enter, and Enter looks for the cancel.            *)
LEMMA OnlyEnterRuns ==
  ASSUME IInv, [Next]_vars, NEW q \in Proc, NEW t \in Slot,
         slot[q][t].pc # "run", slot'[q][t].pc = "run"
  PROVE  At(q, t, "enter") /\ MayEnter(q, t)
<1> USE DEF IInv
<1>1. ASSUME NEW p \in Proc, NEW b \in Seq(Job), Pump(p, b, slot[p], ctl[p])
      PROVE  FALSE
  <2>1. /\ slot[p] \in [Slot -> Execution] /\ ctl[p] \in [Job -> Slot \cup {0}]
        /\ slot \in [Proc -> [Slot -> Execution]] /\ queue \in [Proc -> Seq(Job)]
        /\ ctl \in [Proc -> [Job -> Slot \cup {0}]]
    BY DEF TypeOK
  <2>2. OnlyTakes(p, slot[p])
    BY <1>1, <2>1, Pumping
  <2>3. QED
    BY <2>2 DEF OnlyTakes
<1>2. ASSUME NEW p \in Proc, NEW j \in Job, Enqueue(p, j)
      PROVE  FALSE
  <2>1. Queued(queue[p], j) \in Seq(Job)
    BY QueueTypes DEF TypeOK
  <2>2. QED
    BY <1>1, <1>2, <2>1 DEF Enqueue
<1>3. ASSUME NEW p \in Proc, Startup(p)
      PROVE  FALSE
  <2>1. queue[p] \in Seq(Job)
    BY DEF TypeOK
  <2>2. QED
    BY <1>1, <1>3, <2>1 DEF Startup, Start, List, Ready, Settle, executing
<1>4. ASSUME NEW p \in Proc, Request(p) \/ EnqueueRetried(p)
      PROVE  FALSE
  <2>1. ASSUME NEW j \in Job, CancelActive(p, j)
        PROVE  FALSE
    <3>1. \A s \in Slot : Aborted(p, j)[s].pc = slot[p][s].pc
      BY DEF Aborted, TypeOK, Execution
    <3>2. slot' = [slot EXCEPT ![p] = Aborted(p, j)]
      BY <2>1 DEF CancelActive
    <3>3. QED
      BY <3>1, <3>2 DEF TypeOK
  <2>2. CASE EnqueueRetried(p)
    <3>1. PICK u \in retried[p] : Enqueue(p, u[1])
      BY <2>2 DEF EnqueueRetried
    <3>2. u[1] \in Job
      BY <3>1 DEF TypeOK
    <3>3. QED
      BY <1>2, <3>1, <3>2
  <2>3. QED
    BY <1>2, <1>4, <2>1, <2>2 DEF Request, Create, CancelQueued, Retry, executing
<1>5. ASSUME NEW p \in Proc, NEW s \in Slot, Work(p, s)
      PROVE  At(q, t, "enter") /\ MayEnter(q, t)
  <2>1. slot[p][s].job \in Job
    <3>1. slot[p][s] \in Execution
      BY DEF TypeOK
    <3>2. QED
      BY <1>5, <3>1, ExecutionTypes DEF Work, Claim, Enter, Executor, Finish, Catch, At
  <2>2. ~Done(p, s)
    <3>1. SUFFICES ASSUME Done(p, s) PROVE FALSE
      OBVIOUS
    <3>2. /\ \A r \in Proc : r # p => slot'[r] = slot[r]
          /\ slot'[p][s].pc \in {"none", "claim"}
          /\ \A u \in Slot : u # s => slot'[p][u] = slot[p][u] \/ (slot[p][u].pc = "none" /\ slot'[p][u].pc = "claim")
      BY <2>1, <3>1, DoneTypeOK
    <3>3. QED
      BY <3>2
  <2>3. ASSUME NEW e, e.pc # "run", Goto(p, s, e)
        PROVE  FALSE
    BY <2>3 DEF Goto, TypeOK
  <2>4. ASSUME NEW b, Throw(p, s, b)
        PROVE  FALSE
    <3> DEFINE e == [slot[p][s] EXCEPT !.pc = "catch", !.retryable = b]
    <3>1. e.pc = "catch" /\ Goto(p, s, e)
      BY <2>4 DEF Throw, TypeOK, Execution
    <3> HIDE DEF e
    <3>2. QED
      BY <2>3, <3>1
  <2>5. CASE Claim(p, s)
    <3> DEFINE e == [slot[p][s] EXCEPT !.pc = "enter", !.attempt = job[slot[p][s].job].attempt]
    <3>1. e.pc = "enter" /\ (Goto(p, s, e) \/ Done(p, s))
      BY <2>5 DEF Claim, TypeOK, Execution
    <3> HIDE DEF e
    <3>2. QED
      BY <2>2, <2>3, <3>1
  <2>6. CASE Enter(p, s)
    <3>1. At(p, s, "enter") /\ MayEnter(p, s) /\ Goto(p, s, [slot[p][s] EXCEPT !.pc = "run"])
      BY <2>4, <2>6 DEF Enter
    <3>2. q = p /\ t = s
      BY <3>1 DEF Goto, TypeOK
    <3>3. QED
      BY <3>1, <3>2
  <2>7. CASE Executor(p, s)
    <3> DEFINE e == [slot[p][s] EXCEPT !.pc = "finish"]
    <3>1. e.pc = "finish" /\ (Goto(p, s, e) \/ \E b \in BOOLEAN : Throw(p, s, b))
      BY <2>7 DEF Executor, TypeOK, Execution
    <3> HIDE DEF e
    <3>2. QED
      BY <2>3, <2>4, <3>1
  <2>8. QED
    BY <1>5, <2>2, <2>4, <2>5, <2>6, <2>7 DEF Work, Finish, Catch
<1>6. ASSUME Crash
      PROVE  FALSE
  <2>1. \A s \in Slot : Idle[s].pc = "none"
    BY DEF Idle, NoExecution
  <2>2. PICK P : Lose(P)
    BY <1>6 DEF Crash, CrashTree, CrashParent, CrashWorker
  <2>3. QED
    BY <2>1, <2>2 DEF Lose
<1>7. QED
  BY <1>3, <1>4, <1>5, <1>6 DEF Next, vars

(* A cancel that found the job preparing keeps its executor from starting.      *)
THEOREM CancelledNeverStarts == ASSUME OneServer PROVE Spec => NoLateExecutor
<1> DEFINE InTime == \A p \in Proc, s \in Slot :
      ~At(p, s, "run") /\ slot'[p][s].pc = "run" => <<slot[p][s].job, slot[p][s].attempt>> \notin asked
<1>1. IInv /\ [Next]_vars => [InTime]_vars
  <2> SUFFICES ASSUME IInv, [Next]_vars, NEW p \in Proc, NEW s \in Slot,
                      slot[p][s].pc # "run", slot'[p][s].pc = "run"
               PROVE  <<slot[p][s].job, slot[p][s].attempt>> \notin asked
    BY DEF At
  <2>1. At(p, s, "enter") /\ ~job[slot[p][s].job].cancel
    BY OnlyEnterRuns DEF MayEnter, CancelRequested
  <2>2. Claims(p, s)
    BY <2>1 DEF At, Claims
  <2>3. QED
    BY <2>1, <2>2, Claiming DEF IInv, Histories, Cancels
<1>2. QED
  BY <1>1, Invariance, PTL DEF Spec, NoLateExecutor

-------------------------------------------------------------------------------
PhaseOf(r) == IF r.status \in Active THEN "active" ELSE r.status

LEMMA AbstractSave ==
  ASSUME IInv, NEW j \in Job, NEW r \in Record, Save(j, r)
  PROVE  /\ [k \in Job |-> Phase(k)]' = [[k \in Job |-> Phase(k)] EXCEPT ![j] = PhaseOf(r)]
         /\ [k \in Job |-> job[k].attempt]' = [[k \in Job |-> job[k].attempt] EXCEPT ![j] = r.attempt]
BY DEF Save, IInv, TypeOK, Phase, PhaseOf

LEMMA ChangesLive ==
  ASSUME IInv, NEW j \in Job, NEW r \in Record, Save(j, r), Changes(j, r)
  PROVE  [Life!LifeNext]_(Life!lifeVars)
<1> DEFINE phase == [k \in Job |-> Phase(k)]
           attempt == [k \in Job |-> job[k].attempt]
<1>1. phase' = [phase EXCEPT ![j] = PhaseOf(r)] /\ attempt' = [attempt EXCEPT ![j] = r.attempt]
  BY AbstractSave
<1>2. phase[j] = PhaseOf(job[j]) /\ attempt[j] = job[j].attempt
  BY DEF Phase, PhaseOf
<1>3. r.attempt = job[j].attempt => attempt' = attempt
  BY <1>1, <1>2
<1>4. PhaseOf(r) = PhaseOf(job[j]) => phase' = phase
  BY <1>1, <1>2
<1>5. CASE job[j].status = "absent" /\ r.status = "queued" /\ r.attempt = 1
  <2>1. Life!Submit(j)
    BY <1>1, <1>2, <1>5 DEF Life!Submit, Life!Moves, PhaseOf, Active
  <2>2. QED
    BY <2>1 DEF Life!LifeNext
<1>6. CASE job[j].status = "queued" /\ r.status \in Active \cup {"cancelled"} /\ r.attempt = job[j].attempt
  <2>1. Life!Begin(j) \/ Life!Withdraw(j)
    BY <1>1, <1>2, <1>3, <1>6 DEF Life!Begin, Life!Withdraw, Life!Moves, PhaseOf, Active
  <2>2. QED
    BY <2>1 DEF Life!LifeNext
<1>7. CASE job[j].status \in Active /\ r.status \in {"completed", "failed", "cancelled", "interrupted"}
           /\ r.attempt = job[j].attempt
  <2>1. PhaseOf(job[j]) = "active" /\ PhaseOf(r) \in Life!Ends
    BY <1>7 DEF PhaseOf, Active, Life!Ends
  <2>2. Life!End(j)
    BY <1>1, <1>2, <1>3, <1>7, <2>1 DEF Life!End, Life!Moves
  <2>3. QED
    BY <2>2 DEF Life!LifeNext
<1>8. CASE job[j].status \in Active /\ r.status \in Active /\ r.attempt = job[j].attempt
  <2>1. PhaseOf(r) = PhaseOf(job[j])
    BY <1>8 DEF PhaseOf
  <2>2. QED
    BY <1>3, <1>4, <1>8, <2>1 DEF Life!lifeVars
<1>9. CASE job[j].status \in Ended \ {"completed"} /\ r.status = "queued" /\ r.attempt = job[j].attempt + 1
  <2>1. PhaseOf(job[j]) \in Life!Retryable /\ PhaseOf(r) = "queued"
    BY <1>9 DEF PhaseOf, Active, Ended, Life!Retryable, Life!Ends
  <2>2. Life!Resubmit(j)
    BY <1>1, <1>2, <1>9, <2>1 DEF Life!Resubmit, Life!Moves
  <2>3. QED
    BY <2>2 DEF Life!LifeNext
<1>10. QED
  BY <1>5, <1>6, <1>7, <1>8, <1>9 DEF Changes, Left

(* The records on disk, whatever queues, executions and restarts are behind     *)
(* them, are jobs of JobLifecycle.                                              *)
THEOREM Refinement == ASSUME OneServer PROVE Spec => ImplementsLifecycle
<1>1. Init => Life!LifeInit
  BY DEF Init, Absent, Life!LifeInit, Phase, Active
<1>2. IInv /\ [Next]_vars => [Life!LifeNext]_(Life!lifeVars)
  <2> SUFFICES ASSUME IInv, [Next]_vars PROVE [Life!LifeNext]_(Life!lifeVars)
    OBVIOUS
  <2>1. CASE UNCHANGED job
    BY <2>1 DEF Life!lifeVars, Phase
  <2>2. QED
    BY <2>1, StepChanges, ChangesLive DEF OneChange
<1>3. QED
  BY <1>1, <1>2, Invariance, PTL DEF Spec, ImplementsLifecycle, Life!LifeSpec
===============================================================================
